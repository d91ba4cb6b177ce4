--------------------------- MODULE SplitAssignment ---------------------------
(***************************************************************************)
(* How a source of records becomes a three-way partition                   *)
(* (split_materialize.py): the reader that turns lines into members, the   *)
(* union-find that joins members sharing a lineage, a declared group or    *)
(* exact content, the anchor that names a component, the bucket that owns  *)
(* it, and the audit that looks for values on both sides of a split.       *)
(*                                                                         *)
(* A line is the record [id, lineage, group, text, canonical, form]:       *)
(*   id        the canonical id; ids are numbers because they are sorted;  *)
(*   lineage   a number, or Absent when the field is missing;              *)
(*   group     a number, or Absent;                                        *)
(*   text      the pre-rendered training text;                             *)
(*   canonical whether the raw bytes are already the canonical encoding;   *)
(*   form      "text"; "blank" for a line of white space; "torn" for one   *)
(*             the strict decoder refuses; "padded" when an identity field *)
(*             is no clean string; "messages" for a representation that    *)
(*             depends on a downstream template.                           *)
(* A digest is the value it digests.                                       *)
(***************************************************************************)
EXTENDS Integers, Sequences, FiniteSets, SequencesExt

CONSTANT Absent              \* a missing optional field; no number

Splits == {"train", "validation", "held_out"}
SplitOrder == <<"train", "validation", "held_out">>

-----------------------------------------------------------------------------
(* Reading a source *)

\* A row as the artifact holds it: re-encoded canonically.
Canonical(row) == [row EXCEPT !.canonical = TRUE]

\* UTF-8, JSON without duplicate keys or constants, and an object.
Decodes(row) == row.form # "torn"

\* Required and optional identity fields are strings without padding (numbers
\* here, see above); the lineage may have to be declared.
HasIdentity(row, requireLineage) ==
    /\ row.id \in Int /\ row.form # "padded"
    /\ requireLineage => row.lineage # Absent

\* The row's only representation is pre-rendered text.
HasTrainingText(row) == row.form # "messages"

\* The lineage of a row: declared, or its id.
LineageOf(row) == IF row.lineage = Absent THEN row.id ELSE row.lineage

\* The payload whose equality is "exact content": the normalized text alone.
ContentOf(row) == row.text

\* The member of the row at a physical line number.
MemberOf(row, number) ==
    [id |-> row.id, lineage |-> LineageOf(row), group |-> row.group,
     coordinate |-> number, content |-> ContentOf(row),
     raw |-> row, line |-> Canonical(row)]

\* The elements of a finite set in the order of their keys, which are numbers
\* and distinct: each has the place the number of smaller keys gives it.
InOrder(S, key) ==
    LET place(x) == 1 + Cardinality({y \in S : key[y] < key[x]})
    IN  [p \in 1..Cardinality(S) |-> CHOOSE x \in S : place(x) = p]

\* The physical numbers of the lines that hold a record, in order: blank lines
\* are skipped but counted.
RecordLines(lines) ==
    LET held == {n \in 1..Len(lines) : lines[n].form # "blank"}
    IN  InOrder(held, [n \in held |-> n])

\* No earlier line has the canonical id of line n.
IsFirstWithId(lines, n) ==
    \A earlier \in ToSet(RecordLines(lines)) :
        earlier < n => lines[earlier].id # lines[n].id

\* Whether iter_source_records exhausts the source without raising.
Readable(lines, requireLineage) ==
    /\ RecordLines(lines) # <<>>
    /\ \A n \in ToSet(RecordLines(lines)) :
          /\ Decodes(lines[n])
          /\ HasIdentity(lines[n], requireLineage)
          /\ HasTrainingText(lines[n])
          /\ IsFirstWithId(lines, n)

\* The members of a readable source, in source order.
MembersOf(lines) ==
    LET numbers == RecordLines(lines)
    IN  [k \in 1..Len(numbers) |-> MemberOf(lines[numbers[k]], numbers[k])]

-----------------------------------------------------------------------------
(* Atomic components *)

\* The keys a member is joined by, in the order they are tried.
ComponentKeys(m) ==
    <<<<"lineage", m.lineage>>, <<"content", m.content>>>>
        \o (IF m.group = Absent THEN <<>> ELSE <<<<"group", m.group>>>>)

\* _UnionFind.find: walk to the root, halving the path on the way.
Found(parents, item) ==
    LET Items == DOMAIN parents
        walk[at \in [parents : [Items -> Items], root : Items]] ==
            LET p == at.parents
                i == at.root
            IN  IF p[i] = i THEN at
                ELSE walk[[parents |-> [p EXCEPT ![i] = p[p[i]]], root |-> p[p[i]]]]
    IN  walk[[parents |-> parents, root |-> item]]

\* _UnionFind.union: the right root moves under the left one.
Joined(parents, left, right) ==
    LET l == Found(parents, left)
        r == Found(l.parents, right)
    IN  IF l.root = r.root THEN r.parents
        ELSE [r.parents EXCEPT ![r.root] = l.root]

\* One key of the record at an index: join it with the first record seen with
\* the key, or be that record. `seen` is a set of pairs <<key, index>>.
Observed(forest, index, key) ==
    LET earlier == {pair \in forest.seen : pair[1] = key}
    IN  IF earlier = {} THEN [forest EXCEPT !.seen = @ \cup {<<key, index>>}]
        ELSE LET first == CHOOSE pair \in earlier : TRUE
             IN  [forest EXCEPT !.parents = Joined(@, index, first[2])]

\* The whole loop of _atomic_components over members.
Forest(members) ==
    LET keyed == FlattenSeq([k \in 1..Len(members) |->
                    LET keys == ComponentKeys(members[k])
                    IN  [j \in 1..Len(keys) |-> <<k, keys[j]>>]])
        start == [parents |-> [k \in 1..Len(members) |-> k], seen |-> {}]
    IN  FoldLeft(LAMBDA forest, step : Observed(forest, step[1], step[2]),
                 start, keyed)

\* Indexes grouped by their root.
AtomicComponents(members) ==
    LET parents == Forest(members).parents
        rootOf(k) == Found(parents, k).root
    IN  {{k \in 1..Len(members) : rootOf(k) = root} :
            root \in {rootOf(k) : k \in 1..Len(members)}}

-----------------------------------------------------------------------------
(* Ownership *)

Least(S) == CHOOSE x \in S : \A y \in S : x <= y

\* Mutation: the anchor is the lineage of the component's first record.
AnchorOfFirst(members, component) == <<"lineage", members[Least(component)].lineage>>

\* The name a component is hashed under: its least declared group, else its
\* least lineage.
ComponentAnchor(members, component) ==
    LET groups == {members[k].group : k \in component} \ {Absent}
    IN  IF groups # {} THEN <<"group", Least(groups)>>
        ELSE <<"lineage", Least({members[k].lineage : k \in component})>>

\* Indexes of members in the order of their canonical ids.
SortedById(members, indexes) == InOrder(indexes, [k \in indexes |-> members[k].id])

\* Mutation: a split keeps the last component given to it instead of all.
AssignsOneComponent(members, bucket) ==
    LET of(split) == {c \in AtomicComponents(members) :
                        bucket[ComponentAnchor(members, c)] = split}
    IN  [split \in Splits |->
            IF of(split) = {} THEN <<>>
            ELSE SortedById(members, CHOOSE c \in of(split) : TRUE)]

\* The indexes of each split, sorted by canonical id; `bucket` is the split the
\* salted hash gives an anchor.
AssignRecords(members, bucket) ==
    LET components == AtomicComponents(members)
        owned(split) == UNION {c \in components :
                                bucket[ComponentAnchor(members, c)] = split}
    IN  [split \in Splits |-> SortedById(members, owned(split))]

\* Assignment raises when it leaves a split empty.
Assignable(members, bucket) ==
    LET assigned == AssignRecords(members, bucket)
    IN  \A split \in Splits : assigned[split] # <<>>

\* The members of each split, as the manifest lists them.
OwnedMembers(members, bucket) ==
    LET assigned == AssignRecords(members, bucket)
    IN  [split \in Splits |->
            [k \in DOMAIN assigned[split] |-> members[assigned[split][k]]]]

-----------------------------------------------------------------------------
(* The leakage audit *)

AuditedValues(m) ==
    {<<"content", m.content>>, <<"canonical", m.id>>,
     <<"coordinate", m.coordinate>>, <<"lineage", m.lineage>>}
        \cup (IF m.group = Absent THEN {} ELSE {<<"group", m.group>>})

SplitValues(owned, split) == UNION {AuditedValues(m) : m \in ToSet(owned[split])}

\* LeakageAuditBuilder.result: no audited value has two owners.
AuditPasses(owned) ==
    \A s, t \in Splits :
        s # t => SplitValues(owned, s) \cap SplitValues(owned, t) = {}

-----------------------------------------------------------------------------
(* Reference definition: the connected components of "shares a key". *)

Shares(a, b) ==
    \/ a.lineage = b.lineage
    \/ a.content = b.content
    \/ a.group # Absent /\ a.group = b.group

ConnectedComponents(members) ==
    LET Items == 1..Len(members)
        near(S) == {k \in Items : \E s \in S : Shares(members[k], members[s])}
        reach(k) == FoldLeft(LAMBDA S, member : near(S), {k}, members)
    IN  {reach(k) : k \in Items}
=============================================================================
