---------------------------- MODULE SplitSnapshot ----------------------------
(***************************************************************************)
(* Frozen split snapshots: concurrent materializations of one source into  *)
(* one destination (split_materialize.py, _source_snapshot.py,             *)
(* _atomic_directory.py), and a reader of the published snapshot           *)
(* (split_validation.py, split_loaders.py, split_token_stats.py): a        *)
(* validation with or without the source, the training loader, or the      *)
(* writer of a token-statistics sidecar.  Editors change the source at any *)
(* moment, and the snapshot once it is published.                          *)
(*                                                                         *)
(* Files are read in two chunks.  A loud edit changes a file's stat        *)
(* identity; a silent one rewrites bytes in place under an unchanged       *)
(* identity, which _source_snapshot.py expects of overlay file systems.    *)
(***************************************************************************)
EXTENDS SplitAssignment

CONSTANTS
    Makers,          \* processes materializing into the one destination
    Scenarios,       \* what a world starts with; see ScenariosAreTyped
    Anchors,         \* every name a component of a scenario can have
    Tokenizers,      \* [commits, revisions, behaviour]: states the tokenizer can be in
    Length(_, _),    \* tokens of a text under a tokenizer's behaviour
    Immutable,       \* the revisions that name one commit, not a branch
    None,            \* no value yet
    MaxSourceEdits,  \* bound: edits of the source in a behaviour
    MaxTampers       \* bound: edits of the published snapshot, tokenizer changes

VARIABLES
    scenario,   \* this behaviour's scenario; it never changes
    source,     \* [lines, stamp, edits]: the live source file, its identity, its edits
    versions,   \* every content the source has had
    dest,       \* Free, or the published [manifest, files]
    makers,     \* [Makers -> their local state]
    reader,     \* the reader's local state
    tokenizer,  \* the state of the tokenizer implementation
    sidecar,    \* None, or the published token statistics
    tampers     \* how often the snapshot or the tokenizer has been changed

vars == <<scenario, source, versions, dest, makers, reader, tokenizer, sidecar, tampers>>

\* What a file holds: a list of lines.
IsFile(lines) == lines \in Seq(Range(lines))

\* A row of a source, see SplitAssignment.  The names a record can give its
\* component have a hash.
IsRow(row) ==
    /\ row = [id |-> row.id, lineage |-> row.lineage, group |-> row.group, text |-> row.text,
              canonical |-> row.canonical, form |-> row.form]
    /\ row.canonical \in BOOLEAN
    /\ row.form # "blank" =>
          /\ LineageOf(row) \in Int /\ <<"lineage", LineageOf(row)>> \in Anchors
          /\ row.group # Absent => row.group \in Int /\ <<"group", row.group>> \in Anchors

\* A scenario: the first source, what editors may write over it, the salted
\* hash, the tokenizer, whether the snapshot may be tampered with, whether the
\* file system renames without replacing, and whether readers can stage copies.
ASSUME ScenariosAreTyped ==
    \A s \in Scenarios :
        /\ \A lines \in {s.source} \cup s.edits :
              IsFile(lines) /\ \A row \in Range(lines) : IsRow(row)
        /\ s.bucket \in [Anchors -> Splits]
        /\ s.tampering \in BOOLEAN
        /\ s.tokenizer \in Tokenizers
        /\ s.renames \in BOOLEAN /\ s.writable \in BOOLEAN

\* A text has a number of tokens.
ASSUME LengthsAreNumbers ==
    \A s \in Scenarios : \A row \in Range(s.source), t \in Tokenizers :
        Length(t.behaviour, row.text) \in Nat

\* The destination when nobody has made it.
Free == [kind |-> "free"]

-----------------------------------------------------------------------------
(* Digest-checked copies (_source_snapshot.py) *)

FirstChunk(lines) == SubSeq(lines, 1, Len(lines) \div 2)
LastChunk(lines) == SubSeq(lines, Len(lines) \div 2 + 1, Len(lines))

NoCopy == [step |-> "open", stamp |-> 0, bytes |-> <<>>, live |-> <<>>]

\* Mutation: the live source is not hashed again after the copy.
TrustsIdentity(copy) ==
    CASE copy.step = "open" ->
            [copy EXCEPT !.step = "rest", !.stamp = source.stamp,
                         !.bytes = FirstChunk(source.lines)]
      [] copy.step = "rest" ->
            [copy EXCEPT !.step = "identity", !.bytes = @ \o LastChunk(source.lines)]
      [] copy.step = "identity" ->
            [copy EXCEPT !.step = IF copy.stamp = source.stamp THEN "copied" ELSE "changed"]

\* One step of copy_source_snapshot against the live source: open, take the
\* identity and read the first chunk; read the last; compare the identities of
\* the descriptor before and after and of the path; re-hash the live path.
CopyStep(copy) ==
    CASE copy.step = "open" ->
            [copy EXCEPT !.step = "rest", !.stamp = source.stamp,
                         !.bytes = FirstChunk(source.lines)]
      [] copy.step = "rest" ->
            [copy EXCEPT !.step = "identity", !.bytes = @ \o LastChunk(source.lines)]
      [] copy.step = "identity" ->
            [copy EXCEPT !.step = IF copy.stamp = source.stamp THEN "rehash" ELSE "changed"]
      [] copy.step = "rehash" ->
            [copy EXCEPT !.step = "rehash_rest", !.live = FirstChunk(source.lines)]
      [] copy.step = "rehash_rest" ->
            [copy EXCEPT !.live = @ \o LastChunk(source.lines),
                         !.step = IF copy.bytes = copy.live \o LastChunk(source.lines)
                                  THEN "copied" ELSE "changed"]

-----------------------------------------------------------------------------
(* Materialization *)

\* The rows of an artifact, in the order of its members.
ArtifactRows(owned) == [k \in DOMAIN owned |-> owned[k].line]

ManifestOf(lines, owned) ==
    [source |-> lines, count |-> Len(RecordLines(lines)), splits |-> owned,
     digests |-> [split \in Splits |-> ArtifactRows(owned[split])]]

\* What materialize_split stages for a source: manifest and artifacts.
Materialized(lines, bucket) ==
    LET owned == OwnedMembers(MembersOf(lines), bucket)
        manifest == ManifestOf(lines, owned)
    IN  [manifest |-> manifest,
         files |-> [split \in Splits |->
                       [rows |-> manifest.digests[split], stamp |-> 0]]]

\* Whether materialize_split gets through reading, assigning and auditing.
Materializable(lines, bucket) ==
    /\ Readable(lines, TRUE)
    /\ LET members == MembersOf(lines)
       IN  Assignable(members, bucket) /\ AuditPasses(OwnedMembers(members, bucket))

NewMaker == [pc |-> "start", copy |-> NoCopy, staged |-> None]

Ended(p) == makers[p].pc \in {"published", "refused"}

\* require_rename_noreplace_support: probed beside the destination.
RenameSupported == scenario.renames

\* The destination must not exist, and the file system must be able to rename
\* without replacing; nothing is staged before both are known.
Start(p) ==
    /\ makers[p].pc = "start"
    /\ makers' = [makers EXCEPT ![p].pc = IF dest = Free /\ RenameSupported THEN "copy" ELSE "refused"]
    /\ UNCHANGED <<scenario, source, versions, dest, reader, tokenizer, sidecar, tampers>>

Copy(p) ==
    /\ makers[p].pc = "copy"
    /\ LET copy == CopyStep(makers[p].copy)
       IN  makers' = [makers EXCEPT
                ![p].copy = copy,
                ![p].pc = CASE copy.step = "copied" -> "stage"
                            [] copy.step = "changed" -> "refused"
                            [] OTHER -> "copy"]
    /\ UNCHANGED <<scenario, source, versions, dest, reader, tokenizer, sidecar, tampers>>

\* Parse the private copy, assign, and write artifacts and metadata into the
\* staging directory.
Stage(p) ==
    /\ makers[p].pc = "stage"
    /\ LET lines == makers[p].copy.bytes
       IN  makers' = [makers EXCEPT ![p] =
              IF Materializable(lines, scenario.bucket)
              THEN [@ EXCEPT !.pc = "publish", !.staged = Materialized(lines, scenario.bucket)]
              ELSE [@ EXCEPT !.pc = "refused"]]
    /\ UNCHANGED <<scenario, source, versions, dest, reader, tokenizer, sidecar, tampers>>

\* rename_noreplace: the whole directory appears, or nothing changes.
Publish(p) ==
    /\ makers[p].pc = "publish"
    /\ IF dest = Free
       THEN /\ dest' = makers[p].staged
            /\ makers' = [makers EXCEPT ![p].pc = "published"]
       ELSE /\ makers' = [makers EXCEPT ![p].pc = "refused"]
            /\ UNCHANGED dest
    /\ UNCHANGED <<scenario, source, versions, reader, tokenizer, sidecar, tampers>>

\* An I/O error, an unsupported file system or a kill: all that was written is
\* in the staging directory.
Fail(p) ==
    /\ ~Ended(p)
    /\ makers' = [makers EXCEPT ![p].pc = "refused"]
    /\ UNCHANGED <<scenario, source, versions, dest, reader, tokenizer, sidecar, tampers>>

-----------------------------------------------------------------------------
(* Validation of a manifest *)

Rejects == [reader EXCEPT !.pc = "rejected"]

ManifestMembers(manifest) == UNION {ToSet(manifest.splits[split]) : split \in Splits}

\* The members in split order: what ownership is recomputed from when there is
\* no source.
InSplitOrder(manifest) == FlattenSeq([k \in 1..3 |-> manifest.splits[SplitOrder[k]]])

\* SplitManifest.validate_membership and the field constraints.
SchemaHolds(manifest) ==
    LET members == InSplitOrder(manifest)
    IN  /\ manifest.splits \in [Splits -> Seq(ManifestMembers(manifest)) \ {<<>>}]
        /\ Len(members) = manifest.count
        /\ \A j, k \in 1..Len(members) : j # k =>
              /\ members[j].id # members[k].id
              /\ members[j].coordinate # members[k].coordinate

IdsOf(owned) == [split \in Splits |-> [k \in DOMAIN owned[split] |-> owned[split][k].id]]

\* _require_expected_ownership: assign the members again and compare.
OwnershipHolds(manifest, members) ==
    /\ Assignable(members, scenario.bucket)
    /\ IdsOf(OwnedMembers(members, scenario.bucket)) = IdsOf(manifest.splits)

\* Mutation: ownership is compared with the source, the members are not.
ChecksOwnershipOnly(manifest, lines) ==
    /\ lines = manifest.source
    /\ Readable(lines, FALSE)
    /\ OwnershipHolds(manifest, MembersOf(lines))

\* _validate_source, on a copied source.
SourceMatches(manifest, lines) ==
    /\ lines = manifest.source
    /\ Readable(lines, FALSE)
    /\ OwnershipHolds(manifest, MembersOf(lines))
    /\ ToSet(MembersOf(lines)) = ManifestMembers(manifest)

\* The fields both an artifact's row and its recorded member determine.
IdentityOf(m) == [f \in {"id", "lineage", "group", "content", "line"} |-> m[f]]

\* _artifact_member_matches: raw bytes are compared only when no source is.
MemberMatches(actual, expected, manifest, withSource) ==
    /\ IdentityOf(actual) = IdentityOf(expected)
    /\ expected.coordinate \in 1..manifest.count
    /\ withSource \/ expected.raw = actual.raw

\* _validate_artifact, on a digest-checked copy.
ArtifactMatches(manifest, split, rows, withSource) ==
    LET expected == manifest.splits[split]
    IN  /\ Readable(rows, FALSE)
        /\ DOMAIN MembersOf(rows) = DOMAIN expected
        /\ \A k \in DOMAIN expected :
              MemberMatches(MembersOf(rows)[k], expected[k], manifest, withSource)

-----------------------------------------------------------------------------
(* The provenance of the bound tokenizer (_token_provenance.py).  Its fields  *)
(* `commits` and `revisions` are the sets of values present in the attributes *)
(* a resolved commit, or a requested revision, may be recorded in.            *)

RevisionsFound(t) == IF t.commits # {} THEN t.commits ELSE t.revisions

\* derive_tokenizer_provenance raises unless one immutable revision is found.
Derivable(t) ==
    \E revision \in RevisionsFound(t) :
        RevisionsFound(t) = {revision} /\ revision \in Immutable

\* The revision and the fingerprint of implementation and state.
Provenance(t) ==
    [revision |-> CHOOSE revision \in RevisionsFound(t) : TRUE, sha |-> t.behaviour]

-----------------------------------------------------------------------------
(* The reader *)

\* Private copies need a writable directory, beside the input or configured.
StagingWritable == scenario.writable

NewReader ==
    [pc |-> "idle", kind |-> None, phase |-> None, manifest |-> None, bound |-> None,
     copy |-> NoCopy, todo |-> <<>>, stamp |-> 0, rows |-> <<>>, out |-> None,
     spec |-> None, counts |-> <<>>]

\* The artifacts a phase visits, in the order of the manifest: all of them to
\* validate or to count, the selected one (train) to load.
Visits(phase) == IF phase = "load" THEN <<"train">> ELSE SplitOrder

\* Enter a phase on a manifest just read: its schema is checked first.
Enter(r, phase, manifest) ==
    [r EXCEPT !.phase = phase, !.manifest = manifest, !.todo = Visits(phase),
              !.pc = IF ~SchemaHolds(manifest) THEN "rejected"
                     ELSE IF r.kind = "source" THEN "source" ELSE "visit"]

\* Read the manifest: validate_split_manifest with or without a source,
\* bind_frozen_split for the loader, or write_token_statistics, which derives
\* the tokenizer's provenance before any file is read.
Begin(kind) ==
    /\ reader.pc = "idle"
    /\ dest # Free
    /\ reader' =
         IF kind = "stats" /\ ~Derivable(tokenizer) THEN [Rejects EXCEPT !.kind = kind]
         ELSE Enter([reader EXCEPT !.kind = kind,
                        !.spec = IF kind = "stats" THEN Provenance(tokenizer) ELSE None],
                    "validate", dest.manifest)
    /\ UNCHANGED <<scenario, source, versions, dest, makers, tokenizer, sidecar, tampers>>

CopySource ==
    /\ reader.pc = "source"
    /\ LET copy == CopyStep(reader.copy)
       IN  reader' = CASE copy.step = "changed" \/ ~StagingWritable -> Rejects
                       [] copy.step = "copied" ->
                            IF SourceMatches(reader.manifest, copy.bytes)
                            THEN [reader EXCEPT !.copy = copy, !.pc = "visit"] ELSE Rejects
                       [] OTHER -> [reader EXCEPT !.copy = copy]
    /\ UNCHANGED <<scenario, source, versions, dest, makers, tokenizer, sidecar, tampers>>

Live == dest.files[Head(reader.todo)]

\* verified_split_snapshot: open without following links, remember the identity
\* and copy the first chunk.
Open ==
    /\ reader.pc = "visit" /\ reader.todo # <<>>
    /\ reader' = IF StagingWritable
                 THEN [reader EXCEPT !.pc = "rest", !.stamp = Live.stamp,
                                     !.rows = FirstChunk(Live.rows)]
                 ELSE Rejects
    /\ UNCHANGED <<scenario, source, versions, dest, makers, tokenizer, sidecar, tampers>>

CopyRest ==
    /\ reader.pc = "rest"
    /\ reader' = [reader EXCEPT !.pc = "verify", !.rows = @ \o LastChunk(Live.rows)]
    /\ UNCHANGED <<scenario, source, versions, dest, makers, tokenizer, sidecar, tampers>>

\* The lengths _TokenCounter adds up over the rows of one split.
CountsOf(rows, behaviour) ==
    LET lengths == [k \in DOMAIN rows |-> Length(behaviour, rows[k].text)]
    IN  [records |-> Len(rows), total |-> FoldLeft(LAMBDA a, b : a + b, 0, lengths),
         least |-> Min(ToSet(lengths)), most |-> Max(ToSet(lengths))]

\* TokenStatSplit.validate_bounds, a check of the counter's own arithmetic.
BoundsHold(c) ==
    /\ c.records >= 1 /\ c.least <= c.most
    /\ c.total \in (c.most + c.least * (c.records - 1))..(c.least + c.most * (c.records - 1))

\* The rows _iter_snapshot_records yields: blank lines are skipped.
RecordsOf(rows) == [k \in 1..Len(RecordLines(rows)) |-> rows[RecordLines(rows)[k]]]

\* Identity and digest hold: the private copy is used.  A validation compares
\* its rows with the members, the loader hands them out, the counter counts.
Use ==
    /\ reader.pc = "verify"
    /\ LET split == Head(reader.todo)
           trusted == /\ reader.stamp = Live.stamp
                      /\ reader.rows = reader.manifest.digests[split]
           used == [reader EXCEPT !.pc = "release"]
       IN  reader' =
             IF ~trusted THEN Rejects
             ELSE CASE reader.phase = "validate" ->
                         IF ArtifactMatches(reader.manifest, split, reader.rows,
                                            reader.kind = "source")
                         THEN used ELSE Rejects
                    [] reader.phase = "load" -> [used EXCEPT !.out = RecordsOf(reader.rows)]
                    [] reader.phase = "count" ->
                         LET counts == CountsOf(RecordsOf(reader.rows), tokenizer.behaviour)
                         IN  IF BoundsHold(counts)
                             THEN [used EXCEPT !.counts = Append(@, counts)] ELSE Rejects
    /\ UNCHANGED <<scenario, source, versions, dest, makers, tokenizer, sidecar, tampers>>

\* The identity must still hold once the copy has been used.
Release ==
    /\ reader.pc = "release"
    /\ reader' = IF reader.stamp = Live.stamp
                 THEN [reader EXCEPT !.pc = "visit", !.todo = Tail(@)]
                 ELSE Rejects
    /\ UNCHANGED <<scenario, source, versions, dest, makers, tokenizer, sidecar, tampers>>

\* Every artifact visited: the audit and the ownership conclude a validation.
Conclude ==
    /\ reader.pc = "visit" /\ reader.todo = <<>>
    /\ reader.phase = "validate"
    /\ reader' =
         IF ~ (/\ AuditPasses(reader.manifest.splits)
               /\ OwnershipHolds(reader.manifest, InSplitOrder(reader.manifest)))
         THEN Rejects
         ELSE CASE reader.kind \in {"source", "bare"} -> [reader EXCEPT !.pc = "accepted"]
                [] reader.kind = "load" ->
                     IF reader.bound = None
                     THEN [reader EXCEPT !.pc = "generate", !.bound = reader.manifest]
                     ELSE Enter(reader, "load", reader.manifest)
                [] reader.kind = "stats" -> Enter(reader, "count", reader.manifest)
    /\ UNCHANGED <<scenario, source, versions, dest, makers, tokenizer, sidecar, tampers>>

\* Mutation: the generator validates whatever manifest it finds.
GeneratesFromAny ==
    /\ reader.pc = "generate"
    /\ reader' = Enter(reader, "validate", dest.manifest)
    /\ UNCHANGED <<scenario, source, versions, dest, makers, tokenizer, sidecar, tampers>>

\* The dataset generator, which may run much later: read the manifest again,
\* require the bound digest, and validate again before the rows are read.
Generate ==
    /\ reader.pc = "generate"
    /\ reader' = IF dest.manifest = reader.bound
                 THEN Enter(reader, "validate", dest.manifest)
                 ELSE Rejects
    /\ UNCHANGED <<scenario, source, versions, dest, makers, tokenizer, sidecar, tampers>>

\* The loader has handed out its rows.
Exhaust ==
    /\ reader.pc = "visit" /\ reader.todo = <<>> /\ reader.phase = "load"
    /\ reader' = [reader EXCEPT !.pc = "accepted"]
    /\ UNCHANGED <<scenario, source, versions, dest, makers, tokenizer, sidecar, tampers>>

\* Mutation: the provenance is not derived again after counting.
TrustsFirstDerivation ==
    /\ reader.pc = "visit" /\ reader.todo = <<>> /\ reader.phase = "count"
    /\ reader' = [reader EXCEPT !.pc = "accepted"]
    /\ sidecar' = [manifest |-> reader.manifest, provenance |-> reader.spec,
                   counts |-> [k \in 1..3 |-> reader.counts[k]]]
    /\ UNCHANGED <<scenario, source, versions, dest, makers, tokenizer, tampers>>

\* The counts are in: derive the provenance again, and publish the sidecar.
WriteSidecar ==
    /\ reader.pc = "visit" /\ reader.todo = <<>> /\ reader.phase = "count"
    /\ IF Derivable(tokenizer) /\ Provenance(tokenizer) = reader.spec
       THEN /\ reader' = [reader EXCEPT !.pc = "accepted"]
            /\ sidecar' = [manifest |-> reader.manifest, provenance |-> reader.spec,
                           counts |-> [k \in 1..3 |-> reader.counts[k]]]
       ELSE /\ reader' = Rejects
            /\ UNCHANGED sidecar
    /\ UNCHANGED <<scenario, source, versions, dest, makers, tokenizer, tampers>>

-----------------------------------------------------------------------------
(* Editors *)

\* The size is part of the identity: a silent edit keeps it.
EditSource(loud) ==
    /\ source.edits < MaxSourceEdits
    /\ \E lines \in scenario.edits \ {source.lines} :
          /\ loud \/ Len(lines) = Len(source.lines)
          /\ source' = [lines |-> lines, edits |-> source.edits + 1,
                        stamp |-> IF loud THEN source.stamp + 1 ELSE source.stamp]
          /\ versions' = versions \cup {lines}
    /\ UNCHANGED <<scenario, dest, makers, reader, tokenizer, sidecar, tampers>>

\* A row with other text.
Reworded(row) == [row EXCEPT !.text = "reworded"]

RewordedMember(m) ==
    [m EXCEPT !.content = "reworded", !.line = Reworded(@), !.raw = Reworded(@)]

\* One artifact is rewritten, loudly or silently.
EditArtifact(split, loud) ==
    [dest EXCEPT !.files[split] =
        [rows |-> [@.rows EXCEPT ![1] = Reworded(@)],
         stamp |-> IF loud THEN @.stamp + 1 ELSE @.stamp]]

\* The manifest is rewritten to match the artifacts an editor wrote with it.
WithSplits(splits) ==
    LET manifest == [dest.manifest EXCEPT
            !.splits = splits,
            !.digests = [split \in Splits |-> ArtifactRows(splits[split])]]
    IN  [manifest |-> manifest,
         files |-> [split \in Splits |->
            [rows |-> manifest.digests[split], stamp |-> dest.files[split].stamp + 1]]]

\* A member's text is forged everywhere but in the pinned source digest.
ForgeText(split) ==
    WithSplits([dest.manifest.splits EXCEPT ![split][1] = RewordedMember(@)])

\* A member moves to another split, in manifest and artifacts alike.
MoveMember(from, to) ==
    WithSplits([dest.manifest.splits EXCEPT
        ![from] = Tail(@), ![to] = Append(@, Head(dest.manifest.splits[from]))])

\* A member's lineage is changed in the manifest alone.
Relabel(split) ==
    [dest EXCEPT !.manifest.splits[split][1].lineage = @ + 1]

\* An artifact is re-encoded, and the manifest's digest with it.
Reencode(split) ==
    LET rows == [dest.files[split].rows EXCEPT ![1].canonical = FALSE]
    IN  [manifest |-> [dest.manifest EXCEPT !.digests[split] = rows],
         files |-> [dest.files EXCEPT ![split] = [rows |-> rows, stamp |-> @.stamp + 1]]]

\* A blank line is put before the rows of an artifact, and into its digest.
BlankLine == [id |-> 0, lineage |-> Absent, group |-> Absent, text |-> "", canonical |-> TRUE,
              form |-> "blank"]

Space(split) ==
    LET rows == <<BlankLine>> \o dest.files[split].rows
    IN  [manifest |-> [dest.manifest EXCEPT !.digests[split] = rows],
         files |-> [dest.files EXCEPT ![split] = [rows |-> rows, stamp |-> @.stamp + 1]]]

Tamper ==
    /\ dest # Free /\ scenario.tampering /\ tampers < MaxTampers
    /\ \E split \in Splits :
          /\ dest.manifest.splits[split] # <<>> /\ dest.files[split].rows # <<>>
          /\ dest' \in {EditArtifact(split, TRUE), EditArtifact(split, FALSE),
                        ForgeText(split), Relabel(split), Reencode(split), Space(split)}
                        \cup {MoveMember(split, to) : to \in Splits \ {split}}
    /\ tampers' = tampers + 1
    /\ UNCHANGED <<scenario, source, versions, makers, reader, tokenizer, sidecar>>

\* The tokenizer implementation changes under a running count.
MutateTokenizer ==
    /\ scenario.tampering /\ tampers < MaxTampers
    /\ tokenizer' \in Tokenizers \ {tokenizer}
    /\ tampers' = tampers + 1
    /\ UNCHANGED <<scenario, source, versions, dest, makers, reader, sidecar>>

-----------------------------------------------------------------------------
Init ==
    /\ scenario \in Scenarios
    /\ source = [lines |-> scenario.source, stamp |-> 0, edits |-> 0]
    /\ versions = {scenario.source}
    /\ dest = Free
    /\ makers = [p \in Makers |-> NewMaker]
    /\ reader = NewReader
    /\ tokenizer = scenario.tokenizer
    /\ sidecar = None
    /\ tampers = 0

Work(p) == Start(p) \/ Copy(p) \/ Stage(p) \/ Publish(p)

Read ==
    \/ CopySource \/ Open \/ CopyRest \/ Use \/ Release
    \/ Conclude \/ Generate \/ Exhaust \/ WriteSidecar

Next ==
    \/ \E p \in Makers : Work(p) \/ Fail(p)
    \/ \E kind \in {"source", "bare", "load", "stats"} : Begin(kind)
    \/ Read
    \/ \E loud \in BOOLEAN : EditSource(loud)
    \/ Tamper
    \/ MutateTokenizer

Spec == Init /\ [][Next]_vars

-----------------------------------------------------------------------------
(* Properties *)

\* A maker's outcome, as the publication promises it.
OutcomeOf(p) == IF Ended(p) THEN makers[p].pc ELSE "pending"

\* An input of a materialization: a source's content and the hash.
InputMaterializable(input) == Materializable(input[1], input[2])
InputMaterialized(input) == Materialized(input[1], input[2])

Publication ==
    INSTANCE AtomicPublication WITH
        Publishers <- Makers,
        Empty <- Free,
        Acceptable <- InputMaterializable,
        Output <- InputMaterialized,
        offered <- {<<lines, scenario.bucket>> : lines \in versions},
        cell <- dest,
        outcome <- [p \in Makers |-> OutcomeOf(p)]

\* Concurrent materializations of a source that is edited while they read it
\* publish like a write-once cell: what appears is whole, is the
\* materialization of one content the source has had and not of a mixture, is
\* never replaced, and the losers are refused (rename_noreplace,
\* copy_source_snapshot).
PublishesAtomically == Publication!Spec

IsPartition(snapshot) ==
    LET members == MembersOf(snapshot.manifest.source)
        homes(k) == {split \in Splits :
                        members[k].line \in ToSet(snapshot.files[split].rows)}
    IN  /\ Len(InSplitOrder(snapshot.manifest)) = Len(members)
        /\ AtomicComponents(members) = ConnectedComponents(members)
        /\ \A c \in ConnectedComponents(members) :
              \E split \in Splits : \A k \in c : homes(k) = {split}

\* The published partition loses and invents nothing: every record of its
\* source is in exactly one artifact, and records related through any chain of
\* lineages, groups and equal content are in the same one: the union-find finds
\* exactly the connected components (_atomic_components, assign_records).
RelatedStayTogether == [][dest = Free /\ dest' # Free => IsPartition(dest')]_dest

\* A snapshot accepted against a source is the one materializing that source
\* gives, whatever was done to the snapshot or the source before or during the
\* validation: the same members in the same splits in the same order, and
\* artifacts with their rows, up to the encoding of a row and blank lines.
SourceVerdictIsTrue ==
    reader.pc = "accepted" /\ reader.kind = "source" =>
        LET true == Materialized(reader.manifest.source, scenario.bucket).manifest
        IN  /\ reader.manifest.splits = true.splits
            /\ \A split \in Splits :
                  ArtifactRows(MembersOf(reader.manifest.digests[split])) = true.digests[split]

\* A snapshot nobody touched, where copies can be staged, is never refused with
\* its unchanged source, nor without it when the source's lines were canonical:
\* recomputing ownership from the members in split order, instead of source
\* order, gives the same partition.  (Sources with blank lines are excepted: see
\* the README.)
UntouchedIsAccepted ==
    /\ tampers = 0 /\ source.edits = 0 /\ scenario.writable
    /\ reader.kind = "stats" => Derivable(scenario.tokenizer)
    /\ \A k \in DOMAIN scenario.source :
          /\ scenario.source[k].form # "blank"
          /\ reader.kind # "source" => scenario.source[k].canonical
    => reader.pc # "rejected"

\* Every row the training loader hands out, however much later than the
\* binding, is the bound train artifact's, byte for byte, and shares no content
\* and no lineage with the bound validation and held-out members.
LoadedRowsAreTrain ==
    reader.out # None =>
        /\ reader.out = RecordsOf(reader.bound.digests["train"])
        /\ \A row \in ToSet(reader.out), split \in {"validation", "held_out"} :
              \A m \in ToSet(reader.bound.splits[split]) :
                  m.content # row.text /\ m.lineage # LineageOf(row)

\* A published sidecar counts what its pins name: the rows of the pinned
\* manifest's artifacts under the pinned tokenizer, even when artifacts or
\* tokenizer change while it counts.
SidecarIsTrue ==
    sidecar # None =>
        \A k \in 1..3 :
            sidecar.counts[k] = CountsOf(RecordsOf(sidecar.manifest.digests[SplitOrder[k]]),
                                         sidecar.provenance.sha)

\* What the documentation says of a published snapshot: it can be validated and
\* loaded without its source.
PublishedIsAccepted ==
    tampers = 0 => reader.pc # "rejected"
=============================================================================
