------------------------------- MODULE Mixture -------------------------------
(***************************************************************************)
(* Composing token-budget mixtures (mixture_compose.py, mixture_load.py,   *)
(* mixture_identity.py, mixture_ledger.py, mixture_result_schema.py) from  *)
(* frozen splits and their token sidecars, while other processes replace   *)
(* the snapshots and the sidecars and take destinations.                   *)
(*                                                                         *)
(* A snapshot is [splits, valid], with the members of each split; a digest *)
(* is the value it digests.  A tokenizer stands for the tokenizer, the     *)
(* serializer and the context limit together: [name, limit].  A source on  *)
(* disk is [snapshot, statistics, ledger].  The specifications of a        *)
(* scenario are composed one after the other, each to a place of its own.  *)
(***************************************************************************)
EXTENDS MixtureAllocation

CONSTANTS
    Scenarios,      \* [disk, specs, edits]: what a behaviour starts with
    None,           \* nothing
    Taken,          \* a destination made by somebody else
    Length(_, _),   \* tokens of a text under a tokenizer
    MaxEdits        \* bound: edits of the inputs

\* A member of a split, as the schema of the manifest has it.
IsMember(m) ==
    /\ m.id \in Int /\ m.lineage \in Int
    /\ m.group # Absent => m.group \in Int

\* A snapshot; one that validates lists no canonical id twice in a split.
IsSnapshot(snapshot) ==
    /\ snapshot.valid \in BOOLEAN
    /\ \A split \in Splits :
          LET members == snapshot.splits[split]
          IN  /\ members \in Seq(Range(members))
              /\ snapshot.valid =>
                    /\ \A m \in Range(members) : IsMember(m)
                    /\ \A j, k \in 1..Len(members) : members[j].id = members[k].id => j = k

\* A ledger: TokenLedger has no two records of one split and id.
IsLedger(ledger) ==
    /\ IsFiniteSet(ledger.records)
    /\ \A e \in ledger.records : e.tokens \in Nat /\ e.truncated \in BOOLEAN
    /\ \A e, f \in ledger.records : e.split = f.split /\ e.id = f.id => e = f

IsSpecification(wanted, inputs) ==
    /\ wanted.sources \in Seq(DOMAIN inputs \cap Int) /\ wanted.sources # <<>>
    /\ IsInjective(wanted.sources)
    /\ wanted.weights \in [ToSet(wanted.sources) -> Int]
    /\ wanted.budget \in Int /\ wanted.consumed \in Splits /\ wanted.reserves \in BOOLEAN

\* The snapshots and the ledgers that are on disk at some time.
SnapshotsOf(world) ==
    {world.disk[s].snapshot : s \in DOMAIN world.disk}
        \cup {e.value : e \in {e \in world.edits : e.input = "snapshot"}}
LedgersOf(world) ==
    {world.disk[s].ledger : s \in DOMAIN world.disk}
        \cup {e.value : e \in {e \in world.edits : e.input = "ledger"}}

ASSUME ScenariosAreTyped ==
    \A world \in Scenarios :
        /\ \A s \in DOMAIN world.disk :
              DOMAIN world.disk[s] = {"snapshot", "statistics", "ledger"}
        /\ world.specs \in Seq(Range(world.specs)) /\ world.specs # <<>>
        /\ \A n \in 1..Len(world.specs) : IsSpecification(world.specs[n], world.disk)
        /\ \A edit \in world.edits :
              edit.source \in DOMAIN world.disk /\ edit.input \in {"snapshot", "statistics", "ledger"}
        /\ \A snapshot \in SnapshotsOf(world) : IsSnapshot(snapshot)
        /\ \A ledger \in LedgersOf(world) : IsLedger(ledger)

\* Every name a component of a snapshot can have.
NamesIn(members) ==
    {<<"lineage", m.lineage>> : m \in Range(members)}
        \cup {<<"group", m.group>> : m \in {m \in Range(members) : m.group # Absent}}

\* Digests are numbers, and two names of one source never have the same: the code
\* would break such a tie of SHA-256 digests by the names.
ASSUME DigestsTellNames ==
    \A world \in Scenarios : \A n \in 1..Len(world.specs) :
        LET digest(source, name) == SelectionDigest(world.specs[n].salt, source, name)
        IN  \A snapshot \in {s \in SnapshotsOf(world) : s.valid}, source \in DOMAIN world.disk :
               LET names == NamesIn(snapshot.splits[world.specs[n].consumed])
               IN  /\ \A a \in names : digest(source, a) \in Int
                   /\ \A a, b \in names : digest(source, a) = digest(source, b) => a = b

ASSUME NothingIsNothing == None # Taken /\ MaxEdits \in Nat

VARIABLES
    scenario,    \* this behaviour's scenario; it never changes
    disk,        \* [source -> [snapshot, statistics, ledger]]
    run,         \* the composition's local state
    published,   \* [number of a specification -> None, Taken or a mixture]
    edits        \* edits so far

vars == <<scenario, disk, run, published, edits>>

Kinds == {"lineage", "canonical", "content", "group"}

-----------------------------------------------------------------------------
(* Token sidecars (mixture_ledger.py) *)

\* measure_rendered_tokens and the ledger's entry for it.
LedgerRecord(member, split, tokenizer) ==
    LET tokens == Length(tokenizer, member.content)
    IN  [id |-> member.id, split |-> split, tokens |-> tokens,
         truncated |-> tokenizer.limit # None /\ tokens > tokenizer.limit]

\* write_token_ledger for a snapshot.
LedgerOf(snapshot, tokenizer) ==
    [manifest |-> snapshot, tokenizer |-> tokenizer,
     records |-> UNION {{LedgerRecord(member, split, tokenizer) :
                           member \in ToSet(snapshot.splits[split])} : split \in Splits}]

Totals(records) ==
    [records |-> Cardinality(records),
     total |-> SumFunction([r \in records |-> r.tokens]),
     truncated |-> Cardinality({r \in records : r.truncated}),
     least |-> Min({r.tokens : r \in records}), most |-> Max({r.tokens : r \in records})]

RecordsOf(ledger, split) == {r \in ledger.records : r.split = split}

\* The token statistics of a snapshot, for a model.
StatisticsOf(snapshot, tokenizer, model) ==
    [manifest |-> snapshot, tokenizer |-> tokenizer, model |-> model,
     totals |-> [split \in Splits |-> Totals(RecordsOf(LedgerOf(snapshot, tokenizer), split))]]

\* require_ledger_matches_statistics: counts, totals and bounds of each split,
\* not the lengths themselves.
LedgerMatchesStatistics(ledger, statistics) ==
    /\ ledger.manifest = statistics.manifest
    /\ ledger.tokenizer = statistics.tokenizer
    /\ \A split \in Splits : Totals(RecordsOf(ledger, split)) = statistics.totals[split]

-----------------------------------------------------------------------------
(* Isolation (mixture_identity.py) *)

IdentityOf(member, kind) ==
    CASE kind = "lineage" -> member.lineage [] kind = "canonical" -> member.id
      [] kind = "content" -> member.content [] kind = "group" -> member.group

\* All members of a loaded source, in every split.
Owned(source, split) == ToSet(source.manifest.splits[split])

\* Mutation: only the consumed split of each source is looked at.
IsolatedWhereConsumed(loaded, split) ==
    \A j, k \in 1..Len(loaded) : j # k =>
        \A m \in Owned(loaded[j], split), n \in Owned(loaded[k], split), kind \in Kinds :
            IdentityOf(m, kind) # IdentityOf(n, kind) \/ IdentityOf(m, kind) = Absent

\* _observe_identity: no identity has owners in two splits, nor in two sources.
Isolated(loaded, consumed) ==
    \A j, k \in 1..Len(loaded), s, t \in Splits : j # k \/ s # t =>
        \A m \in Owned(loaded[j], s), n \in Owned(loaded[k], t), kind \in Kinds :
            IdentityOf(m, kind) # IdentityOf(n, kind) \/ IdentityOf(m, kind) = Absent

\* reject_reserved_record, for the records of the consumed splits.
Unreserved(loaded, reserved) ==
    \A k \in 1..Len(loaded) : \A record \in ToSet(loaded[k].records), kind \in Kinds :
        IdentityOf(record, kind) = Absent \/ IdentityOf(record, kind) \notin reserved[kind]

-----------------------------------------------------------------------------
(* One composition *)

SpecOf(number) == scenario.specs[number]

NewRun(number) == [pc |-> "start", number |-> number, loaded |-> <<>>, manifest |-> None,
                   statistics |-> None, ledger |-> None, staged |-> None]

Init ==
    /\ scenario \in Scenarios
    /\ disk = scenario.disk
    /\ run = NewRun(1)
    /\ published = [number \in 1..Len(scenario.specs) |-> None]
    /\ edits = 0

spec == SpecOf(run.number)
\* The source that is loaded next.
NextSource == spec.sources[Len(run.loaded) + 1]
Input == disk[NextSource]

\* A command ends; the next one may begin.
Ended == run' = IF run.number < Len(scenario.specs) THEN NewRun(run.number + 1)
                ELSE [NewRun(run.number) EXCEPT !.pc = "ended"]
others == <<scenario, disk, edits>>

\* _refuse_existing_destination.
Start ==
    /\ run.pc = "start"
    /\ IF published[run.number] = None THEN run' = [run EXCEPT !.pc = "manifest"] ELSE Ended
    /\ UNCHANGED <<others, published>>

\* load_source reads and validates the manifest and its artifacts, ...
ReadManifest ==
    /\ run.pc = "manifest"
    /\ IF Input.snapshot.valid
       THEN run' = [run EXCEPT !.manifest = Input.snapshot, !.pc = "statistics"] ELSE Ended
    /\ UNCHANGED <<others, published>>

\* ... the token statistics, ...
ReadStatistics ==
    /\ run.pc = "statistics"
    /\ run' = [run EXCEPT !.statistics = Input.statistics, !.pc = "ledger"]
    /\ UNCHANGED <<others, published>>

\* Mutation: the sidecars must match each other, not the manifest.
TrustsSidecars(manifest, statistics, ledger) ==
    LedgerMatchesStatistics(ledger, statistics)

\* ... with require_sidecar_identity, ...
SidecarsHold(manifest, statistics, ledger) ==
    /\ statistics.manifest = manifest /\ ledger.manifest = manifest
    /\ LedgerMatchesStatistics(ledger, statistics)

\* ... the ledger, which has to fit both, ...
ReadLedger ==
    /\ run.pc = "ledger"
    /\ IF SidecarsHold(run.manifest, run.statistics, Input.ledger)
       THEN run' = [run EXCEPT !.ledger = Input.ledger, !.pc = "rows"] ELSE Ended
    /\ UNCHANGED <<others, published>>

\* The consumed records: each member with the tokens the ledger gives it.
SelectableRecord(source, member) ==
    LET entry == CHOOSE r \in RecordsOf(run.ledger, spec.consumed) : r.id = member.id
    IN  [source |-> source, id |-> member.id, lineage |-> member.lineage, group |-> member.group,
         content |-> member.content, tokens |-> entry.tokens, truncated |-> entry.truncated]

\* ... and the rows, of which the digest must still be the manifest's.  Then
\* the ledger has to cover exactly the consumed split.
ReadRows ==
    /\ run.pc = "rows"
    /\ LET members == run.manifest.splits[spec.consumed]
       IN  IF /\ Input.snapshot.splits[spec.consumed] = members
              /\ {r.id : r \in RecordsOf(run.ledger, spec.consumed)} = {m.id : m \in ToSet(members)}
           THEN LET source == [source |-> NextSource, manifest |-> run.manifest,
                               statistics |-> run.statistics, ledger |-> run.ledger,
                               records |-> [k \in 1..Len(members) |-> SelectableRecord(NextSource, members[k])]]
                    loaded == Append(run.loaded, source)
                IN  run' = [run EXCEPT !.loaded = loaded,
                                !.pc = IF Len(loaded) = Len(spec.sources) THEN "compose" ELSE "manifest"]
           ELSE Ended
    /\ UNCHANGED <<others, published>>

\* require_tokenizer_agreement.
TokenizersAgree(loaded) ==
    \A k \in 1..Len(loaded) :
        /\ loaded[k].statistics.tokenizer = loaded[1].statistics.tokenizer
        /\ loaded[k].statistics.model = loaded[1].statistics.model

\* What the specification reserves: for a later arm, everything that earlier
\* mixtures selected.
Reserved ==
    [kind \in Kinds |->
        IF ~spec.reserves THEN {}
        ELSE UNION {{IdentityOf(record, kind) : record \in ToSet(published[n].selected)} \ {Absent} :
                      n \in {n \in 1..(run.number - 1) : published[n] \notin {None, Taken}}}]

SourceResult(source, quota, selection) ==
    [source |-> source.source, manifest |-> source.manifest, statistics |-> source.statistics,
     ledger |-> source.ledger, weight |-> spec.weights[source.source], quota |-> quota,
     available |-> selection.available, accepted |-> quota - selection.remaining,
     shortfall |-> selection.remaining]

\* Selected records in the order of the manifest: by source, then by id.
InManifestOrder(records) ==
    LET from(source) == {k \in 1..Len(records) : records[k].source = source}
        sources == {records[k].source : k \in 1..Len(records)}
        order == InOrder(sources, [source \in sources |-> source])
        listed(source) == LET own == SortedById(records, from(source))
                          IN  [p \in DOMAIN own |-> records[own[p]]]
    IN  FlattenSeq([p \in DOMAIN order |-> listed(order[p])])

\* _select_source: what a loaded source contributes to its quota.
SelectSource(source, quotas) ==
    SelectGroups(AtomicGroups(source.records), quotas[source.source], spec.salt, source.source)

\* The mixture composed of the loaded sources.
MixtureOf(loaded) ==
    LET quotas == AllocateTokenQuotas(spec.budget, spec.weights)
        selections == [k \in 1..Len(loaded) |-> SelectSource(loaded[k], quotas)]
    IN  [arm |-> spec.arm, budget |-> spec.budget, consumed |-> spec.consumed,
         sources |-> [k \in 1..Len(loaded) |->
                         SourceResult(loaded[k], quotas[loaded[k].source], selections[k])],
         selected |-> InManifestOrder(FlattenSeq([k \in 1..Len(loaded) |-> selections[k].records])),
         exclusions |-> UNION {selections[k].exclusions : k \in 1..Len(loaded)}]

\* The validators of the published schema.
ManifestHolds(mixture) ==
    LET tokensOf(source) ==
            SumFunction([k \in {k \in 1..Len(mixture.selected) : mixture.selected[k].source = source} |->
                            mixture.selected[k].tokens])
        quotas == SumFunction([k \in 1..Len(mixture.sources) |-> mixture.sources[k].quota])
    IN  /\ \A k \in 1..Len(mixture.sources) :
              LET result == mixture.sources[k]
              IN  /\ result.accepted <= result.available
                  /\ result.accepted = tokensOf(result.source)
        /\ IsInjective([k \in 1..Len(mixture.selected) |-> mixture.selected[k].id])
        /\ quotas = mixture.budget
        /\ SumOfTokens(mixture.selected) <= mixture.budget

\* Check agreement and isolation, select, and stage a mixture that is not empty.
Compose ==
    /\ run.pc = "compose"
    /\ LET mixture == MixtureOf(run.loaded)
       IN  IF /\ TokenizersAgree(run.loaded)
              /\ Isolated(run.loaded, spec.consumed) /\ Unreserved(run.loaded, Reserved)
              /\ Allocatable(spec.budget, spec.weights)
              /\ mixture.selected # <<>> /\ ManifestHolds(mixture)
           THEN run' = [run EXCEPT !.staged = mixture, !.pc = "publish"] ELSE Ended
    /\ UNCHANGED <<others, published>>

\* _publish_snapshot: rename without replacing.
Publish ==
    /\ run.pc = "publish"
    /\ published' = IF published[run.number] = None
                    THEN [published EXCEPT ![run.number] = run.staged] ELSE published
    /\ Ended
    /\ UNCHANGED others

-----------------------------------------------------------------------------
(* Everybody else *)

\* A snapshot, statistics or a ledger is replaced by another.
ReplaceInput ==
    /\ edits < MaxEdits
    /\ \E edit \in scenario.edits :
          /\ disk[edit.source][edit.input] # edit.value
          /\ disk' = [disk EXCEPT ![edit.source][edit.input] = edit.value]
    /\ edits' = edits + 1
    /\ UNCHANGED <<scenario, run, published>>

TakeDestination ==
    /\ edits < MaxEdits /\ scenario.edits # {}
    /\ published[run.number] = None
    /\ published' = [published EXCEPT ![run.number] = Taken]
    /\ edits' = edits + 1
    /\ UNCHANGED <<scenario, disk, run>>

Next ==
    \/ Start \/ ReadManifest \/ ReadStatistics \/ ReadLedger \/ ReadRows
    \/ Compose \/ Publish
    \/ ReplaceInput \/ TakeDestination

Spec == Init /\ [][Next]_vars

-----------------------------------------------------------------------------
(* Properties *)

Mixtures == {published[n] : n \in DOMAIN published} \ {None, Taken}

\* Records that share a lineage, a group or exact content, directly or through
\* others, are in the mixture together or not at all, and never with a truncated
\* one among them (_atomic_groups); each carries the tokens of the pinned ledger.
RelatedRecordsStayTogether ==
    \A mixture \in Mixtures : \A result \in ToSet(mixture.sources) :
        LET members == result.manifest.splits[mixture.consumed]
            ids == {r.id : r \in {r \in ToSet(mixture.selected) : r.source = result.source}}
            entries == RecordsOf(result.ledger, mixture.consumed)
        IN  /\ \A component \in ConnectedComponents(members) :
                  LET own == {members[k].id : k \in component}
                  IN  own \subseteq ids \/ own \cap ids = {}
            /\ \A entry \in entries : entry.truncated => entry.id \notin ids
            /\ result.accepted = SumFunction([e \in {e \in entries : e.id \in ids} |-> e.tokens])

\* Quotas share out the budget exactly, no source is more than a token off its
\* proportional share, and a heavier source never gets less than a lighter one
\* (allocate_token_quotas: largest-remainder rounding).
QuotasAreFair(mixture) ==
    LET results == ToSet(mixture.sources)
        total == SumFunction([r \in results |-> r.weight])
    IN  /\ SumFunction([r \in results |-> r.quota]) = mixture.budget
        /\ \A r \in results :
              /\ r.quota * total < mixture.budget * r.weight + total
              /\ r.quota * total > mixture.budget * r.weight - total
        /\ \A r, q \in results : r.weight > q.weight => r.quota >= q.quota

\* No quota is left that a whole untruncated component would still have fitted,
\* and whatever was left out is listed with its reason (select_groups_for_quota).
NothingMoreFits(mixture) ==
    \A result \in ToSet(mixture.sources) :
        LET members == result.manifest.splits[mixture.consumed]
            selected == {r.id : r \in {r \in ToSet(mixture.selected) : r.source = result.source}}
            listed == {e.id : e \in {e \in mixture.exclusions : e.source = result.source}}
        IN  /\ listed = {m.id : m \in ToSet(members)} \ selected
            /\ \A component \in ConnectedComponents(members) :
                  LET own == {e \in RecordsOf(result.ledger, mixture.consumed) :
                                 e.id \in {members[k].id : k \in component}}
                  IN  \/ {e.id : e \in own} \subseteq selected
                      \/ \E e \in own : e.truncated
                      \/ SumFunction([e \in own |-> e.tokens]) > result.shortfall

\* A mixture spends its budget as far as it can: the shares are fair, and what is
\* left of one is a shortfall the source could not have filled by one of the
\* components that were left out.
BudgetIsSpent == \A mixture \in Mixtures : QuotasAreFair(mixture) /\ NothingMoreFits(mixture)

\* No identity of a selected record occurs in another split of any source of the
\* mixture, nor in another source, nor in an earlier mixture whose selection was
\* reserved (require_lineage_isolation).
SelectedStaysIsolated ==
    \A n \in DOMAIN published : published[n] \in Mixtures =>
        LET mixture == published[n]
        IN  \A record \in ToSet(mixture.selected), kind \in Kinds :
                LET value == IdentityOf(record, kind)
                IN  value # Absent =>
                    /\ \A result \in ToSet(mixture.sources), split \in Splits :
                          (split # mixture.consumed \/ result.source # record.source) =>
                             \A m \in ToSet(result.manifest.splits[split]) : IdentityOf(m, kind) # value
                    /\ SpecOf(n).reserves =>
                          \A earlier \in 1..(n - 1) : published[earlier] \in Mixtures =>
                             \A r \in ToSet(published[earlier].selected) : IdentityOf(r, kind) # value

\* The pins of a mixture, source by source and among each other.
PinsAgree(mixture) ==
    \A result \in ToSet(mixture.sources) :
        /\ result.statistics.manifest = result.manifest
        /\ result.ledger.manifest = result.manifest
        /\ {e.id : e \in RecordsOf(result.ledger, mixture.consumed)}
             = {m.id : m \in ToSet(result.manifest.splits[mixture.consumed])}
        /\ \A other \in ToSet(mixture.sources) : other.ledger.tokenizer = result.ledger.tokenizer

\* What a mixture pins for a source belongs together: statistics and ledger are
\* of the pinned snapshot, the ledger knows exactly its records, and one
\* tokenizer counted for all sources, however the files were replaced between
\* their readings (load_source).
PinsBelongTogether == \A mixture \in Mixtures : PinsAgree(mixture)
=============================================================================
