---------------------------- MODULE Mixture_proofs ----------------------------
(***************************************************************************)
(* What a published mixture promises, for any specifications, inputs,       *)
(* tokenizers, digests and number of replacements: its pins belong          *)
(* together, its quotas share out the budget, its components are whole and  *)
(* none more would have fitted, and its records are isolated.               *)
(*                                                                          *)
(* The manifest, the statistics, the ledger and the rows of a source are    *)
(* read one after the other, and any of them may have been replaced since.  *)
(* What a later reading is compared with is therefore what was read before, *)
(* never what lies on disk: PinInv and MixtureInv say what the composition  *)
(* holds in its memory at each location, and nobody else can disturb that.  *)
(*                                                                          *)
(* The rest is about operators.  Sums are counted: SumFunction of natural   *)
(* numbers is the number of units they have together.  Components, orders   *)
(* and flattenings are those of SplitSnapshot_proofs.  The selection of a   *)
(* source is a fold over the list of its groups, unrolled one group at a    *)
(* time, and Accounts is what it leaves in terms of the selected indexes.   *)
(***************************************************************************)
EXTENDS Mixture, SequenceTheorems, FiniteSetTheorems, TLAPS

-----------------------------------------------------------------------------
(* The pins *)

RunFields == {"pc", "number", "loaded", "manifest", "statistics", "ledger", "staged"}

IsRun(r) == DOMAIN r = RunFields

\* A ledger has an entry for every record of a split of a snapshot, and no other.
Covers(ledger, manifest, split) ==
  {e.id : e \in RecordsOf(ledger, split)} = {m.id : m \in ToSet(manifest.splits[split])}

\* What load_source has established about a source it returns.
SourceHolds(source) ==
  /\ SidecarsHold(source.manifest, source.statistics, source.ledger)
  /\ Covers(source.ledger, source.manifest, spec.consumed)

RunHolds ==
  /\ IsRun(run)
  /\ run.loaded \in Seq(ToSet(run.loaded))
  /\ \A k \in 1..Len(run.loaded) : SourceHolds(run.loaded[k])
  /\ run.pc = "rows" => SidecarsHold(run.manifest, run.statistics, run.ledger)
  /\ run.pc = "publish" => PinsAgree(run.staged)

PublishedHolds ==
  \A n \in DOMAIN published : published[n] \notin {None, Taken} => PinsAgree(published[n])

PinInv == RunHolds /\ PublishedHolds

-----------------------------------------------------------------------------
(* The composition's memory *)

\* A command that has not begun has loaded nothing, and holds nothing else.
LEMMA FreshRun ==
  ASSUME NEW r, NEW number, r = NewRun(number) \/ r = [NewRun(number) EXCEPT !.pc = "ended"]
  PROVE  IsRun(r) /\ r.loaded = <<>> /\ r.pc \in {"start", "ended"}
<1>1. IsRun(NewRun(number))
  BY DEF IsRun, NewRun, RunFields
<1>2. NewRun(number).loaded = <<>> /\ NewRun(number).pc = "start"
  BY DEF NewRun
<1>3. CASE r = NewRun(number)
  BY <1>1, <1>2, <1>3
<1>4. CASE r = [NewRun(number) EXCEPT !.pc = "ended"]
  BY <1>1, <1>2, <1>4 DEF IsRun, RunFields
<1> QED
  BY <1>3, <1>4

LEMMA FreshHolds ==
  ASSUME NEW number, run = NewRun(number) \/ run = [NewRun(number) EXCEPT !.pc = "ended"]
  PROVE  RunHolds
<1>1. IsRun(run) /\ run.loaded = <<>> /\ run.pc \in {"start", "ended"}
  BY FreshRun
<1>2. run.loaded \in Seq(ToSet(run.loaded)) /\ Len(run.loaded) = 0
  BY <1>1
<1> QED
  BY <1>1, <1>2 DEF RunHolds

\* Whatever a command ends with, the next begins with nothing.
LEMMA EndedHolds ==
  ASSUME Ended
  PROVE  RunHolds'
<1>1. \E number : run' = NewRun(number) \/ run' = [NewRun(number) EXCEPT !.pc = "ended"]
  BY DEF Ended
<1>2. PICK number : run' = NewRun(number) \/ run' = [NewRun(number) EXCEPT !.pc = "ended"]
  BY <1>1
<1>3. IsRun(run') /\ run'.loaded = <<>> /\ run'.pc \in {"start", "ended"}
  BY <1>2, FreshRun
<1>4. run'.loaded \in Seq(ToSet(run'.loaded)) /\ Len(run'.loaded) = 0
  BY <1>3
<1> QED
  BY <1>3, <1>4 DEF RunHolds

\* A step that leaves the loaded sources alone, and enters neither "rows" nor
\* "publish", has nothing to show.
LEMMA SameLoaded ==
  ASSUME RunHolds, scenario' = scenario, IsRun(run'),
         run'.number = run.number, run'.loaded = run.loaded,
         run'.pc \notin {"rows", "publish"}
  PROVE  RunHolds'
<1>1. \A k \in 1..Len(run.loaded) : SourceHolds(run.loaded[k])'
  BY DEF RunHolds, SourceHolds, spec, SpecOf
<1> QED
  BY <1>1 DEF RunHolds


-----------------------------------------------------------------------------
(* The steps of a composition *)

LEMMA ReadsHold ==
  ASSUME RunHolds, Start \/ ReadManifest \/ ReadStatistics
  PROVE  RunHolds'
<1>1. CASE Ended
  BY <1>1, EndedHolds
<1>2. CASE ~Ended
  <2>1. /\ IsRun(run') /\ scenario' = scenario
        /\ run'.number = run.number /\ run'.loaded = run.loaded
        /\ run'.pc \in {"manifest", "statistics", "ledger"}
    <3>1. IsRun(run)
      BY DEF RunHolds
    <3>2. CASE Start
      BY <1>2, <3>1, <3>2 DEF Start, others, IsRun, RunFields
    <3>3. CASE ReadManifest
      BY <1>2, <3>1, <3>3 DEF ReadManifest, others, IsRun, RunFields
    <3>4. CASE ReadStatistics
      BY <3>1, <3>4 DEF ReadStatistics, others, IsRun, RunFields
    <3> QED
      BY <3>2, <3>3, <3>4
  <2> QED
    BY <2>1, SameLoaded
<1> QED
  BY <1>1, <1>2

\* The ledger is taken only if it fits what was read before it.
LEMMA LedgerHolds ==
  ASSUME RunHolds, ReadLedger
  PROVE  RunHolds'
<1>1. CASE Ended
  BY <1>1, EndedHolds
<1>2. CASE ~Ended
  <2>1. IsRun(run)
    BY DEF RunHolds
  <2>2. /\ SidecarsHold(run.manifest, run.statistics, Input.ledger)
        /\ run' = [run EXCEPT !.ledger = Input.ledger, !.pc = "rows"]
        /\ scenario' = scenario
    BY <1>2 DEF ReadLedger, others
  <2>3. /\ IsRun(run') /\ run'.pc = "rows"
        /\ run'.number = run.number /\ run'.loaded = run.loaded
        /\ run'.manifest = run.manifest /\ run'.statistics = run.statistics
        /\ run'.ledger = Input.ledger
    BY <2>1, <2>2 DEF IsRun, RunFields
  <2>4. SidecarsHold(run'.manifest, run'.statistics, run'.ledger)
    BY <2>2, <2>3
  <2>5. \A k \in 1..Len(run.loaded) : SourceHolds(run.loaded[k])'
    BY <2>2, <2>3 DEF RunHolds, SourceHolds, spec, SpecOf
  <2> QED
    BY <2>3, <2>4, <2>5 DEF RunHolds
<1> QED
  BY <1>1, <1>2

\* A source is loaded only with the rows its manifest names and a ledger that
\* covers them.
LEMMA RowsHold ==
  ASSUME RunHolds, ReadRows
  PROVE  RunHolds'
<1>1. CASE Ended
  BY <1>1, EndedHolds
<1>2. CASE ~Ended
  <2> DEFINE members == run.manifest.splits[spec.consumed]
             source == [source |-> NextSource, manifest |-> run.manifest,
                        statistics |-> run.statistics, ledger |-> run.ledger,
                        records |-> [k \in 1..Len(members) |-> SelectableRecord(NextSource, members[k])]]
             loaded == Append(run.loaded, source)
             here == IF Len(loaded) = Len(spec.sources) THEN "compose" ELSE "manifest"
  <2>1. IsRun(run) /\ SidecarsHold(run.manifest, run.statistics, run.ledger)
    BY DEF RunHolds, ReadRows
  <2>2. /\ Covers(run.ledger, run.manifest, spec.consumed)
        /\ run' = [run EXCEPT !.loaded = loaded, !.pc = here]
        /\ scenario' = scenario
    BY <1>2 DEF ReadRows, others, Covers
  <2>3. SourceHolds(source)
    <3>1. /\ source.manifest = run.manifest /\ source.statistics = run.statistics
          /\ source.ledger = run.ledger
      OBVIOUS
    <3> HIDE DEF source
    <3> QED
      BY <2>1, <2>2, <3>1 DEF SourceHolds
  <2> HIDE DEF source
  <2>4. here \notin {"rows", "publish"}
    OBVIOUS
  <2> HIDE DEF here
  <2>5. /\ IsRun(run') /\ run'.pc = here
        /\ run'.number = run.number /\ run'.loaded = loaded
    BY <2>1, <2>2 DEF IsRun, RunFields
  <2>6. /\ loaded \in Seq(ToSet(loaded))
        /\ \A k \in 1..Len(loaded) : SourceHolds(loaded[k])
    <3> DEFINE S == ToSet(run.loaded) \cup {source}
    <3>1. run.loaded \in Seq(S) /\ source \in S
      BY SeqMonotonic DEF RunHolds
    <3>2. /\ loaded \in Seq(S) /\ Len(loaded) = Len(run.loaded) + 1
          /\ \A k \in 1..Len(run.loaded) : loaded[k] = run.loaded[k]
          /\ loaded[Len(run.loaded) + 1] = source
      <4> HIDE DEF S
      <4> QED
        BY <3>1, AppendProperties
    <3>3. DOMAIN loaded = 1..Len(loaded) /\ Len(loaded) \in Nat /\ Len(run.loaded) \in Nat
      BY <3>1, <3>2
    <3> HIDE DEF loaded
    <3>4. loaded \in Seq(ToSet(loaded))
      BY <3>2, <3>3, IsASeq DEF ToSet
    <3>5. \A k \in 1..Len(loaded) : SourceHolds(loaded[k])
      <4> TAKE k \in 1..Len(loaded)
      <4>1. CASE k \in 1..Len(run.loaded)
        BY <3>2, <4>1 DEF RunHolds
      <4>2. CASE k = Len(run.loaded) + 1
        BY <2>3, <3>2, <4>2
      <4> QED
        BY <3>2, <3>3, <4>1, <4>2
    <3> QED
      BY <3>4, <3>5
  <2> HIDE DEF loaded
  <2>7. \A k \in 1..Len(run'.loaded) : SourceHolds(run.loaded[k])'
    <3>1. spec' = spec
      BY <2>2, <2>5 DEF spec, SpecOf
    <3> QED
      BY <2>5, <2>6, <3>1 DEF SourceHolds
  <2>8. run'.loaded \in Seq(ToSet(run'.loaded))
    BY <2>5, <2>6
  <2> QED
    BY <2>4, <2>5, <2>7, <2>8 DEF RunHolds
<1> QED
  BY <1>1, <1>2

\* The sources of a mixture carry the pins of the loaded ones.
LEMMA SourcesOfMixture ==
  ASSUME Len(run.loaded) \in Nat
  PROVE  /\ MixtureOf(run.loaded).consumed = spec.consumed
         /\ \A result \in ToSet(MixtureOf(run.loaded).sources) :
               \E k \in 1..Len(run.loaded) :
                  /\ result.manifest = run.loaded[k].manifest
                  /\ result.statistics = run.loaded[k].statistics
                  /\ result.ledger = run.loaded[k].ledger
<1> DEFINE quotas == AllocateTokenQuotas(spec.budget, spec.weights)
           selections == [k \in 1..Len(run.loaded) |-> SelectSource(run.loaded[k], quotas)]
           sources == [k \in 1..Len(run.loaded) |->
                         SourceResult(run.loaded[k], quotas[run.loaded[k].source], selections[k])]
<1>1. MixtureOf(run.loaded).consumed = spec.consumed /\ MixtureOf(run.loaded).sources = sources
  BY DEF MixtureOf
<1>2. SUFFICES ASSUME NEW k \in 1..Len(run.loaded)
               PROVE  /\ sources[k].manifest = run.loaded[k].manifest
                      /\ sources[k].statistics = run.loaded[k].statistics
                      /\ sources[k].ledger = run.loaded[k].ledger
  <2>1. ToSet(sources) = {sources[k] : k \in 1..Len(run.loaded)}
    BY DEF ToSet
  <2> HIDE DEF sources
  <2> QED
    BY <1>1, <2>1
<1> QED
  BY DEF SourceResult

\* Sources that each hold and agree on the tokenizer make a mixture of which the
\* pins agree.
LEMMA ComposedAgrees ==
  ASSUME RunHolds, TokenizersAgree(run.loaded)
  PROVE  PinsAgree(MixtureOf(run.loaded))
<1>1. Len(run.loaded) \in Nat
  BY DEF RunHolds
<1>2. /\ MixtureOf(run.loaded).consumed = spec.consumed
      /\ \A result \in ToSet(MixtureOf(run.loaded).sources) :
            \E k \in 1..Len(run.loaded) :
               /\ result.manifest = run.loaded[k].manifest
               /\ result.statistics = run.loaded[k].statistics
               /\ result.ledger = run.loaded[k].ledger
  BY <1>1, SourcesOfMixture
<1>3. \A k \in 1..Len(run.loaded) :
        /\ run.loaded[k].statistics.manifest = run.loaded[k].manifest
        /\ run.loaded[k].ledger.manifest = run.loaded[k].manifest
        /\ Covers(run.loaded[k].ledger, run.loaded[k].manifest, spec.consumed)
        /\ run.loaded[k].ledger.tokenizer = run.loaded[1].statistics.tokenizer
  BY DEF RunHolds, SourceHolds, SidecarsHold, LedgerMatchesStatistics, TokenizersAgree
<1>4. \A result \in ToSet(MixtureOf(run.loaded).sources) :
        /\ result.statistics.manifest = result.manifest
        /\ result.ledger.manifest = result.manifest
        /\ Covers(result.ledger, result.manifest, MixtureOf(run.loaded).consumed)
        /\ result.ledger.tokenizer = run.loaded[1].statistics.tokenizer
  BY <1>2, <1>3
<1> QED
  BY <1>4 DEF PinsAgree, Covers

LEMMA ComposeHolds ==
  ASSUME RunHolds, Compose
  PROVE  RunHolds'
<1>1. CASE Ended
  BY <1>1, EndedHolds
<1>2. CASE ~Ended
  <2> DEFINE mixture == MixtureOf(run.loaded)
  <2>1. IsRun(run)
    BY DEF RunHolds
  <2>2. /\ TokenizersAgree(run.loaded) /\ scenario' = scenario
        /\ run' = [run EXCEPT !.staged = mixture, !.pc = "publish"]
    BY <1>2 DEF Compose, others
  <2>3. PinsAgree(mixture)
    BY <2>2, ComposedAgrees
  <2> HIDE DEF mixture
  <2>4. /\ IsRun(run') /\ run'.pc = "publish" /\ run'.staged = mixture
        /\ run'.number = run.number /\ run'.loaded = run.loaded
    BY <2>1, <2>2 DEF IsRun, RunFields
  <2>5. \A k \in 1..Len(run.loaded) : SourceHolds(run.loaded[k])'
    BY <2>2, <2>4 DEF RunHolds, SourceHolds, spec, SpecOf
  <2> QED
    BY <2>3, <2>4, <2>5 DEF RunHolds
<1> QED
  BY <1>1, <1>2

-----------------------------------------------------------------------------
(* The invariant *)

LEMMA PinInit ==
  Init => PinInv
<1> SUFFICES ASSUME Init PROVE PinInv
  OBVIOUS
<1>1. RunHolds
  BY FreshHolds DEF Init
<1>2. PublishedHolds
  BY DEF Init, PublishedHolds
<1> QED
  BY <1>1, <1>2 DEF PinInv

\* What is published comes from the staging of this command, or from nobody who
\* composes.
LEMMA PublishHolds ==
  ASSUME PinInv, Publish
  PROVE  PinInv'
<1>1. RunHolds'
  BY EndedHolds DEF Publish
<1>2. PinsAgree(run.staged)
  BY DEF PinInv, RunHolds, Publish
<1>3. PublishedHolds'
  <2> SUFFICES ASSUME NEW n \in DOMAIN published', published'[n] \notin {None, Taken}
               PROVE  PinsAgree(published'[n])
    BY DEF PublishedHolds
  <2>1. n \in DOMAIN published /\ (published'[n] = published[n] \/ published'[n] = run.staged)
    BY DEF Publish
  <2> QED
    BY <1>2, <2>1 DEF PinInv, PublishedHolds
<1> QED
  BY <1>1, <1>3 DEF PinInv

\* Whoever replaces inputs or takes destinations reaches neither.
LEMMA OthersHold ==
  ASSUME PinInv, ReplaceInput \/ TakeDestination \/ UNCHANGED vars
  PROVE  PinInv'
<1>1. run' = run /\ scenario' = scenario
  BY DEF ReplaceInput, TakeDestination, vars
<1>2. RunHolds'
  BY <1>1 DEF PinInv, RunHolds, SourceHolds, spec, SpecOf
<1>3. PublishedHolds'
  <2> SUFFICES ASSUME NEW n \in DOMAIN published', published'[n] \notin {None, Taken}
               PROVE  PinsAgree(published'[n])
    BY DEF PublishedHolds
  <2>1. n \in DOMAIN published /\ published'[n] = published[n]
    BY DEF ReplaceInput, TakeDestination, vars
  <2> QED
    BY <2>1 DEF PinInv, PublishedHolds
<1> QED
  BY <1>2, <1>3 DEF PinInv

LEMMA PinStep ==
  PinInv /\ [Next]_vars => PinInv'
<1> SUFFICES ASSUME PinInv, [Next]_vars PROVE PinInv'
  OBVIOUS
<1>1. CASE Start \/ ReadManifest \/ ReadStatistics \/ ReadLedger \/ ReadRows \/ Compose
  <2>1. RunHolds'
    BY <1>1, ReadsHold, LedgerHolds, RowsHold, ComposeHolds DEF PinInv
  <2>2. published' = published
    BY <1>1 DEF Start, ReadManifest, ReadStatistics, ReadLedger, ReadRows, Compose
  <2> QED
    BY <2>1, <2>2 DEF PinInv, PublishedHolds
<1>2. CASE Publish
  BY <1>2, PublishHolds
<1>3. CASE ReplaceInput \/ TakeDestination \/ UNCHANGED vars
  BY <1>3, OthersHold
<1> QED
  BY <1>1, <1>2, <1>3 DEF Next

\* A published mixture pins, for each source, statistics and a ledger of the
\* pinned snapshot, a ledger that knows exactly its records, and one tokenizer
\* for all, however snapshots and sidecars were replaced between the readings
\* (mixture_load.load_source, mixture_compose.require_tokenizer_agreement).
THEOREM PinsAreOfOneSnapshot == Spec => []PinsBelongTogether
<1>1. PinInv => PinsBelongTogether
  <2> SUFFICES ASSUME PinInv, NEW mixture \in Mixtures PROVE PinsAgree(mixture)
    BY DEF PinsBelongTogether
  <2>1. PICK n \in DOMAIN published : mixture = published[n] /\ published[n] \notin {None, Taken}
    BY DEF Mixtures
  <2> QED
    BY <2>1 DEF PinInv, PublishedHolds
<1> QED
  BY PinInit, PinStep, <1>1, PTL DEF Spec

IsList(s) == s \in Seq(Range(s))

OneToOne(pi, J, I) ==
  /\ pi \in [J -> I]
  /\ \A x, y \in J : pi[x] = pi[y] => x = y
  /\ \A z \in I : \E x \in J : pi[x] = z

-----------------------------------------------------------------------------
(* The lemmas about lists, recursion and SplitAssignment that are proved with *)
(* SplitSnapshot are about operators alone: they are cited here through an    *)
(* instance in which nothing is to be split, and the state is immaterial.     *)

L == INSTANCE SplitSnapshot_proofs WITH
       Scenarios <- {}, Makers <- {}, Anchors <- {}, Tokenizers <- {}, Immutable <- {},
       MaxSourceEdits <- 0, MaxTampers <- 0,
       scenario <- 0, source <- 0, versions <- 0, dest <- 0, makers <- 0, reader <- 0,
       tokenizer <- 0, sidecar <- 0, tampers <- 0

LEMMA SameLists ==
  /\ \A s : L!ToSet(s) = ToSet(s) /\ L!Range(s) = Range(s) /\ (L!IsFile(s) <=> IsList(s))
  /\ \A s : L!FlattenSeq(s) = FlattenSeq(s)
  /\ \A S : L!Max(S) = Max(S)
<1>1. \A s : L!ToSet(s) = ToSet(s)
  BY DEF L!ToSet, ToSet
<1>2. \A s : L!Range(s) = Range(s)
  BY DEF L!Range, Range
<1>3. \A s : L!IsFile(s) <=> IsList(s)
  BY <1>2 DEF L!IsFile, IsList
<1>4. \A s : L!FlattenSeq(s) = FlattenSeq(s)
  BY DEF L!FlattenSeq, FlattenSeq
<1>5. \A S : L!Max(S) = Max(S)
  BY DEF L!Max, Max
<1> QED
  BY <1>1, <1>2, <1>3, <1>4, <1>5

LEMMA SameInOrder == \A S, key : L!InOrder(S, key) = InOrder(S, key)
BY DEF L!InOrder, InOrder, L!Cardinality, Cardinality

LEMMA SameShares == \A a, b : L!Shares(a, b) <=> Shares(a, b)
BY DEF L!Shares, Shares

LEMMA SameConnected == \A members : L!ConnectedComponents(members) = ConnectedComponents(members)
BY DEF L!ConnectedComponents, ConnectedComponents, L!Shares, Shares,
       L!FoldLeft, FoldLeft, L!MapThenFoldSet, MapThenFoldSet, L!Max, Max

LEMMA SameFound == \A parents, item : L!Found(parents, item) = Found(parents, item)
BY DEF L!Found, Found

KeyedList(members) ==
  FlattenSeq([k \in 1..Len(members) |->
                LET keys == ComponentKeys(members[k])
                IN  [j \in 1..Len(keys) |-> <<k, keys[j]>>]])

ForestFrom(start, keyed) ==
  FoldLeft(LAMBDA forest, step : Observed(forest, step[1], step[2]), start, keyed)

LEMMA SameForest == \A members : L!Forest(members) = Forest(members)
<1>1. \A start, keyed : L!ForestFrom(start, keyed) = ForestFrom(start, keyed)
  BY DEF L!ForestFrom, ForestFrom, L!Observed, Observed, L!Joined, Joined, L!Found, Found,
         L!FoldLeft, FoldLeft, L!MapThenFoldSet, MapThenFoldSet, L!Max, Max
<1>2. \A members : L!KeyedList(members) = KeyedList(members)
  BY SameLists DEF L!KeyedList, KeyedList, L!ComponentKeys, ComponentKeys
<1> SUFFICES ASSUME NEW members PROVE L!Forest(members) = Forest(members)
  OBVIOUS
<1> DEFINE start == [parents |-> [k \in 1..Len(members) |-> k], seen |-> {}]
<1>3. Forest(members) = ForestFrom(start, KeyedList(members))
  BY DEF Forest, ForestFrom, KeyedList
<1>4. L!Forest(members) = L!ForestFrom(start, L!KeyedList(members))
  BY DEF L!Forest, L!ForestFrom, L!KeyedList
<1> QED
  BY <1>1, <1>2, <1>3, <1>4

LEMMA SameComponents == \A members : L!AtomicComponents(members) = AtomicComponents(members)
BY SameForest, SameFound DEF L!AtomicComponents, AtomicComponents

-----------------------------------------------------------------------------
(* Lists *)

LEMMA ListProperties ==
  ASSUME NEW s, IsList(s)
  PROVE  /\ Len(s) \in Nat /\ DOMAIN s = 1..Len(s) /\ s = [k \in 1..Len(s) |-> s[k]]
         /\ Range(s) = {s[k] : k \in 1..Len(s)} /\ ToSet(s) = {s[k] : k \in 1..Len(s)}
         /\ s = <<>> <=> Len(s) = 0
<1>1. /\ Len(s) \in Nat /\ DOMAIN s = 1..Len(s) /\ s = [k \in 1..Len(s) |-> s[k]]
      /\ s = <<>> <=> Len(s) = 0
  BY SameLists, L!FileProperties
<1> QED
  BY <1>1 DEF Range, ToSet

LEMMA SequenceIsList ==
  ASSUME NEW X, NEW s \in Seq(X)
  PROVE  IsList(s)
BY SameLists, L!SequenceIsFile

LEMMA FunctionIsList ==
  ASSUME NEW n \in Nat, NEW f, f = [k \in 1..n |-> f[k]]
  PROVE  IsList(f) /\ Len(f) = n
BY SameLists, L!FunctionIsFile

\* A list of the values of a list.
LEMMA ListIsOver ==
  ASSUME NEW s, IsList(s), NEW X, \A k \in 1..Len(s) : s[k] \in X
  PROVE  s \in Seq(X)
<1>1. Range(s) \subseteq X
  BY ListProperties
<1>2. s \in Seq(Range(s))
  BY DEF IsList
<1> HIDE DEF IsList
<1> QED
  BY <1>1, <1>2, SeqMonotonic

LEMMA SameSize ==
  ASSUME NEW J, IsFiniteSet(J), NEW I, NEW pi, OneToOne(pi, J, I)
  PROVE  IsFiniteSet(I) /\ Cardinality(I) = Cardinality(J)
<1>1. pi \in Surjection(J, I) /\ pi \in Injection(J, I)
  BY DEF OneToOne, Surjection, Injection, IsInjective
<1> QED
  BY <1>1, FS_Surjection

LEMMA AllNaturals ==
  ASSUME NEW A, 0 \in A, \A n \in Nat : n \in A => n + 1 \in A
  PROVE  \A n \in Nat : n \in A
BY L!AllNaturals

\* InOrder lists every element of a set with distinct keys once.
LEMMA Ordered ==
  ASSUME NEW S, IsFiniteSet(S), NEW key, \A x \in S : key[x] \in Int,
         \A x, y \in S : x # y => key[x] # key[y]
  PROVE  LET order == InOrder(S, key)
         IN  /\ IsList(order) /\ Len(order) = Cardinality(S) /\ Len(order) \in Nat
             /\ Range(order) = S
             /\ \A p, q \in 1..Len(order) : order[p] = order[q] => p = q
<1> DEFINE order == InOrder(S, key)
<1>1. /\ IsList(order) /\ Len(order) = Cardinality(S)
      /\ \A p \in 1..Len(order) : order[p] \in S
      /\ \A p, q \in 1..Len(order) : order[p] = order[q] => p = q
      /\ \A x \in S : \E p \in 1..Len(order) : order[p] = x
  <2> DEFINE other == L!InOrder(S, key)
  <2>1. /\ L!IsFile(other) /\ Len(other) = L!Cardinality(S)
        /\ \A p \in 1..Len(other) : other[p] \in S
        /\ \A p, q \in 1..Len(other) : other[p] = other[q] => p = q
        /\ \A x \in S : \E p \in 1..Len(other) : other[p] = x
    <3>1. L!IsFiniteSet(S)
      BY DEF L!IsFiniteSet, IsFiniteSet
    <3> HIDE DEF other
    <3>2. other = L!InOrder(S, key)
      BY DEF other
    <3> QED
      BY <3>1, <3>2, L!Ordered
  <2>2. L!Cardinality(S) = Cardinality(S)
    BY DEF L!Cardinality, Cardinality
  <2> QED
    BY <2>1, <2>2, SameLists, SameInOrder
<1> HIDE DEF order
<1>2. Len(order) \in Nat /\ Range(order) = {order[p] : p \in 1..Len(order)}
  BY <1>1, ListProperties
<1> QED
  BY <1>1, <1>2 DEF order

\* Concatenating the lists of a list gives a list of their elements.
LEMMA Flattened ==
  ASSUME NEW seqs, IsList(seqs), \A k \in 1..Len(seqs) : IsList(seqs[k])
  PROVE  /\ IsList(FlattenSeq(seqs))
         /\ Range(FlattenSeq(seqs)) = UNION {Range(seqs[k]) : k \in 1..Len(seqs)}
<1> DEFINE X == UNION {Range(seqs[k]) : k \in 1..Len(seqs)}
<1>1. \A k \in 1..Len(seqs) : seqs[k] \in Seq(X)
  <2> TAKE k \in 1..Len(seqs)
  <2>1. \A j \in 1..Len(seqs[k]) : seqs[k][j] \in X
    BY ListProperties
  <2> QED
    BY <2>1, ListIsOver
<1>2. seqs \in Seq(Seq(X))
  BY <1>1, ListIsOver
<1> HIDE DEF X
<1>3. /\ FlattenSeq(seqs) \in Seq(X)
      /\ ToSet(FlattenSeq(seqs)) = UNION {ToSet(seqs[k]) : k \in 1..Len(seqs)}
  BY <1>2, L!Flattened, SameLists
<1>4. IsList(FlattenSeq(seqs))
  BY <1>3, SequenceIsList
<1>5. ToSet(FlattenSeq(seqs)) = Range(FlattenSeq(seqs))
      /\ \A k \in 1..Len(seqs) : ToSet(seqs[k]) = Range(seqs[k])
  BY <1>4, ListProperties
<1> QED
  BY <1>3, <1>4, <1>5


-----------------------------------------------------------------------------
(* Recursion over the subsets of a finite set, as SplitSnapshot_proofs has it. *)

Picks(pick, D) == \A s \in SUBSET D : s # {} => pick[s] \in s
Maps(op, D, W) == \A x \in D, w \in W : op[<<x, w>>] \in W
FoldsOver(iter, op, pick, b, D, W) ==
  iter \in [SUBSET D -> W] /\ \A s \in SUBSET D : iter[s] = IF s = {} THEN b ELSE op[<<pick[s], iter[s \ {pick[s]}]>>]

LEMMA SubsetRecursion ==
  ASSUME NEW D, IsFiniteSet(D), NEW W, NEW b \in W, NEW pick, NEW op,
         Picks(pick, D), Maps(op, D, W)
  PROVE  \E iter : FoldsOver(iter, op, pick, b, D, W)
<1>1. L!IsFiniteSet(D)
  BY DEF L!IsFiniteSet, IsFiniteSet
<1>2. L!Picks(pick, D) /\ L!Maps(op, D, W)
  BY DEF L!Picks, L!Maps, Picks, Maps
<1>3. \E iter : L!FoldsOver(iter, op, pick, b, D, W)
  BY <1>1, <1>2, L!SubsetRecursion
<1> QED
  BY <1>3 DEF L!FoldsOver, FoldsOver

TheGreatest(n) == [s \in SUBSET (1..n) |-> Max(s)]
FoldsInside(iter, start, E, n, W) ==
  /\ iter[{}] = start
  /\ \A s \in SUBSET (1..n) : s # {} /\ iter[s \ {Max(s)}] \in W
        => iter[s] = E[<<Max(s), iter[s \ {Max(s)}]>>]
Unrolls(g, start, E, n, W) ==
  /\ g[0] = start
  /\ \A k \in Nat : k < n => g[k + 1] = E[<<k + 1, g[k]>>]
  /\ \A k \in 0..n : g[k] \in W

LEMMA GreatestIsThere ==
  ASSUME NEW n \in Nat, NEW S, S \subseteq 1..n, S # {}
  PROVE  Max(S) \in S /\ \A t \in S : t <= Max(S)
<1>1. L!Max(S) \in S /\ \A t \in S : t <= L!Max(S)
  BY L!GreatestIsThere
<1> QED
  BY <1>1, SameLists

LEMMA ListFoldExists ==
  ASSUME NEW n \in Nat, NEW W, NEW start \in W, NEW E, Maps(E, 1..n, W)
  PROVE  \E it : FoldsOver(it, E, TheGreatest(n), start, 1..n, W)
<1>1. L!Maps(E, 1..n, W)
  BY DEF L!Maps, Maps
<1>2. \E it : L!FoldsOver(it, E, L!TheGreatest(n), start, 1..n, W)
  BY <1>1, L!ListFoldExists
<1>3. L!TheGreatest(n) = TheGreatest(n)
  BY SameLists DEF L!TheGreatest, TheGreatest
<1> QED
  BY <1>2, <1>3 DEF L!FoldsOver, FoldsOver

LEMMA ListFoldUnrolls ==
  ASSUME NEW n \in Nat, NEW W, NEW start \in W, NEW E, Maps(E, 1..n, W),
         NEW iter, FoldsInside(iter, start, E, n, W)
  PROVE  \E g : Unrolls(g, start, E, n, W) /\ g[n] = iter[1..n]
<1>1. L!Maps(E, 1..n, W)
  BY DEF L!Maps, Maps
<1>2. L!FoldsInside(iter, start, E, n, W)
  BY SameLists DEF L!FoldsInside, FoldsInside
<1>3. \E g : L!Unrolls(g, start, E, n, W) /\ g[n] = iter[1..n]
  BY <1>1, <1>2, L!ListFoldUnrolls
<1> QED
  BY <1>3 DEF L!Unrolls, Unrolls

-----------------------------------------------------------------------------
(* Sums: how many units the terms have together. *)

Units(f, D) == {p \in D \X (Nat \ {0}) : p[2] <= f[p[1]]}

\* The units of one term.
Column(x, n) == {x} \X (1..n)

LEMMA ColumnIsFinite ==
  ASSUME NEW x, NEW n \in Nat
  PROVE  IsFiniteSet(Column(x, n)) /\ Cardinality(Column(x, n)) = n
<1> DEFINE pi == [j \in 1..n |-> <<x, j>>]
<1>1. OneToOne(pi, 1..n, Column(x, n))
  BY DEF OneToOne, Column
<1>2. IsFiniteSet(1..n) /\ Cardinality(1..n) = n
  BY FS_Interval
<1> HIDE DEF pi
<1> QED
  BY <1>1, <1>2, SameSize

\* Taking one term away takes its units away.
LEMMA UnitsWithout ==
  ASSUME NEW s, NEW x \in s, NEW f, \A y \in s : f[y] \in Nat
  PROVE  /\ Units(f, s) = Units(f, s \ {x}) \cup Column(x, f[x])
         /\ Units(f, s \ {x}) \cap Column(x, f[x]) = {}
<1>1. ASSUME NEW p \in Units(f, s)
      PROVE  p \in Units(f, s \ {x}) \cup Column(x, f[x])
  <2>1. p \in s \X (Nat \ {0}) /\ p[1] \in s /\ p[2] \in Nat \ {0} /\ p[2] <= f[p[1]] /\ p = <<p[1], p[2]>>
    BY DEF Units
  <2>2. CASE p[1] = x
    BY <2>1, <2>2 DEF Column
  <2>3. CASE p[1] # x
    BY <2>1, <2>3 DEF Units
  <2> QED
    BY <2>2, <2>3
<1>2. ASSUME NEW p \in Column(x, f[x]) PROVE p \in Units(f, s) /\ p \notin Units(f, s \ {x})
  <2>1. p \in s \X (Nat \ {0}) /\ p[1] = x /\ p[2] \in 1..f[x]
    BY DEF Column
  <2> QED
    BY <2>1 DEF Units
<1>3. Units(f, s \ {x}) \subseteq Units(f, s)
  BY DEF Units
<1> QED
  BY <1>1, <1>2, <1>3

LEMMA DisjointSizes ==
  ASSUME NEW A, IsFiniteSet(A), NEW B, IsFiniteSet(B), A \cap B = {}
  PROVE  /\ IsFiniteSet(A \cup B) /\ Cardinality(A) \in Nat /\ Cardinality(B) \in Nat
         /\ Cardinality(A \cup B) = Cardinality(A) + Cardinality(B)
<1>1. Cardinality(A \cap B) = 0
  BY FS_EmptySet
<1>2. /\ IsFiniteSet(A \cup B)
      /\ Cardinality(A \cup B) = Cardinality(A) + Cardinality(B) - Cardinality(A \cap B)
  BY FS_Union
<1>3. Cardinality(A) \in Nat /\ Cardinality(B) \in Nat
  BY FS_CardinalityType
<1> QED
  BY <1>1, <1>2, <1>3

LEMMA OneLess ==
  ASSUME NEW s, IsFiniteSet(s), NEW x \in s, NEW n \in Nat, Cardinality(s) = n + 1
  PROVE  Cardinality(s \ {x}) = n
<1>1. Cardinality(s \ {x}) = Cardinality(s) - 1
  BY FS_RemoveElement
<1> QED
  BY <1>1

\* A sum of natural numbers counts units.
LEMMA SumIsCount ==
  ASSUME NEW D, IsFiniteSet(D), NEW f \in [D -> Nat]
  PROVE  IsFiniteSet(Units(f, D)) /\ SumFunction(f) = Cardinality(Units(f, D))
<1> DEFINE pick == [s \in SUBSET D |-> CHOOSE x \in s : TRUE]
           op == [p \in D \X Nat |-> f[p[1]] + p[2]]
           iter[s \in SUBSET D] ==
             IF s = {} THEN 0
             ELSE LET x == CHOOSE x \in s : TRUE IN f[x] + iter[s \ {x}]
<1>1. SumFunction(f) = iter[D]
  <2>1. DOMAIN f = D
    OBVIOUS
  <2>2. SumFunction(f) = MapThenFoldSet(+, 0, LAMBDA i : f[i], LAMBDA s : CHOOSE x \in s : TRUE, D)
    BY <2>1 DEF SumFunction, SumFunctionOnSet, FoldFunctionOnSet
  <2> QED
    BY <2>2 DEF MapThenFoldSet
<1>2. Picks(pick, D)
  BY DEF Picks
<1>3. Maps(op, D, Nat)
  BY DEF Maps
<1>4. PICK it : FoldsOver(it, op, pick, 0, D, Nat)
  <2> HIDE DEF pick, op
  <2> QED
    BY <1>2, <1>3, SubsetRecursion
<1>5. ASSUME NEW s \in SUBSET D
      PROVE  it[s] = IF s = {} THEN 0 ELSE LET x == CHOOSE x \in s : TRUE IN f[x] + it[s \ {x}]
  <2>1. CASE s = {}
    BY <1>4, <2>1 DEF FoldsOver
  <2>2. CASE s # {}
    <3>1. pick[s] \in D /\ it[s \ {pick[s]}] \in Nat /\ pick[s] = CHOOSE x \in s : TRUE
      BY <1>4, <2>2 DEF FoldsOver
    <3>2. it[s] = op[<<pick[s], it[s \ {pick[s]}]>>]
      <4> HIDE DEF op, pick
      <4> QED
        BY <1>4, <2>2 DEF FoldsOver
    <3>3. op[<<pick[s], it[s \ {pick[s]}]>>] = f[pick[s]] + it[s \ {pick[s]}]
      <4> HIDE DEF pick
      <4> QED
        BY <3>1
    <3> QED
      BY <2>2, <3>1, <3>2, <3>3
  <2> QED
    BY <2>1, <2>2
<1>6. it = [s \in SUBSET D |-> IF s = {} THEN 0 ELSE LET x == CHOOSE x \in s : TRUE IN f[x] + it[s \ {x}]]
  <2> HIDE DEF op, pick
  <2> QED
    BY <1>4, <1>5 DEF FoldsOver
<1>7. iter = [s \in SUBSET D |-> IF s = {} THEN 0 ELSE LET x == CHOOSE x \in s : TRUE IN f[x] + iter[s \ {x}]]
  <2>1. \E g : g = [s \in SUBSET D |-> IF s = {} THEN 0 ELSE LET x == CHOOSE x \in s : TRUE IN f[x] + g[s \ {x}]]
    BY <1>6, Zenon
  <2> QED
    BY <2>1, Zenon DEF iter
<1> HIDE DEF iter, pick, op
<1> DEFINE A == {n \in Nat : \A s \in SUBSET D : Cardinality(s) = n =>
                    IsFiniteSet(Units(f, s)) /\ iter[s] = Cardinality(Units(f, s))}
<1>8. 0 \in A
  <2> SUFFICES ASSUME NEW s \in SUBSET D, Cardinality(s) = 0
               PROVE  IsFiniteSet(Units(f, s)) /\ iter[s] = Cardinality(Units(f, s))
    OBVIOUS
  <2>1. s = {}
    BY FS_Subset, FS_EmptySet
  <2>2. Units(f, s) = {}
    BY <2>1 DEF Units
  <2>3. iter[s] = 0
    BY <1>7, <2>1
  <2> QED
    BY <2>2, <2>3, FS_EmptySet
<1>9. ASSUME NEW n \in Nat, n \in A PROVE n + 1 \in A
  <2> SUFFICES ASSUME NEW s \in SUBSET D, Cardinality(s) = n + 1
               PROVE  IsFiniteSet(Units(f, s)) /\ iter[s] = Cardinality(Units(f, s))
    OBVIOUS
  <2> DEFINE x == CHOOSE x \in s : TRUE
  <2>1. IsFiniteSet(s) /\ s # {}
    BY FS_Subset, FS_EmptySet
  <2>2. x \in s /\ f[x] \in Nat
    BY <2>1
  <2>3. iter[s] = f[x] + iter[s \ {x}]
    BY <1>7, <2>1
  <2> HIDE DEF x
  <2>4. Cardinality(s \ {x}) = n
    BY <2>1, <2>2, OneLess
  <2>5. IsFiniteSet(Units(f, s \ {x})) /\ iter[s \ {x}] = Cardinality(Units(f, s \ {x}))
    BY <1>9, <2>4
  <2>6. /\ Units(f, s) = Units(f, s \ {x}) \cup Column(x, f[x])
        /\ Units(f, s \ {x}) \cap Column(x, f[x]) = {}
    BY <2>2, UnitsWithout
  <2>7. IsFiniteSet(Column(x, f[x])) /\ Cardinality(Column(x, f[x])) = f[x]
    BY <2>2, ColumnIsFinite
  <2>8. IsFiniteSet(Units(f, s)) /\ Cardinality(Units(f, s)) = Cardinality(Units(f, s \ {x})) + f[x]
    <3>1. LET both == Units(f, s \ {x}) \cup Column(x, f[x])
          IN  IsFiniteSet(both) /\ Cardinality(both) = Cardinality(Units(f, s \ {x})) + f[x]
      BY <2>5, <2>6, <2>7, DisjointSizes
    <3> QED
      BY <2>6, <3>1
  <2> QED
    BY <2>2, <2>3, <2>5, <2>8, FS_CardinalityType
<1>10. Cardinality(D) \in A
  <2> HIDE DEF A
  <2> QED
    BY <1>8, <1>9, AllNaturals, FS_CardinalityType
<1> QED
  BY <1>1, <1>10

LEMMA SumIsNatural ==
  ASSUME NEW D, IsFiniteSet(D), NEW f \in [D -> Nat]
  PROVE  SumFunction(f) \in Nat
BY SumIsCount, FS_CardinalityType

\* A sum is what one term and the others add up to.
LEMMA SumWithout ==
  ASSUME NEW D, IsFiniteSet(D), NEW f \in [D -> Nat], NEW x \in D
  PROVE  SumFunction(f) = f[x] + SumFunction([y \in D \ {x} |-> f[y]])
<1> DEFINE g == [y \in D \ {x} |-> f[y]]
<1>1. IsFiniteSet(D \ {x}) /\ g \in [D \ {x} -> Nat]
  BY FS_RemoveElement
<1>2. Units(g, D \ {x}) = Units(f, D \ {x})
  BY DEF Units
<1> HIDE DEF g
<1>3. SumFunction(g) = Cardinality(Units(f, D \ {x})) /\ IsFiniteSet(Units(f, D \ {x}))
  BY <1>1, <1>2, SumIsCount
<1>4. f[x] \in Nat /\ \A y \in D : f[y] \in Nat
  OBVIOUS
<1>5. /\ Units(f, D) = Units(f, D \ {x}) \cup Column(x, f[x])
      /\ Units(f, D \ {x}) \cap Column(x, f[x]) = {}
  BY <1>4, UnitsWithout
<1>6. Cardinality(Units(f, D)) = Cardinality(Units(f, D \ {x})) + f[x]
  <2>1. IsFiniteSet(Column(x, f[x])) /\ Cardinality(Column(x, f[x])) = f[x]
    BY <1>4, ColumnIsFinite
  <2> QED
    BY <1>3, <1>5, <2>1, DisjointSizes
<1>7. SumFunction(f) = Cardinality(Units(f, D))
  BY SumIsCount
<1>8. Cardinality(Units(f, D \ {x})) \in Nat
  BY <1>3, FS_CardinalityType
<1> QED
  BY <1>3, <1>4, <1>6, <1>7, <1>8 DEF g

\* The other terms.
Others(f, D, x) == [y \in D \ {x} |-> f[y]]

LEMMA SumOfOthers ==
  ASSUME NEW D, IsFiniteSet(D), NEW f \in [D -> Nat], NEW x \in D
  PROVE  SumFunction(f) = f[x] + SumFunction(Others(f, D, x))
BY SumWithout DEF Others

\* Each term of one sum is a term of the other.
Renames(pi, f, D, g, E) ==
  OneToOne(pi, D, E) /\ \A x \in D : g[pi[x]] = f[x]

\* The order and the names of the terms do not matter.
LEMMA SumRenamed ==
  ASSUME NEW D, IsFiniteSet(D), NEW f \in [D -> Nat], NEW E, NEW g \in [E -> Nat],
         NEW pi, Renames(pi, f, D, g, E)
  PROVE  SumFunction(g) = SumFunction(f)
<1> DEFINE rho == [p \in Units(f, D) |-> <<pi[p[1]], p[2]>>]
<1>0. OneToOne(pi, D, E) /\ \A x \in D : g[pi[x]] = f[x]
  BY DEF Renames
<1>1. IsFiniteSet(E)
  BY <1>0, SameSize
<1>2. OneToOne(rho, Units(f, D), Units(g, E))
  <2>1. ASSUME NEW p \in Units(f, D)
        PROVE  /\ p[1] \in D /\ p[2] \in Nat \ {0} /\ p = <<p[1], p[2]>>
               /\ rho[p] = <<pi[p[1]], p[2]>> /\ rho[p] \in Units(g, E)
    BY <1>0 DEF Units, OneToOne
  <2>2. ASSUME NEW p \in Units(f, D), NEW q \in Units(f, D), rho[p] = rho[q] PROVE p = q
    BY <1>0, <2>1, <2>2 DEF OneToOne
  <2>3. ASSUME NEW q \in Units(g, E) PROVE \E p \in Units(f, D) : rho[p] = q
    <3>1. q[1] \in E /\ q[2] \in Nat \ {0} /\ q[2] <= g[q[1]] /\ q = <<q[1], q[2]>>
      BY DEF Units
    <3>2. PICK x \in D : pi[x] = q[1]
      BY <1>0, <3>1 DEF OneToOne
    <3>3. <<x, q[2]>> \in Units(f, D)
      BY <1>0, <3>1, <3>2 DEF Units
    <3> QED
      BY <2>1, <3>1, <3>2, <3>3
  <2>4. rho \in [Units(f, D) -> Units(g, E)]
    BY <2>1
  <2> HIDE DEF rho
  <2> QED
    BY <2>2, <2>3, <2>4 DEF OneToOne
<1>3. IsFiniteSet(Units(f, D)) /\ SumFunction(f) = Cardinality(Units(f, D))
  BY SumIsCount
<1>4. SumFunction(g) = Cardinality(Units(g, E))
  BY <1>1, SumIsCount
<1> HIDE DEF rho
<1> QED
  BY <1>2, <1>3, <1>4, SameSize

\* Greater terms have a greater sum.
LEMMA SumGrows ==
  ASSUME NEW D, IsFiniteSet(D), NEW f \in [D -> Nat], NEW g \in [D -> Nat],
         \A x \in D : f[x] <= g[x], NEW y \in D, f[y] < g[y]
  PROVE  SumFunction(f) < SumFunction(g)
<1>1. Units(f, D) \subseteq Units(g, D)
  BY DEF Units
<1>2. <<y, g[y]>> \in Units(g, D) /\ <<y, g[y]>> \notin Units(f, D)
  BY DEF Units
<1>3. /\ IsFiniteSet(Units(f, D)) /\ SumFunction(f) = Cardinality(Units(f, D))
      /\ IsFiniteSet(Units(g, D)) /\ SumFunction(g) = Cardinality(Units(g, D))
  BY SumIsCount
<1>4. Cardinality(Units(f, D)) <= Cardinality(Units(g, D)) /\ Cardinality(Units(f, D)) # Cardinality(Units(g, D))
  BY <1>1, <1>2, <1>3, FS_Subset
<1>5. Cardinality(Units(f, D)) \in Nat /\ Cardinality(Units(g, D)) \in Nat
  BY <1>3, FS_CardinalityType
<1> QED
  BY <1>3, <1>4, <1>5

\* A factor common to the terms is a factor of the sum.
LEMMA SumScaled ==
  ASSUME NEW D, IsFiniteSet(D), NEW f \in [D -> Nat], NEW c \in Nat
  PROVE  SumFunction([x \in D |-> c * f[x]]) = c * SumFunction(f)
<1> DEFINE A == {n \in Nat : \A s \in SUBSET D : Cardinality(s) = n =>
                   SumFunction([x \in s |-> c * f[x]]) = c * SumFunction([x \in s |-> f[x]])}
<1>0. ASSUME NEW s \in SUBSET D
      PROVE  /\ IsFiniteSet(s) /\ [x \in s |-> f[x]] \in [s -> Nat]
             /\ [x \in s |-> c * f[x]] \in [s -> Nat]
  <2>1. \A x \in s : c * f[x] \in Nat
    OBVIOUS
  <2> QED
    BY <2>1, FS_Subset
<1>1. 0 \in A
  <2> SUFFICES ASSUME NEW s \in SUBSET D, Cardinality(s) = 0
               PROVE  SumFunction([x \in s |-> c * f[x]]) = c * SumFunction([x \in s |-> f[x]])
    OBVIOUS
  <2>1. s = {} /\ [x \in s |-> c * f[x]] = [x \in s |-> f[x]]
    BY <1>0, FS_EmptySet
  <2>2. Units([x \in s |-> f[x]], s) = {}
    BY <2>1 DEF Units
  <2>3. SumFunction([x \in s |-> f[x]]) = 0
    <3>1. IsFiniteSet(s) /\ [x \in s |-> f[x]] \in [s -> Nat]
      BY <1>0
    <3> DEFINE h == [x \in s |-> f[x]]
    <3>2. h \in [s -> Nat] /\ Units(h, s) = {}
      BY <2>2, <3>1
    <3> HIDE DEF h
    <3>3. SumFunction(h) = 0
      BY <3>1, <3>2, SumIsCount, FS_EmptySet
    <3> QED
      BY <3>3 DEF h
  <2> QED
    BY <2>1, <2>3
<1>2. ASSUME NEW n \in Nat, n \in A PROVE n + 1 \in A
  <2> SUFFICES ASSUME NEW s \in SUBSET D, Cardinality(s) = n + 1
               PROVE  SumFunction([x \in s |-> c * f[x]]) = c * SumFunction([x \in s |-> f[x]])
    OBVIOUS
  <2>1. IsFiniteSet(s) /\ s # {}
    BY <1>0, FS_EmptySet
  <2>2. PICK x \in s : TRUE
    BY <2>1
  <2> DEFINE t == s \ {x}
             all == [y \in s |-> f[y]]
             most == [y \in t |-> f[y]]
             scaled == [y \in s |-> c * f[y]]
             rest == [y \in t |-> c * f[y]]
  <2>3. t \in SUBSET D /\ Cardinality(t) = n
    BY <2>1, OneLess
  <2>4. SumFunction(rest) = c * SumFunction(most)
    BY <1>2, <2>3
  <2>5. SumFunction(all) = f[x] + SumFunction(most)
    <3>1. all \in [s -> Nat] /\ all[x] = f[x] /\ Others(all, s, x) = most
      BY DEF Others
    <3>0. IsFiniteSet(s) /\ x \in s
      BY <2>1
    <3> HIDE DEF all, most, A
    <3>2. SumFunction(all) = all[x] + SumFunction(Others(all, s, x))
      BY <3>0, <3>1, SumOfOthers
    <3> QED
      BY <3>1, <3>2
  <2>6. SumFunction(scaled) = c * f[x] + SumFunction(rest)
    <3>1. scaled \in [s -> Nat] /\ scaled[x] = c * f[x] /\ Others(scaled, s, x) = rest
      BY <1>0 DEF Others
    <3>0. IsFiniteSet(s) /\ x \in s
      BY <2>1
    <3> HIDE DEF scaled, rest, A
    <3>2. SumFunction(scaled) = scaled[x] + SumFunction(Others(scaled, s, x))
      BY <3>0, <3>1, SumOfOthers
    <3> QED
      BY <3>1, <3>2
  <2>7. SumFunction(most) \in Nat /\ f[x] \in Nat
    BY <1>0, <2>3, SumIsNatural
  <2> HIDE DEF all, most, scaled, rest
  <2>8. SumFunction(scaled) = c * SumFunction(all)
    BY <2>4, <2>5, <2>6, <2>7
  <2> QED
    BY <2>8 DEF all, scaled
<1>3. Cardinality(D) \in A
  <2> HIDE DEF A
  <2> QED
    BY <1>1, <1>2, AllNaturals, FS_CardinalityType
<1>4. [x \in D |-> f[x]] = f
  OBVIOUS
<1> QED
  BY <1>3, <1>4

-----------------------------------------------------------------------------
(* Components and their anchors *)

Around(records, k) == L!Reach(records, k)

LEMMA ComponentsAreClosures ==
  ASSUME NEW X, NEW records \in Seq(X)
  PROVE  /\ AtomicComponents(records) = {Around(records, k) : k \in 1..Len(records)}
         /\ ConnectedComponents(records) = {Around(records, k) : k \in 1..Len(records)}
<1>1. L!ConnectedComponents(records) = {L!Reach(records, k) : k \in 1..Len(records)}
  BY DEF L!ConnectedComponents, L!Reach, L!Near, L!Items
<1>2. L!AtomicComponents(records) = L!ConnectedComponents(records)
  BY L!ComponentsAreConnected
<1> QED
  BY <1>1, <1>2, SameComponents, SameConnected DEF Around

\* The least set around an item that holds every item sharing a key with one of it.
LEMMA AroundIsClosure ==
  ASSUME NEW X, NEW records \in Seq(X), NEW k0 \in 1..Len(records)
  PROVE  /\ k0 \in Around(records, k0) /\ Around(records, k0) \subseteq 1..Len(records)
         /\ \A k \in Around(records, k0), j \in 1..Len(records) :
               Shares(records[j], records[k]) => j \in Around(records, k0)
         /\ \A S \in SUBSET (1..Len(records)) :
               k0 \in S /\ (\A k \in S, j \in 1..Len(records) : Shares(records[j], records[k]) => j \in S)
                  => Around(records, k0) \subseteq S
<1>1. k0 \in L!Items(records)
  BY DEF L!Items
<1>2. /\ k0 \in L!Reach(records, k0) /\ L!Closed(records, L!Reach(records, k0))
      /\ \A S : L!Closed(records, S) /\ k0 \in S => L!Reach(records, k0) \subseteq S
  BY <1>1, L!ReachIsClosure
<1>3. ASSUME NEW S
      PROVE  L!Closed(records, S) <=>
                S \subseteq 1..Len(records)
                /\ \A k \in S, j \in 1..Len(records) : Shares(records[j], records[k]) => j \in S
  <2>1. \A a, b : L!Shares(a, b) <=> Shares(a, b)
    BY SameShares
  <2> QED
    BY <2>1 DEF L!Closed, L!Near, L!Items
<1> QED
  BY <1>2, <1>3 DEF Around

LEMMA ComponentsAreClasses ==
  ASSUME NEW X, NEW records \in Seq(X)
  PROVE  /\ \A c \in AtomicComponents(records) : c # {} /\ c \subseteq 1..Len(records)
         /\ \A c, d \in AtomicComponents(records) : \A k : k \in c /\ k \in d => c = d
         /\ \A k \in 1..Len(records) : \E c \in AtomicComponents(records) : k \in c
         /\ \A c \in AtomicComponents(records) : \A k \in c, j \in 1..Len(records) :
               Shares(records[j], records[k]) => j \in c
<1>1. /\ \A c \in AtomicComponents(records) : c # {} /\ c \subseteq 1..Len(records)
      /\ \A c, d \in AtomicComponents(records) : \A k : k \in c /\ k \in d => c = d
      /\ \A k \in 1..Len(records) : \E c \in AtomicComponents(records) : k \in c
  <2>1. /\ \A c \in L!AtomicComponents(records) : c # {} /\ c \subseteq 1..Len(records)
        /\ \A c, d \in L!AtomicComponents(records) : \A k : k \in c /\ k \in d => c = d
        /\ \A k \in 1..Len(records) : \E c \in L!AtomicComponents(records) : k \in c
    BY L!ComponentsAreClasses
  <2> QED
    BY <2>1, SameComponents
<1>2. ASSUME NEW c \in AtomicComponents(records), NEW k \in c, NEW j \in 1..Len(records),
             Shares(records[j], records[k])
      PROVE  j \in c
  <2>1. PICK k0 \in 1..Len(records) : c = Around(records, k0)
    BY ComponentsAreClosures
  <2> QED
    BY <1>2, <2>1, AroundIsClosure
<1> QED
  BY <1>1, <1>2

\* Members that are alike in what components are made of have the same ones.
LEMMA SameKeys ==
  ASSUME NEW X, NEW members \in Seq(X), NEW Y, NEW records \in Seq(Y),
         Len(records) = Len(members),
         \A k \in 1..Len(members) : /\ records[k].lineage = members[k].lineage
                                    /\ records[k].content = members[k].content
                                    /\ records[k].group = members[k].group
  PROVE  ConnectedComponents(members) = AtomicComponents(records)
<1> DEFINE n == Len(members)
<1>1. \A j, k \in 1..n : Shares(records[j], records[k]) <=> Shares(members[j], members[k])
  BY DEF Shares
<1>2. ASSUME NEW k0 \in 1..n PROVE Around(records, k0) = Around(members, k0)
  <2>1. Around(records, k0) \subseteq Around(members, k0)
    <3>1. /\ k0 \in Around(members, k0) /\ Around(members, k0) \subseteq 1..n
          /\ \A k \in Around(members, k0), j \in 1..n :
                Shares(members[j], members[k]) => j \in Around(members, k0)
      BY AroundIsClosure
    <3>2. \A k \in Around(members, k0), j \in 1..n :
                Shares(records[j], records[k]) => j \in Around(members, k0)
      BY <1>1, <3>1
    <3> QED
      BY <3>1, <3>2, AroundIsClosure
  <2>2. Around(members, k0) \subseteq Around(records, k0)
    <3>1. /\ k0 \in Around(records, k0) /\ Around(records, k0) \subseteq 1..n
          /\ \A k \in Around(records, k0), j \in 1..n :
                Shares(records[j], records[k]) => j \in Around(records, k0)
      BY AroundIsClosure
    <3>2. \A k \in Around(records, k0), j \in 1..n :
                Shares(members[j], members[k]) => j \in Around(records, k0)
      BY <1>1, <3>1
    <3> QED
      BY <3>1, <3>2, AroundIsClosure
  <2> QED
    BY <2>1, <2>2
<1>3. /\ AtomicComponents(records) = {Around(records, k) : k \in 1..Len(records)}
      /\ ConnectedComponents(members) = {Around(members, k) : k \in 1..Len(members)}
  BY ComponentsAreClosures
<1>4. {Around(records, k) : k \in 1..n} = {Around(members, k) : k \in 1..n}
  BY <1>2
<1> QED
  BY <1>3, <1>4

\* A record that can name a component.
IsNamed(r) == r.lineage \in Int /\ (r.group # Absent => r.group \in Int)

NamesOf(r) == {<<"lineage", r.lineage>>} \cup (IF r.group = Absent THEN {} ELSE {<<"group", r.group>>})

ReachesLeast(c, f) == \E k \in c : Least({f[j] : j \in c}) = f[k]

LEMMA LeastIsThere ==
  ASSUME NEW n \in Nat, NEW c, c \subseteq 1..n, c # {}, NEW f, \A k \in c : f[k] \in Int
  PROVE  ReachesLeast(c, f)
<1>1. \E k \in c : L!Least({f[j] : j \in c}) = f[k]
  BY L!LeastIsThere
<1>2. \A S : L!Least(S) = Least(S)
  BY DEF L!Least, Least
<1> QED
  BY <1>1, <1>2 DEF ReachesLeast

\* A component is named after one of its records.
LEMMA AnchorIsAName ==
  ASSUME NEW n \in Nat, NEW records, \A k \in 1..n : IsNamed(records[k]),
         NEW c, c \subseteq 1..n, c # {}
  PROVE  \E k \in c : ComponentAnchor(records, c) \in NamesOf(records[k])
<1> DEFINE groups == {records[k].group : k \in c} \ {Absent}
           grouped == {k \in c : records[k].group # Absent}
           lineageOf == [k \in c |-> records[k].lineage]
           groupOf == [k \in grouped |-> records[k].group]
<1>1. CASE groups # {}
  <2>1. grouped # {} /\ grouped \subseteq 1..n
    BY <1>1
  <2>2. \A k \in grouped : groupOf[k] \in Int /\ groupOf[k] = records[k].group /\ k \in c
                           /\ records[k].group # Absent
    BY DEF IsNamed
  <2>3. groups = {groupOf[k] : k \in grouped}
    OBVIOUS
  <2> HIDE DEF groups, grouped, groupOf
  <2>4. PICK k \in grouped : Least({groupOf[j] : j \in grouped}) = groupOf[k]
    <3>1. \A k \in grouped : groupOf[k] \in Int
      BY <2>2
    <3>2. ReachesLeast(grouped, groupOf)
      BY <2>1, <3>1, LeastIsThere
    <3> QED
      BY <3>2 DEF ReachesLeast
  <2>5. ComponentAnchor(records, c) = <<"group", Least(groups)>>
    BY <1>1 DEF ComponentAnchor, groups
  <2>6. ComponentAnchor(records, c) = <<"group", records[k].group>>
    BY <2>2, <2>3, <2>4, <2>5
  <2>7. k \in c /\ records[k].group # Absent
    BY <2>2
  <2> QED
    BY <2>6, <2>7 DEF NamesOf
<1>2. CASE groups = {}
  <2>1. \A k \in c : lineageOf[k] \in Int /\ lineageOf[k] = records[k].lineage
    BY DEF IsNamed
  <2>2. {records[k].lineage : k \in c} = {lineageOf[k] : k \in c}
    OBVIOUS
  <2>3. ComponentAnchor(records, c) = <<"lineage", Least({records[k].lineage : k \in c})>>
    BY <1>2 DEF ComponentAnchor
  <2> HIDE DEF lineageOf
  <2>4. PICK k \in c : Least({lineageOf[j] : j \in c}) = lineageOf[k]
    <3>1. \A k \in c : lineageOf[k] \in Int
      BY <2>1
    <3>2. ReachesLeast(c, lineageOf)
      BY <3>1, LeastIsThere
    <3> QED
      BY <3>2 DEF ReachesLeast
  <2>5. ComponentAnchor(records, c) = <<"lineage", records[k].lineage>>
    BY <2>1, <2>2, <2>3, <2>4
  <2> QED
    BY <2>5 DEF NamesOf
<1> QED
  BY <1>1, <1>2

\* Records with a name in common share a key.
LEMMA NameIsShared ==
  ASSUME NEW a, NEW b, NEW name, name \in NamesOf(a), name \in NamesOf(b)
  PROVE  Shares(a, b)
<1>1. "lineage" # "group"
  OBVIOUS
<1>2. CASE name = <<"lineage", a.lineage>>
  <2>1. name = <<"lineage", b.lineage>>
    BY <1>1, <1>2 DEF NamesOf
  <2> QED
    BY <1>2, <2>1 DEF Shares
<1>3. CASE name # <<"lineage", a.lineage>>
  <2>1. name = <<"group", a.group>> /\ a.group # Absent
    BY <1>3 DEF NamesOf
  <2>2. name = <<"group", b.group>>
    BY <1>1, <2>1 DEF NamesOf
  <2> QED
    BY <2>1, <2>2 DEF Shares
<1> QED
  BY <1>2, <1>3

\* Two components never have the same anchor.
LEMMA AnchorsDiffer ==
  ASSUME NEW X, NEW records \in Seq(X), \A k \in 1..Len(records) : IsNamed(records[k]),
         NEW c \in AtomicComponents(records), NEW d \in AtomicComponents(records),
         ComponentAnchor(records, c) = ComponentAnchor(records, d)
  PROVE  c = d
<1>1. Len(records) \in Nat
  OBVIOUS
<1>2. c # {} /\ d # {} /\ c \subseteq 1..Len(records) /\ d \subseteq 1..Len(records)
  BY ComponentsAreClasses
<1>3. PICK k \in c : ComponentAnchor(records, c) \in NamesOf(records[k])
  BY <1>1, <1>2, AnchorIsAName
<1>4. PICK j \in d : ComponentAnchor(records, d) \in NamesOf(records[j])
  BY <1>1, <1>2, AnchorIsAName
<1>5. Shares(records[j], records[k])
  BY <1>3, <1>4, NameIsShared
<1>6. j \in c
  BY <1>2, <1>5, ComponentsAreClasses
<1> QED
  BY <1>6, ComponentsAreClasses

-----------------------------------------------------------------------------
(* Lists without repetition *)

Once(s) == \A i, j \in 1..Len(s) : s[i] = s[j] => i = j

LEMMA EmptyIsOnce ==
  IsList(<<>>) /\ Once(<<>>) /\ Range(<<>>) = {} /\ Len(<<>>) = 0
<1>1. IsList(<<>>) /\ Len(<<>>) = 0
  BY DEF IsList
<1> QED
  BY <1>1, ListProperties DEF Once

LEMMA Appended ==
  ASSUME NEW s, IsList(s), NEW t, IsList(t)
  PROVE  /\ IsList(s \o t) /\ Range(s \o t) = Range(s) \cup Range(t)
         /\ Once(s) /\ Once(t) /\ Range(s) \cap Range(t) = {} => Once(s \o t)
<1>1. /\ IsList(s \o t) /\ Len(s \o t) = Len(s) + Len(t)
      /\ \A k \in 1..Len(s) + Len(t) :
            (s \o t)[k] = IF k <= Len(s) THEN s[k] ELSE t[k - Len(s)]
  BY SameLists, L!Concatenated
<1>2. /\ Len(s) \in Nat /\ Range(s) = {s[k] : k \in 1..Len(s)}
      /\ Len(t) \in Nat /\ Range(t) = {t[k] : k \in 1..Len(t)}
      /\ Range(s \o t) = {(s \o t)[k] : k \in 1..Len(s \o t)}
  BY <1>1, ListProperties
<1> DEFINE u == s \o t
<1>3. Len(u) = Len(s) + Len(t) /\ \A k \in 1..Len(s) + Len(t) :
            u[k] = IF k <= Len(s) THEN s[k] ELSE t[k - Len(s)]
  BY <1>1
<1>4. Range(u) = {u[k] : k \in 1..Len(u)}
  BY <1>2
<1> HIDE DEF u
<1>5. ASSUME NEW k \in 1..Len(u) PROVE u[k] \in Range(s) \cup Range(t)
  BY <1>2, <1>3
<1>6. ASSUME NEW x \in Range(s) PROVE x \in Range(u)
  <2>1. PICK k \in 1..Len(s) : x = s[k]
    BY <1>2
  <2>2. k \in 1..Len(u) /\ u[k] = x
    BY <1>2, <1>3, <2>1
  <2> QED
    BY <1>4, <2>2
<1>7. ASSUME NEW x \in Range(t) PROVE x \in Range(u)
  <2>1. PICK k \in 1..Len(t) : x = t[k]
    BY <1>2
  <2>2. k + Len(s) \in 1..Len(u) /\ u[k + Len(s)] = x
    BY <1>2, <1>3, <2>1
  <2> QED
    BY <1>4, <2>2
<1>8. Range(u) = Range(s) \cup Range(t)
  BY <1>4, <1>5, <1>6, <1>7
<1>9. ASSUME Once(s), Once(t), Range(s) \cap Range(t) = {},
             NEW i \in 1..Len(u), NEW j \in 1..Len(u), u[i] = u[j]
      PROVE  i = j
  <2>1. /\ i <= Len(s) => u[i] = s[i] /\ i \in 1..Len(s) /\ u[i] \in Range(s)
        /\ j <= Len(s) => u[j] = s[j] /\ j \in 1..Len(s) /\ u[j] \in Range(s)
    BY <1>2, <1>3
  <2>2. /\ ~(i <= Len(s)) => u[i] = t[i - Len(s)] /\ i - Len(s) \in 1..Len(t) /\ u[i] \in Range(t)
        /\ ~(j <= Len(s)) => u[j] = t[j - Len(s)] /\ j - Len(s) \in 1..Len(t) /\ u[j] \in Range(t)
    BY <1>2, <1>3
  <2>3. CASE i <= Len(s) /\ j <= Len(s)
    BY <1>9, <2>1, <2>3 DEF Once
  <2>4. CASE ~(i <= Len(s)) /\ ~(j <= Len(s))
    <3>1. i - Len(s) = j - Len(s)
      BY <1>9, <2>2, <2>4 DEF Once
    <3> QED
      BY <1>2, <3>1
  <2>5. CASE (i <= Len(s) /\ ~(j <= Len(s))) \/ (~(i <= Len(s)) /\ j <= Len(s))
    BY <1>9, <2>1, <2>2, <2>5
  <2> QED
    BY <2>3, <2>4, <2>5
<1> QED
  BY <1>1, <1>8, <1>9 DEF u, Once

-----------------------------------------------------------------------------
(* Groups *)

GroupOf(records, component) ==
  LET own == InIndexOrder(records, component)
      truncated == \E k \in 1..Len(own) : own[k].truncated
  IN  [anchor |-> ComponentAnchor(records, component), records |-> own,
       truncated |-> truncated, tokens |-> IF truncated THEN 0 ELSE SumOfTokens(own)]

LEMMA GroupsOfComponents ==
  \A records : AtomicGroups(records) = {GroupOf(records, c) : c \in AtomicComponents(records)}
BY DEF AtomicGroups, GroupOf

\* What the selection works with.
IsCounted(r) == IsNamed(r) /\ r.tokens \in Nat /\ r.truncated \in BOOLEAN

LEMMA IndexesInOrder ==
  ASSUME NEW n \in Nat, NEW c, c \subseteq 1..n
  PROVE  LET order == InOrder(c, [k \in c |-> k])
         IN  /\ IsList(order) /\ Len(order) = Cardinality(c) /\ Len(order) \in Nat
             /\ Range(order) = c
             /\ \A p, q \in 1..Len(order) : order[p] = order[q] => p = q
<1> DEFINE key == [k \in c |-> k]
<1>1. IsFiniteSet(c)
  <2>1. IsFiniteSet(1..n)
    BY FS_Interval
  <2> QED
    BY <2>1, FS_Subset
<1>2. /\ \A x \in c : key[x] \in Int
      /\ \A x, y \in c : x # y => key[x] # key[y]
  OBVIOUS
<1> HIDE DEF key
<1>3. LET order == InOrder(c, key)
      IN  /\ IsList(order) /\ Len(order) = Cardinality(c) /\ Len(order) \in Nat
          /\ Range(order) = c
          /\ \A p, q \in 1..Len(order) : order[p] = order[q] => p = q
  BY <1>1, <1>2, Ordered
<1> QED
  BY <1>3 DEF key

\* A group is of the records at some indexes.
GroupFits(group, records, c) ==
  /\ IsList(group.records) /\ Range(group.records) = {records[k] : k \in c}
  /\ (\A i, j \in c : records[i] = records[j] => i = j) => Once(group.records)
  /\ group.truncated <=> \E k \in c : records[k].truncated
  /\ group.truncated \in BOOLEAN
  /\ group.tokens \in Nat
  /\ ~group.truncated => group.tokens = SumFunction([k \in c |-> records[k].tokens])

\* A list of the records at some indexes, once each.
Lists(own, pi, records, c) ==
  OneToOne(pi, 1..Len(own), c) /\ \A p \in 1..Len(own) : own[p] = records[pi[p]]

LEMMA RecordsInOrder ==
  ASSUME NEW records, Len(records) \in Nat, NEW c, c \subseteq 1..Len(records)
  PROVE  LET own == InIndexOrder(records, c)
         IN  IsList(own) /\ Len(own) \in Nat /\ \E pi : Lists(own, pi, records, c)
<1> DEFINE order == InOrder(c, [k \in c |-> k])
           own == [p \in DOMAIN order |-> records[order[p]]]
<1>1. /\ IsList(order) /\ Len(order) \in Nat /\ Range(order) = c
      /\ \A p, q \in 1..Len(order) : order[p] = order[q] => p = q
  BY IndexesInOrder
<1>2. InIndexOrder(records, c) = own
  BY DEF InIndexOrder
<1> HIDE DEF order
<1>3. DOMAIN order = 1..Len(order) /\ Range(order) = {order[p] : p \in 1..Len(order)}
      /\ order = [p \in 1..Len(order) |-> order[p]]
  BY <1>1, ListProperties
<1>4. own = [p \in 1..Len(order) |-> own[p]] /\ \A p \in 1..Len(order) : own[p] = records[order[p]]
  BY <1>3
<1> HIDE DEF own
<1>5. IsList(own) /\ Len(own) = Len(order)
  BY <1>1, <1>4, FunctionIsList
<1>6. order \in [1..Len(order) -> c]
  BY <1>1, <1>3
<1>7. OneToOne(order, 1..Len(order), c)
  BY <1>1, <1>3, <1>6 DEF OneToOne
<1> QED
  BY <1>1, <1>2, <1>4, <1>5, <1>7 DEF Lists

LEMMA GroupHolds ==
  ASSUME NEW records, Len(records) \in Nat, \A k \in 1..Len(records) : IsCounted(records[k]),
         NEW c, c \subseteq 1..Len(records)
  PROVE  GroupFits(GroupOf(records, c), records, c)
<1> DEFINE own == InIndexOrder(records, c)
           truncated == \E k \in 1..Len(own) : own[k].truncated
           group == GroupOf(records, c)
<1>1. IsList(own) /\ Len(own) \in Nat
  BY RecordsInOrder
<1>2a. PICK pi : Lists(own, pi, records, c)
  BY RecordsInOrder
<1>2. /\ pi \in [1..Len(own) -> c] /\ \A p \in 1..Len(own) : own[p] = records[pi[p]]
      /\ \A p, q \in 1..Len(own) : pi[p] = pi[q] => p = q
      /\ \A k \in c : \E p \in 1..Len(own) : pi[p] = k
  BY <1>2a DEF Lists, OneToOne
<1>3. /\ group.records = own /\ group.truncated = truncated
      /\ group.tokens = IF truncated THEN 0 ELSE SumOfTokens(own)
  BY DEF GroupOf
<1> HIDE DEF own, group
<1>4. Range(own) = {own[p] : p \in 1..Len(own)}
  BY <1>1, ListProperties
<1>5. Range(own) = {records[k] : k \in c}
  <2>1. ASSUME NEW p \in 1..Len(own) PROVE own[p] \in {records[k] : k \in c}
    BY <1>2
  <2>2. ASSUME NEW k \in c PROVE records[k] \in {own[p] : p \in 1..Len(own)}
    BY <1>2
  <2> QED
    BY <1>4, <2>1, <2>2
<1>6. (\A i, j \in c : records[i] = records[j] => i = j) => Once(own)
  <2> SUFFICES ASSUME \A i, j \in c : records[i] = records[j] => i = j,
                      NEW p \in 1..Len(own), NEW q \in 1..Len(own), own[p] = own[q]
               PROVE  p = q
    BY DEF Once
  <2>1. pi[p] \in c /\ pi[q] \in c /\ own[p] = records[pi[p]] /\ own[q] = records[pi[q]]
    BY <1>2
  <2>2. pi[p] = pi[q]
    BY <2>1
  <2> QED
    BY <1>2, <2>2
<1>7. truncated <=> \E k \in c : records[k].truncated
  <2>1. ASSUME NEW p \in 1..Len(own), own[p].truncated PROVE \E k \in c : records[k].truncated
    <3>1. pi[p] \in c /\ own[p] = records[pi[p]]
      BY <1>2
    <3> QED
      BY <2>1, <3>1, Zenon
  <2>2. ASSUME NEW k \in c, records[k].truncated PROVE \E p \in 1..Len(own) : own[p].truncated
    <3>1. PICK p \in 1..Len(own) : pi[p] = k
      BY <1>2
    <3>2. own[p] = records[k]
      BY <1>2, <3>1
    <3> QED
      BY <2>2, <3>2, Zenon
  <2> QED
    BY <2>1, <2>2, Zenon DEF truncated
<1>8. SumOfTokens(own) = SumFunction([k \in c |-> records[k].tokens]) /\ SumOfTokens(own) \in Nat
  <2> DEFINE f == [p \in 1..Len(own) |-> own[p].tokens]
             g == [k \in c |-> records[k].tokens]
  <2>1. \A k \in c : records[k].tokens \in Nat
    BY DEF IsCounted
  <2>2. \A p \in 1..Len(own) : pi[p] \in c /\ own[p] = records[pi[p]]
    BY <1>2
  <2>3. f \in [1..Len(own) -> Nat] /\ g \in [c -> Nat]
    BY <2>1, <2>2
  <2>4. \A p \in 1..Len(own) : g[pi[p]] = f[p]
    BY <2>2
  <2>5. IsFiniteSet(1..Len(own))
    BY <1>1, FS_Interval
  <2>6. SumOfTokens(own) = SumFunction(f)
    BY DEF SumOfTokens
  <2> HIDE DEF f, g
  <2>7. SumFunction(g) = SumFunction(f) /\ SumFunction(f) \in Nat
    <3>1. OneToOne(pi, 1..Len(own), c)
      BY <1>2a DEF Lists
    <3> DEFINE D == 1..Len(own)
    <3>2. /\ IsFiniteSet(D) /\ f \in [D -> Nat] /\ g \in [c -> Nat] /\ OneToOne(pi, D, c)
          /\ \A p \in D : g[pi[p]] = f[p]
      BY <2>3, <2>4, <2>5, <3>1
    <3> HIDE DEF D
    <3>2a. SumFunction(g) = SumFunction(f)
      <4>1. Renames(pi, f, D, g, c)
        BY <3>2 DEF Renames
      <4> QED
        BY <3>2, <4>1, SumRenamed
    <3>3. SumFunction(f) \in Nat
      BY <2>3, <2>5, SumIsNatural
    <3> QED
      BY <3>2a, <3>3
  <2> QED
    BY <2>6, <2>7 DEF g
<1>9. truncated \in BOOLEAN
  OBVIOUS
<1> HIDE DEF truncated
<1>10. group.tokens \in Nat /\ (~truncated => group.tokens = SumFunction([k \in c |-> records[k].tokens]))
  BY <1>3, <1>8
<1> QED
  BY <1>1, <1>3, <1>5, <1>6, <1>7, <1>9, <1>10 DEF group, GroupFits

\* The digests of a source tell the names of its records apart.
TellsNames(salt, source, records) ==
  /\ \A k \in 1..Len(records) : \A a \in NamesOf(records[k]) : SelectionDigest(salt, source, a) \in Int
  /\ \A j, k \in 1..Len(records) : \A a \in NamesOf(records[j]), b \in NamesOf(records[k]) :
        SelectionDigest(salt, source, a) = SelectionDigest(salt, source, b) => a = b

\* The groups are offered one by one, each of them once.
LEMMA GroupsAreListed ==
  ASSUME NEW X, NEW records \in Seq(X), \A k \in 1..Len(records) : IsCounted(records[k]),
         NEW salt, NEW source, TellsNames(salt, source, records)
  PROVE  LET groups == AtomicGroups(records)
             order == InDigestOrder(groups, salt, source)
         IN  IsList(order) /\ Len(order) \in Nat /\ Range(order) = groups /\ Once(order)
<1> DEFINE groups == AtomicGroups(records)
           components == AtomicComponents(records)
           key == [group \in groups |-> SelectionDigest(salt, source, group.anchor)]
           of == [c \in components |-> GroupOf(records, c)]
<1>0. Len(records) \in Nat
  OBVIOUS
<1>1. IsFiniteSet(components)
  <2>1. components \subseteq SUBSET (1..Len(records))
    BY ComponentsAreClasses
  <2>2. IsFiniteSet(SUBSET (1..Len(records)))
    <3>1. IsFiniteSet(1..Len(records))
      BY <1>0, FS_Interval
    <3> QED
      BY <3>1, FS_SUBSET
  <2> QED
    BY <2>1, <2>2, FS_Subset
<1>2. groups = {GroupOf(records, c) : c \in components}
  BY GroupsOfComponents
<1>3. ASSUME NEW c \in components
      PROVE  /\ GroupOf(records, c).anchor = ComponentAnchor(records, c)
             /\ \E k \in 1..Len(records) : ComponentAnchor(records, c) \in NamesOf(records[k])
  <2>1. GroupOf(records, c).anchor = ComponentAnchor(records, c)
    BY DEF GroupOf
  <2>2. c # {} /\ c \subseteq 1..Len(records)
    BY ComponentsAreClasses
  <2>3. \A k \in 1..Len(records) : IsNamed(records[k])
    BY DEF IsCounted
  <2>4. \E k \in c : ComponentAnchor(records, c) \in NamesOf(records[k])
    BY <1>0, <2>2, <2>3, AnchorIsAName
  <2> QED
    BY <2>1, <2>2, <2>4
<1>4. ASSUME NEW c \in components, NEW d \in components,
             ComponentAnchor(records, c) = ComponentAnchor(records, d)
      PROVE  c = d
  BY <1>4, AnchorsDiffer DEF IsCounted
<1> HIDE DEF groups, components
<1>5. OneToOne(of, components, groups)
  <2>1. of \in [components -> groups]
    BY <1>2
  <2>2. \A c, d \in components : of[c] = of[d] => c = d
    BY <1>3, <1>4
  <2>3. \A g \in groups : \E c \in components : of[c] = g
    BY <1>2
  <2> QED
    BY <2>1, <2>2, <2>3 DEF OneToOne
<1> HIDE DEF of
<1>6. IsFiniteSet(groups)
  BY <1>1, <1>5, SameSize
<1>7. /\ \A x \in groups : key[x] \in Int
      /\ \A x, y \in groups : x # y => key[x] # key[y]
  <2>1. ASSUME NEW x \in groups PROVE \E c \in components : x = GroupOf(records, c)
    BY <1>2
  <2>2. ASSUME NEW x \in groups PROVE key[x] \in Int
    <3>1. PICK c \in components : x = GroupOf(records, c)
      BY <2>1
    <3>2. PICK k \in 1..Len(records) : x.anchor \in NamesOf(records[k])
      BY <1>3, <3>1
    <3> QED
      BY <3>2 DEF TellsNames
  <2>3. ASSUME NEW x \in groups, NEW y \in groups, x # y PROVE key[x] # key[y]
    <3>1. PICK c \in components : x = GroupOf(records, c)
      BY <2>1
    <3>2. PICK d \in components : y = GroupOf(records, d)
      BY <2>1
    <3>3. x.anchor # y.anchor
      BY <1>3, <1>4, <2>3, <3>1, <3>2
    <3>4. PICK j \in 1..Len(records) : x.anchor \in NamesOf(records[j])
      BY <1>3, <3>1
    <3>5. PICK k \in 1..Len(records) : y.anchor \in NamesOf(records[k])
      BY <1>3, <3>2
    <3>6. SelectionDigest(salt, source, x.anchor) # SelectionDigest(salt, source, y.anchor)
      BY <3>3, <3>4, <3>5 DEF TellsNames
    <3> QED
      BY <3>6
  <2> QED
    BY <2>2, <2>3
<1>8. InDigestOrder(groups, salt, source) = InOrder(groups, key)
  BY DEF InDigestOrder
<1> HIDE DEF key
<1>9. LET order == InOrder(groups, key)
      IN  /\ IsList(order) /\ Len(order) \in Nat /\ Range(order) = groups /\ Once(order)
  BY <1>6, <1>7, Ordered DEF Once
<1> QED
  BY <1>8, <1>9 DEF groups

-----------------------------------------------------------------------------
(* Selecting groups *)

IsGroup(g) ==
  IsList(g.records) /\ Once(g.records) /\ g.truncated \in BOOLEAN /\ g.tokens \in Nat

Selections(X, Y) == [records : Seq(X), exclusions : SUBSET Y, remaining : Int, available : Int]

Reasons == {"truncated", "exceeds-source-quota", "quota-remainder"}
MayBeExcluded(X, source) ==
  {[source |-> source, id |-> x.id, reason |-> reason] : x \in X, reason \in Reasons}

Misfits(selection, g, quota) == g.truncated \/ g.tokens > quota \/ g.tokens > selection.remaining

LEMMA ExcludedAreRecords ==
  ASSUME NEW g, IsGroup(g), NEW source, NEW reason
  PROVE  /\ \A e \in ExclusionsOf(g, source, reason) : e.source = source
         /\ {e.id : e \in ExclusionsOf(g, source, reason)} = {r.id : r \in Range(g.records)}
         /\ \A X : Range(g.records) \subseteq X /\ reason \in Reasons =>
               ExclusionsOf(g, source, reason) \subseteq MayBeExcluded(X, source)
<1> DEFINE n == Len(g.records)
           entry(k) == [source |-> source, id |-> g.records[k].id, reason |-> reason]
<1>1. Range(g.records) = {g.records[k] : k \in 1..n}
  BY ListProperties DEF IsGroup
<1>2. ExclusionsOf(g, source, reason) = {entry(k) : k \in 1..n}
  BY DEF ExclusionsOf
<1>3. \A k \in 1..n : entry(k).source = source /\ entry(k).id = g.records[k].id
  OBVIOUS
<1>4. ASSUME NEW X, Range(g.records) \subseteq X, reason \in Reasons
      PROVE  ExclusionsOf(g, source, reason) \subseteq MayBeExcluded(X, source)
  BY <1>1, <1>2, <1>4 DEF MayBeExcluded
<1> HIDE DEF entry, n
<1>5. \A e \in ExclusionsOf(g, source, reason) : e.source = source
  BY <1>2, <1>3
<1>6. {e.id : e \in ExclusionsOf(g, source, reason)} = {r.id : r \in Range(g.records)}
  <2>1. {e.id : e \in {entry(k) : k \in 1..n}} = {entry(k).id : k \in 1..n}
    OBVIOUS
  <2>2. {r.id : r \in {g.records[k] : k \in 1..n}} = {g.records[k].id : k \in 1..n}
    OBVIOUS
  <2>3. {entry(k).id : k \in 1..n} = {g.records[k].id : k \in 1..n}
    BY <1>3
  <2> QED
    BY <1>1, <1>2, <2>1, <2>2, <2>3
<1> QED
  BY <1>4, <1>5, <1>6

\* What one turn makes of a selection.
TurnsInto(s, t, g, quota, source) ==
  /\ Misfits(s, g, quota) => /\ t.records = s.records /\ t.remaining = s.remaining
                             /\ \E reason : t.exclusions = s.exclusions \cup ExclusionsOf(g, source, reason)
  /\ ~Misfits(s, g, quota) => /\ t.records = s.records \o g.records
                              /\ t.remaining = s.remaining - g.tokens
                              /\ t.exclusions = s.exclusions

\* A turn of the loop takes the group whole, or lists all of it with one reason.
LEMMA OfferedIs ==
  ASSUME NEW X, NEW source, NEW s \in Selections(X, MayBeExcluded(X, source)),
         NEW quota \in Int, NEW g, IsGroup(g), Range(g.records) \subseteq X
  PROVE  LET t == Offered(s, g, quota, source)
         IN  t \in Selections(X, MayBeExcluded(X, source)) /\ TurnsInto(s, t, g, quota, source)
<1> DEFINE Y == MayBeExcluded(X, source)
           t == Offered(s, g, quota, source)
<1>1. \A reason \in Reasons : ExclusionsOf(g, source, reason) \subseteq Y
  BY ExcludedAreRecords
<1>2. s = [records |-> s.records, exclusions |-> s.exclusions, remaining |-> s.remaining, available |-> s.available]
      /\ s.records \in Seq(X) /\ s.exclusions \in SUBSET Y /\ s.remaining \in Int /\ s.available \in Int
  BY DEF Selections
<1>3. g.truncated \in BOOLEAN /\ g.tokens \in Nat /\ g.records \in Seq(X)
  <2>1. IsList(g.records) /\ g.truncated \in BOOLEAN /\ g.tokens \in Nat
    BY DEF IsGroup
  <2>2. \A k \in 1..Len(g.records) : g.records[k] \in X
    BY <2>1, ListProperties
  <2> QED
    BY <2>1, <2>2, ListIsOver
<1> DEFINE Excluding(n, reason) == [records |-> s.records, exclusions |-> s.exclusions \cup ExclusionsOf(g, source, reason),
                                    remaining |-> s.remaining, available |-> n]
<1>4. CASE g.truncated
  <2>1. t = [s EXCEPT !.exclusions = @ \cup ExclusionsOf(g, source, "truncated")]
    BY <1>4 DEF Offered
  <2>2. t = Excluding(s.available, "truncated")
    BY <1>2, <2>1
  <2>3. "truncated" \in Reasons
    BY DEF Reasons
  <2>4. t \in Selections(X, Y)
    BY <1>1, <1>2, <2>2, <2>3 DEF Selections
  <2>5. Misfits(s, g, quota)
    BY <1>4 DEF Misfits
  <2>6. t.records = s.records /\ t.remaining = s.remaining
        /\ t.exclusions = s.exclusions \cup ExclusionsOf(g, source, "truncated")
    BY <2>2
  <2> QED
    BY <2>4, <2>5, <2>6 DEF TurnsInto
<1>5. CASE ~g.truncated /\ (g.tokens > quota \/ g.tokens > s.remaining)
  <2> DEFINE counted == [s EXCEPT !.available = @ + g.tokens]
             reason == QuotaReason(s, g, quota)
  <2>1. reason \in {"exceeds-source-quota", "quota-remainder"}
    BY <1>2, <1>3, <1>5 DEF QuotaReason
  <2>2. reason # "fits" /\ reason \in Reasons
    BY <2>1 DEF Reasons
  <2> HIDE DEF reason
  <2>3. t = [counted EXCEPT !.exclusions = @ \cup ExclusionsOf(g, source, reason)]
    BY <1>5, <2>2 DEF Offered, reason
  <2>4. t = Excluding(s.available + g.tokens, reason)
    BY <1>2, <2>3
  <2>5. t \in Selections(X, Y)
    BY <1>1, <1>2, <1>3, <2>2, <2>4 DEF Selections
  <2>6. Misfits(s, g, quota)
    BY <1>5 DEF Misfits
  <2>7. t.records = s.records /\ t.remaining = s.remaining
        /\ t.exclusions = s.exclusions \cup ExclusionsOf(g, source, reason)
    BY <2>4
  <2> QED
    BY <2>5, <2>6, <2>7 DEF TurnsInto
<1>6. CASE ~g.truncated /\ ~(g.tokens > quota) /\ ~(g.tokens > s.remaining)
  <2> DEFINE counted == [s EXCEPT !.available = @ + g.tokens]
             reason == QuotaReason(s, g, quota)
  <2>1. reason = "fits"
    BY <1>2, <1>3, <1>6 DEF QuotaReason
  <2> HIDE DEF reason
  <2>3. t = [counted EXCEPT !.records = @ \o g.records, !.remaining = @ - g.tokens]
    BY <1>6, <2>1 DEF Offered, reason
  <2> DEFINE joined == s.records \o g.records
             left == s.remaining - g.tokens
             more == s.available + g.tokens
  <2>4. t = [records |-> joined, exclusions |-> s.exclusions, remaining |-> left, available |-> more]
    BY <1>2, <2>3
  <2>5. s.records \o g.records \in Seq(X) /\ s.remaining - g.tokens \in Int /\ s.available + g.tokens \in Int
    BY <1>2, <1>3, ConcatProperties
  <2> HIDE DEF t
  <2>6. t \in Selections(X, Y)
    BY <1>2, <2>4, <2>5 DEF Selections
  <2>7. ~Misfits(s, g, quota)
    BY <1>6 DEF Misfits
  <2>8. t.records = joined /\ t.remaining = left /\ t.exclusions = s.exclusions
    <3> HIDE DEF joined, left, more
    <3> QED
      BY <2>4
  <2> QED
    BY <2>6, <2>7, <2>8 DEF t, TurnsInto
<1> QED
  BY <1>3, <1>4, <1>5, <1>6

NothingSelected(quota) ==
  [records |-> <<>>, exclusions |-> {}, remaining |-> quota, available |-> 0]

SelectionFrom(start, order, quota, source) ==
  FoldLeft(LAMBDA selection, group : Offered(selection, group, quota, source), start, order)

\* The turns of the selection loop.
Turns(g, order, quota, source) ==
  /\ g[0] = NothingSelected(quota)
  /\ \A k \in Nat : k < Len(order) => g[k + 1] = Offered(g[k], order[k + 1], quota, source)
  /\ SelectionFrom(NothingSelected(quota), order, quota, source) = g[Len(order)]

RecordsIn(groups) == UNION {Range(group.records) : group \in groups}

LEMMA SelectionUnrolls ==
  ASSUME NEW order, IsList(order), \A k \in 1..Len(order) : IsGroup(order[k]),
         NEW quota \in Int, NEW source
  PROVE  \E g : Turns(g, order, quota, source)
                /\ \A k \in 0..Len(order) :
                      g[k] \in Selections(RecordsIn(Range(order)), MayBeExcluded(RecordsIn(Range(order)), source))
<1> DEFINE n == Len(order)
           X == RecordsIn(Range(order))
           W == Selections(X, MayBeExcluded(X, source))
           start == NothingSelected(quota)
           op(k, w) == Offered(w, order[k], quota, source)
           E == [p \in (1..n) \X W |-> op(p[1], p[2])]
           iter[s \in SUBSET DOMAIN order] ==
             IF s = {} THEN start
             ELSE LET x == Max(s) IN Offered(iter[s \ {x}], order[x], quota, source)
<1>1. SelectionFrom(start, order, quota, source) = iter[DOMAIN order]
  BY DEF SelectionFrom, FoldLeft, MapThenFoldSet
<1>2. /\ n \in Nat /\ DOMAIN order = 1..n
      /\ \A k \in 1..n : IsGroup(order[k]) /\ Range(order[k].records) \subseteq X
  BY ListProperties DEF RecordsIn
<1>2a. start \in W
  BY DEF NothingSelected, Selections
<1> HIDE DEF X
<1>3. ASSUME NEW k \in 1..n, NEW w \in W PROVE op(k, w) \in W /\ E[<<k, w>>] = op(k, w)
  <2>1. op(k, w) \in W
    BY <1>2, OfferedIs
  <2> HIDE DEF op, W
  <2> QED
    BY <2>1
<1> HIDE DEF W, start
<1>4. Maps(E, 1..n, W)
  <2> HIDE DEF E, op, n
  <2> QED
    BY <1>3 DEF Maps
<1>5. PICK it : FoldsOver(it, E, TheGreatest(n), start, 1..n, W)
  <2> HIDE DEF E, n
  <2> QED
    BY <1>2, <1>2a, <1>4, ListFoldExists
<1>6. ASSUME NEW s \in SUBSET (1..n)
      PROVE  it[s] = IF s = {} THEN start ELSE op(Max(s), it[s \ {Max(s)}])
  <2>1. CASE s = {}
    BY <1>5, <2>1 DEF FoldsOver
  <2>2. CASE s # {}
    <3>1. Max(s) \in 1..n /\ it[s \ {Max(s)}] \in W
      BY <1>2, <1>5, <2>2, GreatestIsThere DEF FoldsOver
    <3>2. it[s] = E[<<Max(s), it[s \ {Max(s)}]>>]
      <4> HIDE DEF E
      <4> QED
        BY <1>5, <2>2 DEF FoldsOver, TheGreatest
    <3> HIDE DEF E, op
    <3> QED
      BY <1>3, <2>2, <3>1, <3>2
  <2> QED
    BY <2>1, <2>2
<1>7. it = [s \in SUBSET DOMAIN order |-> IF s = {} THEN start ELSE op(Max(s), it[s \ {Max(s)}])]
  <2> HIDE DEF op, n, E
  <2> QED
    BY <1>2, <1>5, <1>6 DEF FoldsOver
<1>8. iter = [s \in SUBSET DOMAIN order |-> IF s = {} THEN start ELSE op(Max(s), iter[s \ {Max(s)}])]
  <2>1. \E f : f = [s \in SUBSET DOMAIN order |-> IF s = {} THEN start ELSE op(Max(s), f[s \ {Max(s)}])]
    <3> HIDE DEF op
    <3> QED
      BY <1>7, Zenon
  <2> QED
    BY <2>1, Zenon DEF iter
<1>9. FoldsInside(iter, start, E, n, W)
  <2> HIDE DEF iter, op, E, n
  <2>1. ASSUME NEW s \in SUBSET (1..n)
        PROVE  iter[s] = IF s = {} THEN start ELSE op(Max(s), iter[s \ {Max(s)}])
    BY <1>2, <1>8
  <2>2. iter[{}] = start
    BY <2>1
  <2>3. ASSUME NEW s \in SUBSET (1..n), s # {}, iter[s \ {Max(s)}] \in W
        PROVE  iter[s] = E[<<Max(s), iter[s \ {Max(s)}]>>]
    <3>1. Max(s) \in 1..n
      BY <1>2, <2>3, GreatestIsThere
    <3> QED
      BY <1>3, <2>1, <2>3, <3>1
  <2> QED
    BY <2>2, <2>3 DEF FoldsInside
<1>10. PICK g : Unrolls(g, start, E, n, W) /\ g[n] = iter[1..n]
  <2> HIDE DEF iter, E, n
  <2> QED
    BY <1>2, <1>2a, <1>4, <1>9, ListFoldUnrolls
<1>11. ASSUME NEW k \in Nat, k < n PROVE g[k + 1] = op(k + 1, g[k])
  <2>1. k + 1 \in 1..n /\ k \in 0..n
    BY <1>2, <1>11
  <2> HIDE DEF op, E, n, iter
  <2> QED
    BY <1>3, <1>10, <1>11, <2>1 DEF Unrolls
<1> HIDE DEF iter, E
<1>12. Turns(g, order, quota, source)
  <2>1. g[0] = start /\ g[n] = iter[DOMAIN order]
    BY <1>2, <1>10 DEF Unrolls
  <2> QED
    BY <1>1, <1>11, <2>1 DEF Turns, start
<1> QED
  BY <1>10, <1>12 DEF Unrolls, W, X

\* What has become of the groups offered so far: those in C are selected whole,
\* of the others every record is listed, and none of them would fit what is left.
Kept(s, C, groups, source, quota) ==
  /\ IsList(s.records) /\ Once(s.records) /\ Range(s.records) = RecordsIn(C)
  /\ \A g \in C : ~g.truncated
  /\ \A g \in groups \ C : g.truncated \/ g.tokens > s.remaining
  /\ \A e \in s.exclusions : e.source = source
  /\ {e.id : e \in s.exclusions} = {r.id : r \in RecordsIn(groups \ C)}
  /\ s.remaining \in Int /\ s.remaining <= quota

KeptSome(s, groups, source, quota) ==
  \E C \in SUBSET groups : Kept(s, C, groups, source, quota)

Apart(g, groups) == \A h \in groups : h = g \/ Range(h.records) \cap Range(g.records) = {}

LEMMA OfferedKeeps ==
  ASSUME NEW X, NEW source, NEW s \in Selections(X, MayBeExcluded(X, source)),
         NEW quota \in Int, NEW g, IsGroup(g), Range(g.records) \subseteq X,
         NEW groups, g \notin groups, Apart(g, groups), \A h \in groups : IsGroup(h),
         KeptSome(s, groups, source, quota)
  PROVE  KeptSome(Offered(s, g, quota, source), groups \cup {g}, source, quota)
<1> DEFINE t == Offered(s, g, quota, source)
<1>1. TurnsInto(s, t, g, quota, source)
  BY OfferedIs
<1> HIDE DEF t
<1>0. PICK C \in SUBSET groups : Kept(s, C, groups, source, quota)
  BY DEF KeptSome
<1>2. CASE Misfits(s, g, quota)
  <2>1. PICK reason : t.exclusions = s.exclusions \cup ExclusionsOf(g, source, reason)
    BY <1>1, <1>2 DEF TurnsInto
  <2>2. t.records = s.records /\ t.remaining = s.remaining
    BY <1>1, <1>2 DEF TurnsInto
  <2>3. (groups \cup {g}) \ C = (groups \ C) \cup {g}
    OBVIOUS
  <2>4. RecordsIn((groups \ C) \cup {g}) = RecordsIn(groups \ C) \cup Range(g.records)
    BY DEF RecordsIn
  <2>5. /\ \A e \in ExclusionsOf(g, source, reason) : e.source = source
        /\ {e.id : e \in ExclusionsOf(g, source, reason)} = {r.id : r \in Range(g.records)}
    BY ExcludedAreRecords
  <2>6. {e.id : e \in t.exclusions} = {r.id : r \in RecordsIn((groups \ C) \cup {g})}
    <3>1. {e.id : e \in t.exclusions} = {e.id : e \in s.exclusions} \cup {e.id : e \in ExclusionsOf(g, source, reason)}
      BY <2>1
    <3>2. {r.id : r \in RecordsIn((groups \ C) \cup {g})}
            = {r.id : r \in RecordsIn(groups \ C)} \cup {r.id : r \in Range(g.records)}
      BY <2>4
    <3>3. {e.id : e \in s.exclusions} = {r.id : r \in RecordsIn(groups \ C)}
      BY <1>0 DEF Kept
    <3> QED
      BY <2>5, <3>1, <3>2, <3>3
  <2>7. \A e \in t.exclusions : e.source = source
    BY <2>1, <2>5, <1>0 DEF Kept
  <2>8. \A h \in (groups \cup {g}) \ C : h.truncated \/ h.tokens > t.remaining
    <3>1. ASSUME NEW h \in groups \ C PROVE h.truncated \/ h.tokens > t.remaining
      BY <2>2, <1>0 DEF Kept
    <3>2. g.truncated \/ g.tokens > t.remaining
      <4>1. CASE g.truncated
        BY <4>1
      <4>2. CASE g.tokens > s.remaining
        BY <2>2, <4>2
      <4>3. CASE g.tokens > quota
        BY <2>2, <4>3, <1>0 DEF Kept, IsGroup
      <4> QED
        BY <1>2, <4>1, <4>2, <4>3 DEF Misfits
    <3> QED
      BY <3>1, <3>2
  <2>9. Kept(t, C, groups \cup {g}, source, quota)
    BY <2>2, <2>3, <2>6, <2>7, <2>8, <1>0 DEF Kept
  <2> QED
    BY <2>9 DEF t, KeptSome
<1>3. CASE ~Misfits(s, g, quota)
  <2>1. t.records = s.records \o g.records /\ t.remaining = s.remaining - g.tokens /\ t.exclusions = s.exclusions
    BY <1>1, <1>3 DEF TurnsInto
  <2>2. RecordsIn(C \cup {g}) = RecordsIn(C) \cup Range(g.records) /\ RecordsIn(C) \cap Range(g.records) = {}
    BY DEF RecordsIn, Apart
  <2>3. /\ IsList(s.records) /\ Once(s.records) /\ Range(s.records) = RecordsIn(C)
        /\ IsList(g.records) /\ Once(g.records)
    BY <1>0 DEF Kept, IsGroup
  <2>4. IsList(t.records) /\ Once(t.records) /\ Range(t.records) = RecordsIn(C \cup {g})
    <3>1. LET u == s.records \o g.records
          IN  IsList(u) /\ Once(u) /\ Range(u) = RecordsIn(C) \cup Range(g.records)
      BY <2>2, <2>3, Appended
    <3> QED
      BY <2>1, <2>2, <3>1
  <2>5. (groups \cup {g}) \ (C \cup {g}) = groups \ C
    OBVIOUS
  <2>6. ~g.truncated /\ g.tokens \in Nat /\ s.remaining \in Int /\ s.remaining <= quota
    BY <1>3, <1>0 DEF Misfits, IsGroup, Kept
  <2>7. t.remaining \in Int /\ t.remaining <= s.remaining /\ t.remaining <= quota
    BY <2>1, <2>6
  <2>8. \A h \in groups \ C : h.truncated \/ h.tokens > t.remaining
    <3> SUFFICES ASSUME NEW h \in groups \ C, ~h.truncated PROVE h.tokens > t.remaining
      OBVIOUS
    <3>1. h.tokens > s.remaining /\ h.tokens \in Nat
      BY <1>0 DEF Kept, IsGroup
    <3> QED
      BY <2>6, <2>7, <3>1
  <2>9. \A h \in C \cup {g} : ~h.truncated
    BY <2>6, <1>0 DEF Kept
  <2>10. /\ \A e \in t.exclusions : e.source = source
         /\ {e.id : e \in t.exclusions} = {r.id : r \in RecordsIn(groups \ C)}
    BY <2>1, <1>0 DEF Kept
  <2>11. Kept(t, C \cup {g}, groups \cup {g}, source, quota)
    BY <2>4, <2>5, <2>7, <2>8, <2>9, <2>10, <1>0 DEF Kept
  <2>12. C \cup {g} \in SUBSET (groups \cup {g})
    OBVIOUS
  <2> QED
    BY <2>11, <2>12 DEF t, KeptSome
<1> QED
  BY <1>2, <1>3

\* What select_groups_for_quota makes of groups that have no record in common.
LEMMA SelectionKeeps ==
  ASSUME NEW groups, NEW quota \in Int, NEW salt, NEW source,
         \A g \in groups : IsGroup(g) /\ Apart(g, groups),
         LET order == InDigestOrder(groups, salt, source)
         IN  IsList(order) /\ Range(order) = groups /\ Once(order)
  PROVE  KeptSome(SelectGroups(groups, quota, salt, source), groups, source, quota)
<1> DEFINE order == InDigestOrder(groups, salt, source)
<1>1. IsList(order) /\ Range(order) = groups /\ Once(order)
  OBVIOUS
<1>2. SelectGroups(groups, quota, salt, source) = SelectionFrom(NothingSelected(quota), order, quota, source)
  BY DEF SelectGroups, SelectionFrom, NothingSelected
<1> HIDE DEF order
<1>3. Len(order) \in Nat /\ groups = {order[k] : k \in 1..Len(order)}
  BY <1>1, ListProperties
<1>4. \A k \in 1..Len(order) : IsGroup(order[k])
  BY <1>3
<1> DEFINE X == RecordsIn(groups)
<1>5. PICK g : /\ Turns(g, order, quota, source)
               /\ \A k \in 0..Len(order) : g[k] \in Selections(X, MayBeExcluded(X, source))
  BY <1>1, <1>4, SelectionUnrolls
<1> DEFINE offered(k) == {order[j] : j \in 1..k}
           A == {k \in Nat : k <= Len(order) => KeptSome(g[k], offered(k), source, quota)}
<1>6. 0 \in A
  <2>1. offered(0) = {}
    OBVIOUS
  <2>2. g[0] = NothingSelected(quota)
    BY <1>5 DEF Turns
  <2>3. /\ g[0].records = <<>> /\ g[0].exclusions = {} /\ g[0].remaining = quota
    BY <2>2 DEF NothingSelected
  <2>4. RecordsIn({}) = {} /\ {} \ {} = {}
    BY DEF RecordsIn
  <2>4a. {e.id : e \in {}} = {} /\ {r.id : r \in RecordsIn({} \ {})} = {}
    BY <2>4
  <2>5. Kept(g[0], {}, {}, source, quota)
    <3>1. IsList(g[0].records) /\ Once(g[0].records) /\ Range(g[0].records) = RecordsIn({})
      BY <2>3, <2>4, EmptyIsOnce
    <3>2. {e.id : e \in g[0].exclusions} = {r.id : r \in RecordsIn({} \ {})}
      BY <2>3, <2>4a
    <3>3. g[0].remaining \in Int /\ g[0].remaining <= quota
      BY <2>3
    <3>4. g[0].exclusions = {}
      BY <2>3
    <3> QED
      BY <3>1, <3>2, <3>3, <3>4 DEF Kept
  <2>6. KeptSome(g[0], offered(0), source, quota)
    BY <2>1, <2>5 DEF KeptSome
  <2> HIDE DEF offered
  <2> QED
    BY <2>6
<1>7. ASSUME NEW k \in Nat, k \in A PROVE k + 1 \in A
  <2> SUFFICES ASSUME k + 1 <= Len(order)
               PROVE  KeptSome(g[k + 1], offered(k + 1), source, quota)
    <3> HIDE DEF offered
    <3> QED
      OBVIOUS
  <2>1. k <= Len(order) /\ k + 1 \in 1..Len(order) /\ k \in 0..Len(order) /\ k < Len(order)
    BY <1>3
  <2>2. KeptSome(g[k], offered(k), source, quota)
    <3> HIDE DEF offered
    <3> QED
      BY <1>7, <2>1
  <2> DEFINE h == order[k + 1]
  <2>3. offered(k + 1) = offered(k) \cup {h}
    <3>1. 1..(k + 1) = (1..k) \cup {k + 1}
      OBVIOUS
    <3> QED
      BY <3>1
  <2>4. h \notin offered(k)
    <3> SUFFICES ASSUME NEW j \in 1..k, order[j] = order[k + 1] PROVE FALSE
      OBVIOUS
    <3>1. j \in 1..Len(order)
      BY <2>1
    <3>2. j = k + 1
      BY <1>1, <2>1, <3>1 DEF Once
    <3> QED
      BY <3>2
  <2>5. h \in groups /\ offered(k) \subseteq groups
    BY <1>3, <2>1
  <2>6. IsGroup(h) /\ Apart(h, offered(k)) /\ Range(h.records) \subseteq X
    BY <2>5 DEF Apart, RecordsIn
  <2>7. g[k] \in Selections(X, MayBeExcluded(X, source)) /\ g[k + 1] = Offered(g[k], h, quota, source)
    BY <1>5, <2>1 DEF Turns
  <2> HIDE DEF h, offered, X
  <2>8. KeptSome(Offered(g[k], h, quota, source), offered(k) \cup {h}, source, quota)
    <3>1. \A f \in offered(k) : IsGroup(f)
      BY <2>5
    <3> QED
      BY <2>2, <2>4, <2>6, <2>7, <3>1, OfferedKeeps
  <2> QED
    BY <2>3, <2>7, <2>8
<1>8. Len(order) \in A
  <2> HIDE DEF A
  <2> QED
    BY <1>3, <1>6, <1>7, AllNaturals
<1>9. KeptSome(g[Len(order)], groups, source, quota)
  <2>1. offered(Len(order)) = groups
    BY <1>3
  <2>2. KeptSome(g[Len(order)], offered(Len(order)), source, quota)
    <3> HIDE DEF offered
    <3> QED
      BY <1>3, <1>8
  <2> QED
    BY <2>1, <2>2
<1>10. SelectGroups(groups, quota, salt, source) = g[Len(order)]
  BY <1>2, <1>5 DEF Turns
<1> QED
  BY <1>9, <1>10

-----------------------------------------------------------------------------
(* Lists of lists *)

LEMMA FlattenedOnce ==
  ASSUME NEW seqs, IsList(seqs), Len(seqs) # 0,
         \A k \in 1..Len(seqs) : IsList(seqs[k]) /\ Once(seqs[k]),
         \A j, k \in 1..Len(seqs) : j # k => Range(seqs[j]) \cap Range(seqs[k]) = {}
  PROVE  Once(FlattenSeq(seqs))
<1> DEFINE X == UNION {Range(seqs[k]) : k \in 1..Len(seqs)}
           before(i) == UNION {Range(seqs[k]) : k \in 1..i}
<1>1. \A k \in 1..Len(seqs) : seqs[k] \in Seq(X)
  <2> TAKE k \in 1..Len(seqs)
  <2>1. \A j \in 1..Len(seqs[k]) : seqs[k][j] \in X
    BY ListProperties
  <2> QED
    BY <2>1, ListIsOver
<1>2. seqs \in Seq(Seq(X))
  BY <1>1, ListIsOver
<1>3. Len(seqs) \in Nat
  BY ListProperties
<1> HIDE DEF X
<1>4. PICK f : L!Gathers(f, seqs)
  BY <1>2, L!FlatteningUnrolls
<1>5. /\ \A i \in 1..Len(seqs) : f[i] = IF i = 1 THEN seqs[i] ELSE f[i - 1] \o seqs[i]
      /\ FlattenSeq(seqs) = f[Len(seqs)]
  BY <1>4, SameLists DEF L!Gathers
<1> DEFINE A == {i \in Nat : i + 1 <= Len(seqs) =>
                   IsList(f[i + 1]) /\ Once(f[i + 1]) /\ Range(f[i + 1]) = before(i + 1)}
<1>6. 0 \in A
  <2>1. 1 \in 1..Len(seqs) /\ 0 + 1 = 1
    BY <1>3
  <2>2. f[1] = seqs[1]
    BY <1>5, <2>1
  <2>3. before(1) = Range(seqs[1])
    OBVIOUS
  <2> HIDE DEF before
  <2> QED
    BY <2>1, <2>2, <2>3
<1>7. ASSUME NEW i \in Nat, i \in A PROVE i + 1 \in A
  <2> DEFINE j == i + 2
  <2> SUFFICES ASSUME j <= Len(seqs)
               PROVE  IsList(f[j]) /\ Once(f[j]) /\ Range(f[j]) = before(j)
    <3>1. (i + 1) + 1 = j /\ i + 1 \in Nat
      OBVIOUS
    <3> HIDE DEF before, j
    <3> QED
      BY <3>1
  <2>1. j \in 1..Len(seqs) /\ j # 1 /\ j - 1 = i + 1 /\ i + 1 <= Len(seqs)
    BY <1>3
  <2>2. IsList(f[j - 1]) /\ Once(f[j - 1]) /\ Range(f[j - 1]) = before(j - 1)
    <3> HIDE DEF before
    <3> QED
      BY <1>7, <2>1
  <2>3. f[j] = f[j - 1] \o seqs[j]
    BY <1>5, <2>1
  <2>4. before(j) = before(j - 1) \cup Range(seqs[j])
    <3>1. 1..j = (1..(j - 1)) \cup {j}
      BY <2>1
    <3> QED
      BY <3>1
  <2>5. before(j - 1) \cap Range(seqs[j]) = {}
    <3> SUFFICES ASSUME NEW k \in 1..(j - 1) PROVE Range(seqs[k]) \cap Range(seqs[j]) = {}
      OBVIOUS
    <3>1. k \in 1..Len(seqs) /\ k # j
      BY <2>1
    <3> QED
      BY <2>1, <3>1
  <2> HIDE DEF before, j
  <2>6. IsList(seqs[j]) /\ Once(seqs[j])
    BY <2>1
  <2> QED
    BY <2>2, <2>3, <2>4, <2>5, <2>6, Appended
<1>8. Len(seqs) - 1 \in Nat /\ (Len(seqs) - 1) + 1 = Len(seqs)
  BY <1>3
<1>9. Len(seqs) - 1 \in A
  <2> HIDE DEF A
  <2> QED
    BY <1>6, <1>7, <1>8, AllNaturals
<1>10. Once(f[Len(seqs)])
  <2> HIDE DEF before
  <2> QED
    BY <1>8, <1>9
<1> QED
  BY <1>5, <1>10

\* Putting records in the order of the manifest changes their order only.
LEMMA ManifestOrderKeeps ==
  ASSUME NEW records, IsList(records),
         \A k \in 1..Len(records) : records[k].source \in Int /\ records[k].id \in Int,
         \A j, k \in 1..Len(records) :
            records[j].source = records[k].source /\ records[j].id = records[k].id => j = k
  PROVE  IsList(InManifestOrder(records)) /\ Range(InManifestOrder(records)) = Range(records)
<1> DEFINE n == Len(records)
           from(s) == {k \in 1..n : records[k].source = s}
           sources == {records[k].source : k \in 1..n}
           key == [s \in sources |-> s]
           order == InOrder(sources, key)
           own(s) == SortedById(records, from(s))
           listed(s) == [p \in DOMAIN own(s) |-> records[own(s)[p]]]
           lists == [p \in DOMAIN order |-> listed(order[p])]
<1>0. n \in Nat /\ Range(records) = {records[k] : k \in 1..n}
  BY ListProperties
<1>1. InManifestOrder(records) = FlattenSeq(lists)
  BY DEF InManifestOrder
<1>2. IsFiniteSet(1..n)
  BY <1>0, FS_Interval
<1>3. IsFiniteSet(sources)
  <2> DEFINE f == [k \in 1..n |-> records[k].source]
  <2>1. f \in Surjection(1..n, sources)
    BY DEF Surjection
  <2> HIDE DEF f, sources
  <2> QED
    BY <1>2, <2>1, FS_Surjection
<1>4. \A s \in sources : s \in Int
  OBVIOUS
<1> HIDE DEF sources
<1>5. /\ IsList(order) /\ Len(order) \in Nat /\ Range(order) = sources
  <2>1. /\ \A x \in sources : key[x] \in Int
        /\ \A x, y \in sources : x # y => key[x] # key[y]
    BY <1>4
  <2> HIDE DEF key
  <2> QED
    BY <1>3, <2>1, Ordered
<1> HIDE DEF order
<1>6. DOMAIN order = 1..Len(order) /\ sources = {order[p] : p \in 1..Len(order)}
  BY <1>5, ListProperties
<1>7. ASSUME NEW s
      PROVE  IsList(listed(s)) /\ Range(listed(s)) = {records[k] : k \in from(s)}
  <2> DEFINE ids == [k \in from(s) |-> records[k].id]
  <2>1. own(s) = InOrder(from(s), ids)
    BY DEF SortedById
  <2>2. IsFiniteSet(from(s))
    BY <1>2, FS_Subset
  <2>3. /\ \A x \in from(s) : ids[x] \in Int
        /\ \A x, y \in from(s) : x # y => ids[x] # ids[y]
    OBVIOUS
  <2> DEFINE places == InOrder(from(s), ids)
             those == [p \in DOMAIN places |-> records[places[p]]]
  <2>4. IsList(places) /\ Len(places) \in Nat /\ Range(places) = from(s)
    <3> HIDE DEF from, ids
    <3> QED
      BY <2>2, <2>3, Ordered
  <2>5. listed(s) = those
    BY <2>1
  <2> HIDE DEF places, from
  <2>6. DOMAIN places = 1..Len(places) /\ from(s) = {places[p] : p \in 1..Len(places)}
    BY <2>4, ListProperties
  <2>7. those = [p \in 1..Len(places) |-> those[p]] /\ \A p \in 1..Len(places) : those[p] = records[places[p]]
    BY <2>6
  <2> HIDE DEF those
  <2>8. IsList(those) /\ Len(those) = Len(places)
    BY <2>4, <2>7, FunctionIsList
  <2>9. Range(those) = {those[p] : p \in 1..Len(places)}
    BY <2>8, ListProperties
  <2>10. {those[p] : p \in 1..Len(places)} = {records[k] : k \in from(s)}
    <3>1. ASSUME NEW p \in 1..Len(places) PROVE those[p] \in {records[k] : k \in from(s)}
      BY <2>6, <2>7
    <3>2. ASSUME NEW k \in from(s) PROVE records[k] \in {those[p] : p \in 1..Len(places)}
      BY <2>6, <2>7
    <3> QED
      BY <3>1, <3>2
  <2>11. listed(s) = those
    BY <2>5
  <2> HIDE DEF listed
  <2> QED
    BY <2>8, <2>9, <2>10, <2>11
<1> HIDE DEF listed
<1>8. /\ lists = [p \in 1..Len(order) |-> lists[p]]
      /\ \A p \in 1..Len(order) : lists[p] = listed(order[p])
  BY <1>6
<1> HIDE DEF lists
<1>9. IsList(lists) /\ Len(lists) = Len(order)
  BY <1>5, <1>8, FunctionIsList
<1>10. /\ IsList(FlattenSeq(lists))
       /\ Range(FlattenSeq(lists)) = UNION {Range(lists[p]) : p \in 1..Len(lists)}
  <2>1. \A p \in 1..Len(lists) : IsList(lists[p])
    BY <1>7, <1>8, <1>9
  <2> QED
    BY <1>9, <2>1, Flattened
<1>11. UNION {Range(lists[p]) : p \in 1..Len(lists)} = {records[k] : k \in 1..n}
  <2>1. ASSUME NEW p \in 1..Len(lists) PROVE Range(lists[p]) \subseteq {records[k] : k \in 1..n}
    <3>1. Range(lists[p]) = {records[k] : k \in from(order[p])}
      BY <1>7, <1>8, <1>9
    <3> QED
      BY <3>1
  <2>2. ASSUME NEW k \in 1..n PROVE \E p \in 1..Len(lists) : records[k] \in Range(lists[p])
    <3>1. records[k].source \in sources
      BY DEF sources
    <3>2. PICK p \in 1..Len(lists) : order[p] = records[k].source
      BY <1>6, <1>9, <3>1
    <3>3. Range(lists[p]) = {records[j] : j \in from(order[p])}
      BY <1>7, <1>8, <1>9
    <3>4. k \in from(order[p])
      BY <3>2
    <3> QED
      BY <3>3, <3>4
  <2> HIDE DEF from
  <2>3. ASSUME NEW x \in {records[k] : k \in 1..n} PROVE \E p \in 1..Len(lists) : x \in Range(lists[p])
    <3>1. PICK k \in 1..n : x = records[k]
      OBVIOUS
    <3> QED
      BY <2>2, <3>1
  <2> DEFINE all == {records[k] : k \in 1..n}
             joined == UNION {Range(lists[p]) : p \in 1..Len(lists)}
  <2>4. \A x \in joined : x \in all
    BY <2>1
  <2>5. \A x \in all : x \in joined
    BY <2>3
  <2>6. joined = all
    <3> HIDE DEF joined, all
    <3> QED
      BY <2>4, <2>5
  <2> QED
    BY <2>6
<1> QED
  BY <1>0, <1>1, <1>10, <1>11

-----------------------------------------------------------------------------
(* What is selected from one source *)

\* A record carries what the manifest says of its member, and the tokens that an
\* entry of the ledger gives it.
RecordFits(r, source, member, entries) ==
  /\ r.source = source /\ r.id = member.id /\ r.lineage = member.lineage
  /\ r.group = member.group /\ r.content = member.content
  /\ \E e \in entries : e.id = member.id /\ r.tokens = e.tokens /\ r.truncated = e.truncated

\* A source whose manifest and ledger are well formed, with a record for each
\* member of the consumed split.
SoundSource(s, consumed) ==
  LET members == s.manifest.splits[consumed]
      entries == RecordsOf(s.ledger, consumed)
  IN  /\ s.source \in Int
      /\ IsList(members) /\ \A k \in 1..Len(members) : IsMember(members[k])
      /\ \A j, k \in 1..Len(members) : members[j].id = members[k].id => j = k
      /\ IsFiniteSet(entries)
      /\ \A e \in entries : e.tokens \in Nat /\ e.truncated \in BOOLEAN
      /\ \A e, f \in entries : e.id = f.id => e = f
      /\ Covers(s.ledger, s.manifest, consumed)
      /\ IsList(s.records) /\ Len(s.records) = Len(members)
      /\ \A k \in 1..Len(members) : RecordFits(s.records[k], s.source, members[k], entries)

LEMMA SoundRecords ==
  ASSUME NEW s, NEW consumed, SoundSource(s, consumed)
  PROVE  /\ s.records \in Seq(Range(s.records)) /\ Len(s.records) \in Nat
         /\ \A k \in 1..Len(s.records) : IsCounted(s.records[k])
         /\ \A j, k \in 1..Len(s.records) : s.records[j].id = s.records[k].id => j = k
<1> DEFINE members == s.manifest.splits[consumed]
           entries == RecordsOf(s.ledger, consumed)
<1>1. /\ IsList(s.records) /\ Len(s.records) = Len(members)
      /\ \A k \in 1..Len(members) : IsMember(members[k])
      /\ \A j, k \in 1..Len(members) : members[j].id = members[k].id => j = k
      /\ \A e \in entries : e.tokens \in Nat /\ e.truncated \in BOOLEAN
      /\ \A k \in 1..Len(members) : RecordFits(s.records[k], s.source, members[k], entries)
  BY DEF SoundSource
<1>2. s.records \in Seq(Range(s.records)) /\ Len(s.records) \in Nat
  BY <1>1, ListProperties DEF IsList
<1> HIDE DEF members, entries
<1>3. ASSUME NEW k \in 1..Len(members)
      PROVE  IsCounted(s.records[k]) /\ s.records[k].id = members[k].id
  <2>1. IsMember(members[k]) /\ RecordFits(s.records[k], s.source, members[k], entries)
    BY <1>1
  <2>2. PICK e \in entries : s.records[k].tokens = e.tokens /\ s.records[k].truncated = e.truncated
    BY <2>1 DEF RecordFits
  <2>3. s.records[k].tokens \in Nat /\ s.records[k].truncated \in BOOLEAN
    <3>1. e.tokens \in Nat
      BY <1>1
    <3>2. e.truncated \in BOOLEAN
      BY <1>1
    <3> QED
      BY <2>2, <3>1, <3>2
  <2>4. IsNamed(s.records[k]) /\ s.records[k].id = members[k].id
    BY <2>1 DEF RecordFits, IsMember, IsNamed
  <2> QED
    BY <2>3, <2>4 DEF IsCounted
<1> QED
  BY <1>1, <1>2, <1>3

\* The selection in terms of the indexes that are selected.
Chosen(sel, s, K, quota) ==
  /\ K \subseteq 1..Len(s.records)
  /\ IsList(sel.records) /\ Once(sel.records)
  /\ Range(sel.records) = {s.records[k] : k \in K}
  /\ \A c \in AtomicComponents(s.records) :
        \/ c \subseteq K
        \/ /\ c \cap K = {}
           /\ (\E k \in c : s.records[k].truncated)
                \/ SumFunction([k \in c |-> s.records[k].tokens]) > sel.remaining
  /\ \A k \in K : ~s.records[k].truncated
  /\ \A e \in sel.exclusions : e.source = s.source
  /\ {e.id : e \in sel.exclusions} = {s.records[k].id : k \in (1..Len(s.records)) \ K}
  /\ sel.remaining \in Int /\ sel.remaining <= quota

LEMMA GroupsAreApart ==
  ASSUME NEW s, NEW consumed, SoundSource(s, consumed)
  PROVE  \A g \in AtomicGroups(s.records) : IsGroup(g) /\ Apart(g, AtomicGroups(s.records))
<1> DEFINE records == s.records
           components == AtomicComponents(records)
<1>1. /\ records \in Seq(Range(records)) /\ Len(records) \in Nat
      /\ \A k \in 1..Len(records) : IsCounted(records[k])
      /\ \A j, k \in 1..Len(records) : records[j].id = records[k].id => j = k
  BY SoundRecords
<1>2. /\ \A c \in components : c \subseteq 1..Len(records)
      /\ \A c, d \in components : \A k : k \in c /\ k \in d => c = d
  BY <1>1, ComponentsAreClasses
<1>3. AtomicGroups(records) = {GroupOf(records, c) : c \in components}
  BY GroupsOfComponents
<1> HIDE DEF records, components
<1>4. ASSUME NEW c \in components
      PROVE  LET group == GroupOf(records, c)
             IN  IsGroup(group) /\ Range(group.records) = {records[k] : k \in c}
  <2>1. c \subseteq 1..Len(records)
    BY <1>2
  <2>2. \A i, j \in c : records[i] = records[j] => i = j
    BY <1>1, <2>1
  <2>3. LET group == GroupOf(records, c)
        IN  /\ IsList(group.records) /\ Range(group.records) = {records[k] : k \in c}
            /\ Once(group.records) /\ group.truncated \in BOOLEAN /\ group.tokens \in Nat
    <3>1. GroupFits(GroupOf(records, c), records, c)
      BY <1>1, <2>1, GroupHolds
    <3> QED
      BY <2>2, <3>1 DEF GroupFits
  <2> QED
    BY <2>3 DEF IsGroup
<1>5. ASSUME NEW g \in AtomicGroups(records), NEW h \in AtomicGroups(records), h # g
      PROVE  Range(h.records) \cap Range(g.records) = {}
  <2>1. PICK c \in components : g = GroupOf(records, c)
    BY <1>3
  <2>2. PICK d \in components : h = GroupOf(records, d)
    BY <1>3
  <2>3. \A k : ~(k \in c /\ k \in d)
    BY <1>2, <1>5, <2>1, <2>2
  <2>4. /\ Range(g.records) = {records[k] : k \in c}
        /\ Range(h.records) = {records[k] : k \in d}
    BY <1>4, <2>1, <2>2
  <2>5. \A j \in c, k \in d : records[j] # records[k]
    BY <1>1, <1>2, <2>3
  <2> QED
    BY <2>4, <2>5
<1>6. \A g \in AtomicGroups(records) : IsGroup(g)
  BY <1>3, <1>4
<1> QED
  BY <1>5, <1>6 DEF Apart, records

LEMMA SourceIsChosen ==
  ASSUME NEW s, NEW consumed, SoundSource(s, consumed), NEW quota \in Int, NEW salt,
         TellsNames(salt, s.source, s.records)
  PROVE  \E K : Chosen(SelectGroups(AtomicGroups(s.records), quota, salt, s.source), s, K, quota)
<1> DEFINE records == s.records
           components == AtomicComponents(records)
           groups == AtomicGroups(records)
           sel == SelectGroups(groups, quota, salt, s.source)
<1>1. /\ records \in Seq(Range(records)) /\ Len(records) \in Nat
      /\ \A k \in 1..Len(records) : IsCounted(records[k])
      /\ \A j, k \in 1..Len(records) : records[j].id = records[k].id => j = k
  BY SoundRecords
<1>2. /\ \A c \in components : c \subseteq 1..Len(records)
      /\ \A c, d \in components : \A k : k \in c /\ k \in d => c = d
      /\ \A k \in 1..Len(records) : \E c \in components : k \in c
  BY <1>1, ComponentsAreClasses
<1>3. groups = {GroupOf(records, c) : c \in components}
  BY GroupsOfComponents
<1>4. KeptSome(sel, groups, s.source, quota)
  <2>1. \A g \in groups : IsGroup(g) /\ Apart(g, groups)
    BY GroupsAreApart
  <2>2. LET order == InDigestOrder(groups, salt, s.source)
        IN  IsList(order) /\ Range(order) = groups /\ Once(order)
    BY <1>1, GroupsAreListed
  <2> HIDE DEF groups
  <2> QED
    BY <2>1, <2>2, SelectionKeeps
<1>5. PICK C \in SUBSET groups : Kept(sel, C, groups, s.source, quota)
  BY <1>4 DEF KeptSome
<1> HIDE DEF sel, groups, components
<1>6. ASSUME NEW c \in components
      PROVE  LET group == GroupOf(records, c)
             IN  /\ group \in groups
                 /\ Range(group.records) = {records[k] : k \in c}
                 /\ group.truncated <=> \E k \in c : records[k].truncated
                 /\ ~group.truncated => group.tokens = SumFunction([k \in c |-> records[k].tokens])
  <2>1. c \subseteq 1..Len(records) /\ GroupOf(records, c) \in groups
    BY <1>2, <1>3
  <2>2. \A i, j \in c : records[i] = records[j] => i = j
    BY <1>1, <2>1
  <2>3. LET group == GroupOf(records, c)
        IN  /\ Range(group.records) = {records[k] : k \in c}
            /\ group.truncated <=> \E k \in c : records[k].truncated
            /\ ~group.truncated => group.tokens = SumFunction([k \in c |-> records[k].tokens])
    <3> HIDE DEF records
    <3> QED
      BY <1>1, <2>1, GroupHolds DEF GroupFits
  <2> QED
    BY <2>1, <2>3
<1> HIDE DEF records
<1> DEFINE taken == {c \in components : GroupOf(records, c) \in C}
           K == UNION taken
<1>7. K \subseteq 1..Len(records)
  BY <1>2
<1>8. RecordsIn(C) = {records[k] : k \in K}
  <2>1. ASSUME NEW x \in RecordsIn(C) PROVE x \in {records[k] : k \in K}
    <3>1. PICK g \in C : x \in Range(g.records)
      BY DEF RecordsIn
    <3>2. PICK c \in components : g = GroupOf(records, c)
      BY <1>3
    <3>3. PICK k \in c : x = records[k]
      BY <1>6, <3>1, <3>2
    <3>4. k \in K
      BY <3>2
    <3> QED
      BY <3>3, <3>4
  <2>2. ASSUME NEW k \in K PROVE records[k] \in RecordsIn(C)
    <3>1. PICK c \in components : k \in c /\ GroupOf(records, c) \in C
      OBVIOUS
    <3>2. records[k] \in Range(GroupOf(records, c).records)
      BY <1>6, <3>1
    <3> QED
      BY <3>1, <3>2 DEF RecordsIn
  <2> HIDE DEF K
  <2> QED
    BY <2>1, <2>2
<1>9. ASSUME NEW c \in components, GroupOf(records, c) \notin C PROVE c \cap K = {}
  BY <1>2, <1>9
<1>10. RecordsIn(groups \ C) = {records[k] : k \in (1..Len(records)) \ K}
  <2>1. ASSUME NEW x \in RecordsIn(groups \ C) PROVE x \in {records[k] : k \in (1..Len(records)) \ K}
    <3>1. PICK g \in groups \ C : x \in Range(g.records)
      BY DEF RecordsIn
    <3>2. PICK c \in components : g = GroupOf(records, c)
      BY <1>3
    <3>3. PICK k \in c : x = records[k]
      BY <1>6, <3>1, <3>2
    <3>4. k \in (1..Len(records)) \ K
      <4>1. c \cap K = {}
        BY <1>9, <3>1, <3>2
      <4> HIDE DEF K
      <4> QED
        BY <1>2, <4>1
    <3> HIDE DEF K
    <3> QED
      BY <3>3, <3>4
  <2>2. ASSUME NEW k \in (1..Len(records)) \ K PROVE records[k] \in RecordsIn(groups \ C)
    <3>1. PICK c \in components : k \in c
      BY <1>2
    <3>2. GroupOf(records, c) \notin C
      BY <3>1
    <3>3. records[k] \in Range(GroupOf(records, c).records) /\ GroupOf(records, c) \in groups
      <4>1. /\ Range(GroupOf(records, c).records) = {records[j] : j \in c}
            /\ GroupOf(records, c) \in groups
        BY <1>6
      <4> HIDE DEF K
      <4> QED
        BY <3>1, <4>1
    <3> QED
      BY <3>2, <3>3 DEF RecordsIn
  <2> HIDE DEF K
  <2> QED
    BY <2>1, <2>2
<1>11. ASSUME NEW c \in components
       PROVE  \/ c \subseteq K
              \/ /\ c \cap K = {}
                 /\ (\E k \in c : records[k].truncated)
                      \/ SumFunction([k \in c |-> records[k].tokens]) > sel.remaining
  <2>1. CASE GroupOf(records, c) \in C
    BY <2>1
  <2>2. CASE GroupOf(records, c) \notin C
    <3>1. c \cap K = {}
      BY <1>9, <2>2
    <3>2. GroupOf(records, c) \in groups \ C
      BY <1>6, <2>2
    <3>3. GroupOf(records, c).truncated \/ GroupOf(records, c).tokens > sel.remaining
      BY <1>5, <3>2 DEF Kept
    <3>4. (\E k \in c : records[k].truncated) \/ SumFunction([k \in c |-> records[k].tokens]) > sel.remaining
      <4> HIDE DEF K
      <4>1. CASE GroupOf(records, c).truncated
        BY <1>6, <4>1
      <4>2. CASE ~GroupOf(records, c).truncated
        BY <1>6, <3>3, <4>2
      <4> QED
        BY <4>1, <4>2
    <3> QED
      BY <3>1, <3>4
  <2> QED
    BY <2>1, <2>2
<1>12. ASSUME NEW k \in K PROVE ~records[k].truncated
  <2>1. PICK c \in components : k \in c /\ GroupOf(records, c) \in C
    OBVIOUS
  <2>2. ~GroupOf(records, c).truncated
    BY <1>5, <2>1 DEF Kept
  <2> QED
    BY <1>6, <2>1, <2>2
<1> HIDE DEF K
<1>13. {e.id : e \in sel.exclusions} = {records[k].id : k \in (1..Len(records)) \ K}
  <2>1. {e.id : e \in sel.exclusions} = {r.id : r \in RecordsIn(groups \ C)}
    BY <1>5 DEF Kept
  <2>2. {r.id : r \in {records[k] : k \in (1..Len(records)) \ K}} = {records[k].id : k \in (1..Len(records)) \ K}
    OBVIOUS
  <2> QED
    BY <1>10, <2>1, <2>2
<1>14. Chosen(sel, s, K, quota)
  <2>1. /\ IsList(sel.records) /\ Once(sel.records) /\ Range(sel.records) = {records[k] : k \in K}
        /\ \A e \in sel.exclusions : e.source = s.source
        /\ sel.remaining \in Int /\ sel.remaining <= quota
    BY <1>5, <1>8 DEF Kept
  <2> QED
    BY <1>7, <1>11, <1>12, <1>13, <2>1 DEF Chosen, components, records
<1> QED
  BY <1>14 DEF sel, groups, records

-----------------------------------------------------------------------------
(* Quotas *)

LEMMA Division ==
  ASSUME NEW a \in Nat, NEW t \in Nat \ {0}
  PROVE  a \div t \in Nat /\ a % t \in Nat /\ a % t < t /\ a = t * (a \div t) + (a % t)
<1>1. a \div t \in Nat
  OBVIOUS
<1>2. a % t \in Nat
  OBVIOUS
<1>3. a % t < t
  OBVIOUS
<1>4. a = t * (a \div t) + (a % t)
  OBVIOUS
<1> QED
  BY <1>1, <1>2, <1>3, <1>4

\* A specification that can be shared out, by its sources and weights.
CanShare(budget, weights, S) ==
  /\ budget \in Nat \ {0} /\ IsFiniteSet(S) /\ S \subseteq Int
  /\ weights \in [S -> Nat \ {0}]

LEMMA SharesAreNumbers ==
  ASSUME NEW budget, NEW weights, NEW S, CanShare(budget, weights, S), NEW s \in S
  PROVE  LET total == TotalWeight(weights)
             quota == AllocateTokenQuotas(budget, weights)[s]
             bonus == IF Cardinality(Ahead(budget, weights, s)) < Leftover(budget, weights) THEN 1 ELSE 0
         IN  /\ total \in Nat \ {0}
             /\ quota = FloorQuota(budget, weights, s) + bonus /\ quota \in Nat
             /\ FloorQuota(budget, weights, s) \in Nat
             /\ Remainder(budget, weights, s) \in Nat /\ Remainder(budget, weights, s) < total
             /\ budget * weights[s] = total * FloorQuota(budget, weights, s) + Remainder(budget, weights, s)
<1> DEFINE total == TotalWeight(weights)
<1>1. weights \in [S -> Nat] /\ weights[s] \in Nat \ {0} /\ IsFiniteSet(S) /\ budget \in Nat \ {0} /\ DOMAIN weights = S
  BY DEF CanShare
<1>2. total \in Nat \ {0}
  <2>1. total = weights[s] + SumFunction([y \in S \ {s} |-> weights[y]])
    BY <1>1, SumWithout DEF TotalWeight
  <2> DEFINE rest == [y \in S \ {s} |-> weights[y]]
  <2>2. rest \in [S \ {s} -> Nat] /\ IsFiniteSet(S \ {s})
    BY <1>1, FS_RemoveElement
  <2>3. SumFunction(rest) \in Nat
    <3> HIDE DEF rest
    <3> QED
      BY <2>2, SumIsNatural
  <2> HIDE DEF total
  <2> QED
    BY <1>1, <2>1, <2>3
<1> DEFINE product == budget * weights[s]
<1>3. product \in Nat
  BY <1>1
<1>4. FloorQuota(budget, weights, s) = product \div total /\ Remainder(budget, weights, s) = product % total
  BY DEF FloorQuota, Remainder
<1> HIDE DEF total, product
<1>5. /\ product \div total \in Nat /\ product % total \in Nat /\ product % total < total
      /\ product = total * (product \div total) + (product % total)
  BY <1>2, <1>3, Division
<1> DEFINE bonus == IF Cardinality(Ahead(budget, weights, s)) < Leftover(budget, weights) THEN 1 ELSE 0
<1>6. AllocateTokenQuotas(budget, weights)[s] = FloorQuota(budget, weights, s) + bonus
  BY <1>1 DEF AllocateTokenQuotas
<1>7. bonus \in {0, 1}
  OBVIOUS
<1> HIDE DEF bonus
<1>8. AllocateTokenQuotas(budget, weights)[s] \in Nat
  BY <1>4, <1>5, <1>6, <1>7
<1> QED
  BY <1>2, <1>4, <1>5, <1>6, <1>8 DEF total, product, bonus

-----------------------------------------------------------------------------
(* What is composed *)

ReadySource(s, wanted, k) ==
  /\ s.source = wanted.sources[k]
  /\ SoundSource(s, wanted.consumed)
  /\ TellsNames(wanted.salt, s.source, s.records)

\* All sources of a specification have been loaded.
Ready(wanted, loaded) ==
  /\ IsList(wanted.sources) /\ Len(wanted.sources) # 0
  /\ \A j, k \in 1..Len(wanted.sources) : wanted.sources[j] = wanted.sources[k] => j = k
  /\ IsList(loaded) /\ Len(loaded) = Len(wanted.sources)
  /\ \A k \in 1..Len(loaded) : ReadySource(loaded[k], wanted, k)
  /\ CanShare(wanted.budget, wanted.weights, ToSet(wanted.sources))

\* How a mixture accounts for a source of which the records at K are selected.
Accounts(mixture, result, s, K) ==
  LET n == Len(s.records)
  IN  /\ result.source = s.source /\ result.manifest = s.manifest /\ result.ledger = s.ledger
      /\ SoundSource(s, mixture.consumed)
      /\ K \subseteq 1..n
      /\ {r \in ToSet(mixture.selected) : r.source = s.source} = {s.records[k] : k \in K}
      /\ {e.id : e \in {e \in mixture.exclusions : e.source = s.source}}
           = {s.records[k].id : k \in (1..n) \ K}
      /\ \A k \in K : ~s.records[k].truncated
      /\ \A c \in AtomicComponents(s.records) :
            \/ c \subseteq K
            \/ /\ c \cap K = {}
               /\ (\E k \in c : s.records[k].truncated)
                    \/ SumFunction([k \in c |-> s.records[k].tokens]) > result.shortfall

LEMMA SourceResults ==
  ASSUME NEW s, NEW quota, NEW selection
  PROVE  LET result == SourceResult(s, quota, selection)
         IN  /\ result.source = s.source /\ result.manifest = s.manifest /\ result.ledger = s.ledger
             /\ result.weight = spec.weights[s.source] /\ result.quota = quota
             /\ result.shortfall = selection.remaining
BY DEF SourceResult

LEMMA ComposedAccounts ==
  ASSUME NEW loaded, Ready(spec, loaded)
  PROVE  LET mixture == MixtureOf(loaded)
         IN  /\ mixture.consumed = spec.consumed /\ mixture.budget = spec.budget
             /\ IsList(mixture.sources) /\ Len(mixture.sources) = Len(loaded)
             /\ IsList(mixture.selected)
             /\ ToSet(mixture.selected) \subseteq UNION {Range(loaded[k].records) : k \in 1..Len(loaded)}
             /\ \A k \in 1..Len(loaded) :
                   /\ mixture.sources[k].weight = spec.weights[loaded[k].source]
                   /\ mixture.sources[k].quota = AllocateTokenQuotas(spec.budget, spec.weights)[loaded[k].source]
                   /\ \E K : Accounts(mixture, mixture.sources[k], loaded[k], K)
<1> DEFINE n == Len(loaded)
           quotas == AllocateTokenQuotas(spec.budget, spec.weights)
           quota(k) == quotas[loaded[k].source]
           sel == [k \in 1..n |-> SelectSource(loaded[k], quotas)]
           of == [k \in 1..n |-> sel[k].records]
           joined == FlattenSeq(of)
           K == [k \in 1..n |-> CHOOSE I : Chosen(sel[k], loaded[k], I, quota(k))]
           mixture == MixtureOf(loaded)
           record(k, i) == loaded[k].records[i]
<1>0. /\ n \in Nat /\ n # 0
      /\ \A k \in 1..n : ReadySource(loaded[k], spec, k)
      /\ \A j, k \in 1..n : loaded[j].source = loaded[k].source => j = k
      /\ CanShare(spec.budget, spec.weights, ToSet(spec.sources))
      /\ \A k \in 1..n : loaded[k].source \in ToSet(spec.sources)
  <2>1. /\ IsList(loaded) /\ IsList(spec.sources) /\ n = Len(spec.sources) /\ n # 0
        /\ \A j, k \in 1..n : spec.sources[j] = spec.sources[k] => j = k
        /\ \A k \in 1..n : ReadySource(loaded[k], spec, k)
        /\ CanShare(spec.budget, spec.weights, ToSet(spec.sources))
    BY DEF Ready
  <2>2. n \in Nat /\ ToSet(spec.sources) = {spec.sources[k] : k \in 1..n}
    BY <2>1, ListProperties
  <2>3. \A k \in 1..n : loaded[k].source = spec.sources[k]
    BY <2>1 DEF ReadySource
  <2> QED
    BY <2>1, <2>2, <2>3
<1>1. /\ mixture.consumed = spec.consumed /\ mixture.budget = spec.budget
      /\ mixture.sources = [k \in 1..n |-> SourceResult(loaded[k], quotas[loaded[k].source], sel[k])]
      /\ mixture.selected = InManifestOrder(joined)
      /\ mixture.exclusions = UNION {sel[k].exclusions : k \in 1..n}
  BY DEF MixtureOf
<1> HIDE DEF mixture
<1>2. ASSUME NEW k \in 1..n
      PROVE  /\ SoundSource(loaded[k], spec.consumed)
             /\ Len(loaded[k].records) \in Nat
             /\ Chosen(sel[k], loaded[k], K[k], quota(k))
  <2>1. SoundSource(loaded[k], spec.consumed) /\ TellsNames(spec.salt, loaded[k].source, loaded[k].records)
    BY <1>0 DEF ReadySource
  <2>2. quota(k) \in Int
    BY <1>0, SharesAreNumbers
  <2>3. sel[k] = SelectGroups(AtomicGroups(loaded[k].records), quota(k), spec.salt, loaded[k].source)
    BY DEF SelectSource
  <2> HIDE DEF quota
  <2>4. \E I : Chosen(sel[k], loaded[k], I, quota(k))
    <3> HIDE DEF sel
    <3> QED
      BY <2>1, <2>2, <2>3, SourceIsChosen
  <2>5. K[k] = CHOOSE I : Chosen(sel[k], loaded[k], I, quota(k))
    BY DEF quota
  <2>6. Chosen(sel[k], loaded[k], K[k], quota(k))
    <3> HIDE DEF sel, K
    <3> QED
      BY <2>4, <2>5
  <2> QED
    BY <2>1, <2>6, SoundRecords
<1> HIDE DEF sel, K, quota, quotas
<1>3. ASSUME NEW k \in 1..n, NEW i \in 1..Len(loaded[k].records)
      PROVE  record(k, i).source = loaded[k].source /\ record(k, i).source \in Int /\ record(k, i).id \in Int
  <2>1. /\ loaded[k].source \in Int
        /\ Len(loaded[k].records) = Len(loaded[k].manifest.splits[spec.consumed])
        /\ RecordFits(record(k, i), loaded[k].source, loaded[k].manifest.splits[spec.consumed][i],
                      RecordsOf(loaded[k].ledger, spec.consumed))
        /\ IsMember(loaded[k].manifest.splits[spec.consumed][i])
    BY <1>2 DEF SoundSource
  <2> QED
    BY <2>1 DEF RecordFits, IsMember
<1>4. ASSUME NEW k \in 1..n
      PROVE  /\ K[k] \subseteq 1..Len(loaded[k].records)
             /\ IsList(of[k]) /\ Once(of[k]) /\ Range(of[k]) = {record(k, i) : i \in K[k]}
             /\ of[k] = sel[k].records
  BY <1>2 DEF Chosen
<1>5. IsList(of) /\ Len(of) = n
  <2>1. of = [k \in 1..n |-> of[k]]
    OBVIOUS
  <2> HIDE DEF of
  <2> QED
    BY <1>0, <2>1, FunctionIsList
<1> HIDE DEF of
<1>6. ASSUME NEW j \in 1..n, NEW k \in 1..n, j # k PROVE Range(of[j]) \cap Range(of[k]) = {}
  <2> SUFFICES ASSUME NEW i \in K[j], NEW h \in K[k], record(j, i) = record(k, h) PROVE FALSE
    BY <1>4
  <2>1. record(j, i).source = loaded[j].source /\ record(k, h).source = loaded[k].source
    BY <1>3, <1>4
  <2> HIDE DEF record
  <2> QED
    BY <1>0, <1>6, <2>1
<1>7. /\ IsList(joined) /\ Once(joined)
      /\ Range(joined) = UNION {Range(of[k]) : k \in 1..n}
  <2>1. \A k \in 1..Len(of) : IsList(of[k]) /\ Once(of[k])
    BY <1>4, <1>5
  <2> QED
    BY <1>0, <1>5, <1>6, <2>1, Flattened, FlattenedOnce
<1> HIDE DEF joined
<1>8. ASSUME NEW x \in Range(joined) PROVE \E k \in 1..n : \E i \in K[k] : x = record(k, i)
  <2>1. PICK k \in 1..n : x \in Range(of[k])
    BY <1>7
  <2> QED
    BY <1>4, <2>1
<1>9. /\ \A p \in 1..Len(joined) : joined[p].source \in Int /\ joined[p].id \in Int
      /\ \A p, q \in 1..Len(joined) :
            joined[p].source = joined[q].source /\ joined[p].id = joined[q].id => p = q
  <2>0. \A p \in 1..Len(joined) : joined[p] \in Range(joined)
    BY <1>7, ListProperties
  <2>1. ASSUME NEW p \in 1..Len(joined) PROVE joined[p].source \in Int /\ joined[p].id \in Int
    <3>1. PICK k \in 1..n : \E i \in K[k] : joined[p] = record(k, i)
      BY <1>8, <2>0
    <3>2. PICK i \in K[k] : joined[p] = record(k, i)
      BY <3>1
    <3> QED
      BY <1>3, <1>4, <3>2
  <2>2. ASSUME NEW p \in 1..Len(joined), NEW q \in 1..Len(joined),
               joined[p].source = joined[q].source, joined[p].id = joined[q].id
        PROVE  p = q
    <3>1. PICK j \in 1..n : \E i \in K[j] : joined[p] = record(j, i)
      BY <1>8, <2>0
    <3>2. PICK i \in K[j] : joined[p] = record(j, i)
      BY <3>1
    <3>3. PICK k \in 1..n : \E h \in K[k] : joined[q] = record(k, h)
      BY <1>8, <2>0
    <3>4. PICK h \in K[k] : joined[q] = record(k, h)
      BY <3>3
    <3>5. j = k
      <4>1. joined[p].source = loaded[j].source /\ joined[q].source = loaded[k].source
        BY <1>3, <1>4, <3>2, <3>4
      <4> QED
        BY <1>0, <2>2, <4>1
    <3>6. i = h
      <4>1. \A a, b \in 1..Len(loaded[j].records) : record(j, a).id = record(j, b).id => a = b
        BY <1>2, SoundRecords
      <4>2. i \in 1..Len(loaded[j].records) /\ h \in 1..Len(loaded[j].records)
        BY <1>4, <3>5
      <4>3. record(j, i).id = record(j, h).id
        BY <2>2, <3>2, <3>4, <3>5
      <4> HIDE DEF record
      <4> QED
        BY <4>1, <4>2, <4>3
    <3>7. joined[p] = joined[q]
      BY <3>2, <3>4, <3>5, <3>6
    <3> QED
      BY <1>7, <3>7 DEF Once
  <2> QED
    BY <2>1, <2>2
<1>10. /\ IsList(mixture.selected) /\ ToSet(mixture.selected) = Range(joined)
  <2>1. IsList(InManifestOrder(joined)) /\ Range(InManifestOrder(joined)) = Range(joined)
    BY <1>7, <1>9, ManifestOrderKeeps
  <2> QED
    BY <1>1, <2>1, ListProperties
<1>11. ToSet(mixture.selected) \subseteq UNION {Range(loaded[k].records) : k \in 1..n}
  <2> SUFFICES ASSUME NEW x \in Range(joined) PROVE \E k \in 1..n : x \in Range(loaded[k].records)
    BY <1>10
  <2>1. PICK k \in 1..n : \E i \in K[k] : x = record(k, i)
    BY <1>8
  <2>2. IsList(loaded[k].records)
    BY <1>2 DEF SoundSource
  <2>3. Range(loaded[k].records) = {record(k, i) : i \in 1..Len(loaded[k].records)}
    BY <2>2, ListProperties
  <2> QED
    BY <1>4, <2>1, <2>3
<1>12. IsList(mixture.sources) /\ Len(mixture.sources) = n
  <2> DEFINE sources == [k \in 1..n |-> SourceResult(loaded[k], quotas[loaded[k].source], sel[k])]
  <2>1. sources = [k \in 1..n |-> sources[k]]
    OBVIOUS
  <2> HIDE DEF sources
  <2>2. IsList(sources) /\ Len(sources) = n
    BY <1>0, <2>1, FunctionIsList
  <2> QED
    BY <1>1, <2>2 DEF sources
<1>13. ASSUME NEW k \in 1..n
       PROVE  /\ mixture.sources[k].weight = spec.weights[loaded[k].source]
              /\ mixture.sources[k].quota = quotas[loaded[k].source]
              /\ Accounts(mixture, mixture.sources[k], loaded[k], K[k])
  <2> DEFINE result == mixture.sources[k]
             s == loaded[k]
  <2>1. /\ result.source = s.source /\ result.manifest = s.manifest /\ result.ledger = s.ledger
        /\ result.weight = spec.weights[s.source] /\ result.quota = quotas[s.source]
        /\ result.shortfall = sel[k].remaining
    BY <1>1, SourceResults
  <2>2. {r \in ToSet(mixture.selected) : r.source = s.source} = {s.records[i] : i \in K[k]}
    <3>1. ASSUME NEW r \in Range(joined), r.source = s.source PROVE r \in {s.records[i] : i \in K[k]}
      <4>1. PICK j \in 1..n : \E i \in K[j] : r = record(j, i)
        BY <1>8
      <4>2. PICK i \in K[j] : r = record(j, i)
        BY <4>1
      <4>3. r.source = loaded[j].source
        BY <1>3, <1>4, <4>2
      <4>4. j = k
        BY <1>0, <3>1, <4>3
      <4> QED
        BY <4>2, <4>4
    <3>2. ASSUME NEW i \in K[k] PROVE s.records[i] \in Range(joined) /\ s.records[i].source = s.source
      <4>1. record(k, i) \in Range(of[k])
        BY <1>4
      <4>2. record(k, i) \in Range(joined)
        BY <1>7, <4>1
      <4> QED
        BY <1>3, <1>4, <4>2
    <3> QED
      BY <1>10, <3>1, <3>2
  <2>3. {e.id : e \in {e \in mixture.exclusions : e.source = s.source}}
           = {s.records[i].id : i \in (1..Len(s.records)) \ K[k]}
    <3>1. \A j \in 1..n : \A e \in sel[j].exclusions : e.source = loaded[j].source
      BY <1>2 DEF Chosen
    <3>2. {e \in mixture.exclusions : e.source = s.source} = sel[k].exclusions
      <4>1. ASSUME NEW e \in mixture.exclusions, e.source = s.source PROVE e \in sel[k].exclusions
        <5>1. PICK j \in 1..n : e \in sel[j].exclusions
          BY <1>1
        <5>2. j = k
          BY <1>0, <3>1, <4>1, <5>1
        <5> QED
          BY <5>1, <5>2
      <4>2. ASSUME NEW e \in sel[k].exclusions PROVE e \in mixture.exclusions /\ e.source = s.source
        BY <1>1, <3>1
      <4> HIDE DEF s
      <4> QED
        BY <4>1, <4>2
    <3>3. {e.id : e \in sel[k].exclusions} = {s.records[i].id : i \in (1..Len(s.records)) \ K[k]}
      BY <1>2 DEF Chosen
    <3> QED
      BY <3>2, <3>3
  <2>4. Chosen(sel[k], s, K[k], quota(k)) /\ SoundSource(s, mixture.consumed)
    BY <1>1, <1>2
  <2> HIDE DEF result, s
  <2>5. Accounts(mixture, result, s, K[k])
    BY <2>1, <2>2, <2>3, <2>4 DEF Accounts, Chosen
  <2> QED
    BY <2>1, <2>5 DEF result, s
<1> QED
  BY <1>1, <1>10, <1>11, <1>12, <1>13 DEF mixture, quotas

-----------------------------------------------------------------------------
(* What holds of a composed mixture *)

IdsOf(mixture, source) == {r.id : r \in {r \in ToSet(mixture.selected) : r.source = source}}

AllOrNothing(members, ids) ==
  \A component \in ConnectedComponents(members) :
    LET own == {members[k].id : k \in component}
    IN  own \subseteq ids \/ own \cap ids = {}

KeepsTogether(mixture, result) ==
  LET members == result.manifest.splits[mixture.consumed]
      ids == IdsOf(mixture, result.source)
      entries == RecordsOf(result.ledger, mixture.consumed)
  IN  /\ AllOrNothing(members, ids)
      /\ \A entry \in entries : entry.truncated => entry.id \notin ids
      /\ result.accepted = SumFunction([e \in {e \in entries : e.id \in ids} |-> e.tokens])

LeavesNoRoom(mixture, result) ==
  LET members == result.manifest.splits[mixture.consumed]
      selected == IdsOf(mixture, result.source)
      listed == {e.id : e \in {e \in mixture.exclusions : e.source = result.source}}
  IN  /\ listed = {m.id : m \in ToSet(members)} \ selected
      /\ \A component \in ConnectedComponents(members) :
            LET own == {e \in RecordsOf(result.ledger, mixture.consumed) :
                           e.id \in {members[k].id : k \in component}}
            IN  \/ {e.id : e \in own} \subseteq selected
                \/ \E e \in own : e.truncated
                \/ SumFunction([e \in own |-> e.tokens]) > result.shortfall

\* The entries for the members at some positions.
EntriesAt(entries, members, c) == {e \in entries : e.id \in {members[k].id : k \in c}}

\* The entry of the ledger for a record.
EntryFor(entries, id) == CHOOSE e \in entries : e.id = id

\* What a source says of its members in other words.
RecordIsOf(r, member, e, entries) ==
  /\ r.id = member.id /\ e \in entries /\ e.id = member.id
  /\ r.tokens = e.tokens /\ r.truncated = e.truncated /\ e.tokens \in Nat

\* Records, members and entries in step with each other.
InStep(records, members, entries, n) ==
  /\ ConnectedComponents(members) = AtomicComponents(records)
  /\ Len(members) = n /\ Len(records) = n /\ n \in Nat
  /\ \A c \in AtomicComponents(records) : c \subseteq 1..n
  /\ ToSet(members) = {members[k] : k \in 1..n}
  /\ \A k \in 1..n : RecordIsOf(records[k], members[k], EntryFor(entries, members[k].id), entries)
  /\ \A e \in entries : \E k \in 1..n : e.id = members[k].id
  /\ \A e, f \in entries : e.id = f.id => e = f
  /\ \A j, k \in 1..n : members[j].id = members[k].id => j = k

LEMMA SoundMembers ==
  ASSUME NEW s, NEW consumed, SoundSource(s, consumed)
  PROVE  InStep(s.records, s.manifest.splits[consumed], RecordsOf(s.ledger, consumed), Len(s.records))
<1> DEFINE members == s.manifest.splits[consumed]
           entries == RecordsOf(s.ledger, consumed)
<1>1. /\ IsList(members) /\ IsList(s.records) /\ Len(s.records) = Len(members)
      /\ \A j, k \in 1..Len(members) : members[j].id = members[k].id => j = k
      /\ \A e \in entries : e.tokens \in Nat /\ e.truncated \in BOOLEAN
      /\ \A e, f \in entries : e.id = f.id => e = f
      /\ Covers(s.ledger, s.manifest, consumed)
      /\ \A k \in 1..Len(members) : RecordFits(s.records[k], s.source, members[k], entries)
  BY DEF SoundSource
<1>2. {e.id : e \in entries} = {m.id : m \in ToSet(members)}
  BY <1>1 DEF Covers
<1> HIDE DEF members, entries
<1>3. /\ members \in Seq(Range(members)) /\ s.records \in Seq(Range(s.records)) /\ Len(members) \in Nat
      /\ ToSet(members) = {members[k] : k \in 1..Len(members)}
  BY <1>1, ListProperties DEF IsList
<1>4. ConnectedComponents(members) = AtomicComponents(s.records)
  <2>1. \A k \in 1..Len(members) : /\ s.records[k].lineage = members[k].lineage
                                   /\ s.records[k].content = members[k].content
                                   /\ s.records[k].group = members[k].group
    BY <1>1 DEF RecordFits
  <2> QED
    BY <1>1, <1>3, <2>1, SameKeys
<1>5. \A c \in AtomicComponents(s.records) : c \subseteq 1..Len(members)
  BY <1>1, <1>3, ComponentsAreClasses
<1>6. ASSUME NEW k \in 1..Len(members)
      PROVE  LET e == EntryFor(entries, members[k].id)
             IN  /\ s.records[k].id = members[k].id
                 /\ e \in entries /\ e.id = members[k].id
                 /\ s.records[k].tokens = e.tokens /\ s.records[k].truncated = e.truncated
                 /\ e.tokens \in Nat
  <2>1. s.records[k].id = members[k].id
    BY <1>1 DEF RecordFits
  <2>2. PICK e \in entries : e.id = members[k].id /\ s.records[k].tokens = e.tokens /\ s.records[k].truncated = e.truncated
    BY <1>1 DEF RecordFits
  <2>3. EntryFor(entries, members[k].id) \in entries /\ EntryFor(entries, members[k].id).id = members[k].id
    BY <2>2 DEF EntryFor
  <2>4. EntryFor(entries, members[k].id) = e
    BY <1>1, <2>2, <2>3
  <2>5. e.tokens \in Nat
    BY <1>1
  <2> QED
    BY <2>1, <2>2, <2>4, <2>5
<1>7. ASSUME NEW e \in entries PROVE \E k \in 1..Len(members) : e.id = members[k].id
  <2>1. e.id \in {m.id : m \in ToSet(members)}
    BY <1>2
  <2>2. PICK m \in ToSet(members) : e.id = m.id
    BY <2>1
  <2> QED
    BY <1>3, <2>2
<1>8. \A k \in 1..Len(members) : RecordIsOf(s.records[k], members[k], EntryFor(entries, members[k].id), entries)
  BY <1>6 DEF RecordIsOf
<1>9. InStep(s.records, members, entries, Len(members))
  BY <1>1, <1>3, <1>4, <1>5, <1>7, <1>8 DEF InStep
<1> QED
  BY <1>1, <1>9 DEF members, entries

\* The tokens of some members are those of their entries.
LEMMA TokensOfEntries ==
  ASSUME NEW s, NEW consumed, SoundSource(s, consumed),
         NEW c, c \subseteq 1..Len(s.records)
  PROVE  LET own == EntriesAt(RecordsOf(s.ledger, consumed), s.manifest.splits[consumed], c)
         IN  /\ SumFunction([e \in own |-> e.tokens]) = SumFunction([k \in c |-> s.records[k].tokens])
             /\ SumFunction([e \in own |-> e.tokens]) \in Nat
<1> DEFINE members == s.manifest.splits[consumed]
           entries == RecordsOf(s.ledger, consumed)
           own == {e \in entries : e.id \in {members[k].id : k \in c}}
           pi == [k \in c |-> EntryFor(entries, members[k].id)]
           f == [k \in c |-> s.records[k].tokens]
           g == [e \in own |-> e.tokens]
<1>0. InStep(s.records, members, entries, Len(s.records))
  BY SoundMembers
<1> HIDE DEF members, entries
<1>1. /\ Len(members) = Len(s.records) /\ Len(members) \in Nat
      /\ \A k \in 1..Len(members) :
            RecordIsOf(s.records[k], members[k], EntryFor(entries, members[k].id), entries)
      /\ \A e, d \in entries : e.id = d.id => e = d
      /\ \A j, k \in 1..Len(members) : members[j].id = members[k].id => j = k
  BY <1>0 DEF InStep
<1>2. ASSUME NEW k \in c
      PROVE  /\ k \in 1..Len(members) /\ pi[k] \in own /\ pi[k].id = members[k].id
             /\ f[k] = pi[k].tokens /\ f[k] \in Nat
  BY <1>1 DEF RecordIsOf
<1>3. ASSUME NEW e \in own PROVE \E k \in c : pi[k] = e
  <2>1. PICK k \in c : e.id = members[k].id
    OBVIOUS
  <2>2. pi[k] \in entries /\ pi[k].id = e.id
    BY <1>2, <2>1
  <2> QED
    BY <1>1, <2>2
<1>4. OneToOne(pi, c, own)
  <2>1. pi \in [c -> own]
    BY <1>2
  <2>2. \A j, k \in c : pi[j] = pi[k] => j = k
    <3> SUFFICES ASSUME NEW j \in c, NEW k \in c, pi[j] = pi[k] PROVE j = k
      OBVIOUS
    <3>1. members[j].id = members[k].id
      BY <1>2
    <3> QED
      BY <1>1, <1>2, <3>1
  <2> HIDE DEF pi
  <2> QED
    BY <1>3, <2>1, <2>2 DEF OneToOne
<1>5. \A k \in c : g[pi[k]] = f[k]
  <2> SUFFICES ASSUME NEW k \in c PROVE g[pi[k]] = f[k]
    OBVIOUS
  <2>1. pi[k] \in own /\ f[k] = pi[k].tokens
    BY <1>2
  <2> HIDE DEF pi, f, own
  <2> QED
    BY <2>1
<1>6. f \in [c -> Nat] /\ g \in [own -> Nat]
  <2>1. f \in [c -> Nat]
    BY <1>2
  <2>2. ASSUME NEW e \in own PROVE e.tokens \in Nat
    <3>1. PICK k \in c : pi[k] = e
      BY <1>3
    <3>2. f[k] = e.tokens /\ f[k] \in Nat
      BY <1>2, <3>1
    <3> QED
      BY <3>2
  <2> HIDE DEF own
  <2> QED
    BY <2>1, <2>2
<1>7. IsFiniteSet(c)
  <2> DEFINE n == Len(s.records)
  <2>1. n \in Nat
    BY <1>1
  <2> HIDE DEF n
  <2>2. IsFiniteSet(1..n)
    BY <2>1, FS_Interval
  <2>3. c \subseteq 1..n
    BY DEF n
  <2> QED
    BY <2>2, <2>3, FS_Subset
<1>8. Renames(pi, f, c, g, own)
  <2> HIDE DEF f, g, own, pi
  <2> QED
    BY <1>4, <1>5 DEF Renames
<1>9. SumFunction(g) = SumFunction(f)
  <2> HIDE DEF f, g, own, pi
  <2> QED
    BY <1>6, <1>7, <1>8, SumRenamed
<1>10. SumFunction(f) \in Nat
  <2> HIDE DEF f, g, own, pi
  <2> QED
    BY <1>6, <1>7, SumIsNatural
<1> QED
  BY <1>9, <1>10 DEF own, g, f, members, entries, EntriesAt

LEMMA AccountsOfIds ==
  ASSUME NEW mixture, NEW result, NEW s, NEW K, Accounts(mixture, result, s, K)
  PROVE  /\ IdsOf(mixture, result.source) = {s.records[k].id : k \in K}
         /\ K \subseteq 1..Len(s.records)
<1>1. /\ result.source = s.source /\ K \subseteq 1..Len(s.records)
      /\ {r \in ToSet(mixture.selected) : r.source = s.source} = {s.records[k] : k \in K}
  BY DEF Accounts
<1>2. {r.id : r \in {s.records[k] : k \in K}} = {s.records[k].id : k \in K}
  OBVIOUS
<1> QED
  BY <1>1, <1>2 DEF IdsOf

\* Of a component, the selection has all or nothing, and never a truncated record.
LEMMA AccountedWhole ==
  ASSUME NEW mixture, NEW result, NEW s, NEW K, Accounts(mixture, result, s, K)
  PROVE  LET members == result.manifest.splits[mixture.consumed]
             ids == IdsOf(mixture, result.source)
             entries == RecordsOf(result.ledger, mixture.consumed)
         IN  /\ AllOrNothing(members, ids)
             /\ \A entry \in entries : entry.truncated => entry.id \notin ids
             /\ LeavesNoRoom(mixture, result)
<1> DEFINE members == s.manifest.splits[mixture.consumed]
           entries == RecordsOf(s.ledger, mixture.consumed)
           ids == IdsOf(mixture, result.source)
           n == Len(s.records)
<1>1. /\ result.source = s.source /\ result.manifest = s.manifest /\ result.ledger = s.ledger
      /\ SoundSource(s, mixture.consumed)
      /\ {e.id : e \in {e \in mixture.exclusions : e.source = s.source}}
           = {s.records[k].id : k \in (1..n) \ K}
      /\ \A k \in K : ~s.records[k].truncated
      /\ \A c \in AtomicComponents(s.records) :
            \/ c \subseteq K
            \/ /\ c \cap K = {}
               /\ (\E k \in c : s.records[k].truncated)
                    \/ SumFunction([k \in c |-> s.records[k].tokens]) > result.shortfall
  BY DEF Accounts
<1>2. ids = {s.records[k].id : k \in K} /\ K \subseteq 1..n
  BY AccountsOfIds
<1>0. InStep(s.records, members, entries, n)
  BY <1>1, SoundMembers
<1> HIDE DEF members, entries, ids, n
<1>3. /\ ConnectedComponents(members) = AtomicComponents(s.records)
      /\ Len(members) = n /\ n \in Nat
      /\ \A c \in AtomicComponents(s.records) : c \subseteq 1..n
      /\ ToSet(members) = {members[k] : k \in 1..n}
      /\ \A k \in 1..n : RecordIsOf(s.records[k], members[k], EntryFor(entries, members[k].id), entries)
      /\ \A e, f \in entries : e.id = f.id => e = f
      /\ \A j, k \in 1..n : members[j].id = members[k].id => j = k
  BY <1>0 DEF InStep
<1>4. ids = {members[k].id : k \in K}
  BY <1>2, <1>3 DEF RecordIsOf
<1>5. ASSUME NEW c \in ConnectedComponents(members)
      PROVE  {members[k].id : k \in c} \subseteq ids \/ {members[k].id : k \in c} \cap ids = {}
  <2>1. c \subseteq 1..n /\ (c \subseteq K \/ c \cap K = {})
    BY <1>1, <1>3
  <2>2. CASE c \subseteq K
    BY <1>4, <2>2
  <2>3. CASE c \cap K = {}
    <3>1. \A j \in c, k \in K : members[j].id # members[k].id
      BY <1>2, <1>3, <2>1, <2>3
    <3> QED
      BY <1>4, <3>1
  <2> QED
    BY <2>1, <2>2, <2>3
<1>6. ASSUME NEW entry \in entries, entry.truncated PROVE entry.id \notin ids
  <2> SUFFICES ASSUME entry.id \in ids PROVE FALSE
    OBVIOUS
  <2>1. PICK k \in K : entry.id = members[k].id
    BY <1>4
  <2>2. k \in 1..n
    BY <1>2
  <2>3. entry = EntryFor(entries, members[k].id)
    BY <1>3, <2>1, <2>2 DEF RecordIsOf
  <2>4. s.records[k].truncated = entry.truncated
    BY <1>3, <2>2, <2>3 DEF RecordIsOf
  <2> QED
    BY <1>1, <1>6, <2>4
<1>7. {e.id : e \in {e \in mixture.exclusions : e.source = s.source}} = {m.id : m \in ToSet(members)} \ ids
  <2>1. {m.id : m \in ToSet(members)} = {members[k].id : k \in 1..n}
    BY <1>3
  <2>2. {s.records[k].id : k \in (1..n) \ K} = {members[k].id : k \in (1..n) \ K}
    BY <1>3 DEF RecordIsOf
  <2>3. {members[k].id : k \in (1..n) \ K} = {members[k].id : k \in 1..n} \ {members[k].id : k \in K}
    BY <1>2, <1>3
  <2> QED
    BY <1>1, <1>4, <2>1, <2>2, <2>3
<1>8. ASSUME NEW c \in ConnectedComponents(members)
      PROVE  LET own == {e \in entries : e.id \in {members[k].id : k \in c}}
             IN  \/ {e.id : e \in own} \subseteq ids
                 \/ \E e \in own : e.truncated
                 \/ SumFunction([e \in own |-> e.tokens]) > result.shortfall
  <2> DEFINE own == {e \in entries : e.id \in {members[k].id : k \in c}}
  <2>1. c \subseteq 1..n /\ c \in AtomicComponents(s.records)
    BY <1>3
  <2>2. c \subseteq K => {e.id : e \in own} \subseteq ids
    BY <1>4
  <2>3. ASSUME NEW k \in c, s.records[k].truncated
        PROVE  \E e \in own : e.truncated
    <3> DEFINE e == EntryFor(entries, members[k].id)
    <3>1. e \in entries /\ e.id = members[k].id /\ s.records[k].truncated = e.truncated
      BY <1>3, <2>1 DEF RecordIsOf
    <3> HIDE DEF e
    <3>2. e \in own /\ e.truncated
      BY <2>3, <3>1
    <3> QED
      BY <3>2
  <2>4. SumFunction([e \in own |-> e.tokens]) = SumFunction([k \in c |-> s.records[k].tokens])
    <3>1. own = EntriesAt(RecordsOf(s.ledger, mixture.consumed), s.manifest.splits[mixture.consumed], c)
      BY DEF EntriesAt, members, entries
    <3> HIDE DEF own
    <3>2. c \subseteq 1..Len(s.records)
      BY <2>1 DEF n
    <3> QED
      BY <1>1, <3>1, <3>2, TokensOfEntries
  <2>5. \/ c \subseteq K
        \/ \E k \in c : s.records[k].truncated
        \/ SumFunction([k \in c |-> s.records[k].tokens]) > result.shortfall
    BY <1>1, <2>1
  <2> HIDE DEF own
  <2>6. \/ {e.id : e \in own} \subseteq ids
        \/ \E e \in own : e.truncated
        \/ SumFunction([e \in own |-> e.tokens]) > result.shortfall
    <3>1. CASE \E k \in c : s.records[k].truncated
      BY <2>3, <3>1
    <3> QED
      BY <2>2, <2>4, <2>5, <3>1
  <2> QED
    BY <2>6 DEF own
<1>9. LeavesNoRoom(mixture, result)
  <2>1. /\ result.manifest.splits[mixture.consumed] = members
        /\ RecordsOf(result.ledger, mixture.consumed) = entries
        /\ IdsOf(mixture, result.source) = ids
    BY <1>1 DEF members, entries, ids
  <2>2. {e.id : e \in {e \in mixture.exclusions : e.source = result.source}} = {m.id : m \in ToSet(members)} \ ids
    BY <1>1, <1>7
  <2> QED
    BY <1>8, <2>1, <2>2 DEF LeavesNoRoom
<1>10. AllOrNothing(members, ids)
  BY <1>5 DEF AllOrNothing
<1> QED
  BY <1>1, <1>6, <1>9, <1>10 DEF members, entries, ids

\* The tokens of what is selected from a source are those of its entries.
LEMMA SelectedTokens ==
  ASSUME NEW mixture, NEW result, NEW s, NEW K, Accounts(mixture, result, s, K),
         IsList(mixture.selected),
         \A p, q \in 1..Len(mixture.selected) :
            mixture.selected[p].id = mixture.selected[q].id => p = q
  PROVE  LET from == {p \in 1..Len(mixture.selected) : mixture.selected[p].source = s.source}
         IN  SumFunction([p \in from |-> mixture.selected[p].tokens]) = SumFunction([k \in K |-> s.records[k].tokens])
<1> DEFINE selected == mixture.selected
           n == Len(selected)
           from == {p \in 1..n : selected[p].source = s.source}
           pi == [k \in K |-> CHOOSE p \in from : selected[p] = s.records[k]]
           f == [k \in K |-> s.records[k].tokens]
           g == [p \in from |-> selected[p].tokens]
<1>1. /\ SoundSource(s, mixture.consumed) /\ K \subseteq 1..Len(s.records)
      /\ {r \in ToSet(selected) : r.source = s.source} = {s.records[k] : k \in K}
  BY DEF Accounts
<1>2. /\ Len(s.records) \in Nat
      /\ \A k \in 1..Len(s.records) : IsCounted(s.records[k])
      /\ \A j, k \in 1..Len(s.records) : s.records[j].id = s.records[k].id => j = k
  BY <1>1, SoundRecords
<1>3. ToSet(selected) = {selected[p] : p \in 1..n}
  BY ListProperties
<1>4. \A p, q \in 1..n : selected[p].id = selected[q].id => p = q
  OBVIOUS
<1> HIDE DEF selected, n
<1>5. ASSUME NEW k \in K PROVE pi[k] \in from /\ selected[pi[k]] = s.records[k]
  <2>1. s.records[k] \in ToSet(selected) /\ s.records[k].source = s.source
    BY <1>1
  <2>2. PICK p \in 1..n : selected[p] = s.records[k]
    BY <1>3, <2>1
  <2>3. \E q \in from : selected[q] = s.records[k]
    BY <2>1, <2>2
  <2>4. pi[k] = CHOOSE q \in from : selected[q] = s.records[k]
    OBVIOUS
  <2> HIDE DEF pi, from
  <2> QED
    BY <2>3, <2>4
<1>6. \A p \in from : \E k \in K : pi[k] = p
  <2> SUFFICES ASSUME NEW p \in from PROVE \E k \in K : pi[k] = p
    OBVIOUS
  <2>1. p \in 1..n /\ selected[p].source = s.source
    OBVIOUS
  <2>2. PICK k \in K : selected[p] = s.records[k]
    BY <1>1, <1>3, <2>1
  <2>3. pi[k] \in 1..n /\ selected[pi[k]] = selected[p]
    BY <1>5, <2>2
  <2> HIDE DEF pi, from
  <2> QED
    BY <1>4, <2>1, <2>3
<1>7. OneToOne(pi, K, from)
  <2>1. pi \in [K -> from]
    BY <1>5
  <2>2. ASSUME NEW j \in K, NEW k \in K, pi[j] = pi[k] PROVE j = k
    <3>1. s.records[j] = s.records[k]
      BY <1>5, <2>2
    <3> QED
      BY <1>1, <1>2, <3>1
  <2> HIDE DEF pi, from
  <2> QED
    BY <1>6, <2>1, <2>2 DEF OneToOne
<1>8. ASSUME NEW k \in K PROVE g[pi[k]] = f[k]
  <2>1. pi[k] \in from /\ selected[pi[k]] = s.records[k]
    BY <1>5
  <2> HIDE DEF pi, from
  <2> QED
    BY <2>1
<1>9. f \in [K -> Nat]
  BY <1>1, <1>2 DEF IsCounted
<1>10. g \in [from -> Nat]
  <2> SUFFICES ASSUME NEW p \in from PROVE selected[p].tokens \in Nat
    OBVIOUS
  <2>1. PICK k \in K : pi[k] = p
    BY <1>6
  <2>2. selected[p] = s.records[k]
    BY <1>5, <2>1
  <2> QED
    BY <1>1, <1>2, <2>2 DEF IsCounted
<1>11. IsFiniteSet(K)
  <2> DEFINE m == Len(s.records)
  <2>1. m \in Nat /\ K \subseteq 1..m
    BY <1>1, <1>2
  <2> HIDE DEF m
  <2>2. IsFiniteSet(1..m)
    BY <2>1, FS_Interval
  <2> QED
    BY <2>1, <2>2, FS_Subset
<1>12. SumFunction(g) = SumFunction(f)
  <2> HIDE DEF pi, f, g, from
  <2>1. Renames(pi, f, K, g, from)
    BY <1>7, <1>8 DEF Renames
  <2> QED
    BY <1>9, <1>10, <1>11, <2>1, SumRenamed
<1> QED
  BY <1>12 DEF f, g, from, selected, n

\* What a source accepts is the tokens of its selected records in the ledger.
LEMMA AccountedTogether ==
  ASSUME NEW mixture, NEW result, NEW s, NEW K, Accounts(mixture, result, s, K),
         IsList(mixture.selected), ManifestHolds(mixture), IsList(mixture.sources),
         NEW i \in 1..Len(mixture.sources), result = mixture.sources[i]
  PROVE  KeepsTogether(mixture, result)
<1> DEFINE members == result.manifest.splits[mixture.consumed]
           entries == RecordsOf(result.ledger, mixture.consumed)
           ids == IdsOf(mixture, result.source)
           from == {p \in 1..Len(mixture.selected) : mixture.selected[p].source = s.source}
           own == {e \in entries : e.id \in ids}
<1>1. result.source = s.source /\ result.manifest = s.manifest /\ result.ledger = s.ledger
      /\ SoundSource(s, mixture.consumed) /\ K \subseteq 1..Len(s.records)
  BY DEF Accounts
<1>2. result.accepted = SumFunction([p \in from |-> mixture.selected[p].tokens])
  BY <1>1 DEF ManifestHolds
<1>3. \A p, q \in 1..Len(mixture.selected) :
         mixture.selected[p].id = mixture.selected[q].id => p = q
  <2> DEFINE named == [k \in 1..Len(mixture.selected) |-> mixture.selected[k].id]
  <2>1. IsInjective(named)
    BY DEF ManifestHolds
  <2> QED
    BY <2>1 DEF IsInjective
<1>4. result.accepted = SumFunction([k \in K |-> s.records[k].tokens])
  BY <1>2, <1>3, SelectedTokens
<1>5. own = EntriesAt(RecordsOf(s.ledger, mixture.consumed), s.manifest.splits[mixture.consumed], K)
  <2>1. ids = {s.records[k].id : k \in K}
    BY AccountsOfIds
  <2>2. InStep(s.records, members, entries, Len(s.records))
    BY <1>1, SoundMembers
  <2> HIDE DEF members, entries, ids
  <2>3. \A k \in K : s.records[k].id = members[k].id
    BY <1>1, <2>2 DEF InStep, RecordIsOf
  <2>4. ids = {members[k].id : k \in K}
    BY <2>1, <2>3
  <2>5. own = EntriesAt(entries, members, K)
    BY <2>4 DEF EntriesAt
  <2> QED
    BY <1>1, <2>5 DEF members, entries
<1>6. SumFunction([e \in own |-> e.tokens]) = SumFunction([k \in K |-> s.records[k].tokens])
  <2> HIDE DEF own
  <2> DEFINE mine == EntriesAt(RecordsOf(s.ledger, mixture.consumed), s.manifest.splits[mixture.consumed], K)
  <2>1. SoundSource(s, mixture.consumed) /\ K \subseteq 1..Len(s.records)
    BY <1>1
  <2>2. SumFunction([e \in mine |-> e.tokens]) = SumFunction([k \in K |-> s.records[k].tokens])
    BY <2>1, TokensOfEntries
  <2>3. own = mine
    BY <1>5
  <2> HIDE DEF mine
  <2> QED
    BY <2>2, <2>3
<1>7. /\ AllOrNothing(members, ids)
      /\ \A entry \in entries : entry.truncated => entry.id \notin ids
  BY AccountedWhole
<1> HIDE DEF members, entries, ids
<1>8. result.accepted = SumFunction([e \in {e \in entries : e.id \in ids} |-> e.tokens])
  BY <1>4, <1>6
<1> QED
  BY <1>7, <1>8 DEF KeepsTogether, members, entries, ids

-----------------------------------------------------------------------------
(* The shares *)

LEMMA Monotone ==
  ASSUME NEW t \in Nat, NEW x \in Nat, NEW y \in Nat, x <= y
  PROVE  t * x <= t * y /\ t * x \in Nat /\ t * y \in Nat
<1>1. PICK d \in Nat : y = x + d
  <2>1. y - x \in Nat /\ y = x + (y - x)
    OBVIOUS
  <2> QED
    BY <2>1
<1>2. t * y = t * x + t * d
  BY <1>1
<1>3. t * x \in Nat /\ t * d \in Nat
  OBVIOUS
<1> QED
  BY <1>2, <1>3

LEMMA StrictlyMonotone ==
  ASSUME NEW t \in Nat \ {0}, NEW x \in Nat, NEW y \in Nat, x < y
  PROVE  t * x + t <= t * y
<1>1. x + 1 \in Nat /\ x + 1 <= y
  OBVIOUS
<1>2. t * (x + 1) <= t * y
  BY <1>1, Monotone
<1>3. t * (x + 1) = t * x + t
  OBVIOUS
<1> QED
  BY <1>2, <1>3

\* A quotient and a remainder, one more or not, and what is divided.
ShareOf(budget, weights, s, total, floor, rest, bonus, quota) ==
  /\ total \in Nat \ {0} /\ floor \in Nat /\ rest \in Nat /\ rest < total /\ bonus \in {0, 1}
  /\ quota = floor + bonus
  /\ budget * weights[s] = total * floor + rest
  /\ total * quota = (budget * weights[s] - rest) + (IF bonus = 1 THEN total ELSE 0)

\* The one more for a source.
Bonus(budget, weights, s) ==
  IF Cardinality(Ahead(budget, weights, s)) < Leftover(budget, weights) THEN 1 ELSE 0

IsShare(budget, weights, s) ==
  ShareOf(budget, weights, s, TotalWeight(weights), FloorQuota(budget, weights, s),
          Remainder(budget, weights, s), Bonus(budget, weights, s), AllocateTokenQuotas(budget, weights)[s])

LEMMA SharesHold ==
  ASSUME NEW budget, NEW weights, NEW S, CanShare(budget, weights, S), NEW s \in S
  PROVE  IsShare(budget, weights, s)
<1> DEFINE total == TotalWeight(weights)
           floor == FloorQuota(budget, weights, s)
           rest == Remainder(budget, weights, s)
           bonus == Bonus(budget, weights, s)
           quota == AllocateTokenQuotas(budget, weights)[s]
           product == budget * weights[s]
<1>1. /\ total \in Nat \ {0} /\ floor \in Nat /\ rest \in Nat /\ rest < total
      /\ quota = floor + bonus /\ product = total * floor + rest
  BY SharesAreNumbers DEF Bonus
<1>2. bonus \in {0, 1}
  BY DEF Bonus
<1> HIDE DEF total, floor, rest, bonus, quota, product
<1>3. total * quota = (product - rest) + (IF bonus = 1 THEN total ELSE 0)
  <2>1. total * floor \in Nat
    BY <1>1
  <2>2. CASE bonus = 1
    <3>1. total * quota = total * floor + total
      BY <1>1, <2>2
    <3> QED
      BY <1>1, <2>1, <2>2, <3>1
  <2>3. CASE bonus = 0
    <3>1. total * quota = total * floor
      BY <1>1, <2>3
    <3> QED
      BY <1>1, <2>1, <2>3, <3>1
  <2> QED
    BY <1>2, <2>2, <2>3
<1>4. ShareOf(budget, weights, s, total, floor, rest, bonus, quota)
  BY <1>1, <1>2, <1>3 DEF ShareOf, product
<1> QED
  BY <1>4 DEF IsShare, total, floor, rest, bonus, quota

\* Whoever has the greater remainder has the bonus too.
LEMMA BonusesAreOrdered ==
  ASSUME NEW budget, NEW weights, NEW S, CanShare(budget, weights, S), NEW s \in S, NEW r \in S,
         Remainder(budget, weights, r) > Remainder(budget, weights, s),
         Bonus(budget, weights, s) = 1
  PROVE  Bonus(budget, weights, r) = 1
<1>1. DOMAIN weights = S /\ IsFiniteSet(S)
  BY DEF CanShare
<1>2. \A x \in S : Remainder(budget, weights, x) \in Nat
  BY SharesHold DEF IsShare, ShareOf
<1>3. Ahead(budget, weights, r) \subseteq Ahead(budget, weights, s)
  BY <1>1, <1>2 DEF Ahead
<1>4. IsFiniteSet(Ahead(budget, weights, s))
  <2>1. Ahead(budget, weights, s) \subseteq S
    BY <1>1 DEF Ahead
  <2> QED
    BY <1>1, <2>1, FS_Subset
<1>5. /\ Cardinality(Ahead(budget, weights, r)) <= Cardinality(Ahead(budget, weights, s))
      /\ Cardinality(Ahead(budget, weights, s)) \in Nat /\ Cardinality(Ahead(budget, weights, r)) \in Nat
  BY <1>3, <1>4, FS_Subset, FS_CardinalityType
<1>6. Leftover(budget, weights) \in Int
  <2> DEFINE floors == [x \in S |-> FloorQuota(budget, weights, x)]
  <2>1. floors \in [S -> Nat]
    BY SharesHold DEF IsShare, ShareOf
  <2>2. SumFunction(floors) \in Nat
    <3> HIDE DEF floors
    <3> QED
      BY <1>1, <2>1, SumIsNatural
  <2>3. Leftover(budget, weights) = budget - SumFunction(floors)
    BY <1>1 DEF Leftover
  <2>4. budget \in Nat
    BY DEF CanShare
  <2> HIDE DEF floors
  <2> QED
    BY <2>2, <2>3, <2>4
<1>7. Cardinality(Ahead(budget, weights, s)) < Leftover(budget, weights)
  BY DEF Bonus
<1>8. Cardinality(Ahead(budget, weights, r)) < Leftover(budget, weights)
  BY <1>5, <1>6, <1>7
<1> QED
  BY <1>8 DEF Bonus

\* If the budget is shared out exactly, nobody with a proportional share that is
\* whole has a token more.
LEMMA WholeSharesGetNoMore ==
  ASSUME NEW budget, NEW weights, NEW S, CanShare(budget, weights, S),
         SumFunction(AllocateTokenQuotas(budget, weights)) = budget,
         NEW s \in S, Remainder(budget, weights, s) = 0
  PROVE  Bonus(budget, weights, s) = 0
<1> SUFFICES ASSUME Bonus(budget, weights, s) = 1 PROVE FALSE
  BY DEF Bonus
<1> DEFINE total == TotalWeight(weights)
           quotas == AllocateTokenQuotas(budget, weights)
           f == [x \in S |-> budget * weights[x]]
           g == [x \in S |-> total * quotas[x]]
<1>1. IsFiniteSet(S) /\ weights \in [S -> Nat] /\ DOMAIN weights = S /\ budget \in Nat
  BY DEF CanShare
<1>2. ASSUME NEW x \in S
      PROVE  /\ total \in Nat \ {0} /\ quotas[x] \in Nat
             /\ budget * weights[x] \in Nat /\ total * quotas[x] \in Nat
             /\ budget * weights[x] <= total * quotas[x]
             /\ x = s => budget * weights[x] < total * quotas[x]
  <2> DEFINE rest == Remainder(budget, weights, x)
             product == budget * weights[x]
             bonus == Bonus(budget, weights, x)
             scaled == total * quotas[x]
             floor == FloorQuota(budget, weights, x)
  <2>1. ShareOf(budget, weights, x, total, floor, rest, bonus, quotas[x])
    BY SharesHold DEF IsShare
  <2>2. rest > 0 => bonus = 1
    <3> SUFFICES ASSUME rest > 0 PROVE bonus = 1
      OBVIOUS
    <3> QED
      BY BonusesAreOrdered
  <2>3. x = s => rest = 0 /\ bonus = 1
    OBVIOUS
  <2>4. product \in Nat
    BY <1>1
  <2>5. /\ total \in Nat \ {0} /\ floor \in Nat /\ rest \in Nat /\ rest < total /\ bonus \in {0, 1}
        /\ quotas[x] = floor + bonus /\ scaled = (product - rest) + (IF bonus = 1 THEN total ELSE 0)
    BY <2>1 DEF ShareOf
  <2>6. quotas[x] \in Nat
    BY <2>5
  <2> HIDE DEF rest, product, bonus, scaled, floor, total
  <2>7. scaled \in Nat /\ product <= scaled /\ (x = s => product < scaled)
    BY <2>2, <2>3, <2>4, <2>5
  <2> QED
    BY <2>4, <2>5, <2>6, <2>7 DEF product, scaled
<1>3. f \in [S -> Nat] /\ g \in [S -> Nat] /\ (\A x \in S : f[x] <= g[x]) /\ f[s] < g[s]
  <2> HIDE DEF total, quotas
  <2> QED
    BY <1>2
<1>4. SumFunction(f) < SumFunction(g)
  <2> HIDE DEF f, g
  <2> QED
    BY <1>1, <1>3, SumGrows
<1>5. SumFunction(f) = budget * total
  BY <1>1, SumScaled DEF TotalWeight
<1>6. quotas \in [S -> Nat] /\ total \in Nat
  <2>1. quotas = [x \in S |-> quotas[x]]
    BY <1>1 DEF AllocateTokenQuotas
  <2> HIDE DEF quotas, total
  <2> QED
    BY <1>2, <2>1
<1>7. SumFunction(g) = total * budget
  <2> HIDE DEF total
  <2>1. SumFunction(g) = total * SumFunction(quotas)
    <3> HIDE DEF quotas
    <3> QED
      BY <1>1, <1>6, SumScaled
  <2> QED
    BY <2>1
<1> HIDE DEF total, f, g
<1> QED
  BY <1>1, <1>4, <1>5, <1>6, <1>7

\* What is fair about the shares.
FairShares(budget, weights, S, quotas) ==
  /\ \A s \in S :
        /\ quotas[s] * TotalWeight(weights) < budget * weights[s] + TotalWeight(weights)
        /\ quotas[s] * TotalWeight(weights) > budget * weights[s] - TotalWeight(weights)
  /\ \A r, s \in S : weights[r] > weights[s] => quotas[r] >= quotas[s]

LEMMA SharesAreFair ==
  ASSUME NEW budget, NEW weights, NEW S, CanShare(budget, weights, S),
         SumFunction(AllocateTokenQuotas(budget, weights)) = budget
  PROVE  FairShares(budget, weights, S, AllocateTokenQuotas(budget, weights))
<1> DEFINE total == TotalWeight(weights)
           quotas == AllocateTokenQuotas(budget, weights)
           floor(x) == FloorQuota(budget, weights, x)
           rest(x) == Remainder(budget, weights, x)
           bonus(x) == Bonus(budget, weights, x)
           product(x) == budget * weights[x]
<1>1. ASSUME NEW x \in S
      PROVE  /\ total \in Nat \ {0} /\ floor(x) \in Nat /\ rest(x) \in Nat /\ rest(x) < total
             /\ bonus(x) \in {0, 1} /\ quotas[x] = floor(x) + bonus(x)
             /\ product(x) = total * floor(x) + rest(x)
             /\ total * quotas[x] = (product(x) - rest(x)) + (IF bonus(x) = 1 THEN total ELSE 0)
             /\ product(x) \in Nat
  <2>1. product(x) \in Nat
    BY DEF CanShare
  <2>2. IsShare(budget, weights, x)
    BY SharesHold
  <2> QED
    BY <2>1, <2>2 DEF IsShare, ShareOf
<1>2. \A x \in S : rest(x) = 0 => bonus(x) = 0
  BY WholeSharesGetNoMore
<1>3. \A r, s \in S : rest(r) > rest(s) /\ bonus(s) = 1 => bonus(r) = 1
  BY BonusesAreOrdered
<1>4. budget \in Nat \ {0} /\ \A x \in S : weights[x] \in Nat
  BY DEF CanShare
<1>5. \A r, s \in S : weights[r] > weights[s] => product(s) < product(r)
  <2> SUFFICES ASSUME NEW r \in S, NEW s \in S, weights[r] > weights[s] PROVE product(s) < product(r)
    OBVIOUS
  <2>1. budget * weights[s] + budget <= budget * weights[r]
    BY <1>4, StrictlyMonotone
  <2>2. product(s) + budget <= product(r)
    BY <2>1
  <2>3. product(s) \in Nat /\ product(r) \in Nat
    BY <1>1
  <2> HIDE DEF product
  <2> QED
    BY <1>4, <2>2, <2>3
<1> HIDE DEF total, quotas, floor, rest, bonus, product
<1>6. ASSUME NEW s \in S
      PROVE  /\ quotas[s] * total < product(s) + total
             /\ quotas[s] * total > product(s) - total
  <2>1. quotas[s] \in Nat /\ total \in Nat /\ quotas[s] * total = total * quotas[s]
    <3>1. quotas[s] \in Nat /\ total \in Nat
      BY <1>1
    <3> QED
      BY <3>1
  <2> DEFINE scaled == total * quotas[s]
  <2>2. scaled = (product(s) - rest(s)) + (IF bonus(s) = 1 THEN total ELSE 0)
    BY <1>1
  <2>3. quotas[s] * total = scaled
    BY <2>1
  <2> HIDE DEF scaled
  <2>4. scaled < product(s) + total /\ scaled > product(s) - total
    BY <1>1, <1>2, <2>2
  <2> QED
    BY <2>3, <2>4
<1>7. ASSUME NEW r \in S, NEW s \in S, weights[r] > weights[s] PROVE quotas[r] >= quotas[s]
  <2>1. product(s) < product(r)
    BY <1>5, <1>7
  <2>2. floor(s) <= floor(r)
    <3> SUFFICES ASSUME floor(r) < floor(s) PROVE FALSE
      BY <1>1
    <3> DEFINE x == total * floor(r)
               y == total * floor(s)
    <3>1. x + total <= y
      BY <1>1, StrictlyMonotone
    <3>2. x \in Nat /\ y \in Nat /\ product(r) = x + rest(r) /\ product(s) = y + rest(s)
      BY <1>1
    <3> HIDE DEF x, y
    <3> QED
      BY <1>1, <2>1, <3>1, <3>2
  <2>3. CASE floor(s) = floor(r)
    <3> DEFINE x == total * floor(r)
    <3>1. x \in Nat /\ product(r) = x + rest(r) /\ product(s) = x + rest(s)
      BY <1>1, <2>3
    <3> HIDE DEF x
    <3>2. rest(r) > rest(s)
      BY <1>1, <2>1, <3>1
    <3> QED
      BY <1>1, <1>3, <2>3, <3>2
  <2>4. CASE floor(s) < floor(r)
    BY <1>1, <2>4
  <2> QED
    BY <1>1, <2>2, <2>3, <2>4
<1> QED
  BY <1>6, <1>7 DEF FairShares, total, quotas, product

\* The results of a mixture are one for each source, with its weight and quota.
SharesOut(rs, S, budget, weights) ==
  /\ IsList(rs)
  /\ \A k \in 1..Len(rs) : /\ rs[k].source \in S
                           /\ rs[k].weight = weights[rs[k].source]
                           /\ rs[k].quota = AllocateTokenQuotas(budget, weights)[rs[k].source]
  /\ \A j, k \in 1..Len(rs) : rs[j].source = rs[k].source => j = k
  /\ \A s \in S : \E k \in 1..Len(rs) : rs[k].source = s

LEMMA SharedOutFairly ==
  ASSUME NEW mixture, NEW S, NEW weights, CanShare(mixture.budget, weights, S),
         SharesOut(mixture.sources, S, mixture.budget, weights), ManifestHolds(mixture)
  PROVE  QuotasAreFair(mixture)
<1> DEFINE rs == mixture.sources
           n == Len(rs)
           D == 1..n
           budget == mixture.budget
           quotas == AllocateTokenQuotas(budget, weights)
           results == ToSet(rs)
           quotaAt == [k \in D |-> rs[k].quota]
           weightAt == [k \in D |-> rs[k].weight]
           quotaOf == [r \in results |-> r.quota]
           weightOf == [r \in results |-> r.weight]
           pi == [k \in D |-> rs[k].source]
           sigma == [k \in D |-> rs[k]]
<1>1. /\ \A k \in D : rs[k].source \in S /\ rs[k].weight = weights[rs[k].source] /\ rs[k].quota = quotas[rs[k].source]
      /\ \A j, k \in D : rs[j].source = rs[k].source => j = k
      /\ \A s \in S : \E k \in D : rs[k].source = s
      /\ IsList(rs)
  BY DEF SharesOut
<1>2. n \in Nat /\ results = {rs[k] : k \in D}
  BY <1>1, ListProperties
<1>3. SumFunction(quotaAt) = budget
  BY DEF ManifestHolds
<1>4. IsFiniteSet(S) /\ weights \in [S -> Nat]
  BY DEF CanShare
<1>5. quotas \in [S -> Nat]
  <2>1. quotas = [x \in S |-> quotas[x]]
    BY <1>4 DEF AllocateTokenQuotas
  <2>2. \A x \in S : quotas[x] \in Nat
    BY SharesAreNumbers
  <2> HIDE DEF quotas
  <2> QED
    BY <2>1, <2>2
<1> HIDE DEF quotas, results, rs
<1>6. IsFiniteSet(D)
  <2> HIDE DEF n
  <2> QED
    BY <1>2, FS_Interval
<1> HIDE DEF n, D
<1>7. OneToOne(pi, D, S) /\ OneToOne(sigma, D, results)
  <2>1. pi \in [D -> S] /\ sigma \in [D -> results]
    BY <1>1, <1>2
  <2>2. \A z \in S : \E k \in D : pi[k] = z
    BY <1>1
  <2>3. \A z \in results : \E k \in D : sigma[k] = z
    BY <1>2
  <2>4. /\ \A j, k \in D : pi[j] = pi[k] => j = k
        /\ \A j, k \in D : sigma[j] = sigma[k] => j = k
    BY <1>1
  <2> HIDE DEF pi, sigma
  <2> QED
    BY <2>1, <2>2, <2>3, <2>4 DEF OneToOne
<1>8. quotaAt \in [D -> Nat] /\ weightAt \in [D -> Nat]
  BY <1>1, <1>4, <1>5
<1>9. quotaOf \in [results -> Nat] /\ weightOf \in [results -> Nat]
  BY <1>1, <1>2, <1>4, <1>5
<1>10. /\ \A k \in D : quotas[pi[k]] = quotaAt[k] /\ weights[pi[k]] = weightAt[k]
       /\ \A k \in D : quotaOf[sigma[k]] = quotaAt[k] /\ weightOf[sigma[k]] = weightAt[k]
  <2>1. ASSUME NEW k \in D PROVE quotas[pi[k]] = quotaAt[k] /\ weights[pi[k]] = weightAt[k]
    BY <1>1
  <2>2. ASSUME NEW k \in D PROVE quotaOf[sigma[k]] = quotaAt[k] /\ weightOf[sigma[k]] = weightAt[k]
    <3>1. sigma[k] = rs[k] /\ rs[k] \in results
      BY <1>2
    <3> HIDE DEF sigma
    <3> QED
      BY <3>1
  <2> HIDE DEF pi, sigma, quotaAt, weightAt, quotaOf, weightOf
  <2> QED
    BY <2>1, <2>2
<1> HIDE DEF pi, sigma, quotaAt, weightAt, quotaOf, weightOf
<1>11. /\ Renames(pi, quotaAt, D, quotas, S) /\ Renames(pi, weightAt, D, weights, S)
       /\ Renames(sigma, quotaAt, D, quotaOf, results) /\ Renames(sigma, weightAt, D, weightOf, results)
  BY <1>7, <1>10 DEF Renames
<1>12. /\ SumFunction(quotas) = budget /\ SumFunction(quotaOf) = budget
       /\ SumFunction(weightOf) = TotalWeight(weights)
  <2>1. SumFunction(quotas) = SumFunction(quotaAt)
    BY <1>5, <1>6, <1>8, <1>11, SumRenamed
  <2>2. SumFunction(quotaOf) = SumFunction(quotaAt)
    BY <1>6, <1>8, <1>9, <1>11, SumRenamed
  <2>3. SumFunction(weights) = SumFunction(weightAt)
    BY <1>4, <1>6, <1>8, <1>11, SumRenamed
  <2>4. SumFunction(weightOf) = SumFunction(weightAt)
    BY <1>6, <1>8, <1>9, <1>11, SumRenamed
  <2> QED
    BY <1>3, <2>1, <2>2, <2>3, <2>4 DEF TotalWeight
<1>13. FairShares(budget, weights, S, quotas)
  BY <1>12, SharesAreFair DEF quotas
<1> HIDE DEF budget
<1>14. ASSUME NEW r \in results
       PROVE  r.source \in S /\ r.weight = weights[r.source] /\ r.quota = quotas[r.source]
  BY <1>1, <1>2
<1> DEFINE total == SumFunction(weightOf)
<1>15. ASSUME NEW r \in results
       PROVE  r.quota * total < budget * r.weight + total /\ r.quota * total > budget * r.weight - total
  BY <1>12, <1>13, <1>14 DEF FairShares
<1>16. \A r, q \in results : r.weight > q.weight => r.quota >= q.quota
  BY <1>13, <1>14 DEF FairShares
<1> HIDE DEF total
<1> QED
  BY <1>12, <1>15, <1>16 DEF QuotasAreFair, total, weightOf, quotaOf, results, rs, budget

-----------------------------------------------------------------------------
(* What a composed mixture promises *)

\* The promises about one mixture.
IsSpent(mixture) ==
  /\ QuotasAreFair(mixture)
  /\ \A result \in ToSet(mixture.sources) :
        KeepsTogether(mixture, result) /\ LeavesNoRoom(mixture, result)

LEMMA ComposedIsSpent ==
  ASSUME NEW loaded, Ready(spec, loaded), ManifestHolds(MixtureOf(loaded))
  PROVE  IsSpent(MixtureOf(loaded))
<1> DEFINE mixture == MixtureOf(loaded)
           n == Len(loaded)
           S == ToSet(spec.sources)
<1>1. /\ mixture.consumed = spec.consumed /\ mixture.budget = spec.budget
      /\ IsList(mixture.sources) /\ Len(mixture.sources) = n /\ IsList(mixture.selected)
      /\ \A k \in 1..n :
            /\ mixture.sources[k].weight = spec.weights[loaded[k].source]
            /\ mixture.sources[k].quota = AllocateTokenQuotas(spec.budget, spec.weights)[loaded[k].source]
            /\ \E K : Accounts(mixture, mixture.sources[k], loaded[k], K)
  BY ComposedAccounts
<1>2. /\ \A k \in 1..n : loaded[k].source = spec.sources[k]
      /\ \A j, k \in 1..n : spec.sources[j] = spec.sources[k] => j = k
      /\ S = {spec.sources[k] : k \in 1..n}
      /\ CanShare(spec.budget, spec.weights, S)
  <2>1. IsList(spec.sources) /\ Len(spec.sources) = n
    BY DEF Ready
  <2> QED
    BY <2>1, ListProperties DEF Ready, ReadySource
<1> HIDE DEF mixture, n, S
<1>3. \A k \in 1..n : mixture.sources[k].source = loaded[k].source
  BY <1>1 DEF Accounts
<1>4. SharesOut(mixture.sources, S, mixture.budget, spec.weights)
  BY <1>1, <1>2, <1>3 DEF SharesOut
<1>5. ManifestHolds(mixture)
  BY DEF mixture
<1>6. QuotasAreFair(mixture)
  BY <1>1, <1>2, <1>4, <1>5, SharedOutFairly
<1>7. ASSUME NEW result \in ToSet(mixture.sources)
      PROVE  KeepsTogether(mixture, result) /\ LeavesNoRoom(mixture, result)
  <2>1. ToSet(mixture.sources) = {mixture.sources[k] : k \in 1..n}
    <3>1. IsList(mixture.sources) /\ Len(mixture.sources) = n
      BY <1>1
    <3>2. ToSet(mixture.sources) = {mixture.sources[k] : k \in 1..Len(mixture.sources)}
      BY <3>1, ListProperties
    <3> QED
      BY <3>1, <3>2
  <2>2. PICK k \in 1..n : result = mixture.sources[k]
    BY <2>1
  <2>3. PICK K : Accounts(mixture, result, loaded[k], K)
    BY <1>1, <2>2
  <2>4. KeepsTogether(mixture, result)
    BY <1>1, <1>5, <2>2, <2>3, AccountedTogether
  <2>5. LeavesNoRoom(mixture, result)
    BY <2>3, AccountedWhole
  <2> QED
    BY <2>4, <2>5
<1> QED
  BY <1>6, <1>7 DEF IsSpent, mixture

\* No identity of a selected record is found elsewhere in the mixture's sources.
StaysApart(mixture) ==
  \A record \in ToSet(mixture.selected), kind \in Kinds :
    LET value == IdentityOf(record, kind)
    IN  value # Absent =>
          \A result \in ToSet(mixture.sources), split \in Splits :
             (split # mixture.consumed \/ result.source # record.source) =>
                \A m \in ToSet(result.manifest.splits[split]) : IdentityOf(m, kind) # value

\* Nor in what the mixtures before a number selected, if that is reserved.
SharesNothingWith(mixture, earlier) ==
  \A record \in ToSet(mixture.selected), kind \in Kinds :
    IdentityOf(record, kind) # Absent =>
      \A r \in ToSet(earlier.selected) : IdentityOf(r, kind) # IdentityOf(record, kind)

RespectsReserves(mixture, wanted, destinations, number) ==
  wanted.reserves =>
    \A earlier \in 1..(number - 1) :
      destinations[earlier] \notin {None, Taken} => SharesNothingWith(mixture, destinations[earlier])

\* A record has the identities of its member.
LEMMA RecordIdentities ==
  ASSUME NEW r, NEW source, NEW member, NEW entries, RecordFits(r, source, member, entries), NEW kind \in Kinds
  PROVE  IdentityOf(r, kind) = IdentityOf(member, kind)
BY DEF RecordFits, IdentityOf, Kinds

\* A loaded record is a member of the consumed split of its source.
LEMMA RecordIsOwned ==
  ASSUME NEW s, NEW consumed, SoundSource(s, consumed), NEW r \in Range(s.records)
  PROVE  /\ r.source = s.source
         /\ \E m \in Owned(s, consumed) : \A kind \in Kinds : IdentityOf(r, kind) = IdentityOf(m, kind)
<1> DEFINE members == s.manifest.splits[consumed]
           entries == RecordsOf(s.ledger, consumed)
<1>1. /\ IsList(members) /\ IsList(s.records) /\ Len(s.records) = Len(members)
      /\ \A k \in 1..Len(members) : RecordFits(s.records[k], s.source, members[k], entries)
  BY DEF SoundSource
<1>2. ToSet(members) = {members[k] : k \in 1..Len(members)} /\ Range(s.records) = {s.records[k] : k \in 1..Len(s.records)}
  BY <1>1, ListProperties
<1>3. Owned(s, consumed) = ToSet(members)
  BY DEF Owned
<1> HIDE DEF members, entries
<1>4. PICK k \in 1..Len(members) : r = s.records[k]
  BY <1>1, <1>2
<1>5. RecordFits(r, s.source, members[k], entries)
  BY <1>1, <1>4
<1>6. \A kind \in Kinds : IdentityOf(r, kind) = IdentityOf(members[k], kind)
  BY <1>5, RecordIdentities
<1>7. members[k] \in Owned(s, consumed) /\ r.source = s.source
  BY <1>2, <1>3, <1>5 DEF RecordFits
<1> QED
  BY <1>6, <1>7

\* Where the selected records of a mixture come from.
ComesFrom(mixture, loaded, consumed) ==
  /\ mixture.consumed = consumed
  /\ IsList(loaded) /\ \A k \in 1..Len(loaded) : SoundSource(loaded[k], consumed)
  /\ \A j, k \in 1..Len(loaded) : loaded[j].source = loaded[k].source => j = k
  /\ ToSet(mixture.selected) \subseteq UNION {Range(loaded[k].records) : k \in 1..Len(loaded)}
  /\ \A result \in ToSet(mixture.sources) :
        \E k \in 1..Len(loaded) : result.source = loaded[k].source /\ result.manifest = loaded[k].manifest

LEMMA ComposedComesFrom ==
  ASSUME NEW loaded, Ready(spec, loaded)
  PROVE  ComesFrom(MixtureOf(loaded), loaded, spec.consumed)
<1> DEFINE mixture == MixtureOf(loaded)
           n == Len(loaded)
<1>1. /\ mixture.consumed = spec.consumed
      /\ IsList(mixture.sources) /\ Len(mixture.sources) = n
      /\ ToSet(mixture.selected) \subseteq UNION {Range(loaded[k].records) : k \in 1..n}
      /\ \A k \in 1..n : \E K : Accounts(mixture, mixture.sources[k], loaded[k], K)
  BY ComposedAccounts
<1>2. /\ IsList(loaded) /\ n = Len(spec.sources)
      /\ \A k \in 1..n : SoundSource(loaded[k], spec.consumed)
      /\ \A j, k \in 1..n : loaded[j].source = loaded[k].source => j = k
  BY DEF Ready, ReadySource
<1> HIDE DEF mixture, n
<1>3. \A k \in 1..n : /\ mixture.sources[k].source = loaded[k].source
                      /\ mixture.sources[k].manifest = loaded[k].manifest
  BY <1>1 DEF Accounts
<1>4. ToSet(mixture.sources) = {mixture.sources[k] : k \in 1..n}
  BY <1>1, ListProperties
<1>5. \A result \in ToSet(mixture.sources) :
        \E k \in 1..n : result.source = loaded[k].source /\ result.manifest = loaded[k].manifest
  BY <1>3, <1>4
<1>6. ComesFrom(mixture, loaded, spec.consumed)
  BY <1>1, <1>2, <1>5 DEF ComesFrom, n
<1> QED
  BY <1>6 DEF mixture

LEMMA IsolatedStaysApart ==
  ASSUME NEW mixture, NEW loaded, NEW consumed \in Splits, ComesFrom(mixture, loaded, consumed),
         Isolated(loaded, consumed)
  PROVE  StaysApart(mixture)
<1> SUFFICES ASSUME NEW record \in ToSet(mixture.selected), NEW kind \in Kinds,
                    IdentityOf(record, kind) # Absent,
                    NEW result \in ToSet(mixture.sources), NEW split \in Splits,
                    split # consumed \/ result.source # record.source,
                    NEW m \in ToSet(result.manifest.splits[split])
             PROVE  IdentityOf(m, kind) # IdentityOf(record, kind)
  BY DEF StaysApart, ComesFrom
<1>1. PICK k \in 1..Len(loaded) : record \in Range(loaded[k].records)
  BY DEF ComesFrom
<1>2. SoundSource(loaded[k], consumed)
  BY DEF ComesFrom
<1>3. /\ record.source = loaded[k].source
      /\ \E o \in Owned(loaded[k], consumed) : \A kd \in Kinds : IdentityOf(record, kd) = IdentityOf(o, kd)
  BY <1>1, <1>2, RecordIsOwned
<1>4. PICK o \in Owned(loaded[k], consumed) : \A kd \in Kinds : IdentityOf(record, kd) = IdentityOf(o, kd)
  BY <1>3
<1>5. PICK j \in 1..Len(loaded) : result.source = loaded[j].source /\ result.manifest = loaded[j].manifest
  BY DEF ComesFrom
<1>6. m \in Owned(loaded[j], split)
  BY <1>5 DEF Owned
<1>7. k # j \/ consumed # split
  BY <1>3, <1>5
<1>8. IdentityOf(o, kind) # IdentityOf(m, kind) \/ IdentityOf(o, kind) = Absent
  BY <1>4, <1>6, <1>7 DEF Isolated
<1> QED
  BY <1>4, <1>8

LEMMA UnreservedRespects ==
  ASSUME NEW mixture, NEW loaded, NEW consumed, ComesFrom(mixture, loaded, consumed),
         Unreserved(loaded, Reserved)
  PROVE  RespectsReserves(mixture, spec, published, run.number)
<1> SUFFICES ASSUME spec.reserves, NEW earlier \in 1..(run.number - 1),
                    published[earlier] \notin {None, Taken},
                    NEW record \in ToSet(mixture.selected), NEW kind \in Kinds,
                    IdentityOf(record, kind) # Absent,
                    NEW r \in ToSet(published[earlier].selected)
             PROVE  IdentityOf(r, kind) # IdentityOf(record, kind)
  BY DEF RespectsReserves, SharesNothingWith
<1> DEFINE value == IdentityOf(record, kind)
           before == {n \in 1..(run.number - 1) : published[n] \notin {None, Taken}}
           taken(n) == {IdentityOf(x, kind) : x \in ToSet(published[n].selected)} \ {Absent}
<1>1. PICK k \in 1..Len(loaded) : record \in Range(loaded[k].records)
  BY DEF ComesFrom
<1>2. record \in ToSet(loaded[k].records)
  <2>1. IsList(loaded[k].records)
    BY DEF ComesFrom, SoundSource
  <2> QED
    BY <1>1, <2>1, ListProperties
<1>3. value \notin Reserved[kind]
  BY <1>2 DEF Unreserved
<1>4. Reserved[kind] = UNION {taken(n) : n \in before}
  BY DEF Reserved
<1>5. earlier \in before
  OBVIOUS
<1>6. value \notin taken(earlier)
  <2> HIDE DEF value, taken, before
  <2> QED
    BY <1>3, <1>4, <1>5
<1> QED
  BY <1>6

-----------------------------------------------------------------------------
(* What the composition works on *)

DiskHolds ==
  /\ DOMAIN disk = DOMAIN scenario.disk
  /\ \A s \in DOMAIN disk :
        /\ DOMAIN disk[s] = {"snapshot", "statistics", "ledger"}
        /\ disk[s].snapshot \in SnapshotsOf(scenario) /\ disk[s].ledger \in LedgersOf(scenario)

\* The names in a snapshot are told apart by their digests.
TellsNamesIn(salt, source, members) ==
  /\ \A a \in NamesIn(members) : SelectionDigest(salt, source, a) \in Int
  /\ \A a, b \in NamesIn(members) :
        SelectionDigest(salt, source, a) = SelectionDigest(salt, source, b) => a = b

\* The specifications and the inputs are as they are assumed to be.
WorldHolds ==
  /\ scenario \in Scenarios
  /\ Len(scenario.specs) \in Nat
  /\ \A n \in 1..Len(scenario.specs) : IsSpecification(scenario.specs[n], scenario.disk)
  /\ \A snapshot \in SnapshotsOf(scenario) : IsSnapshot(snapshot)
  /\ \A ledger \in LedgersOf(scenario) : IsLedger(ledger)

\* A snapshot that has been read and validated.
HasRead(manifest, world) == manifest \in SnapshotsOf(world) /\ manifest.valid

\* The sources loaded so far, and the place of the composition among them.
LoadHolds ==
  /\ run.number \in 1..Len(scenario.specs)
  /\ IsList(run.loaded)
  /\ \A k \in 1..Len(run.loaded) : ReadySource(run.loaded[k], spec, k)
  /\ run.pc \in {"start", "manifest", "statistics", "ledger", "rows"} => Len(run.loaded) < Len(spec.sources)
  /\ run.pc = "compose" => Len(run.loaded) = Len(spec.sources)
  /\ run.pc \in {"statistics", "ledger", "rows"} => HasRead(run.manifest, scenario)
  /\ run.pc = "rows" => run.ledger \in LedgersOf(scenario)

\* What a mixture of a number promises.
Promises(mixture, wanted, destinations, number) ==
  IsSpent(mixture) /\ StaysApart(mixture) /\ RespectsReserves(mixture, wanted, destinations, number)

PromisesHold ==
  /\ DOMAIN published = 1..Len(scenario.specs)
  /\ \A n \in DOMAIN published : n > run.number => published[n] = None
  /\ \A n \in DOMAIN published :
        published[n] \notin {None, Taken} => Promises(published[n], SpecOf(n), published, n)
  /\ run.pc = "publish" => Promises(run.staged, spec, published, run.number)

MixtureInv == WorldHolds /\ DiskHolds /\ IsRun(run) /\ LoadHolds /\ PromisesHold

-----------------------------------------------------------------------------
(* The assumptions on the scenarios, where they are used *)

LEMMA WorldIsAssumed ==
  ASSUME scenario \in Scenarios
  PROVE  /\ WorldHolds
         /\ Len(scenario.specs) # 0
         /\ \A s \in DOMAIN scenario.disk : DOMAIN scenario.disk[s] = {"snapshot", "statistics", "ledger"}
         /\ \A edit \in scenario.edits :
               edit.source \in DOMAIN scenario.disk /\ edit.input \in {"snapshot", "statistics", "ledger"}
<1>1. /\ scenario.specs \in Seq(Range(scenario.specs)) /\ scenario.specs # <<>>
      /\ \A n \in 1..Len(scenario.specs) : IsSpecification(scenario.specs[n], scenario.disk)
      /\ \A s \in DOMAIN scenario.disk : DOMAIN scenario.disk[s] = {"snapshot", "statistics", "ledger"}
      /\ \A edit \in scenario.edits :
            edit.source \in DOMAIN scenario.disk /\ edit.input \in {"snapshot", "statistics", "ledger"}
      /\ \A snapshot \in SnapshotsOf(scenario) : IsSnapshot(snapshot)
      /\ \A ledger \in LedgersOf(scenario) : IsLedger(ledger)
  BY ScenariosAreTyped
<1>2. IsList(scenario.specs)
  BY <1>1 DEF IsList
<1>3. Len(scenario.specs) \in Nat /\ Len(scenario.specs) # 0
  BY <1>1, <1>2, ListProperties
<1> QED
  BY <1>1, <1>3 DEF WorldHolds

LEMMA NamesAreTold ==
  ASSUME scenario \in Scenarios, NEW n \in 1..Len(scenario.specs),
         NEW snapshot \in SnapshotsOf(scenario), snapshot.valid, NEW source \in DOMAIN scenario.disk
  PROVE  TellsNamesIn(scenario.specs[n].salt, source, snapshot.splits[scenario.specs[n].consumed])
BY DigestsTellNames DEF TellsNamesIn

\* What a specification is.
LEMMA SpecIsTyped ==
  ASSUME WorldHolds, NEW n \in 1..Len(scenario.specs), NEW wanted, wanted = SpecOf(n)
  PROVE  /\ IsList(wanted.sources) /\ Len(wanted.sources) \in Nat /\ Len(wanted.sources) # 0
         /\ \A j, k \in 1..Len(wanted.sources) : wanted.sources[j] = wanted.sources[k] => j = k
         /\ \A k \in 1..Len(wanted.sources) : wanted.sources[k] \in DOMAIN scenario.disk /\ wanted.sources[k] \in Int
         /\ wanted.weights \in [ToSet(wanted.sources) -> Int] /\ wanted.budget \in Int
         /\ wanted.consumed \in Splits
<1>1. IsSpecification(wanted, scenario.disk)
  BY DEF WorldHolds, SpecOf
<1>2. /\ wanted.sources \in Seq(DOMAIN scenario.disk \cap Int) /\ wanted.sources # <<>>
      /\ IsInjective(wanted.sources)
      /\ wanted.weights \in [ToSet(wanted.sources) -> Int] /\ wanted.budget \in Int
      /\ wanted.consumed \in Splits
  BY <1>1 DEF IsSpecification
<1>3. IsList(wanted.sources)
  BY <1>2, SequenceIsList
<1>4. /\ Len(wanted.sources) \in Nat /\ Len(wanted.sources) # 0
      /\ DOMAIN wanted.sources = 1..Len(wanted.sources)
  BY <1>2, <1>3, ListProperties
<1>5. \A k \in 1..Len(wanted.sources) : wanted.sources[k] \in DOMAIN scenario.disk \cap Int
  BY <1>2
<1>6. \A j, k \in 1..Len(wanted.sources) : wanted.sources[j] = wanted.sources[k] => j = k
  BY <1>2, <1>4 DEF IsInjective
<1> QED
  BY <1>2, <1>3, <1>4, <1>5, <1>6

\* When all are loaded and the budget can be shared out, the composition is ready.
LEMMA LoadedIsReady ==
  ASSUME WorldHolds, LoadHolds, run.pc = "compose", Allocatable(spec.budget, spec.weights)
  PROVE  Ready(spec, run.loaded)
<1> DEFINE S == ToSet(spec.sources)
<1>1. /\ IsList(spec.sources) /\ Len(spec.sources) \in Nat /\ Len(spec.sources) # 0
      /\ \A j, k \in 1..Len(spec.sources) : spec.sources[j] = spec.sources[k] => j = k
      /\ \A k \in 1..Len(spec.sources) : spec.sources[k] \in Int
      /\ spec.weights \in [S -> Int] /\ spec.budget \in Int
  BY SpecIsTyped DEF LoadHolds, spec
<1>2. /\ IsList(run.loaded) /\ Len(run.loaded) = Len(spec.sources)
      /\ \A k \in 1..Len(run.loaded) : ReadySource(run.loaded[k], spec, k)
  BY DEF LoadHolds
<1>3. spec.budget \in Nat \ {0} /\ spec.weights \in [S -> Nat \ {0}]
  BY <1>1 DEF Allocatable
<1>4. S \subseteq Int /\ IsFiniteSet(S)
  <2> DEFINE n == Len(spec.sources)
             pi == [k \in 1..n |-> spec.sources[k]]
  <2>1. S = {spec.sources[k] : k \in 1..n}
    BY <1>1, ListProperties
  <2>2. OneToOne(pi, 1..n, S)
    BY <1>1, <2>1 DEF OneToOne
  <2>3. IsFiniteSet(1..n)
    BY <1>1, FS_Interval
  <2> HIDE DEF pi, S, n
  <2>4. IsFiniteSet(S)
    BY <2>2, <2>3, SameSize
  <2> QED
    BY <1>1, <2>1, <2>4 DEF n
<1>5. CanShare(spec.budget, spec.weights, S)
  BY <1>3, <1>4 DEF CanShare
<1> QED
  BY <1>1, <1>2, <1>5 DEF Ready

-----------------------------------------------------------------------------
(* The steps of the composition *)

\* What the mixtures before a number are is all that its promises depend on.
AgreeBefore(P, Q, number) == \A earlier \in 1..(number - 1) : Q[earlier] = P[earlier]

LEMMA SamePromises ==
  ASSUME NEW mixture, NEW wanted, NEW number, NEW P, NEW Q, AgreeBefore(P, Q, number),
         Promises(mixture, wanted, P, number)
  PROVE  Promises(mixture, wanted, Q, number)
BY DEF Promises, RespectsReserves, AgreeBefore

LEMMA MixtureInit ==
  Init => MixtureInv
<1> SUFFICES ASSUME Init PROVE MixtureInv
  OBVIOUS
<1>1. /\ scenario \in Scenarios /\ disk = scenario.disk /\ run = NewRun(1)
      /\ published = [number \in 1..Len(scenario.specs) |-> None]
  BY DEF Init
<1>2. /\ WorldHolds /\ Len(scenario.specs) # 0 /\ Len(scenario.specs) \in Nat
      /\ \A s \in DOMAIN scenario.disk : DOMAIN scenario.disk[s] = {"snapshot", "statistics", "ledger"}
  BY <1>1, WorldIsAssumed DEF WorldHolds
<1>3. DiskHolds
  BY <1>1, <1>2 DEF DiskHolds, SnapshotsOf, LedgersOf
<1>4. /\ IsRun(run) /\ run.loaded = <<>> /\ run.pc = "start" /\ run.number = 1
  BY <1>1, FreshRun DEF NewRun
<1>5. LoadHolds
  <2>1. run.number \in 1..Len(scenario.specs)
    BY <1>2, <1>4
  <2>2. Len(spec.sources) \in Nat /\ Len(spec.sources) # 0
    BY <1>2, <2>1, SpecIsTyped DEF spec
  <2>3. IsList(run.loaded) /\ Len(run.loaded) = 0
    BY <1>4 DEF IsList
  <2> QED
    BY <1>4, <2>1, <2>2, <2>3 DEF LoadHolds
<1>6. PromisesHold
  BY <1>1, <1>4 DEF PromisesHold
<1> QED
  BY <1>2, <1>3, <1>4, <1>5, <1>6 DEF MixtureInv

\* A step that leaves the destinations alone and stages nothing.
LEMMA PromisesStay ==
  ASSUME WorldHolds, LoadHolds, PromisesHold, scenario' = scenario, published' = published,
         run'.number \in Int, run'.number >= run.number, run'.pc # "publish"
  PROVE  PromisesHold'
<1>1. run.number \in Int /\ DOMAIN published = 1..Len(scenario.specs)
  BY DEF LoadHolds, PromisesHold
<1>2. ASSUME NEW n \in DOMAIN published PROVE SpecOf(n)' = SpecOf(n)
  BY DEF SpecOf
<1>3. \A n \in DOMAIN published : n > run'.number => published[n] = None
  BY <1>1 DEF PromisesHold
<1> QED
  BY <1>1, <1>2, <1>3 DEF PromisesHold

\* The next command has nothing loaded.
LEMMA EndedLoads ==
  ASSUME WorldHolds, LoadHolds, scenario' = scenario, Ended
  PROVE  /\ IsRun(run') /\ LoadHolds'
         /\ run'.number \in Int /\ run'.number >= run.number /\ run'.pc # "publish"
<1>0. run.number \in 1..Len(scenario.specs) /\ Len(scenario.specs) \in Nat
  BY DEF LoadHolds, WorldHolds
<1>1. PICK number \in 1..Len(scenario.specs) :
        /\ number >= run.number
        /\ run' = NewRun(number) \/ run' = [NewRun(number) EXCEPT !.pc = "ended"]
  <2>1. CASE run.number < Len(scenario.specs)
    <3>1. run.number + 1 \in 1..Len(scenario.specs) /\ run.number + 1 >= run.number
      BY <1>0, <2>1
    <3>2. run' = NewRun(run.number + 1)
      BY <2>1 DEF Ended
    <3> QED
      BY <3>1, <3>2
  <2>2. CASE ~(run.number < Len(scenario.specs))
    <3>1. run' = [NewRun(run.number) EXCEPT !.pc = "ended"]
      BY <2>2 DEF Ended
    <3> QED
      BY <1>0, <3>1
  <2> QED
    BY <2>1, <2>2
<1>2. IsRun(run') /\ run'.loaded = <<>> /\ run'.pc \in {"start", "ended"}
  BY <1>1, FreshRun
<1>3. run'.number = number
  BY <1>1 DEF NewRun
<1>4. Len(SpecOf(number).sources) \in Nat /\ Len(SpecOf(number).sources) # 0
  BY SpecIsTyped
<1>5. spec' = SpecOf(number)
  BY <1>3 DEF spec, SpecOf
<1>6. IsList(run'.loaded) /\ Len(run'.loaded) = 0
  BY <1>2 DEF IsList
<1>7. LoadHolds'
  BY <1>2, <1>3, <1>4, <1>5, <1>6 DEF LoadHolds
<1> QED
  BY <1>1, <1>2, <1>3, <1>7

\* The composition's step, and the rest of the invariant.
LoadStep ==
  /\ IsRun(run') /\ LoadHolds'
  /\ run'.number \in Int /\ run'.number >= run.number /\ run'.pc # "publish"

LEMMA LoadStepHolds ==
  ASSUME MixtureInv, LoadStep, scenario' = scenario, disk' = disk, published' = published
  PROVE  MixtureInv'
<1>1. PromisesHold'
  BY PromisesStay DEF MixtureInv, LoadStep
<1>2. WorldHolds' /\ DiskHolds'
  BY DEF MixtureInv, WorldHolds, DiskHolds
<1> QED
  BY <1>1, <1>2 DEF MixtureInv, LoadStep

\* A step that takes nothing into the list of sources.
LEMMA SameSources ==
  ASSUME LoadHolds, scenario' = scenario, IsRun(run'),
         run'.number = run.number, run'.loaded = run.loaded,
         run.pc \in {"start", "manifest", "statistics", "ledger", "rows"},
         run'.pc \in {"manifest", "statistics", "ledger", "rows"},
         run'.pc \in {"statistics", "ledger", "rows"} => HasRead(run'.manifest, scenario),
         run'.pc = "rows" => run'.ledger \in LedgersOf(scenario)
  PROVE  LoadStep
<1>1. spec' = spec
  BY DEF spec, SpecOf
<1>2. run.number \in Int
  BY DEF LoadHolds
<1>3. LoadHolds'
  BY <1>1 DEF LoadHolds
<1> QED
  BY <1>2, <1>3 DEF LoadStep

LEMMA InputIsTyped ==
  ASSUME WorldHolds, DiskHolds, LoadHolds, run.pc \in {"manifest", "statistics", "ledger", "rows"}
  PROVE  /\ NextSource \in DOMAIN scenario.disk /\ NextSource \in Int
         /\ NextSource = spec.sources[Len(run.loaded) + 1]
         /\ Input.snapshot \in SnapshotsOf(scenario) /\ Input.ledger \in LedgersOf(scenario)
<1>1. /\ Len(spec.sources) \in Nat
      /\ \A k \in 1..Len(spec.sources) : spec.sources[k] \in DOMAIN scenario.disk /\ spec.sources[k] \in Int
  BY SpecIsTyped DEF LoadHolds, spec
<1>2. Len(run.loaded) \in Nat /\ Len(run.loaded) < Len(spec.sources)
  BY ListProperties DEF LoadHolds
<1>3. Len(run.loaded) + 1 \in 1..Len(spec.sources)
  BY <1>1, <1>2
<1>4. NextSource \in DOMAIN disk /\ NextSource \in DOMAIN scenario.disk /\ NextSource \in Int
  BY <1>1, <1>3 DEF NextSource, DiskHolds
<1> QED
  BY <1>4 DEF Input, DiskHolds, NextSource

LEMMA ReadStepLoads ==
  ASSUME MixtureInv, Start \/ ReadManifest \/ ReadStatistics \/ ReadLedger
  PROVE  LoadStep
<1>0. /\ WorldHolds /\ DiskHolds /\ LoadHolds /\ IsRun(run) /\ scenario' = scenario
  BY DEF MixtureInv, Start, ReadManifest, ReadStatistics, ReadLedger, others
<1>1. CASE Ended
  BY <1>0, <1>1, EndedLoads DEF LoadStep
<1>2. CASE ~Ended
  <2>1. CASE Start
    <3>1. run' = [run EXCEPT !.pc = "manifest"] /\ run.pc = "start"
      BY <1>2, <2>1 DEF Start
    <3>2. IsRun(run') /\ run'.number = run.number /\ run'.loaded = run.loaded /\ run'.pc = "manifest"
      BY <1>0, <3>1 DEF IsRun, RunFields
    <3> QED
      BY <1>0, <3>1, <3>2, SameSources
  <2>2. CASE ReadManifest
    <3>1. /\ run' = [run EXCEPT !.manifest = Input.snapshot, !.pc = "statistics"] /\ run.pc = "manifest"
          /\ Input.snapshot.valid
      BY <1>2, <2>2 DEF ReadManifest
    <3>2. /\ IsRun(run') /\ run'.number = run.number /\ run'.loaded = run.loaded /\ run'.pc = "statistics"
          /\ run'.manifest = Input.snapshot
      BY <1>0, <3>1 DEF IsRun, RunFields
    <3>3. HasRead(run'.manifest, scenario)
      BY <1>0, <3>1, <3>2, InputIsTyped DEF HasRead
    <3> QED
      BY <1>0, <3>1, <3>2, <3>3, SameSources
  <2>3. CASE ReadStatistics
    <3>1. run' = [run EXCEPT !.statistics = Input.statistics, !.pc = "ledger"] /\ run.pc = "statistics"
      BY <2>3 DEF ReadStatistics
    <3>2. /\ IsRun(run') /\ run'.number = run.number /\ run'.loaded = run.loaded /\ run'.pc = "ledger"
          /\ run'.manifest = run.manifest
      BY <1>0, <3>1 DEF IsRun, RunFields
    <3>3. HasRead(run'.manifest, scenario)
      BY <1>0, <3>1, <3>2 DEF LoadHolds
    <3> QED
      BY <1>0, <3>1, <3>2, <3>3, SameSources
  <2>4. CASE ReadLedger
    <3>1. run' = [run EXCEPT !.ledger = Input.ledger, !.pc = "rows"] /\ run.pc = "ledger"
      BY <1>2, <2>4 DEF ReadLedger
    <3>2. /\ IsRun(run') /\ run'.number = run.number /\ run'.loaded = run.loaded /\ run'.pc = "rows"
          /\ run'.manifest = run.manifest /\ run'.ledger = Input.ledger
      BY <1>0, <3>1 DEF IsRun, RunFields
    <3>3. HasRead(run'.manifest, scenario) /\ run'.ledger \in LedgersOf(scenario)
      BY <1>0, <3>1, <3>2, InputIsTyped DEF LoadHolds
    <3> QED
      BY <1>0, <3>1, <3>2, <3>3, SameSources
  <2> QED
    BY <2>1, <2>2, <2>3, <2>4
<1> QED
  BY <1>1, <1>2

\* The records made of the members of a snapshot and the entries of a ledger.
LEMMA RowsFit ==
  ASSUME NEW manifest, IsSnapshot(manifest), manifest.valid, IsLedger(run.ledger),
         spec.consumed \in Splits, Covers(run.ledger, manifest, spec.consumed), NEW source \in Int,
         NEW s,
         s.source = source, s.manifest = manifest, s.ledger = run.ledger,
         s.records = [k \in 1..Len(manifest.splits[spec.consumed]) |->
                        SelectableRecord(source, manifest.splits[spec.consumed][k])]
  PROVE  SoundSource(s, spec.consumed)
<1> DEFINE members == manifest.splits[spec.consumed]
           entries == RecordsOf(run.ledger, spec.consumed)
           n == Len(members)
<1>1. /\ IsList(members)
      /\ \A m \in Range(members) : IsMember(m)
      /\ \A j, k \in 1..n : members[j].id = members[k].id => j = k
  BY DEF IsSnapshot, IsList
<1>2. /\ IsFiniteSet(entries)
      /\ \A e \in entries : e.tokens \in Nat /\ e.truncated \in BOOLEAN
      /\ \A e, f \in entries : e.id = f.id => e = f
  <2>1. /\ IsFiniteSet(run.ledger.records) /\ entries \subseteq run.ledger.records
        /\ \A e \in run.ledger.records : e.tokens \in Nat /\ e.truncated \in BOOLEAN
        /\ \A e, f \in run.ledger.records : e.split = f.split /\ e.id = f.id => e = f
        /\ \A e \in entries : e.split = spec.consumed
    BY DEF IsLedger, RecordsOf
  <2>2. IsFiniteSet(entries)
    BY <2>1, FS_Subset
  <2> HIDE DEF entries
  <2>3. \A e \in entries : e.tokens \in Nat /\ e.truncated \in BOOLEAN
    BY <2>1, Zenon
  <2>4. \A e, f \in entries : e.id = f.id => e = f
    BY <2>1
  <2> QED
    BY <2>2, <2>3, <2>4
<1>3. {e.id : e \in entries} = {m.id : m \in ToSet(members)}
  BY DEF Covers
<1>4. n \in Nat /\ ToSet(members) = {members[k] : k \in 1..n} /\ Range(members) = {members[k] : k \in 1..n}
  BY <1>1, ListProperties
<1>5. s.records = [k \in 1..n |-> SelectableRecord(source, members[k])]
  OBVIOUS
<1> HIDE DEF members, entries, n
<1>6. IsList(s.records) /\ Len(s.records) = n
  <2> DEFINE records == [k \in 1..n |-> SelectableRecord(source, members[k])]
  <2>1. records = [k \in 1..n |-> records[k]]
    OBVIOUS
  <2> HIDE DEF records
  <2>2. IsList(records) /\ Len(records) = n
    BY <1>4, <2>1, FunctionIsList
  <2> QED
    BY <1>5, <2>2 DEF records
<1>7. ASSUME NEW k \in 1..n PROVE RecordFits(s.records[k], source, members[k], entries)
  <2> DEFINE member == members[k]
             entry == CHOOSE r \in entries : r.id = member.id
  <2>1. member.id \in {m.id : m \in ToSet(members)}
    BY <1>4
  <2>2. \E r \in entries : r.id = member.id
    <3> HIDE DEF member
    <3>1. member.id \in {e.id : e \in entries}
      BY <1>3, <2>1
    <3> QED
      BY <3>1
  <2>3. entry \in entries /\ entry.id = member.id
    BY <2>2
  <2>4. s.records[k] = [source |-> source, id |-> member.id, lineage |-> member.lineage, group |-> member.group,
                        content |-> member.content, tokens |-> entry.tokens, truncated |-> entry.truncated]
    <3>1. SelectableRecord(source, member) =
            [source |-> source, id |-> member.id, lineage |-> member.lineage, group |-> member.group,
             content |-> member.content, tokens |-> entry.tokens, truncated |-> entry.truncated]
      BY Zenon DEF SelectableRecord, entries
    <3>2. s.records[k] = SelectableRecord(source, member)
      BY <1>5
    <3> QED
      BY <3>1, <3>2
  <2> HIDE DEF entry, member
  <2> DEFINE row == [source |-> source, id |-> member.id, lineage |-> member.lineage, group |-> member.group,
                     content |-> member.content, tokens |-> entry.tokens, truncated |-> entry.truncated]
  <2>5. /\ row.source = source /\ row.id = member.id /\ row.lineage = member.lineage
        /\ row.group = member.group /\ row.content = member.content
        /\ row.tokens = entry.tokens /\ row.truncated = entry.truncated
    OBVIOUS
  <2>6. s.records[k] = row
    BY <2>4
  <2> HIDE DEF row
  <2>7. RecordFits(s.records[k], source, member, entries)
    BY <2>3, <2>5, <2>6 DEF RecordFits
  <2> QED
    BY <2>7 DEF member
<1>8. \A k \in 1..n : IsMember(members[k])
  BY <1>1, <1>4
<1> QED
  BY <1>1, <1>2, <1>6, <1>7, <1>8 DEF SoundSource, members, entries, n

\* The names of the records are names in the snapshot.
LEMMA RecordsTellNames ==
  ASSUME NEW s, NEW consumed, SoundSource(s, consumed), NEW salt,
         TellsNamesIn(salt, s.source, s.manifest.splits[consumed])
  PROVE  TellsNames(salt, s.source, s.records)
<1> DEFINE members == s.manifest.splits[consumed]
           entries == RecordsOf(s.ledger, consumed)
<1>1. /\ IsList(members) /\ Len(s.records) = Len(members)
      /\ \A k \in 1..Len(members) : RecordFits(s.records[k], s.source, members[k], entries)
  BY DEF SoundSource
<1>2. Range(members) = {members[k] : k \in 1..Len(members)}
  BY <1>1, ListProperties
<1>3. /\ \A a \in NamesIn(members) : SelectionDigest(salt, s.source, a) \in Int
      /\ \A a, b \in NamesIn(members) :
            SelectionDigest(salt, s.source, a) = SelectionDigest(salt, s.source, b) => a = b
  BY DEF TellsNamesIn
<1> HIDE DEF members, entries
<1>4. ASSUME NEW k \in 1..Len(s.records), NEW a \in NamesOf(s.records[k]) PROVE a \in NamesIn(members)
  <2>1. /\ members[k] \in Range(members) /\ s.records[k].lineage = members[k].lineage
        /\ s.records[k].group = members[k].group
    BY <1>1, <1>2 DEF RecordFits
  <2>2. CASE a = <<"lineage", s.records[k].lineage>>
    BY <2>1, <2>2 DEF NamesIn
  <2>3. CASE s.records[k].group # Absent /\ a = <<"group", s.records[k].group>>
    BY <2>1, <2>3 DEF NamesIn
  <2> QED
    BY <2>2, <2>3 DEF NamesOf
<1> QED
  BY <1>3, <1>4 DEF TellsNames

\* A list with one more at its end.
LEMMA OneMore ==
  ASSUME NEW s, IsList(s), NEW x
  PROVE  /\ IsList(Append(s, x)) /\ Len(Append(s, x)) = Len(s) + 1 /\ Len(s) \in Nat
         /\ \A k \in 1..Len(s) : Append(s, x)[k] = s[k]
         /\ Append(s, x)[Len(s) + 1] = x
<1> DEFINE X == Range(s) \cup {x}
<1>1. s \in Seq(X) /\ x \in X
  BY SeqMonotonic DEF IsList
<1> HIDE DEF X
<1>2. /\ Append(s, x) \in Seq(X) /\ Len(Append(s, x)) = Len(s) + 1
      /\ \A k \in 1..Len(s) : Append(s, x)[k] = s[k]
      /\ Append(s, x)[Len(s) + 1] = x
  BY <1>1, AppendProperties
<1>3. Append(s, x) \in Seq(X)
  BY <1>2
<1>4. IsList(Append(s, x))
  BY <1>3, SequenceIsList
<1>5. Len(s) \in Nat
  BY ListProperties
<1> QED
  BY <1>2, <1>4, <1>5

LEMMA RowsLoad ==
  ASSUME MixtureInv, ReadRows
  PROVE  LoadStep
<1>0. /\ WorldHolds /\ DiskHolds /\ LoadHolds /\ IsRun(run) /\ scenario' = scenario /\ run.pc = "rows"
  BY DEF MixtureInv, ReadRows, others
<1>1. CASE Ended
  BY <1>0, <1>1, EndedLoads DEF LoadStep
<1>2. CASE ~Ended
  <2> DEFINE members == run.manifest.splits[spec.consumed]
             source == [source |-> NextSource, manifest |-> run.manifest,
                        statistics |-> run.statistics, ledger |-> run.ledger,
                        records |-> [k \in 1..Len(members) |-> SelectableRecord(NextSource, members[k])]]
             loaded == Append(run.loaded, source)
             here == IF Len(loaded) = Len(spec.sources) THEN "compose" ELSE "manifest"
  <2>1. /\ Covers(run.ledger, run.manifest, spec.consumed)
        /\ run' = [run EXCEPT !.loaded = loaded, !.pc = here]
    BY <1>2 DEF ReadRows, Covers
  <2>2. /\ run.manifest \in SnapshotsOf(scenario) /\ run.manifest.valid /\ run.ledger \in LedgersOf(scenario)
        /\ IsSnapshot(run.manifest) /\ IsLedger(run.ledger)
    BY <1>0 DEF LoadHolds, HasRead, WorldHolds
  <2>3. /\ NextSource \in DOMAIN scenario.disk /\ NextSource \in Int
        /\ NextSource = spec.sources[Len(run.loaded) + 1]
    BY <1>0, InputIsTyped
  <2>4. spec.consumed \in Splits /\ Len(spec.sources) \in Nat
    BY <1>0, SpecIsTyped DEF LoadHolds, spec
  <2>5. /\ source.source = NextSource /\ source.manifest = run.manifest /\ source.ledger = run.ledger
        /\ source.records = [k \in 1..Len(run.manifest.splits[spec.consumed]) |->
                               SelectableRecord(NextSource, run.manifest.splits[spec.consumed][k])]
    OBVIOUS
  <2> HIDE DEF source
  <2>6. SoundSource(source, spec.consumed)
    BY <2>1, <2>2, <2>3, <2>4, <2>5, RowsFit
  <2>7. TellsNames(spec.salt, source.source, source.records)
    <3>1. TellsNamesIn(spec.salt, NextSource, run.manifest.splits[spec.consumed])
      <4>1. scenario \in Scenarios /\ run.number \in 1..Len(scenario.specs)
        BY <1>0 DEF WorldHolds, LoadHolds
      <4> QED
        BY <2>2, <2>3, <4>1, NamesAreTold DEF spec, SpecOf
    <3> QED
      BY <2>5, <2>6, <3>1, RecordsTellNames
  <2>8. ReadySource(source, spec, Len(run.loaded) + 1)
    BY <2>3, <2>5, <2>6, <2>7 DEF ReadySource
  <2>9. /\ IsList(loaded) /\ Len(loaded) = Len(run.loaded) + 1 /\ Len(run.loaded) \in Nat
        /\ \A k \in 1..Len(run.loaded) : loaded[k] = run.loaded[k]
        /\ loaded[Len(run.loaded) + 1] = source
    <3>1. IsList(run.loaded)
      BY <1>0 DEF LoadHolds
    <3> QED
      BY <3>1, OneMore
  <2> HIDE DEF loaded
  <2>10. here \in {"compose", "manifest"} /\ (here = "compose" <=> Len(loaded) = Len(spec.sources))
    OBVIOUS
  <2> HIDE DEF here
  <2>11. IsRun(run') /\ run'.pc = here /\ run'.number = run.number /\ run'.loaded = loaded
    BY <1>0, <2>1 DEF IsRun, RunFields
  <2>12. \A k \in 1..Len(loaded) : ReadySource(loaded[k], spec, k)
    <3> TAKE k \in 1..Len(loaded)
    <3>1. CASE k \in 1..Len(run.loaded)
      <4>1. ReadySource(run.loaded[k], spec, k)
        BY <1>0, <3>1 DEF LoadHolds
      <4> QED
        BY <2>9, <3>1, <4>1
    <3>2. CASE k = Len(run.loaded) + 1
      BY <2>8, <2>9, <3>2
    <3> QED
      BY <2>9, <3>1, <3>2
  <2>13. Len(loaded) <= Len(spec.sources)
    <3>1. Len(run.loaded) < Len(spec.sources)
      BY <1>0 DEF LoadHolds
    <3> QED
      BY <2>4, <2>9, <3>1
  <2>14. spec' = spec
    BY <1>0, <2>11 DEF spec, SpecOf
  <2>15. run.number \in 1..Len(scenario.specs)
    BY <1>0 DEF LoadHolds
  <2>16. here = "manifest" => Len(loaded) < Len(spec.sources)
    BY <2>4, <2>9, <2>10, <2>13
  <2>17. LoadHolds'
    BY <1>0, <2>9, <2>10, <2>11, <2>12, <2>14, <2>15, <2>16 DEF LoadHolds
  <2> QED
    BY <2>10, <2>11, <2>15, <2>17 DEF LoadStep
<1> QED
  BY <1>1, <1>2

\* A mixture is staged only with all its promises kept.
LEMMA ComposePromises ==
  ASSUME MixtureInv, Compose
  PROVE  MixtureInv'
<1>0. /\ WorldHolds /\ DiskHolds /\ LoadHolds /\ IsRun(run) /\ PromisesHold
      /\ scenario' = scenario /\ disk' = disk /\ published' = published /\ run.pc = "compose"
  BY DEF MixtureInv, Compose, others
<1>1. CASE Ended
  <2>1. LoadStep
    BY <1>0, <1>1, EndedLoads DEF LoadStep
  <2> QED
    BY <1>0, <2>1, LoadStepHolds
<1>2. CASE ~Ended
  <2> DEFINE mixture == MixtureOf(run.loaded)
  <2>1. /\ Isolated(run.loaded, spec.consumed) /\ Unreserved(run.loaded, Reserved)
        /\ Allocatable(spec.budget, spec.weights) /\ ManifestHolds(mixture)
        /\ run' = [run EXCEPT !.staged = mixture, !.pc = "publish"]
    BY <1>2 DEF Compose
  <2>2. Ready(spec, run.loaded)
    BY <1>0, <2>1, LoadedIsReady
  <2>3. spec.consumed \in Splits
    BY <1>0, SpecIsTyped DEF LoadHolds, spec
  <2>4. IsSpent(mixture)
    BY <2>1, <2>2, ComposedIsSpent
  <2>5. ComesFrom(mixture, run.loaded, spec.consumed)
    BY <2>2, ComposedComesFrom
  <2> HIDE DEF mixture
  <2>6. StaysApart(mixture)
    BY <2>1, <2>3, <2>5, IsolatedStaysApart
  <2>7. RespectsReserves(mixture, spec, published, run.number)
    BY <2>1, <2>5, UnreservedRespects
  <2>8. Promises(mixture, spec, published, run.number)
    BY <2>4, <2>6, <2>7 DEF Promises
  <2>9. /\ IsRun(run') /\ run'.pc = "publish" /\ run'.staged = mixture
        /\ run'.number = run.number /\ run'.loaded = run.loaded
    BY <1>0, <2>1 DEF IsRun, RunFields
  <2>10. spec' = spec /\ \A n \in DOMAIN published : SpecOf(n)' = SpecOf(n)
    BY <1>0, <2>9 DEF spec, SpecOf
  <2>11. LoadHolds'
    BY <1>0, <2>9, <2>10 DEF LoadHolds
  <2>12. PromisesHold'
    BY <1>0, <2>8, <2>9, <2>10 DEF PromisesHold
  <2>13. WorldHolds' /\ DiskHolds'
    BY <1>0 DEF WorldHolds, DiskHolds
  <2> QED
    BY <2>9, <2>11, <2>12, <2>13 DEF MixtureInv
<1> QED
  BY <1>1, <1>2

\* What a destination of the current number becomes leaves earlier promises alone.
LEMMA DestinationChanges ==
  ASSUME MixtureInv, scenario' = scenario, NEW value,
         published' = [published EXCEPT ![run.number] = value],
         value \notin {None, Taken} => Promises(value, spec, published, run.number),
         run'.number \in Int, run'.number >= run.number,
         run'.pc = "publish" => run'.staged = run.staged /\ run'.number = run.number /\ run.pc = "publish"
  PROVE  PromisesHold'
<1>1. /\ run.number \in 1..Len(scenario.specs) /\ Len(scenario.specs) \in Nat
      /\ DOMAIN published = 1..Len(scenario.specs)
  BY DEF MixtureInv, LoadHolds, PromisesHold, WorldHolds
<1>2. DOMAIN published' = DOMAIN published
  OBVIOUS
<1>3. \A n \in DOMAIN published : n # run.number => published'[n] = published[n]
  OBVIOUS
<1>4. published'[run.number] = value
  BY <1>1
<1>5. ASSUME NEW n \in DOMAIN published, n > run'.number PROVE published'[n] = None
  BY <1>1, <1>3, <1>5 DEF MixtureInv, PromisesHold
<1>6. ASSUME NEW n \in DOMAIN published, n <= run.number
      PROVE  AgreeBefore(published, published', n)
  BY <1>1, <1>3, <1>6 DEF AgreeBefore
<1>7. ASSUME NEW n \in DOMAIN published, published'[n] \notin {None, Taken}
      PROVE  Promises(published'[n], SpecOf(n), published', n)
  <2>1. n <= run.number
    <3> SUFFICES ASSUME n > run.number PROVE FALSE
      BY <1>1
    <3>1. published'[n] = published[n] /\ published[n] = None
      BY <1>1, <1>3 DEF MixtureInv, PromisesHold
    <3> QED
      BY <1>7, <3>1
  <2>2. Promises(published'[n], SpecOf(n), published, n)
    <3>1. CASE n = run.number
      BY <1>4, <1>7, <3>1 DEF spec
    <3>2. CASE n # run.number
      BY <1>3, <1>7, <3>2 DEF MixtureInv, PromisesHold
    <3> QED
      BY <3>1, <3>2
  <2> QED
    BY <1>6, <2>1, <2>2, SamePromises
<1>8. ASSUME run'.pc = "publish" PROVE Promises(run'.staged, spec', published', run'.number)
  <2>1. Promises(run.staged, spec, published, run.number)
    BY <1>8 DEF MixtureInv, PromisesHold
  <2>2. AgreeBefore(published, published', run.number)
    <3>1. run.number \in DOMAIN published /\ run.number <= run.number
      BY <1>1
    <3> QED
      BY <1>6, <3>1
  <2>3. Promises(run.staged, spec, published', run.number)
    BY <2>1, <2>2, SamePromises
  <2>4. spec' = spec
    BY <1>8 DEF spec, SpecOf
  <2> QED
    BY <1>8, <2>3, <2>4
<1>9. \A n \in DOMAIN published : SpecOf(n)' = SpecOf(n)
  BY DEF SpecOf
<1> QED
  BY <1>1, <1>2, <1>5, <1>7, <1>8, <1>9 DEF PromisesHold

LEMMA PublishPromises ==
  ASSUME MixtureInv, Publish
  PROVE  MixtureInv'
<1>0. /\ WorldHolds /\ DiskHolds /\ LoadHolds /\ PromisesHold
      /\ scenario' = scenario /\ disk' = disk /\ run.pc = "publish" /\ Ended
  BY DEF MixtureInv, Publish, others
<1>1. LoadStep
  BY <1>0, EndedLoads DEF LoadStep
<1>2. WorldHolds' /\ DiskHolds'
  BY <1>0 DEF WorldHolds, DiskHolds
<1>3. PromisesHold'
  <2>1. CASE published[run.number] = None
    <3>1. published' = [published EXCEPT ![run.number] = run.staged]
      BY <2>1 DEF Publish
    <3>2. Promises(run.staged, spec, published, run.number)
      BY <1>0 DEF PromisesHold
    <3> QED
      BY <1>0, <1>1, <3>1, <3>2, DestinationChanges DEF LoadStep
  <2>2. CASE published[run.number] # None
    <3>1. published' = published
      BY <2>2 DEF Publish
    <3> QED
      BY <1>0, <1>1, <3>1, PromisesStay DEF LoadStep
  <2> QED
    BY <2>1, <2>2
<1> QED
  BY <1>1, <1>2, <1>3 DEF MixtureInv, LoadStep

LEMMA OthersPromise ==
  ASSUME MixtureInv, ReplaceInput \/ TakeDestination \/ UNCHANGED vars
  PROVE  MixtureInv'
<1>0. /\ WorldHolds /\ DiskHolds /\ LoadHolds /\ IsRun(run) /\ PromisesHold
  BY DEF MixtureInv
<1>1. scenario' = scenario /\ run' = run
  BY DEF ReplaceInput, TakeDestination, vars
<1>2. WorldHolds' /\ LoadHolds' /\ IsRun(run')
  BY <1>0, <1>1 DEF WorldHolds, LoadHolds, spec, SpecOf
<1>3. DiskHolds'
  <2>1. CASE ReplaceInput
    <3>1. PICK edit \in scenario.edits :
            disk' = [disk EXCEPT ![edit.source][edit.input] = edit.value]
      BY <2>1 DEF ReplaceInput
    <3>2. edit.source \in DOMAIN scenario.disk /\ edit.input \in {"snapshot", "statistics", "ledger"}
      BY <1>0, WorldIsAssumed DEF WorldHolds
    <3>3. /\ edit.input = "snapshot" => edit.value \in SnapshotsOf(scenario)
          /\ edit.input = "ledger" => edit.value \in LedgersOf(scenario)
      BY DEF SnapshotsOf, LedgersOf
    <3>4. DOMAIN disk' = DOMAIN scenario.disk
      BY <1>0, <3>1 DEF DiskHolds
    <3>5. ASSUME NEW s \in DOMAIN disk
          PROVE  /\ DOMAIN disk'[s] = {"snapshot", "statistics", "ledger"}
                 /\ disk'[s].snapshot \in SnapshotsOf(scenario) /\ disk'[s].ledger \in LedgersOf(scenario)
      <4>0. /\ DOMAIN disk[s] = {"snapshot", "statistics", "ledger"}
            /\ disk[s].snapshot \in SnapshotsOf(scenario) /\ disk[s].ledger \in LedgersOf(scenario)
        BY <1>0 DEF DiskHolds
      <4>1. CASE s = edit.source
        <5>1. disk'[s] = [disk[s] EXCEPT ![edit.input] = edit.value]
          BY <3>1, <4>1
        <5> QED
          BY <3>2, <3>3, <4>0, <5>1
      <4>2. CASE s # edit.source
        <5>1. disk'[s] = disk[s]
          BY <3>1, <4>2
        <5> QED
          BY <4>0, <5>1
      <4> QED
        BY <4>1, <4>2
    <3> QED
      BY <1>0, <1>1, <3>4, <3>5 DEF DiskHolds
  <2>2. CASE ~ReplaceInput
    <3>1. disk' = disk
      BY <2>2 DEF TakeDestination, vars
    <3> QED
      BY <1>0, <1>1, <3>1 DEF DiskHolds
  <2> QED
    BY <2>1, <2>2
<1>4. PromisesHold'
  <2>1. run.number \in 1..Len(scenario.specs)
    BY <1>0 DEF LoadHolds
  <2>2. CASE TakeDestination
    <3>1. published' = [published EXCEPT ![run.number] = Taken]
      BY <2>2 DEF TakeDestination
    <3>2. run'.number \in Int /\ run'.number >= run.number
      BY <1>1, <2>1
    <3>3. run'.pc = "publish" => run'.staged = run.staged /\ run'.number = run.number /\ run.pc = "publish"
      BY <1>1
    <3> QED
      BY <1>1, <3>1, <3>2, <3>3, DestinationChanges
  <2>3. CASE ~TakeDestination
    <3>1. published' = published
      BY <2>3 DEF ReplaceInput, vars
    <3> QED
      BY <1>0, <1>1, <3>1 DEF PromisesHold, spec, SpecOf
  <2> QED
    BY <2>2, <2>3
<1> QED
  BY <1>2, <1>3, <1>4 DEF MixtureInv

LEMMA MixtureStep ==
  MixtureInv /\ [Next]_vars => MixtureInv'
<1> SUFFICES ASSUME MixtureInv, [Next]_vars PROVE MixtureInv'
  OBVIOUS
<1>1. CASE Start \/ ReadManifest \/ ReadStatistics \/ ReadLedger \/ ReadRows
  <2>1. LoadStep
    BY <1>1, ReadStepLoads, RowsLoad
  <2>2. scenario' = scenario /\ disk' = disk /\ published' = published
    BY <1>1 DEF Start, ReadManifest, ReadStatistics, ReadLedger, ReadRows, others
  <2> QED
    BY <2>1, <2>2, LoadStepHolds
<1>2. CASE Compose
  BY <1>2, ComposePromises
<1>3. CASE Publish
  BY <1>3, PublishPromises
<1>4. CASE ReplaceInput \/ TakeDestination \/ UNCHANGED vars
  BY <1>4, OthersPromise
<1> QED
  BY <1>1, <1>2, <1>3, <1>4 DEF Next

-----------------------------------------------------------------------------
(* The theorems *)

LEMMA PublishedPromises ==
  ASSUME MixtureInv, NEW mixture \in Mixtures
  PROVE  IsSpent(mixture)
<1>1. PICK n \in DOMAIN published : mixture = published[n] /\ published[n] \notin {None, Taken}
  BY DEF Mixtures
<1>2. Promises(published[n], SpecOf(n), published, n)
  BY <1>1 DEF MixtureInv, PromisesHold
<1> QED
  BY <1>1, <1>2 DEF Promises

\* Whatever is on disk and however it is replaced, the quotas of a published
\* mixture share out its budget to the token, none is a token or more off its
\* proportional share or below that of a lighter source, and no component that
\* was left out would have fitted into what is left of its source's quota
\* (mixture_allocate.allocate_token_quotas, select_groups_for_quota).
THEOREM BudgetsAreSpent == Spec => []BudgetIsSpent
<1>1. MixtureInv => BudgetIsSpent
  <2> SUFFICES ASSUME MixtureInv, NEW mixture \in Mixtures
               PROVE  QuotasAreFair(mixture) /\ NothingMoreFits(mixture)
    BY DEF BudgetIsSpent
  <2>1. IsSpent(mixture)
    BY PublishedPromises
  <2>2. \A result \in ToSet(mixture.sources) : LeavesNoRoom(mixture, result)
    BY <2>1 DEF IsSpent
  <2>3. NothingMoreFits(mixture)
    BY <2>2 DEF LeavesNoRoom, NothingMoreFits, IdsOf
  <2> QED
    BY <2>1, <2>3 DEF IsSpent
<1> QED
  BY MixtureInit, MixtureStep, <1>1, PTL DEF Spec

\* Records that are related, directly or through others, are published together
\* or not at all, none of them truncated, and what a source accepted is what the
\* pinned ledger counts for them (mixture_compose._atomic_groups).
THEOREM RelatedRecordsAreSelectedTogether == Spec => []RelatedRecordsStayTogether
<1>1. MixtureInv => RelatedRecordsStayTogether
  <2> SUFFICES ASSUME MixtureInv PROVE RelatedRecordsStayTogether
    OBVIOUS
  <2>1. ASSUME NEW mixture \in Mixtures, NEW result \in ToSet(mixture.sources)
        PROVE  KeepsTogether(mixture, result)
    BY PublishedPromises DEF IsSpent
  <2> QED
    BY <2>1 DEF RelatedRecordsStayTogether, KeepsTogether, AllOrNothing, IdsOf
<1> QED
  BY MixtureInit, MixtureStep, <1>1, PTL DEF Spec

\* No identity of a published record occurs in another split or another source
\* of its mixture, nor in what the mixtures before it selected when that was
\* reserved, whoever took destinations in between
\* (mixture_identity.require_lineage_isolation, reject_reserved_record).
THEOREM SelectionsStayIsolated == Spec => []SelectedStaysIsolated
<1>1. MixtureInv => SelectedStaysIsolated
  <2> SUFFICES ASSUME MixtureInv,
                      NEW n \in DOMAIN published, published[n] \in Mixtures,
                      NEW record \in ToSet(published[n].selected), NEW kind \in Kinds,
                      IdentityOf(record, kind) # Absent
               PROVE  /\ \A result \in ToSet(published[n].sources), split \in Splits :
                            (split # published[n].consumed \/ result.source # record.source) =>
                               \A m \in ToSet(result.manifest.splits[split]) :
                                  IdentityOf(m, kind) # IdentityOf(record, kind)
                      /\ SpecOf(n).reserves =>
                            \A earlier \in 1..(n - 1) : published[earlier] \in Mixtures =>
                               \A r \in ToSet(published[earlier].selected) :
                                  IdentityOf(r, kind) # IdentityOf(record, kind)
    BY DEF SelectedStaysIsolated
  <2>1. Promises(published[n], SpecOf(n), published, n)
    BY DEF MixtureInv, PromisesHold, Mixtures
  <2>2. StaysApart(published[n]) /\ RespectsReserves(published[n], SpecOf(n), published, n)
    BY <2>1 DEF Promises
  <2>3. \A earlier \in 1..(n - 1) : published[earlier] \in Mixtures => published[earlier] \notin {None, Taken}
    BY DEF Mixtures
  <2>4. \A result \in ToSet(published[n].sources), split \in Splits :
           (split # published[n].consumed \/ result.source # record.source) =>
              \A m \in ToSet(result.manifest.splits[split]) : IdentityOf(m, kind) # IdentityOf(record, kind)
    BY <2>2 DEF StaysApart
  <2>5. SpecOf(n).reserves =>
           \A earlier \in 1..(n - 1) : published[earlier] \in Mixtures =>
              \A r \in ToSet(published[earlier].selected) : IdentityOf(r, kind) # IdentityOf(record, kind)
    BY <2>2, <2>3 DEF RespectsReserves, SharesNothingWith
  <2> QED
    BY <2>4, <2>5
<1> QED
  BY MixtureInit, MixtureStep, <1>1, PTL DEF Spec
=============================================================================
