------------------------- MODULE HeldOutEval_proofs -------------------------
(***************************************************************************)
(* What an accepted artifact was, what a comparison says, what wrapping a  *)
(* reply does to its verdict and what a pin names, for every set of        *)
(* scenarios and every bound.                                              *)
(*                                                                         *)
(* ScanInv, CopyInv and RescanInv carry what the stat identities of the    *)
(* two scans say about the contents that were copied between them; a write *)
(* of anybody gives an identity none of them has.                          *)
(***************************************************************************)
EXTENDS HeldOutEval, SequenceTheorems, FiniteSetTheorems, TLAPS

-----------------------------------------------------------------------------
(* The invariants *)

IsList(s) == s \in Seq(Range(s))
IsFunction(f) == f = [x \in DOMAIN f |-> f[x]]

\* Stat identities are never ahead of the edits, and the two halves of the live
\* bundle have the same paths.
ArtifactInv ==
    /\ edits \in Nat
    /\ IsFunction(artifact.files) /\ IsFiniteSet(DOMAIN artifact.files)
    /\ artifact.stamps \in [DOMAIN artifact.files -> 0..edits]
    /\ artifact.dir \in 0..edits

RunFields == {"pc", "tasks", "kind", "index", "contract", "todo", "first", "second", "copied",
              "moment", "prepared", "base", "weights", "sft", "written", "accepted"}

Composed == {"scan", "scanning", "recheck", "copying", "rescan", "rescanning", "write", "validate"}
Evaluation == {"bind", "iterate", "base", "load", "sft", "publish", "rename", "done"}

\* Which command is where, and what it has kept of its inputs.
FlowInv ==
    /\ scenario \in Scenarios /\ split \in {scenario.split} \cup scenario.splits
    /\ DOMAIN run = RunFields
    /\ run.accepted \in BOOLEAN
    /\ run.accepted => run.pc \in Evaluation \cup {"write", "validated", "failed"}
    /\ run.pc \in Evaluation => scenario.command \in {"paired", "g0"}
    /\ scenario.command = "g0" =>
          run.pc \in Evaluation \cup {"tasks", "compose", "failed"} /\ run.copied = <<>>
    /\ scenario.command # "g0" /\ (run.accepted \/ run.pc \in {"compose"} \cup Composed) =>
          run.kind \in {"peft_adapter", "merged_model"}

\* A scan with identities of files as they were before some edit.
IsScan(scan, edit) ==
    /\ DOMAIN scan = {"dir", "entries"}
    /\ scan.dir \in 0..edit
    /\ scan.entries \in [DOMAIN scan.entries -> 0..edit]

Scanned == {"recheck", "copying", "rescan", "rescanning"}
Copying == {"copying", "rescan", "rescanning"}

\* As long as the directory has the identity the first scan saw, it has the
\* names that scan has seen or has still to visit.
ScanInv ==
    /\ run.pc \in {"scanning", "rescanning", "copying"} => IsList(run.todo)
    /\ run.pc \in {"scanning"} \cup Scanned => IsScan(run.first, edits)
    /\ run.pc = "scanning" /\ artifact.dir = run.first.dir =>
          DOMAIN artifact.files = DOMAIN run.first.entries \cup Range(run.todo)
    /\ run.pc \in Scanned =>
          /\ IndexHolds(run.index)
          /\ DOMAIN run.first.entries = Indexed(run.index) \cup {IndexPath}
          /\ artifact.dir = run.first.dir => DOMAIN artifact.files = DOMAIN run.first.entries

\* A file that still has the identity the first scan saw has the content it had
\* when copying began, and the content that was copied.
Untouched(path) ==
    path \in DOMAIN artifact.files /\ artifact.stamps[path] = run.first.entries[path]

CopyInv ==
    run.pc \in Copying =>
        /\ IsFunction(run.moment) /\ IndexPath \in DOMAIN run.moment
        /\ run.moment[IndexPath] = run.index
        /\ artifact.dir = run.first.dir => DOMAIN run.moment = DOMAIN run.first.entries
        /\ \A path \in DOMAIN run.first.entries :
              Untouched(path) =>
                  /\ path \in DOMAIN run.moment /\ run.moment[path] = artifact.files[path]
                  /\ path \in DOMAIN run.copied => run.copied[path] = artifact.files[path]
        /\ \A path \in DOMAIN run.copied : Recorded(run.index, path) = run.copied[path]
        /\ run.pc = "copying" => DOMAIN run.copied \cup Range(run.todo) = Indexed(run.index)
        /\ run.pc # "copying" =>
              /\ DOMAIN run.copied = Indexed(run.index)
              /\ LayoutHolds(run.copied, run.index.provenance, Context)

\* What the second scan finds as the first saw it was copied as it had been when
\* copying began.
RescanInv ==
    run.pc = "rescanning" =>
        /\ IsScan(run.second, edits)
        /\ run.second.dir = run.first.dir => DOMAIN run.moment = DOMAIN run.first.entries
        /\ \A path \in DOMAIN run.second.entries \cap DOMAIN run.first.entries :
              run.second.entries[path] = run.first.entries[path] =>
                  /\ path \in DOMAIN run.moment
                  /\ path \in DOMAIN run.copied => run.copied[path] = run.moment[path]

\* What an accepted artifact was.
AcceptedInv ==
    run.accepted /\ scenario.command # "g0" =>
        /\ run.moment = Put(IndexPath, run.index, run.copied)
        /\ \A path \in DOMAIN run.copied : Recorded(run.index, path) = run.copied[path]
        /\ LayoutHolds(run.copied, run.index.provenance, Context)

-----------------------------------------------------------------------------
(* The invariants of the result *)

IsTasks(tasks) == IsList(tasks) /\ IsInjective(tasks)

\* From the contract to the two arms that are about to be published.
ArmInv ==
    /\ run.pc \in Composed \cup {"bind"} \cup Evaluation => IsList(run.contract.tasks)
    /\ run.pc \in Evaluation /\ scenario.command = "paired" => IsInjective(run.contract.tasks)
    /\ run.pc \in {"base", "load", "sft", "publish", "rename"} => IsList(run.prepared)
    /\ run.pc \in {"load", "sft", "publish", "rename"} => IsList(run.base)
    /\ run.pc \in {"publish", "rename"} /\ scenario.command = "paired" => IsList(run.sft)
    /\ run.pc = "rename" => GenerationsHold

\* A published comparison is that of the arms that were evaluated.
IsOriginal(d) ==
    LET base == ScoresOf(d.original.base, d.contract.version)
        sft == ScoresOf(d.original.sft, d.contract.version)
    IN  /\ IsList(d.original.base) /\ IsList(d.original.sft)
        /\ TasksOf(d.original.base) = d.contract.tasks
        /\ TasksOf(d.original.sft) = d.contract.tasks
        /\ d.comparison = ComparisonOf(base, sft, d.contract.version)
        /\ d.regressions = RegressionRows(d.comparison.pairs, base, sft)

\* Its lines stay lists whatever edits them.
DestInv ==
    IsPaired(dest) =>
        /\ IsTasks(dest.contract.tasks)
        /\ IsOriginal(dest)
        /\ \A arm \in Arms : /\ arm \in DOMAIN dest /\ "generations" \in DOMAIN dest[arm]
                             /\ IsList(dest[arm].generations)

\* A post-hoc comparison is that of the lines it read, which cover the contract.
IsPost(post, version) ==
    LET base == ScoresOf(post.base, version)
        sft == ScoresOf(post.sft, version)
    IN  /\ IsList(post.base) /\ IsList(post.sft)
        /\ CoversContract(post.base) /\ Comparable(base, sft, version)
        /\ post.comparison = ComparisonOf(base, sft, version)

PostInv ==
    /\ DOMAIN rescorer = {"pc", "version", "base", "sft", "count"}
    /\ rescorer.pc # "idle" => IsPaired(dest)
    /\ rescorer.pc \in {"read", "score"} => IsList(rescorer.base)
    /\ rescorer.pc = "score" => IsList(rescorer.sft)
    /\ DOMAIN posts # {} => IsPaired(dest)
    /\ \A version \in DOMAIN posts : IsPost(posts[version], version)

\* What is at the destination of a pin stays there.
PinInv ==
    /\ run.pc \in {"checkPin", "pinned"} => DOMAIN dest = {"contract"}
    /\ ValidatedPinIsOneManifest

-----------------------------------------------------------------------------
(* Lists *)

LEMMA ListOf ==
  ASSUME NEW S, NEW s \in Seq(S)
  PROVE  IsList(s)
BY SeqOfRange DEF IsList

LEMMA ListFunction ==
  ASSUME NEW n \in Nat, NEW f, f = [k \in 1..n |-> f[k]]
  PROVE  IsList(f) /\ Len(f) = n /\ DOMAIN f = 1..n
<1>1. DOMAIN f = 1..n
  BY Zenon
<1>2. f \in [1..n -> Range(f)]
  BY <1>1 DEF Range
<1> HIDE DEF Range
<1>3. f \in Seq(Range(f))
  BY <1>2
<1> QED
  BY <1>1, <1>3, LenProperties DEF IsList

LEMMA ListProperties ==
  ASSUME NEW s, IsList(s)
  PROVE  /\ Len(s) \in Nat /\ DOMAIN s = 1..Len(s) /\ IsFunction(s)
         /\ Range(s) = {s[k] : k \in 1..Len(s)}
         /\ s = <<>> <=> Len(s) = 0
<1> DEFINE S == Range(s)
<1>1. s \in Seq(S)
  BY DEF IsList
<1>2. Len(s) \in Nat /\ s \in [1..Len(s) -> S] /\ DOMAIN s = 1..Len(s)
  BY <1>1, LenProperties
<1>3. Range(s) = {s[k] : k \in 1..Len(s)}
  BY <1>2 DEF Range
<1> HIDE DEF S
<1>4. s = <<>> <=> Len(s) = 0
  BY <1>1, <1>2, EmptySeq
<1> QED
  BY <1>2, <1>3, <1>4 DEF IsFunction

\* Taking the head off a list loses nothing else.
LEMMA ListTail ==
  ASSUME NEW s, IsList(s), s # <<>>
  PROVE  /\ IsList(Tail(s))
         /\ Range(s) = {Head(s)} \cup Range(Tail(s))
<1> DEFINE S == Range(s)
<1>1. s \in Seq(S) /\ Tail(s) \in Seq(S)
  BY HeadTailProperties DEF IsList
<1>2. Len(s) \in Nat \ {0} /\ Len(Tail(s)) = Len(s) - 1 /\ Head(s) = s[1]
  BY <1>1, HeadTailProperties, EmptySeq
<1>3. \A k \in 1..Len(s) - 1 : Tail(s)[k] = s[k + 1]
  BY <1>1, <1>2, HeadTailProperties
<1>4. Range(s) = {s[k] : k \in 1..Len(s)} /\ Range(Tail(s)) = {Tail(s)[k] : k \in 1..Len(s) - 1}
  BY <1>1, <1>2, RangeEquality
<1> HIDE DEF S
<1>5. ASSUME NEW x \in {s[k] : k \in 1..Len(s)} PROVE x = s[1] \/ x \in {Tail(s)[k] : k \in 1..Len(s) - 1}
  <2>1. PICK k \in 1..Len(s) : x = s[k]
    BY <1>5
  <2>2. CASE k = 1
    BY <2>1, <2>2
  <2>3. CASE k # 1
    <3>1. k - 1 \in 1..Len(s) - 1 /\ (k - 1) + 1 = k
      BY <2>1, <2>3, <1>2
    <3> QED
      BY <3>1, <2>1, <1>3
  <2> QED
    BY <2>2, <2>3
<1>6. ASSUME NEW k \in 1..Len(s) - 1 PROVE Tail(s)[k] \in {s[j] : j \in 1..Len(s)}
  <2>1. k + 1 \in 1..Len(s)
    BY <1>2, <1>6
  <2> QED
    BY <2>1, <1>3, <1>6
<1>7. s[1] \in {s[j] : j \in 1..Len(s)}
  BY <1>2
<1>8. IsList(Tail(s))
  BY <1>1, ListOf
<1> QED
  BY <1>2, <1>4, <1>5, <1>6, <1>7, <1>8

\* SetToSeq visits exactly the members of a finite set.
LEMMA SetToSeqCovers ==
  ASSUME NEW S, IsFiniteSet(S)
  PROVE  IsList(SetToSeq(S)) /\ Range(SetToSeq(S)) = S
<1> DEFINE n == Cardinality(S)
           Numbering == [1..n -> S]
<1>1. n \in Nat /\ ExistsBijection(1..n, S)
  BY FS_CardinalityType
<1>2. PICK b \in Bijection(1..n, S) : TRUE
  BY <1>1 DEF ExistsBijection
<1>3. b \in Numbering /\ IsInjective(b)
  BY <1>2 DEF Bijection, Injection, IsInjective
<1>4. SetToSeq(S) \in Numbering /\ IsInjective(SetToSeq(S))
  BY <1>3 DEF SetToSeq
<1> DEFINE f == SetToSeq(S)
<1> HIDE DEF f
<1>5. f \in Injection(1..n, S)
  BY <1>4 DEF Injection, f
<1>6. Cardinality(1..n) = n /\ IsFiniteSet(1..n)
  BY <1>1, FS_Interval
<1>7. f \in Surjection(1..n, S)
  BY <1>5, <1>6, FS_Injection
<1>8. \A x \in S : \E k \in 1..n : f[k] = x
  BY <1>7 DEF Surjection
<1>9. f \in [1..n -> S] /\ DOMAIN f = 1..n
  BY <1>4 DEF f
<1>10. Range(f) = S
  BY <1>8, <1>9 DEF Range
<1>11. f \in Seq(S)
  BY <1>1, <1>9
<1> QED
  BY <1>10, <1>11, ListOf DEF f

-----------------------------------------------------------------------------
(* The layout of a bundle *)

\* ShardsHold, or the single weights file: every saved tensor is in exactly one
\* weights file, the one a loader is led to.
LEMMA LayoutLoads ==
  ASSUME NEW files, NEW provenance, NEW context,
         LayoutHolds(files, provenance, context), context.kind = "merged_model",
         NEW tensor \in DOMAIN ExpectedMerged(files[MergedConfigPath])
  PROVE  LET found == Holding(files, "merged_model", tensor)
         IN  /\ Cardinality(found) = 1
             /\ found = {path \in DOMAIN files :
                           IsSafetensors(path) /\ tensor \in DOMAIN files[path].tensors}
             /\ Loaded(files, "merged_model", tensor).shape
                  = ExpectedMerged(files[MergedConfigPath])[tensor].shape
<1> DEFINE weights == {path \in DOMAIN files : IsSafetensors(path)}
           holders == {path \in weights : tensor \in DOMAIN files[path].tensors}
           found == Holding(files, "merged_model", tensor)
           schema == SchemaOf(files, weights)
           map == files[MergedWeightsIndexPath]
           opened == Opened(files, "merged_model")
           Owner == CHOOSE path \in weights : tensor \in DOMAIN files[path].tensors
<1>1. /\ MergedFilesHold(DOMAIN files)
      /\ IF MergedWeightsPath \in DOMAIN files THEN weights = {MergedWeightsPath}
         ELSE ShardsHold(files, weights)
      /\ SameSchema(schema, ExpectedMerged(files[MergedConfigPath]), TRUE)
  BY DEF LayoutHolds, MergedHolds
<1>2. /\ DOMAIN schema = TensorsOf(files, weights)
      /\ schema[tensor] = files[Owner].tensors[tensor]
      /\ tensor \in TensorsOf(files, weights)
      /\ schema[tensor].shape = ExpectedMerged(files[MergedConfigPath])[tensor].shape
  <2>1. DOMAIN schema = TensorsOf(files, weights)
    BY DEF SchemaOf
  <2>2. tensor \in DOMAIN schema
    BY <1>1 DEF SameSchema
  <2>3. schema[tensor] = files[Owner].tensors[tensor]
    BY <2>1, <2>2 DEF SchemaOf
  <2> QED
    BY <1>1, <2>1, <2>2, <2>3 DEF SameSchema
<1>3. \E path \in weights : tensor \in DOMAIN files[path].tensors
  BY <1>2 DEF TensorsOf
<1>4. Owner \in weights /\ tensor \in DOMAIN files[Owner].tensors
  BY <1>3
<1> HIDE DEF Owner, schema
<1>5. holders = {Owner}
  <2>1. CASE MergedWeightsPath \in DOMAIN files
    BY <1>1, <1>4, <2>1
  <2>2. CASE MergedWeightsPath \notin DOMAIN files
    <3>1. NoSharedTensor(files, weights)
      BY <1>1, <2>2 DEF ShardsHold
    <3> QED
      BY <1>4, <3>1 DEF NoSharedTensor
  <2> QED
    BY <2>1, <2>2
<1>6. found = holders
  <2>1. CASE MergedWeightsPath \in DOMAIN files
    <3>1. opened = {MergedWeightsPath} /\ opened = weights
      BY <1>1, <2>1 DEF Opened
    <3>2. Cardinality(opened) = 1
      BY <3>1, FS_Singleton
    <3> QED
      BY <3>1, <3>2 DEF Holding
  <2>2. CASE MergedWeightsPath \notin DOMAIN files
    <3>1. opened = weights
      BY <1>1, <2>2 DEF Opened, ShardsHold
    <3>2. /\ DOMAIN map.weights = TensorsOf(files, weights)
          /\ Range(map.weights) = weights
          /\ \A t \in DOMAIN map.weights : t \in DOMAIN files[map.weights[t]].tensors
      BY <1>1, <2>2 DEF ShardsHold
    <3>3. map.weights[tensor] = Owner
      <4>1. map.weights[tensor] \in weights
        BY <1>2, <3>2 DEF Range
      <4> QED
        BY <1>2, <1>5, <3>2, <4>1
    <3>4. CASE Cardinality(opened) = 1
      BY <3>1, <3>4 DEF Holding
    <3>5. CASE Cardinality(opened) # 1
      <4>1. found = {path \in {p \in opened : tensor \in DOMAIN map.weights
                                                /\ map.weights[tensor] = p} :
                        tensor \in DOMAIN files[path].tensors}
        BY <3>5 DEF Holding
      <4> QED
        BY <4>1, <3>1, <3>2, <3>3, <1>2, <1>4, <1>5
    <3> QED
      BY <3>4, <3>5
  <2> QED
    BY <2>1, <2>2
<1>7. Cardinality(found) = 1
  BY <1>5, <1>6, FS_Singleton
<1>8. Loaded(files, "merged_model", tensor) = files[Owner].tensors[tensor]
  BY <1>5, <1>6 DEF Loaded
<1> QED
  BY <1>2, <1>6, <1>7, <1>8

\* AdapterHolds: the adapter's tensors are those of its configuration.
LEMMA AdapterLoads ==
  ASSUME NEW files, NEW provenance, NEW context,
         LayoutHolds(files, provenance, context), context.kind = "peft_adapter"
  PROVE  LET config == files[AdapterConfigPath]
             model == ModelOf(files, "peft_adapter")
         IN  SameSchema(model, config.tensors, FALSE) \/ SameSchema(model, config.embedded, FALSE)
<1> DEFINE config == files[AdapterConfigPath]
           actual == SchemaOf(files, {AdapterWeightsPath})
           model == files[AdapterWeightsPath].tensors
<1>1. SameSchema(actual, ExpectedAdapter(config, actual), FALSE)
  BY DEF LayoutHolds, AdapterHolds
<1>2. DOMAIN actual = DOMAIN model
  BY DEF SchemaOf, TensorsOf
<1>3. \A tensor \in DOMAIN actual : actual[tensor] = model[tensor]
  BY <1>2 DEF SchemaOf, TensorsOf
<1>4. ExpectedAdapter(config, actual) \in {config.tensors, config.embedded}
  BY DEF ExpectedAdapter
<1> HIDE DEF actual
<1>5. SameSchema(model, ExpectedAdapter(config, actual), FALSE)
  BY <1>1, <1>2, <1>3 DEF SameSchema
<1>6. ModelOf(files, "peft_adapter") = model
  BY DEF ModelOf
<1> QED
  BY <1>4, <1>5, <1>6

-----------------------------------------------------------------------------
(* The comparison of two arms *)

Verdicts == {"correct", "incorrect", "invalid"}

LEMMA VerdictType ==
  ASSUME NEW g, NEW version
  PROVE  Verdict(g, version) \in Verdicts
BY DEF Verdict, DoctestVerdict, Verdicts

LEMMA DisjointUnion ==
  ASSUME NEW S, NEW T, IsFiniteSet(S), IsFiniteSet(T), S \cap T = {}
  PROVE  /\ IsFiniteSet(S \cup T)
         /\ Cardinality(S \cup T) = Cardinality(S) + Cardinality(T)
         /\ Cardinality(S) \in Nat /\ Cardinality(T) \in Nat
<1>1. Cardinality(S) \in Nat /\ Cardinality(T) \in Nat
  BY FS_CardinalityType
<1>2. Cardinality(S \cap T) = 0
  BY FS_EmptySet
<1>3. /\ IsFiniteSet(S \cup T)
      /\ Cardinality(S \cup T) = Cardinality(S) + Cardinality(T) - Cardinality(S \cap T)
  BY FS_Union
<1>4. ASSUME NEW a \in Nat, NEW b \in Nat PROVE a + b - 0 = a + b
  OBVIOUS
<1> QED
  BY <1>1, <1>2, <1>3, <1>4, Zenon

\* What compare_arms says of pairs is the difference between them.
LEMMA PairsTell ==
  ASSUME NEW pairs, NEW n \in Nat, Len(pairs) = n,
         \A k \in 1..n : /\ pairs[k].base \in Verdicts /\ pairs[k].sft \in Verdicts
                         /\ pairs[k].outcome = PairOutcome(pairs[k].base, pairs[k].sft),
         NEW c,
         /\ c.tasks = n
         /\ c.improved = Cardinality(Outcomes(pairs, "improved"))
         /\ c.regressed = Cardinality(Outcomes(pairs, "regressed"))
         /\ c.tied = Cardinality(Outcomes(pairs, "tied"))
         /\ c.invalid = Cardinality(Outcomes(pairs, "invalid"))
         /\ c.delta = Delta(pairs) /\ c.conclusion = Conclusion(pairs)
  PROVE  TellsTheDifference(c)
<1> DEFINE Imp == Outcomes(pairs, "improved")
           Reg == Outcomes(pairs, "regressed")
           Tie == Outcomes(pairs, "tied")
           Inv == Outcomes(pairs, "invalid")
           Both == {k \in Tie : pairs[k].base = "correct"}
           Valid == (1..n) \ Inv
           BaseOk == {k \in Valid : pairs[k].base = "correct"}
           SftOk == {k \in Valid : pairs[k].sft = "correct"}
<1>1. \A k \in 1..n : k \in Imp \/ k \in Reg \/ k \in Tie \/ k \in Inv
  BY DEF Outcomes, PairOutcome
<1>2. /\ Imp \cap Reg = {} /\ Imp \cap Tie = {} /\ Imp \cap Inv = {}
      /\ Reg \cap Tie = {} /\ Reg \cap Inv = {} /\ Tie \cap Inv = {}
  BY DEF Outcomes
<1>3. /\ Imp \subseteq 1..n /\ Reg \subseteq 1..n /\ Tie \subseteq 1..n /\ Inv \subseteq 1..n
      /\ Both \subseteq 1..n
  BY DEF Outcomes
<1>4. /\ IsFiniteSet(1..n) /\ Cardinality(1..n) = n
      /\ IsFiniteSet(Imp) /\ IsFiniteSet(Reg) /\ IsFiniteSet(Tie) /\ IsFiniteSet(Inv)
      /\ IsFiniteSet(Both)
  <2>1. IsFiniteSet(1..n) /\ Cardinality(1..n) = n
    BY FS_Interval
  <2> QED
    BY <1>3, <2>1, FS_Subset
<1>5. SftOk = Imp \cup Both
  <2>1. ASSUME NEW k \in 1..n PROVE k \in SftOk <=> k \in Imp \cup Both
    BY <2>1 DEF Outcomes, PairOutcome, Verdicts
  <2> QED
    BY <1>3, <2>1
<1>6. BaseOk = Reg \cup Both
  <2>1. ASSUME NEW k \in 1..n PROVE k \in BaseOk <=> k \in Reg \cup Both
    BY <2>1 DEF Outcomes, PairOutcome, Verdicts
  <2> QED
    BY <1>3, <2>1
<1>7. Imp \cap Both = {} /\ Reg \cap Both = {}
  BY <1>2
<1>8. Valid = (Imp \cup Reg) \cup Tie /\ 1..n = Valid \cup Inv /\ Valid \cap Inv = {}
  BY <1>1, <1>2, <1>3
<1>9. (Imp \cup Reg) \cap Tie = {}
  BY <1>2
<1>10. /\ Delta(pairs) = IF Valid = {} THEN Missing
                         ELSE <<Cardinality(SftOk) - Cardinality(BaseOk), Cardinality(Valid)>>
       /\ Conclusion(pairs) =
             LET seen == {pairs[k].outcome : k \in 1..n} \ {"invalid"}
             IN  CASE {"improved", "regressed"} \subseteq seen -> "mixed"
                   [] "improved" \in seen /\ "regressed" \notin seen -> "improved"
                   [] "regressed" \in seen /\ "improved" \notin seen -> "regressed"
                   [] seen = {"tied"} -> "null"
                   [] seen = {} -> "inconclusive"
  BY DEF Delta, Conclusion
<1> DEFINE seen == {pairs[k].outcome : k \in 1..n} \ {"invalid"}
<1>11. /\ "improved" \in seen <=> Imp # {}
       /\ "regressed" \in seen <=> Reg # {}
       /\ "tied" \in seen <=> Tie # {}
       /\ seen \subseteq {"improved", "regressed", "tied"}
  <2>1. /\ "improved" \in seen <=> Imp # {}
        /\ "regressed" \in seen <=> Reg # {}
        /\ "tied" \in seen <=> Tie # {}
    BY DEF Outcomes
  <2>2. \A k \in 1..n : pairs[k].outcome \in {"improved", "regressed", "tied", "invalid"}
    BY DEF PairOutcome
  <2> QED
    BY <2>1, <2>2
<1>a. c.conclusion = CASE {"improved", "regressed"} \subseteq seen -> "mixed"
                      [] "improved" \in seen /\ "regressed" \notin seen -> "improved"
                      [] "regressed" \in seen /\ "improved" \notin seen -> "regressed"
                      [] seen = {"tied"} -> "null"
                      [] seen = {} -> "inconclusive"
  BY <1>10
<1> HIDE DEF Imp, Reg, Tie, Inv, Both, Valid, BaseOk, SftOk, seen
<1> DEFINE imp == Cardinality(Imp)
           reg == Cardinality(Reg)
           tie == Cardinality(Tie)
           inv == Cardinality(Inv)
           both == Cardinality(Both)
<1>12. /\ imp \in Nat /\ reg \in Nat /\ tie \in Nat /\ inv \in Nat /\ both \in Nat
       /\ imp = 0 <=> Imp = {}
       /\ reg = 0 <=> Reg = {}
       /\ tie = 0 <=> Tie = {}
  BY <1>4, FS_CardinalityType, FS_EmptySet
<1>13. Cardinality(SftOk) = imp + both /\ Cardinality(BaseOk) = reg + both
  BY <1>4, <1>5, <1>6, <1>7, DisjointUnion
<1>14. /\ Cardinality(Valid) = imp + reg + tie /\ IsFiniteSet(Valid)
  <2>1. IsFiniteSet(Imp \cup Reg) /\ Cardinality(Imp \cup Reg) = imp + reg
    BY <1>2, <1>4, DisjointUnion
  <2> DEFINE U == Imp \cup Reg
  <2>2. IsFiniteSet(U) /\ Cardinality(U) = imp + reg /\ U \cap Tie = {} /\ Valid = U \cup Tie
    BY <2>1, <1>8, <1>9
  <2> HIDE DEF U
  <2>3. IsFiniteSet(U \cup Tie) /\ Cardinality(U \cup Tie) = Cardinality(U) + tie
    BY <2>2, <1>4, DisjointUnion
  <2> QED
    BY <2>2, <2>3
<1>15. n = imp + reg + tie + inv
  <2>1. Cardinality(Valid \cup Inv) = Cardinality(Valid) + inv
    BY <1>4, <1>8, <1>14, DisjointUnion
  <2> QED
    BY <2>1, <1>4, <1>8, <1>14, <1>12
<1>16. Valid = {} <=> imp + reg + tie = 0
  BY <1>8, <1>12
<1>17. c.delta = IF imp + reg + tie = 0 THEN Missing ELSE <<imp - reg, imp + reg + tie>>
  <2>1. (imp + both) - (reg + both) = imp - reg
    BY <1>12
  <2>2. Delta(pairs) = IF Valid = {} THEN Missing ELSE <<(imp + both) - (reg + both), imp + reg + tie>>
    BY <1>10, <1>13, <1>14, Zenon
  <2> QED
    BY <1>16, <2>1, <2>2
<1>18. /\ c.conclusion = "improved" => imp > 0 /\ reg = 0
       /\ c.conclusion = "regressed" => reg > 0 /\ imp = 0
       /\ c.conclusion = "null" => imp = 0 /\ reg = 0 /\ tie > 0
       /\ c.conclusion = "mixed" => imp > 0 /\ reg > 0
       /\ (c.conclusion = "inconclusive") = (imp + reg + tie = 0)
  <2> DEFINE C == c.conclusion
  <2>1. /\ Imp # {} /\ Reg # {} => C = "mixed"
        /\ Imp # {} /\ Reg = {} => C = "improved"
        /\ Imp = {} /\ Reg # {} => C = "regressed"
        /\ Imp = {} /\ Reg = {} /\ Tie # {} => C = "null"
        /\ Imp = {} /\ Reg = {} /\ Tie = {} => C = "inconclusive"
    <3>1. CASE Imp # {} /\ Reg # {}
      <4>0. "improved" \in seen /\ "regressed" \in seen
        BY <1>11, <3>1
      <4>1. {"improved", "regressed"} \subseteq seen
        BY <4>0
      <4>2. C = "mixed"
        BY <4>0, <4>1, <1>a
      <4> QED
        BY <3>1, <4>2
    <3>2. CASE Imp # {} /\ Reg = {}
      BY <3>2, <1>a, <1>11
    <3>3. CASE Imp = {} /\ Reg # {}
      BY <3>3, <1>a, <1>11
    <3>4. CASE Imp = {} /\ Reg = {} /\ Tie # {}
      <4>1. seen = {"tied"}
        BY <1>11, <3>4
      <4> QED
        BY <4>1, <3>4, <1>a, <1>11
    <3>5. CASE Imp = {} /\ Reg = {} /\ Tie = {}
      <4>1. seen = {}
        BY <1>11, <3>5
      <4> QED
        BY <4>1, <3>5, <1>a, <1>11
    <3> QED
      BY <3>1, <3>2, <3>3, <3>4, <3>5
  <2> HIDE DEF C
  <2>2. /\ C = "improved" => imp > 0 /\ reg = 0
        /\ C = "regressed" => reg > 0 /\ imp = 0
        /\ C = "null" => imp = 0 /\ reg = 0 /\ tie > 0
        /\ C = "mixed" => imp > 0 /\ reg > 0
        /\ (C = "inconclusive") = (imp + reg + tie = 0)
    BY <2>1, <1>12
  <2> QED
    BY <2>2 DEF C
<1> HIDE DEF imp, reg, tie, inv, both
<1>19. /\ c.improved = imp /\ c.regressed = reg /\ c.tied = tie /\ c.invalid = inv /\ c.tasks = n
  BY DEF imp, reg, tie, inv, Imp, Reg, Tie, Inv
<1>20. /\ n = (imp + reg + tie) + inv
       /\ imp > 0 /\ reg = 0 => (<<imp - reg, imp + reg + tie>>)[1] > 0 /\ imp + reg + tie # 0
       /\ reg > 0 /\ imp = 0 => (<<imp - reg, imp + reg + tie>>)[1] < 0 /\ imp + reg + tie # 0
       /\ imp = 0 /\ reg = 0 /\ tie > 0 =>
             (<<imp - reg, imp + reg + tie>>)[1] = 0 /\ imp + reg + tie # 0
  BY <1>12, <1>15
<1> QED
  BY <1>17, <1>18, <1>19, <1>20 DEF TellsTheDifference

LEMMA ScoresList ==
  ASSUME NEW generations, IsList(generations), NEW version
  PROVE  LET scores == ScoresOf(generations, version)
         IN  /\ Len(scores) = Len(generations) /\ Len(scores) \in Nat
             /\ DOMAIN scores = 1..Len(generations)
             /\ \A k \in 1..Len(generations) :
                   /\ scores[k].task = generations[k].task
                   /\ scores[k].verdict \in Verdicts
<1> DEFINE scores == ScoresOf(generations, version)
           n == Len(generations)
<1>1. n \in Nat
  BY ListProperties
<1>2. scores = [k \in 1..n |-> ScoreOf(generations[k], version)]
  BY DEF ScoresOf
<1> HIDE DEF scores, n
<1>3. Len(scores) = n /\ DOMAIN scores = 1..n
  BY <1>1, <1>2, ListFunction
<1>4. \A k \in 1..n : /\ scores[k].task = generations[k].task
                      /\ scores[k].verdict \in Verdicts
  BY <1>2, VerdictType DEF ScoreOf
<1> QED
  BY <1>1, <1>3, <1>4 DEF scores, n

\* compare_arms over the scores of two lists of as many generations.
LEMMA ComparisonTells ==
  ASSUME NEW base, IsList(base), NEW sft, IsList(sft), Len(sft) = Len(base), NEW version,
         NEW c, c = ComparisonOf(ScoresOf(base, version), ScoresOf(sft, version), version)
  PROVE  /\ TellsTheDifference(c)
         /\ Len(c.pairs) = Len(base) /\ Len(base) \in Nat
         /\ \A k \in 1..Len(base) :
               /\ c.pairs[k].task = base[k].task
               /\ c.pairs[k].outcome = "regressed" <=>
                     c.pairs[k].base = "correct" /\ c.pairs[k].sft = "incorrect"
<1> DEFINE b == ScoresOf(base, version)
           s == ScoresOf(sft, version)
           n == Len(base)
           pairs == PairsOf(b, s)
<1>1. /\ Len(b) = n /\ n \in Nat
      /\ \A k \in 1..n : /\ b[k].task = base[k].task
                         /\ b[k].verdict \in Verdicts /\ s[k].verdict \in Verdicts
  BY ScoresList
<1>a. c = ComparisonOf(b, s, version)
  BY DEF b, s
<1> HIDE DEF b, s, n
<1>2. pairs = [k \in 1..n |->
                 [task |-> b[k].task, base |-> b[k].verdict, sft |-> s[k].verdict,
                  outcome |-> PairOutcome(b[k].verdict, s[k].verdict)]]
  BY <1>1 DEF PairsOf
<1>3. Len(pairs) = n
  <2> HIDE DEF pairs
  <2> QED
    BY <1>1, <1>2, ListFunction
<1>4. /\ c.pairs = pairs /\ c.tasks = Len(pairs)
      /\ c.improved = Cardinality(Outcomes(pairs, "improved"))
      /\ c.regressed = Cardinality(Outcomes(pairs, "regressed"))
      /\ c.tied = Cardinality(Outcomes(pairs, "tied"))
      /\ c.invalid = Cardinality(Outcomes(pairs, "invalid"))
      /\ c.delta = Delta(pairs) /\ c.conclusion = Conclusion(pairs)
  BY <1>a DEF ComparisonOf
<1> HIDE DEF pairs
<1>5. \A k \in 1..n : /\ pairs[k].task = base[k].task
                      /\ pairs[k].base \in Verdicts /\ pairs[k].sft \in Verdicts
                      /\ pairs[k].outcome = PairOutcome(pairs[k].base, pairs[k].sft)
  BY <1>1, <1>2
<1>6. TellsTheDifference(c)
  BY <1>1, <1>3, <1>4, <1>5, PairsTell
<1>7. \A k \in 1..n : pairs[k].outcome = "regressed" <=>
                         pairs[k].base = "correct" /\ pairs[k].sft = "incorrect"
  BY <1>5 DEF PairOutcome, Verdicts
<1> QED
  BY <1>1, <1>3, <1>4, <1>5, <1>6, <1>7 DEF n

\* Two lists of the same tasks are as long as each other.
LEMMA SameTasks ==
  ASSUME NEW left, IsList(left), NEW right, IsList(right), TasksOf(left) = TasksOf(right)
  PROVE  Len(left) = Len(right)
<1>1. Len(left) \in Nat /\ Len(right) \in Nat
  BY ListProperties
<1>2. DOMAIN TasksOf(left) = 1..Len(left) /\ DOMAIN TasksOf(right) = 1..Len(right)
  BY DEF TasksOf
<1>3. Len(TasksOf(left)) = Len(left) /\ Len(TasksOf(right)) = Len(right)
  BY <1>1, <1>2, ListFunction DEF TasksOf
<1> QED
  BY <1>3

\* A list with as many occurrences of every task as the contract has of them
\* has the contract's tasks, each once (_require_contract_tasks).
LEMMA CoverCounts ==
  ASSUME NEW generations, IsList(generations), IsTasks(dest.contract.tasks),
         CoversContract(generations)
  PROVE  /\ Len(generations) = Len(dest.contract.tasks)
         /\ {generations[k].task : k \in 1..Len(generations)} = ToSet(dest.contract.tasks)
<1> DEFINE tasks == dest.contract.tasks
           n == Len(generations)
           m == Len(tasks)
           G(task) == {k \in 1..n : generations[k].task = task}
           T(task) == {k \in 1..m : tasks[k] = task}
<1>1. n \in Nat /\ m \in Nat /\ DOMAIN tasks = 1..m
  BY ListProperties DEF IsTasks
<1>2. /\ \A i \in 1..n : Cardinality(G(generations[i].task)) = Cardinality(T(generations[i].task))
      /\ \A j \in 1..m : Cardinality(G(tasks[j])) = Cardinality(T(tasks[j]))
  <2>1. \A i \in 1..n : generations[i].task \in ToSet(TasksOf(generations))
    BY DEF ToSet, TasksOf
  <2>2. \A j \in 1..m : tasks[j] \in ToSet(tasks)
    BY <1>1 DEF ToSet
  <2> QED
    BY <2>1, <2>2 DEF CoversContract
<1>3. \A task : IsFiniteSet(G(task)) /\ IsFiniteSet(T(task))
  <2> HIDE DEF n, m
  <2>1. IsFiniteSet(1..n) /\ IsFiniteSet(1..m)
    BY <1>1, FS_Interval
  <2>2. \A task : G(task) \subseteq 1..n /\ T(task) \subseteq 1..m
    OBVIOUS
  <2> HIDE DEF G, T
  <2> QED
    BY <2>1, <2>2, FS_Subset
<1>4. \A j, k \in 1..m : tasks[j] = tasks[k] => j = k
  BY <1>1 DEF IsTasks, IsInjective
<1>5. ToSet(tasks) = {tasks[j] : j \in 1..m}
  BY <1>1 DEF ToSet
<1> HIDE DEF tasks, n, m
<1>6. ASSUME NEW j \in 1..m PROVE \E k : G(tasks[j]) = {k}
  <2>1. T(tasks[j]) = {j}
    BY <1>4, <1>6
  <2>2. Cardinality(G(tasks[j])) = 1
    BY <1>2, <1>6, <2>1, FS_Singleton
  <2> QED
    BY <1>3, <2>2, FS_Singleton
<1>7. ASSUME NEW i \in 1..n PROVE \E j \in 1..m : tasks[j] = generations[i].task
  <2>1. G(generations[i].task) # {}
    BY <1>7
  <2>2. T(generations[i].task) # {}
    BY <1>2, <1>3, <1>7, <2>1, FS_EmptySet, ZenonT(30)
  <2> QED
    BY <2>2
<1> DEFINE f == [j \in 1..m |-> CHOOSE k : G(tasks[j]) = {k}]
<1>8. \A j \in 1..m : G(tasks[j]) = {f[j]} /\ f[j] \in 1..n /\ generations[f[j]].task = tasks[j]
  <2>1. \A j \in 1..m : G(tasks[j]) = {f[j]}
    BY <1>6
  <2> HIDE DEF f
  <2> QED
    BY <2>1
<1>9. f \in Bijection(1..m, 1..n)
  <2>1. f \in [1..m -> 1..n]
    BY <1>8
  <2> HIDE DEF f
  <2>2. \A j, k \in 1..m : f[j] = f[k] => j = k
    BY <1>4, <1>8
  <2>3. \A i \in 1..n : \E j \in 1..m : f[j] = i
    <3> TAKE i \in 1..n
    <3>1. PICK j \in 1..m : tasks[j] = generations[i].task
      BY <1>7
    <3>2. i \in G(tasks[j])
      BY <3>1
    <3> QED
      BY <1>8, <3>1, <3>2
  <2>4. f \in Injection(1..m, 1..n)
    BY <2>1, <2>2 DEF Injection, IsInjective
  <2>5. f \in Surjection(1..m, 1..n)
    BY <2>1, <2>3 DEF Surjection
  <2> QED
    BY <2>4, <2>5 DEF Bijection
<1>10. n = m
  <2>1. ExistsBijection(1..m, 1..n)
    BY <1>9 DEF ExistsBijection
  <2>2. Cardinality(1..n) = n /\ Cardinality(1..m) = m /\ IsFiniteSet(1..m)
    BY <1>1, FS_Interval
  <2> QED
    BY <2>1, <2>2, FS_Bijection
<1>11. {generations[k].task : k \in 1..n} = {tasks[j] : j \in 1..m}
  <2> HIDE DEF f
  <2> QED
    BY <1>7, <1>8
<1> QED
  BY <1>5, <1>10, <1>11 DEF tasks, n, m

-----------------------------------------------------------------------------
(* The live artifact *)

LEMMA ArtifactInit == Init => ArtifactInv
<1> SUFFICES ASSUME Init PROVE ArtifactInv
  OBVIOUS
<1>1. /\ edits = 0 /\ artifact.files = scenario.files /\ artifact.dir = 0
      /\ artifact.stamps = [path \in DOMAIN scenario.files |-> 0]
  BY DEF Init
<1>2. IsFiniteSet(DOMAIN scenario.files)
      /\ scenario.files = [path \in DOMAIN scenario.files |-> scenario.files[path]]
  BY ScenariosAreTyped DEF Init
<1>3. artifact.stamps \in [DOMAIN artifact.files -> 0..edits] /\ artifact.dir \in 0..edits
  BY <1>1
<1> QED
  BY <1>1, <1>2, <1>3 DEF ArtifactInv, IsFunction

\* The only step that changes the artifact, taken apart.
EditStep(path) ==
    \/ /\ path \in DOMAIN artifact.files
       /\ artifact'.files = Restrict(artifact.files, DOMAIN artifact.files \ {path})
       /\ artifact'.stamps = Restrict(artifact.stamps, DOMAIN artifact.files \ {path})
       /\ artifact'.dir = edits + 1
    \/ /\ \E content : artifact'.files = Put(path, content, artifact.files)
       /\ artifact'.stamps = Put(path, edits + 1, artifact.stamps)
       /\ artifact'.dir = IF path \notin DOMAIN artifact.files THEN edits + 1 ELSE artifact.dir

LEMMA EditSteps ==
  ASSUME EditArtifact
  PROVE  edits' = edits + 1 /\ \E path : EditStep(path)
<1>1. PICK edit \in scenario.edits :
          IF edit[2] = Removed
          THEN /\ edit[1] \in DOMAIN artifact.files
               /\ artifact' = [files |-> Restrict(artifact.files, DOMAIN artifact.files \ {edit[1]}),
                               stamps |-> Restrict(artifact.stamps, DOMAIN artifact.files \ {edit[1]}),
                               dir |-> edits + 1]
          ELSE artifact' = [files |-> Put(edit[1], edit[2], artifact.files),
                            stamps |-> Put(edit[1], edits + 1, artifact.stamps),
                            dir |-> IF edit[1] \notin DOMAIN artifact.files THEN edits + 1
                                    ELSE artifact.dir]
  BY DEF EditArtifact
<1>2. EditStep(edit[1])
  <2>1. CASE edit[2] = Removed
    BY <1>1, <2>1 DEF EditStep
  <2>2. CASE edit[2] # Removed
    BY <1>1, <2>2 DEF EditStep
  <2> QED
    BY <2>1, <2>2
<1> QED
  BY <1>2 DEF EditArtifact

\* What is still there under an identity that an edit cannot give was not edited.
LEMMA EditFrame ==
  ASSUME ArtifactInv, edits' = edits + 1, NEW path, EditStep(path)
  PROVE  /\ ArtifactInv'
         /\ artifact'.dir = edits + 1 \/ (/\ artifact'.dir = artifact.dir
                                          /\ DOMAIN artifact'.files = DOMAIN artifact.files)
         /\ \A p \in DOMAIN artifact'.files :
               \/ artifact'.stamps[p] = edits + 1
               \/ /\ p \in DOMAIN artifact.files
                  /\ artifact'.stamps[p] = artifact.stamps[p]
                  /\ artifact'.files[p] = artifact.files[p]
<1> DEFINE files == artifact.files
           stamps == artifact.stamps
<1>0. /\ edits \in Nat /\ IsFiniteSet(DOMAIN files) /\ stamps \in [DOMAIN files -> 0..edits]
      /\ artifact.dir \in 0..edits /\ DOMAIN stamps = DOMAIN files
  BY DEF ArtifactInv
<1>1. CASE /\ path \in DOMAIN files
           /\ artifact'.files = Restrict(files, DOMAIN files \ {path})
           /\ artifact'.stamps = Restrict(stamps, DOMAIN files \ {path})
           /\ artifact'.dir = edits + 1
  <2>1. /\ DOMAIN artifact'.files = DOMAIN files \ {path}
        /\ DOMAIN artifact'.stamps = DOMAIN files \ {path}
        /\ artifact'.files = [p \in DOMAIN artifact'.files |-> artifact'.files[p]]
        /\ artifact'.stamps = [p \in DOMAIN artifact'.files |-> artifact'.stamps[p]]
        /\ \A p \in DOMAIN files \ {path} : /\ artifact'.files[p] = files[p]
                                            /\ artifact'.stamps[p] = stamps[p]
    BY <1>1 DEF Restrict
  <2>2. IsFiniteSet(DOMAIN artifact'.files)
    BY <1>0, <2>1, FS_Subset
  <2>3. \A p \in DOMAIN artifact'.files : artifact'.stamps[p] \in 0..edits'
    BY <1>0, <2>1
  <2>4. artifact'.stamps \in [DOMAIN artifact'.files -> 0..edits']
    BY <2>1, <2>3
  <2>5. artifact'.dir \in 0..edits' /\ edits' \in Nat
    BY <1>0, <1>1
  <2> QED
    BY <1>0, <1>1, <2>1, <2>2, <2>4, <2>5 DEF ArtifactInv, IsFunction
<1>2. CASE /\ \E content : artifact'.files = Put(path, content, files)
           /\ artifact'.stamps = Put(path, edits + 1, stamps)
           /\ artifact'.dir = IF path \notin DOMAIN files THEN edits + 1 ELSE artifact.dir
  <2>1. /\ DOMAIN artifact'.files = {path} \cup DOMAIN files
        /\ DOMAIN artifact'.stamps = {path} \cup DOMAIN files
        /\ artifact'.files = [p \in DOMAIN artifact'.files |-> artifact'.files[p]]
        /\ artifact'.stamps = [p \in DOMAIN artifact'.files |-> artifact'.stamps[p]]
        /\ artifact'.stamps[path] = edits + 1
        /\ \A p \in DOMAIN files \ {path} : /\ artifact'.files[p] = files[p]
                                            /\ artifact'.stamps[p] = stamps[p]
    BY <1>0, <1>2 DEF Put
  <2>2. IsFiniteSet(DOMAIN artifact'.files)
    BY <1>0, <2>1, FS_AddElement
  <2>3. \A p \in DOMAIN artifact'.files : artifact'.stamps[p] \in 0..edits'
    BY <1>0, <2>1
  <2>4. artifact'.stamps \in [DOMAIN artifact'.files -> 0..edits']
    BY <2>1, <2>3
  <2>5. /\ artifact'.dir \in 0..edits' /\ edits' \in Nat
        /\ artifact'.dir = edits + 1 \/ (artifact'.dir = artifact.dir /\ path \in DOMAIN files)
    BY <1>0, <1>2
  <2> QED
    BY <1>0, <2>1, <2>2, <2>4, <2>5 DEF ArtifactInv, IsFunction
<1> QED
  BY <1>1, <1>2 DEF EditStep

\* Everything else leaves the artifact alone.
LEMMA ArtifactKept ==
  ASSUME Next, ~EditArtifact
  PROVE  artifact' = artifact /\ (edits' = edits \/ edits' = edits + 1)
<1>1. CASE Snapshotting
  BY <1>1 DEF Snapshotting, Scan, ScanEntry, ReadIndex, RecheckIndex, CopyFile, CheckLayout, others, unscored, quiet
<1>2. CASE Contracting
  BY <1>2 DEF Contracting, ReadTasks, PinIndex, ComposePaired, ComposeBaseOnly, Conclude, WriteContract, ValidateContract, PinSplits, PinDigest, CheckPin, others, unscored, quiet
<1>3. CASE Evaluating
  BY <1>3 DEF Evaluating, Bind, Iterate, GenerateBase, LoadSft, GenerateSft, Stage, Rename, others, unscored, quiet
<1>4. CASE Rescoring
  BY <1>4 DEF Rescoring, ReadGenerations, ReadSecond, Rescore, others, unscored, quiet
<1>5. CASE Editing
  BY <1>5 DEF Editing, ReplaceSplit, TakeDestination, EditBundle, others, unscored, quiet
<1> QED
  BY <1>1, <1>2, <1>3, <1>4, <1>5 DEF Next

LEMMA ArtifactStep ==
  ASSUME ArtifactInv, [Next]_vars
  PROVE  ArtifactInv'
<1>1. CASE EditArtifact
  BY <1>1, EditSteps, EditFrame
<1>2. CASE Next /\ ~EditArtifact
  <2>1. artifact' = artifact /\ (edits' = edits \/ edits' = edits + 1)
    BY <1>2, ArtifactKept
  <2>2. edits \in Nat /\ edits' \in Nat /\ 0..edits \subseteq 0..edits'
    BY <2>1 DEF ArtifactInv
  <2>3. [DOMAIN artifact.files -> 0..edits] \subseteq [DOMAIN artifact.files -> 0..edits']
    BY <2>2
  <2> QED
    BY <2>1, <2>2, <2>3 DEF ArtifactInv
<1>3. CASE UNCHANGED vars
  BY <1>3 DEF vars, ArtifactInv, IsFunction
<1> QED
  BY <1>1, <1>2, <1>3

-----------------------------------------------------------------------------
(* Which command is where *)

LEMMA FlowInit == Init => FlowInv
<1> SUFFICES ASSUME Init PROVE FlowInv
  OBVIOUS
<1>1. /\ scenario \in Scenarios /\ split = scenario.split /\ run = NewRun
  BY DEF Init
<1>2. /\ DOMAIN run = RunFields /\ run.accepted = FALSE /\ run.copied = <<>>
      /\ run.pc = IF scenario.command = "pin" THEN "pin" ELSE "tasks"
  BY <1>1 DEF NewRun, RunFields
<1> QED
  BY <1>1, <1>2 DEF FlowInv, Evaluation, Composed

LEMMA FlowStep ==
  ASSUME FlowInv, [Next]_vars
  PROVE  FlowInv'
<1> DEFINE FlowRun ==
             /\ DOMAIN run' = RunFields /\ run'.accepted \in BOOLEAN
             /\ run'.accepted => run'.pc \in Evaluation \cup {"write", "validated", "failed"}
             /\ run'.pc \in Evaluation => scenario.command \in {"paired", "g0"}
             /\ scenario.command = "g0" =>
                   run'.pc \in Evaluation \cup {"tasks", "compose", "failed"} /\ run'.copied = <<>>
             /\ scenario.command # "g0" /\ (run'.accepted \/ run'.pc \in {"compose"} \cup Composed) =>
                   run'.kind \in {"peft_adapter", "merged_model"}
       Steady ==
             /\ DOMAIN run' = RunFields /\ run'.accepted = run.accepted
             /\ run'.copied = run.copied /\ run'.kind = run.kind
<1>0. ASSUME UNCHANGED <<scenario, split>>, FlowRun PROVE FlowInv'
  BY <1>0 DEF FlowInv
<1>a. FlowInv
  OBVIOUS
<1>b. ASSUME Fails PROVE Steady /\ run'.pc = "failed"
  BY <1>a, <1>b DEF Fails, FlowInv, RunFields
<1>1. CASE Snapshotting
  <2>1. CASE Scan
    <3>1. /\ Steady
          /\ run'.pc \in {"scanning", "rescanning"}
      BY <2>1, <1>a DEF Scan, Fails, FlowInv, RunFields
    <3>2. run.pc \in {"scan", "rescan"}
      BY <2>1 DEF Scan
    <3>3. FlowRun
      BY <3>1, <3>2, <1>a DEF FlowInv, Evaluation, Composed
    <3> QED
      BY <3>3, <2>1, <1>0 DEF Scan, others
  <2>2. CASE ScanEntry
    <3>1. /\ Steady
          /\ run'.pc \in {run.pc, "failed"}
      BY <2>2, <1>a DEF ScanEntry, Fails, FlowInv, RunFields
    <3>2. run.pc \in {"scanning", "rescanning"}
      BY <2>2 DEF ScanEntry
    <3>3. FlowRun
      BY <3>1, <3>2, <1>a DEF FlowInv, Evaluation, Composed
    <3> QED
      BY <3>3, <2>2, <1>0 DEF ScanEntry, others
  <2>3. CASE ReadIndex
    <3>1. /\ Steady
          /\ run'.pc \in {"recheck", "failed"}
      BY <2>3, <1>a DEF ReadIndex, Fails, FlowInv, RunFields
    <3>2. run.pc = "scanning"
      BY <2>3 DEF ReadIndex
    <3>3. FlowRun
      BY <3>1, <3>2, <1>a DEF FlowInv, Evaluation, Composed
    <3> QED
      BY <3>3, <2>3, <1>0 DEF ReadIndex, others
  <2>4. CASE RecheckIndex
    <3>1. /\ DOMAIN run' = RunFields /\ run'.accepted = run.accepted /\ run'.kind = run.kind
          /\ run'.copied \in {run.copied, <<>>} /\ run'.pc \in {"copying", "failed"}
      BY <2>4, <1>a DEF RecheckIndex, Fails, FlowInv, RunFields
    <3>2. run.pc = "recheck"
      BY <2>4 DEF RecheckIndex
    <3>3. FlowRun
      BY <3>1, <3>2, <1>a DEF FlowInv, Evaluation, Composed
    <3> QED
      BY <3>3, <2>4, <1>0 DEF RecheckIndex, others
  <2>5. CASE CopyFile
    <3>1. /\ DOMAIN run' = RunFields /\ run'.accepted = run.accepted /\ run'.kind = run.kind
          /\ run'.pc \in {"copying", "failed"}
      BY <2>5, <1>a DEF CopyFile, Fails, FlowInv, RunFields
    <3>2. run.pc = "copying"
      BY <2>5 DEF CopyFile
    <3>3. FlowRun
      BY <3>1, <3>2, <1>a DEF FlowInv, Evaluation, Composed
    <3> QED
      BY <3>3, <2>5, <1>0 DEF CopyFile, others
  <2>6. CASE CheckLayout
    <3>1. /\ Steady
          /\ run'.pc \in {"rescan", "failed"}
      BY <2>6, <1>a DEF CheckLayout, Fails, FlowInv, RunFields
    <3>2. run.pc = "copying"
      BY <2>6 DEF CheckLayout
    <3>3. FlowRun
      BY <3>1, <3>2, <1>a DEF FlowInv, Evaluation, Composed
    <3> QED
      BY <3>3, <2>6, <1>0 DEF CheckLayout, others
  <2> QED
    BY <1>1, <2>1, <2>2, <2>3, <2>4, <2>5, <2>6 DEF Snapshotting
<1>2. CASE Contracting
  <2>1. CASE ReadTasks
    <3>1. /\ Steady
          /\ run'.pc \in {"failed", IF scenario.command = "g0" THEN "compose" ELSE "index"}
      BY <2>1, <1>a DEF ReadTasks, Fails, FlowInv, RunFields
    <3>2. run.pc = "tasks"
      BY <2>1 DEF ReadTasks
    <3>3. FlowRun
      BY <3>1, <3>2, <1>a DEF FlowInv, Evaluation, Composed
    <3> QED
      BY <3>3, <2>1, <1>0 DEF ReadTasks, others
  <2>2. CASE PinIndex
    <3>0. KindOf(artifact.files) \in {"peft_adapter", "merged_model", None}
      BY DEF KindOf
    <3>1. /\ DOMAIN run' = RunFields
          /\ \/ run'.pc = "failed" /\ run'.kind = run.kind
             \/ /\ run'.pc = "compose" /\ run'.kind \in {"peft_adapter", "merged_model"}
          /\ run'.accepted = run.accepted /\ run'.copied = run.copied
      BY <2>2, <1>a, <3>0 DEF PinIndex, Fails, FlowInv, RunFields
    <3>2. run.pc = "index"
      BY <2>2 DEF PinIndex
    <3>3. FlowRun
      BY <3>1, <3>2, <1>a DEF FlowInv, Evaluation, Composed
    <3> QED
      BY <3>3, <2>2, <1>0 DEF PinIndex, others
  <2>3. CASE ComposePaired
    <3>1. /\ Steady
          /\ run'.pc \in {"scan", "failed"}
      BY <2>3, <1>a DEF ComposePaired, Fails, FlowInv, RunFields
    <3>2. run.pc = "compose" /\ scenario.command # "g0"
      BY <2>3 DEF ComposePaired
    <3>3. FlowRun
      BY <3>1, <3>2, <1>a DEF FlowInv, Evaluation, Composed
    <3> QED
      BY <3>3, <2>3, <1>0 DEF ComposePaired, others
  <2>4. CASE ComposeBaseOnly
    <3>1. /\ DOMAIN run' = RunFields /\ run'.copied = run.copied /\ run'.kind = run.kind
          /\ \/ run'.accepted = run.accepted /\ run'.pc = "failed"
             \/ run'.accepted = TRUE /\ run'.pc = "bind"
      <4>1. CASE Fails
        BY <4>1, <1>b
      <4>2. CASE run' = [run EXCEPT !.contract = ContractOf(split), !.accepted = TRUE, !.pc = "bind"]
        BY <4>2, <1>a DEF FlowInv, RunFields
      <4> QED
        BY <2>4, <4>1, <4>2 DEF ComposeBaseOnly
    <3>2. run.pc = "compose" /\ scenario.command = "g0"
      BY <2>4 DEF ComposeBaseOnly
    <3>3. FlowRun
      BY <3>1, <3>2, <1>a DEF FlowInv, Evaluation, Composed
    <3> QED
      BY <3>3, <2>4, <1>0 DEF ComposeBaseOnly, others
  <2>5. CASE Conclude
    <3>1. /\ DOMAIN run' = RunFields /\ run'.copied = run.copied /\ run'.kind = run.kind
          /\ \/ run'.accepted = run.accepted /\ run'.pc = "failed"
             \/ run'.accepted = TRUE /\ run'.pc \in {"validated", "write"}
             \/ scenario.command = "paired" /\ run'.accepted = TRUE /\ run'.pc = "bind"
      <4> DEFINE next == CASE scenario.command = "paired" -> "bind"
                           [] run.written -> "validated"
                           [] OTHER -> "write"
      <4>1. CASE Fails
        BY <4>1, <1>b
      <4>2. ASSUME run' = [run EXCEPT !.accepted = TRUE, !.pc = next]
            PROVE  /\ DOMAIN run' = RunFields /\ run'.copied = run.copied /\ run'.kind = run.kind
                   /\ run'.accepted = TRUE /\ run'.pc = next
        BY <4>2, <1>a DEF FlowInv, RunFields
      <4> QED
        BY <2>5, <4>1, <4>2 DEF Conclude
    <3>2. run.pc = "rescanning"
      BY <2>5 DEF Conclude
    <3>3. FlowRun
      BY <3>1, <3>2, <1>a DEF FlowInv, Evaluation, Composed
    <3> QED
      BY <3>3, <2>5, <1>0 DEF Conclude, others
  <2>6. CASE WriteContract
    <3>1. /\ DOMAIN run' = RunFields /\ run'.copied = run.copied /\ run'.kind = run.kind
          /\ \/ run'.accepted = run.accepted /\ run'.pc = "failed"
             \/ run'.accepted = FALSE /\ run'.pc = "validate"
      <4>1. CASE Fails
        BY <4>1, <1>b
      <4>2. CASE run' = [run EXCEPT !.pc = "validate", !.written = TRUE, !.accepted = FALSE]
        BY <4>2, <1>a DEF FlowInv, RunFields
      <4> QED
        BY <2>6, <4>1, <4>2 DEF WriteContract
    <3>2. run.pc = "write"
      BY <2>6 DEF WriteContract
    <3>3. FlowRun
      BY <3>1, <3>2, <1>a DEF FlowInv, Evaluation, Composed
    <3> QED
      BY <3>3, <2>6, <1>0 DEF WriteContract, others
  <2>7. CASE ValidateContract
    <3>1. /\ Steady
          /\ run'.pc \in {"scan", "failed"}
      BY <2>7, <1>a DEF ValidateContract, Fails, FlowInv, RunFields
    <3>2. run.pc = "validate"
      BY <2>7 DEF ValidateContract
    <3>3. FlowRun
      BY <3>1, <3>2, <1>a DEF FlowInv, Evaluation, Composed
    <3> QED
      BY <3>3, <2>7, <1>0 DEF ValidateContract, others
  <2>8. CASE PinSplits
    <3>1. /\ Steady
          /\ run'.pc \in {"pinDigest", "failed"}
      BY <2>8, <1>a DEF PinSplits, Fails, FlowInv, RunFields
    <3>2. run.pc = "pin"
      BY <2>8 DEF PinSplits
    <3>3. FlowRun
      BY <3>1, <3>2, <1>a DEF FlowInv, Evaluation, Composed
    <3> QED
      BY <3>3, <2>8, <1>0 DEF PinSplits, others
  <2>9. CASE PinDigest
    <3>1. /\ Steady
          /\ run'.pc \in {"checkPin", "failed"}
      BY <2>9, <1>a DEF PinDigest, Fails, FlowInv, RunFields
    <3>2. run.pc = "pinDigest"
      BY <2>9 DEF PinDigest
    <3>3. FlowRun
      BY <3>1, <3>2, <1>a DEF FlowInv, Evaluation, Composed
    <3> QED
      BY <3>3, <2>9, <1>0 DEF PinDigest, others
  <2>10. CASE CheckPin
    <3>1. /\ Steady
          /\ run'.pc \in {"pinned", "failed"}
      BY <2>10, <1>a DEF CheckPin, Fails, FlowInv, RunFields
    <3>2. run.pc = "checkPin"
      BY <2>10 DEF CheckPin
    <3>3. FlowRun
      BY <3>1, <3>2, <1>a DEF FlowInv, Evaluation, Composed
    <3> QED
      BY <3>3, <2>10, <1>0 DEF CheckPin, others
  <2> QED
    BY <1>2, <2>1, <2>2, <2>3, <2>4, <2>5, <2>6, <2>7, <2>8, <2>9, <2>10 DEF Contracting
<1>3. CASE Evaluating
  <2>1. CASE Bind
    <3>1. /\ Steady
          /\ run'.pc \in {"iterate", "failed"}
      BY <2>1, <1>a DEF Bind, Fails, FlowInv, RunFields
    <3>2. run.pc = "bind"
      BY <2>1 DEF Bind
    <3>3. FlowRun
      BY <3>1, <3>2, <1>a DEF FlowInv, Evaluation, Composed
    <3> QED
      BY <3>3, <2>1, <1>0 DEF Bind, others
  <2>2. CASE Iterate
    <3>1. /\ Steady
          /\ run'.pc \in {"base", "failed"}
      BY <2>2, <1>a DEF Iterate, Fails, FlowInv, RunFields
    <3>2. run.pc = "iterate"
      BY <2>2 DEF Iterate
    <3>3. FlowRun
      BY <3>1, <3>2, <1>a DEF FlowInv, Evaluation, Composed
    <3> QED
      BY <3>3, <2>2, <1>0 DEF Iterate, others
  <2>3. CASE GenerateBase
    <3>1. /\ Steady
          /\ run'.pc \in {"publish", "load"}
      BY <2>3, <1>a DEF GenerateBase, Fails, FlowInv, RunFields
    <3>2. run.pc = "base"
      BY <2>3 DEF GenerateBase
    <3>3. FlowRun
      BY <3>1, <3>2, <1>a DEF FlowInv, Evaluation, Composed
    <3> QED
      BY <3>3, <2>3, <1>0 DEF GenerateBase, others
  <2>4. CASE LoadSft
    <3>1. /\ Steady
          /\ run'.pc \in {"sft", "failed"}
      BY <2>4, <1>a DEF LoadSft, Fails, FlowInv, RunFields
    <3>2. run.pc = "load"
      BY <2>4 DEF LoadSft
    <3>3. FlowRun
      BY <3>1, <3>2, <1>a DEF FlowInv, Evaluation, Composed
    <3> QED
      BY <3>3, <2>4, <1>0 DEF LoadSft, others
  <2>5. CASE GenerateSft
    <3>1. /\ Steady
          /\ run'.pc = "publish"
      BY <2>5, <1>a DEF GenerateSft, Fails, FlowInv, RunFields
    <3>2. run.pc = "sft"
      BY <2>5 DEF GenerateSft
    <3>3. FlowRun
      BY <3>1, <3>2, <1>a DEF FlowInv, Evaluation, Composed
    <3> QED
      BY <3>3, <2>5, <1>0 DEF GenerateSft, others
  <2>6. CASE Stage
    <3>1. /\ Steady
          /\ run'.pc \in {"rename", "failed"}
      BY <2>6, <1>a DEF Stage, Fails, FlowInv, RunFields
    <3>2. run.pc = "publish"
      BY <2>6 DEF Stage
    <3>3. FlowRun
      BY <3>1, <3>2, <1>a DEF FlowInv, Evaluation, Composed
    <3> QED
      BY <3>3, <2>6, <1>0 DEF Stage, others
  <2>7. CASE Rename
    <3>1. /\ Steady
          /\ run'.pc \in {"done", "failed"}
      BY <2>7, <1>a DEF Rename, Fails, FlowInv, RunFields
    <3>2. run.pc = "rename"
      BY <2>7 DEF Rename
    <3>3. FlowRun
      BY <3>1, <3>2, <1>a DEF FlowInv, Evaluation, Composed
    <3> QED
      BY <3>3, <2>7, <1>0 DEF Rename, others
  <2> QED
    BY <1>3, <2>1, <2>2, <2>3, <2>4, <2>5, <2>6, <2>7 DEF Evaluating
<1>4. CASE Rescoring \/ EditArtifact \/ TakeDestination \/ EditBundle
  <2>1. UNCHANGED <<scenario, split, run>>
    BY <1>4 DEF Rescoring, ReadGenerations, ReadSecond, Rescore, EditArtifact, TakeDestination,
               EditBundle, quiet, unscored
  <2> QED
    BY <2>1 DEF FlowInv
<1>5. CASE ReplaceSplit
  <2>1. UNCHANGED <<scenario, run>> /\ split' \in scenario.splits
    BY <1>5 DEF ReplaceSplit, quiet
  <2> QED
    BY <2>1 DEF FlowInv
<1>6. CASE UNCHANGED vars
  BY <1>6 DEF vars, FlowInv
<1> QED
  BY <1>1, <1>2, <1>3, <1>4, <1>5, <1>6 DEF Next, Editing

-----------------------------------------------------------------------------
(* The two scans and the copy *)

\* Composing, writing, evaluating and failing are not among the steps of a
\* verification, and only two of them are steps of the pin.
LEMMA Elsewhere ==
  ASSUME FlowInv, Contracting \/ Evaluating
  PROVE  /\ run'.pc \notin {"scanning"} \cup Scanned
         /\ Evaluating \/ (~PinDigest /\ ~CheckPin) => run'.pc \notin {"checkPin", "pinned"}
<1>0. "pc" \in DOMAIN run
  BY DEF FlowInv, RunFields
<1>a. ASSUME Fails PROVE run'.pc = "failed"
  BY <1>0, <1>a DEF Fails
<1>1. CASE Contracting
  <2>1. CASE ReadTasks
    <3>1. run'.pc \in {"failed", "compose", "index"}
      BY <1>0, <1>a, <2>1 DEF ReadTasks
    <3> QED
      BY <3>1 DEF Scanned
  <2>2. CASE PinIndex
    <3>1. run'.pc \in {"failed", "compose"}
      BY <1>0, <1>a, <2>2 DEF PinIndex
    <3> QED
      BY <3>1 DEF Scanned
  <2>3. CASE ComposePaired
    <3>1. run'.pc \in {"failed", "scan"}
      BY <1>0, <1>a, <2>3 DEF ComposePaired
    <3> QED
      BY <3>1 DEF Scanned
  <2>4. CASE ComposeBaseOnly
    <3>1. run'.pc \in {"failed", "bind"}
      <4>1. CASE Fails
        BY <4>1, <1>a
      <4>2. CASE run' = [run EXCEPT !.contract = ContractOf(split), !.accepted = TRUE, !.pc = "bind"]
        BY <4>2, <1>0
      <4> QED
        BY <2>4, <4>1, <4>2 DEF ComposeBaseOnly
    <3> QED
      BY <3>1 DEF Scanned
  <2>5. CASE Conclude
    <3>1. run'.pc \in {"failed", "bind", "validated", "write"}
      <4> DEFINE next == CASE scenario.command = "paired" -> "bind"
                           [] run.written -> "validated"
                           [] OTHER -> "write"
      <4>1. CASE Fails
        BY <4>1, <1>a
      <4>2. CASE run' = [run EXCEPT !.accepted = TRUE, !.pc = next]
        <5>1. run'.pc = next
          BY <4>2, <1>0
        <5> QED
          BY <5>1
      <4> QED
        BY <2>5, <4>1, <4>2 DEF Conclude
    <3> QED
      BY <3>1 DEF Scanned
  <2>6. CASE WriteContract
    <3>1. run'.pc \in {"failed", "validate"}
      <4>1. CASE Fails
        BY <4>1, <1>a
      <4>2. CASE run' = [run EXCEPT !.pc = "validate", !.written = TRUE, !.accepted = FALSE]
        BY <4>2, <1>0
      <4> QED
        BY <2>6, <4>1, <4>2 DEF WriteContract
    <3> QED
      BY <3>1 DEF Scanned
  <2>7. CASE ValidateContract
    <3>1. run'.pc \in {"failed", "scan"}
      BY <1>0, <1>a, <2>7 DEF ValidateContract
    <3> QED
      BY <3>1 DEF Scanned
  <2>8. CASE PinSplits
    <3>1. run'.pc \in {"failed", "pinDigest"}
      BY <1>0, <1>a, <2>8 DEF PinSplits
    <3> QED
      BY <3>1 DEF Scanned
  <2>9. CASE PinDigest
    <3>1. run'.pc \in {"failed", "checkPin"}
      BY <1>0, <1>a, <2>9 DEF PinDigest
    <3> QED
      BY <3>1, <2>9 DEF Scanned, Evaluating, Stage, Rename, Bind, Iterate, GenerateBase, LoadSft,
         GenerateSft, PinDigest
  <2>10. CASE CheckPin
    <3>1. run'.pc \in {"failed", "pinned"}
      BY <1>0, <1>a, <2>10 DEF CheckPin
    <3> QED
      BY <3>1, <2>10 DEF Scanned, Evaluating, Stage, Rename, Bind, Iterate, GenerateBase, LoadSft,
         GenerateSft, CheckPin
  <2> QED
    BY <1>1, <2>1, <2>2, <2>3, <2>4, <2>5, <2>6, <2>7, <2>8, <2>9, <2>10 DEF Contracting
<1>2. CASE Evaluating
  <2>1. CASE Bind
    <3>1. run'.pc \in {"failed", "iterate"}
      <4>1. CASE Fails
        BY <4>1, <1>a
      <4>2. CASE run' = [run EXCEPT !.pc = "iterate"]
        BY <4>2, <1>0
      <4> QED
        BY <2>1, <4>1, <4>2 DEF Bind
    <3> QED
      BY <3>1 DEF Scanned
  <2>2. CASE Iterate
    <3>1. run'.pc \in {"failed", "base"}
      <4>1. CASE Fails
        BY <4>1, <1>a
      <4>2. CASE run' = [run EXCEPT !.pc = "base",
                                         !.prepared = [k \in 1..Len(split.rows) |-> Prepared(split.rows[k])]]
        BY <4>2, <1>0
      <4> QED
        BY <2>2, <4>1, <4>2 DEF Iterate
    <3> QED
      BY <3>1 DEF Scanned
  <2>3. CASE GenerateBase
    <3>1. run'.pc \in {"publish", "load"}
      BY <1>0, <1>a, <2>3 DEF GenerateBase
    <3> QED
      BY <3>1 DEF Scanned
  <2>4. CASE LoadSft
    <3>1. run'.pc \in {"failed", "sft"}
      <4>1. CASE Fails
        BY <4>1, <1>a
      <4>2. CASE run' = [run EXCEPT !.weights = ModelOf(artifact.files, run.kind), !.pc = "sft"]
        BY <4>2, <1>0
      <4> QED
        BY <2>4, <4>1, <4>2 DEF LoadSft
    <3> QED
      BY <3>1 DEF Scanned
  <2>5. CASE GenerateSft
    <3>1. run'.pc \in {"publish"}
      BY <1>0, <1>a, <2>5 DEF GenerateSft
    <3> QED
      BY <3>1 DEF Scanned
  <2>6. CASE Stage
    <3>1. run'.pc \in {"failed", "rename"}
      BY <1>0, <1>a, <2>6 DEF Stage
    <3> QED
      BY <3>1 DEF Scanned
  <2>7. CASE Rename
    <3>1. run'.pc \in {"failed", "done"}
      BY <1>0, <1>a, <2>7 DEF Rename
    <3> QED
      BY <3>1 DEF Scanned
  <2> QED
    BY <1>2, <2>1, <2>2, <2>3, <2>4, <2>5, <2>6, <2>7 DEF Evaluating
<1> QED
  BY <1>1, <1>2

\* The steps of a verification, field by field.
Keeps(fields) == \A field \in RunFields \ fields : run'[field] = run[field]

Failing == run'.pc = "failed" /\ Keeps({"pc"})

ScanEffect ==
    \/ /\ run.pc = "scan" /\ run'.pc = "scanning"
       /\ run'.first = [dir |-> artifact.dir, entries |-> <<>>]
       /\ run'.todo = SetToSeq(DOMAIN artifact.files)
       /\ Keeps({"pc", "first", "todo"})
    \/ /\ run.pc = "rescan" /\ run'.pc = "rescanning"
       /\ run'.second = [dir |-> artifact.dir, entries |-> <<>>]
       /\ run'.todo = SetToSeq(DOMAIN artifact.files)
       /\ Keeps({"pc", "second", "todo"})

\* The scan with the next entry's identity.
Noted(scan, path) == [scan EXCEPT !.entries = Put(path, artifact.stamps[path], @)]

EntryEffect ==
    LET path == Head(run.todo)
    IN  /\ run.todo # <<>> /\ path \in DOMAIN artifact.files
        /\ run'.todo = Tail(run.todo)
        /\ \/ /\ run.pc = "scanning" /\ run'.first = Noted(run.first, path)
              /\ Keeps({"first", "todo"})
           \/ /\ run.pc = "rescanning" /\ run'.second = Noted(run.second, path)
              /\ Keeps({"second", "todo"})

IndexEffect ==
    /\ run.pc = "scanning" /\ run.todo = <<>> /\ run'.pc = "recheck"
    /\ IndexHolds(run.index) /\ CompleteIndex(DOMAIN run.first.entries, run.index)
    /\ Keeps({"pc"})

RecheckEffect ==
    /\ run.pc = "recheck" /\ run'.pc = "copying"
    /\ IndexPath \in DOMAIN artifact.files /\ artifact.files[IndexPath] = run.index
    /\ run'.copied = <<>> /\ run'.moment = artifact.files
    /\ run'.todo = [k \in 1..Len(run.index.entries) |-> run.index.entries[k][1]]
    /\ Keeps({"pc", "copied", "moment", "todo"})

CopyEffect ==
    LET path == Head(run.todo)
    IN  /\ run.pc = "copying" /\ run.todo # <<>> /\ path \in DOMAIN artifact.files
        /\ artifact.files[path] = Recorded(run.index, path)
        /\ run'.copied = Put(path, artifact.files[path], run.copied)
        /\ run'.todo = Tail(run.todo)
        /\ Keeps({"copied", "todo"})

LayoutEffect ==
    /\ run.pc = "copying" /\ run.todo = <<>> /\ run'.pc = "rescan"
    /\ LayoutHolds(run.copied, run.index.provenance, Context)
    /\ Keeps({"pc"})

LEMMA SnapshotEffect ==
  ASSUME FlowInv, Snapshotting
  PROVE  /\ UNCHANGED <<others, dest>>
         /\ \/ Failing \/ ScanEffect \/ EntryEffect \/ IndexEffect \/ RecheckEffect
            \/ CopyEffect \/ LayoutEffect
<1>0. DOMAIN run = RunFields
  BY DEF FlowInv
<1>a. ASSUME Fails PROVE Failing
  BY <1>0, <1>a DEF Fails, Failing, Keeps, RunFields
<1>1. CASE Scan
  <2>1. ScanEffect
    <3> DEFINE scan == [dir |-> artifact.dir, entries |-> <<>>]
               names == SetToSeq(DOMAIN artifact.files)
    <3> HIDE DEF scan, names
    <3>1. CASE run.pc = "scan" /\ run' = [run EXCEPT !.first = scan, !.todo = names, !.pc = "scanning"]
      <4>1. /\ run'.first = scan /\ run'.todo = names /\ run'.pc = "scanning"
            /\ Keeps({"first", "todo", "pc"})
        BY <1>0, <3>1 DEF Keeps, RunFields
      <4> QED
        BY <3>1, <4>1 DEF ScanEffect, scan, names
    <3>2. CASE run.pc = "rescan" /\ run' = [run EXCEPT !.second = scan, !.todo = names, !.pc = "rescanning"]
      <4>1. /\ run'.second = scan /\ run'.todo = names /\ run'.pc = "rescanning"
            /\ Keeps({"second", "todo", "pc"})
        BY <1>0, <3>2 DEF Keeps, RunFields
      <4> QED
        BY <3>2, <4>1 DEF ScanEffect, scan, names
    <3> QED
      BY <1>1, <3>1, <3>2 DEF Scan, scan, names
  <2> QED
    BY <2>1, <1>1 DEF Scan
<1>2. CASE ScanEntry
  <2>1. Failing \/ EntryEffect
    <3>1. CASE Fails
      BY <1>a, <3>1
    <3>2. CASE ~Fails
      <4>1. /\ run.todo # <<>> /\ Head(run.todo) \in DOMAIN artifact.files
            /\ \/ /\ run.pc = "scanning"
                  /\ run' = [run EXCEPT !.first = Noted(run.first, Head(run.todo)),
                                        !.todo = Tail(run.todo)]
               \/ /\ run.pc = "rescanning"
                  /\ run' = [run EXCEPT !.second = Noted(run.second, Head(run.todo)),
                                        !.todo = Tail(run.todo)]
        BY <1>0, <1>2, <3>2 DEF ScanEntry, Noted, RunFields
      <4> QED
        BY <1>0, <4>1 DEF EntryEffect, Keeps, RunFields
    <3> QED
      BY <3>1, <3>2
  <2> QED
    BY <2>1, <1>2 DEF ScanEntry
<1>3. CASE ReadIndex
  <2>1. Failing \/ IndexEffect
    BY <1>0, <1>a, <1>3 DEF ReadIndex, IndexEffect, Keeps, RunFields
  <2> QED
    BY <2>1, <1>3 DEF ReadIndex
<1>4. CASE RecheckIndex
  <2>1. Failing \/ RecheckEffect
    BY <1>0, <1>a, <1>4 DEF RecheckIndex, IndexIsPinned, RecheckEffect, Keeps, RunFields
  <2> QED
    BY <2>1, <1>4 DEF RecheckIndex
<1>5. CASE CopyFile
  <2>1. Failing \/ CopyEffect
    BY <1>0, <1>a, <1>5 DEF CopyFile, CopyEffect, Keeps, RunFields
  <2> QED
    BY <2>1, <1>5 DEF CopyFile
<1>6. CASE CheckLayout
  <2>1. Failing \/ LayoutEffect
    BY <1>0, <1>a, <1>6 DEF CheckLayout, LayoutEffect, Keeps, RunFields
  <2> QED
    BY <2>1, <1>6 DEF CheckLayout
<1> QED
  BY <1>1, <1>2, <1>3, <1>4, <1>5, <1>6 DEF Snapshotting

\* What one more entry adds to a scan.
LEMMA NotedScan ==
  ASSUME ArtifactInv, NEW scan, IsScan(scan, edits), NEW path \in DOMAIN artifact.files
  PROVE  LET noted == Noted(scan, path)
         IN  /\ IsScan(noted, edits) /\ noted.dir = scan.dir
             /\ DOMAIN noted.entries = {path} \cup DOMAIN scan.entries
             /\ noted.entries[path] = artifact.stamps[path]
             /\ \A p \in DOMAIN scan.entries \ {path} : noted.entries[p] = scan.entries[p]
<1> DEFINE entries == Put(path, artifact.stamps[path], scan.entries)
           noted == Noted(scan, path)
<1>1. /\ DOMAIN noted = {"dir", "entries"} /\ noted.dir = scan.dir /\ noted.entries = entries
  BY DEF Noted, IsScan
<1>2. /\ artifact.stamps[path] \in 0..edits
      /\ \A p \in DOMAIN scan.entries : scan.entries[p] \in 0..edits
  BY DEF ArtifactInv, IsScan
<1>3. /\ DOMAIN entries = {path} \cup DOMAIN scan.entries
      /\ entries = [p \in {path} \cup DOMAIN scan.entries |-> entries[p]]
      /\ entries[path] = artifact.stamps[path]
      /\ \A p \in DOMAIN scan.entries \ {path} : entries[p] = scan.entries[p]
  BY DEF Put
<1> HIDE DEF entries, noted
<1>4. entries \in [DOMAIN entries -> 0..edits]
  BY <1>2, <1>3
<1> QED
  BY <1>1, <1>3, <1>4 DEF noted, IsScan

LEMMA FreshScan ==
  ASSUME ArtifactInv
  PROVE  IsScan([dir |-> artifact.dir, entries |-> <<>>], edits)
<1>1. DOMAIN <<>> = {} /\ <<>> \in [{} -> 0..edits]
  OBVIOUS
<1> QED
  BY <1>1 DEF IsScan, ArtifactInv

LEMMA ScanLater ==
  ASSUME NEW scan, NEW n \in Nat, IsScan(scan, n)
  PROVE  IsScan(scan, n + 1)
<1>1. 0..n \subseteq 0..(n + 1)
  OBVIOUS
<1>2. [DOMAIN scan.entries -> 0..n] \subseteq [DOMAIN scan.entries -> 0..(n + 1)]
  BY <1>1
<1> QED
  BY <1>1, <1>2 DEF IsScan

\* An index's entries make a list of the indexed paths.
LEMMA IndexedList ==
  ASSUME NEW index, IndexHolds(index)
  PROVE  LET paths == [k \in 1..Len(index.entries) |-> index.entries[k][1]]
         IN  IsList(paths) /\ Range(paths) = Indexed(index)
<1> DEFINE paths == [k \in 1..Len(index.entries) |-> index.entries[k][1]]
           n == Len(index.entries)
<1>1. n \in Nat
  BY ListProperties DEF IndexHolds, IsList
<1> HIDE DEF n
<1>2. paths = [k \in 1..n |-> paths[k]] /\ \A k \in 1..n : paths[k] = index.entries[k][1]
  BY DEF n
<1> HIDE DEF paths
<1>3. IsList(paths) /\ DOMAIN paths = 1..n
  BY <1>1, <1>2, ListFunction
<1>4. Range(paths) = Indexed(index)
  <2>1. Range(paths) = {paths[k] : k \in 1..n}
    BY <1>3 DEF Range
  <2>2. Indexed(index) = {index.entries[k][1] : k \in 1..n}
    BY DEF Indexed, n
  <2> QED
    BY <1>2, <2>1, <2>2
<1> QED
  BY <1>3, <1>4 DEF paths

LEMMA ScanInit == Init => ScanInv
BY DEF Init, NewRun, ScanInv, Scanned

LEMMA ScanStep ==
  ASSUME ArtifactInv, FlowInv, ScanInv, [Next]_vars
  PROVE  ScanInv'
<1>0. edits \in Nat /\ IsFiniteSet(DOMAIN artifact.files)
  BY DEF ArtifactInv
<1>a. ASSUME run'.pc \notin {"scanning"} \cup Scanned PROVE ScanInv'
  BY <1>a DEF ScanInv, Scanned
<1>b. ASSUME run' = run, edits' \in {edits, edits + 1},
             artifact'.dir \in {artifact.dir, edits + 1},
             artifact'.dir = artifact.dir /\ artifact'.dir # edits + 1 =>
                DOMAIN artifact'.files = DOMAIN artifact.files
      PROVE  ScanInv'
  <2>1. ASSUME run.pc \in {"scanning"} \cup Scanned
        PROVE  IsScan(run.first, edits') /\ (artifact'.dir = run.first.dir =>
                  artifact.dir = run.first.dir /\ DOMAIN artifact'.files = DOMAIN artifact.files)
    <3>1. IsScan(run.first, edits)
      BY <2>1 DEF ScanInv
    <3>2. IsScan(run.first, edits')
      BY <1>0, <1>b, <3>1, ScanLater
    <3>3. run.first.dir # edits + 1
      BY <1>0, <3>1 DEF IsScan
    <3> QED
      BY <1>b, <3>2, <3>3
  <2> QED
    BY <1>b, <2>1 DEF ScanInv
<1>1. CASE Snapshotting
  <2>0. artifact' = artifact /\ edits' = edits
    BY <1>1, SnapshotEffect DEF others
  <2>1. CASE Failing
    BY <2>1, <1>a DEF Failing, Scanned
  <2>2. CASE ScanEffect
    <3>1. IsList(run'.todo) /\ Range(run'.todo) = DOMAIN artifact.files
      BY <1>0, <2>2, SetToSeqCovers DEF ScanEffect
    <3>2. CASE run.pc = "scan"
      <4>1. /\ run'.pc = "scanning"
            /\ run'.first = [dir |-> artifact.dir, entries |-> <<>>]
        BY <2>2, <3>2 DEF ScanEffect
      <4>2. IsScan(run'.first, edits) /\ DOMAIN run'.first.entries = {}
        BY <4>1, FreshScan
      <4> QED
        BY <2>0, <3>1, <4>1, <4>2 DEF ScanInv, Scanned
    <3>3. CASE run.pc # "scan"
      <4>1. /\ run.pc = "rescan" /\ run'.pc = "rescanning"
            /\ run'.first = run.first /\ run'.index = run.index
        BY <2>2, <3>3 DEF ScanEffect, Keeps, RunFields
      <4> QED
        BY <2>0, <3>1, <4>1 DEF ScanInv, Scanned
    <3> QED
      BY <3>2, <3>3
  <2>3. CASE EntryEffect
    <3> DEFINE path == Head(run.todo)
    <3>1. /\ run.pc \in {"scanning", "rescanning"} /\ run.todo # <<>>
          /\ path \in DOMAIN artifact.files /\ run'.todo = Tail(run.todo)
          /\ run'.pc = run.pc /\ run'.index = run.index
      BY <2>3 DEF EntryEffect, Keeps, RunFields
    <3>2. IsList(run'.todo) /\ Range(run.todo) = {path} \cup Range(run'.todo)
      BY <3>1, ListTail DEF ScanInv
    <3>3. CASE run.pc = "scanning"
      <4>1. run'.first = Noted(run.first, path)
        BY <2>3, <3>3 DEF EntryEffect
      <4>2. /\ IsScan(run'.first, edits) /\ run'.first.dir = run.first.dir
            /\ DOMAIN run'.first.entries = {path} \cup DOMAIN run.first.entries
        <5>1. IsScan(run.first, edits)
          BY <3>3 DEF ScanInv
        <5> QED
          BY <3>1, <4>1, <5>1, NotedScan
      <4> QED
        BY <2>0, <3>1, <3>2, <3>3, <4>2 DEF ScanInv, Scanned
    <3>4. CASE run.pc = "rescanning"
      <4>1. run'.first = run.first
        BY <2>3, <3>4 DEF EntryEffect, Keeps, RunFields
      <4> QED
        BY <2>0, <3>1, <3>2, <3>4, <4>1 DEF ScanInv, Scanned
    <3> QED
      BY <3>1, <3>3, <3>4
  <2>4. CASE IndexEffect
    <3>1. /\ run.pc = "scanning" /\ run'.pc = "recheck" /\ run.todo = <<>>
          /\ run'.first = run.first /\ run'.index = run.index
          /\ IndexHolds(run.index) /\ CompleteIndex(DOMAIN run.first.entries, run.index)
      BY <2>4 DEF IndexEffect, Keeps, RunFields
    <3>2. Range(run.todo) = {}
      BY <3>1 DEF Range
    <3> QED
      BY <2>0, <3>1, <3>2 DEF ScanInv, Scanned, CompleteIndex
  <2>5. CASE RecheckEffect
    <3>1. /\ run.pc = "recheck" /\ run'.pc = "copying"
          /\ run'.first = run.first /\ run'.index = run.index
          /\ run'.todo = [k \in 1..Len(run.index.entries) |-> run.index.entries[k][1]]
      BY <2>5 DEF RecheckEffect, Keeps, RunFields
    <3>2. IndexHolds(run.index)
      BY <3>1 DEF ScanInv, Scanned
    <3>3. IsList(run'.todo)
      BY <3>1, <3>2, IndexedList
    <3> QED
      BY <2>0, <3>1, <3>3 DEF ScanInv, Scanned
  <2>6. CASE CopyEffect
    <3>1. /\ run.pc = "copying" /\ run'.pc = "copying" /\ run.todo # <<>>
          /\ run'.first = run.first /\ run'.index = run.index /\ run'.todo = Tail(run.todo)
      BY <2>6 DEF CopyEffect, Keeps, RunFields
    <3>2. IsList(run'.todo)
      BY <3>1, ListTail DEF ScanInv
    <3> QED
      BY <2>0, <3>1, <3>2 DEF ScanInv, Scanned
  <2>7. CASE LayoutEffect
    <3>1. /\ run.pc = "copying" /\ run'.pc = "rescan"
          /\ run'.first = run.first /\ run'.index = run.index
      BY <2>7 DEF LayoutEffect, Keeps, RunFields
    <3> QED
      BY <2>0, <3>1 DEF ScanInv, Scanned
  <2> QED
    BY <1>1, <2>1, <2>2, <2>3, <2>4, <2>5, <2>6, <2>7, SnapshotEffect
<1>2. CASE Contracting \/ Evaluating
  BY <1>2, <1>a, Elsewhere
<1>3. CASE EditArtifact
  <2>1. PICK path : EditStep(path)
    BY <1>3, EditSteps
  <2>2. run' = run /\ edits' = edits + 1
    BY <1>3 DEF EditArtifact, quiet
  <2>3. artifact'.dir = edits + 1 \/ (/\ artifact'.dir = artifact.dir
                                      /\ DOMAIN artifact'.files = DOMAIN artifact.files)
    BY <2>1, <2>2, EditFrame
  <2> QED
    BY <1>b, <2>2, <2>3
<1>4. CASE Rescoring \/ ReplaceSplit \/ TakeDestination \/ EditBundle
  <2>1. run' = run /\ artifact' = artifact /\ edits' \in {edits, edits + 1}
    BY <1>4 DEF Rescoring, ReadGenerations, ReadSecond, Rescore, ReplaceSplit, TakeDestination,
                EditBundle, quiet, unscored
  <2> QED
    BY <2>1, <1>b
<1>5. CASE UNCHANGED vars
  BY <1>5, <1>b DEF vars
<1> QED
  BY <1>1, <1>2, <1>3, <1>4, <1>5 DEF Next, Editing

LEMMA CopyInit == Init => CopyInv /\ RescanInv /\ AcceptedInv
BY DEF Init, NewRun, CopyInv, RescanInv, AcceptedInv, Copying

\* What a verification has pinned or copied so far is not touched by a step.
Holds(fields) == \A field \in fields : run'[field] = run[field]

LEMMA CopyStep ==
  ASSUME ArtifactInv, FlowInv, ScanInv, CopyInv, [Next]_vars
  PROVE  CopyInv'
<1>a. ASSUME run'.pc \notin Copying PROVE CopyInv'
  BY <1>a DEF CopyInv, Copying
<1>b. ASSUME run' = run, scenario' = scenario,
             artifact'.dir = run.first.dir => artifact.dir = run.first.dir,
             \A p \in DOMAIN run.first.entries : Untouched(p)' =>
                Untouched(p) /\ artifact'.files[p] = artifact.files[p]
      PROVE  CopyInv'
  <2>1. Context' = Context
    BY <1>b DEF Context
  <2>2. \A p : (p \in DOMAIN run.first.entries)' <=> p \in DOMAIN run.first.entries
    BY <1>b
  <2>3. CASE run.pc \in Copying
    <3>1. \A p \in DOMAIN run'.first.entries :
              Untouched(p)' =>
                  /\ p \in DOMAIN run'.moment /\ run'.moment[p] = artifact'.files[p]
                  /\ p \in DOMAIN run'.copied => run'.copied[p] = artifact'.files[p]
      BY <1>b, <2>3 DEF CopyInv
    <3>2. LayoutHolds(run.copied, run.index.provenance, Context)' <=>
             LayoutHolds(run.copied, run.index.provenance, Context)
      BY <1>b, <2>1
    <3> QED
      BY <1>b, <2>3, <3>1, <3>2 DEF CopyInv
  <2>4. CASE run.pc \notin Copying
    BY <1>a, <1>b, <2>4
  <2> QED
    BY <2>3, <2>4
<1>1. CASE Snapshotting
  <2>0. artifact' = artifact /\ edits' = edits /\ scenario' = scenario
    BY <1>1, SnapshotEffect DEF others
  <2>a. ASSUME Holds({"kind", "index", "contract", "first", "copied", "moment"}),
               run.pc \in Copying, run'.pc \in Copying,
               run'.pc = "copying" => DOMAIN run.copied \cup Range(run'.todo) = Indexed(run.index),
               run'.pc # "copying" => /\ DOMAIN run.copied = Indexed(run.index)
                                      /\ LayoutHolds(run.copied, run.index.provenance, Context)
        PROVE  CopyInv'
    <3>1. /\ run'.kind = run.kind /\ run'.index = run.index /\ run'.contract = run.contract
          /\ run'.first = run.first /\ run'.copied = run.copied /\ run'.moment = run.moment
      BY <2>a DEF Holds
    <3>2. Context' = Context
      BY <2>0, <3>1 DEF Context
    <3>3. LayoutHolds(run.copied, run.index.provenance, Context)' <=>
             LayoutHolds(run.copied, run.index.provenance, Context)
      BY <3>1, <3>2
    <3>4. \A p : Untouched(p)' <=> Untouched(p)
      BY <2>0, <3>1 DEF Untouched
    <3>5. CopyInv
      OBVIOUS
    <3> QED
      BY <2>0, <2>a, <3>1, <3>3, <3>4, <3>5 DEF CopyInv
  <2>1. CASE Failing
    BY <2>1, <1>a DEF Failing, Copying
  <2>2. CASE ScanEffect
    <3>1. CASE run.pc = "scan"
      BY <2>2, <3>1, <1>a DEF ScanEffect, Copying
    <3>2. CASE run.pc # "scan"
      <4>1. /\ run.pc = "rescan" /\ run'.pc = "rescanning"
            /\ Holds({"kind", "index", "contract", "first", "copied", "moment"})
        BY <2>2, <3>2 DEF ScanEffect, Keeps, RunFields, Holds
      <4> QED
        BY <4>1, <2>a DEF CopyInv, Copying
    <3> QED
      BY <3>1, <3>2
  <2>3. CASE EntryEffect
    <3>1. CASE run.pc = "scanning"
      <4>1. run'.pc = "scanning"
        BY <2>3, <3>1 DEF EntryEffect, Keeps, RunFields
      <4> QED
        BY <4>1, <1>a DEF Copying
    <3>2. CASE run.pc # "scanning"
      <4>1. /\ run.pc = "rescanning" /\ run'.pc = "rescanning"
            /\ Holds({"kind", "index", "contract", "first", "copied", "moment"})
        BY <2>3, <3>2 DEF EntryEffect, Keeps, RunFields, Holds
      <4> QED
        BY <4>1, <2>a DEF CopyInv, Copying
    <3> QED
      BY <3>1, <3>2
  <2>4. CASE IndexEffect
    BY <2>4, <1>a DEF IndexEffect, Copying
  <2>5. CASE RecheckEffect
    <3>1. /\ run.pc = "recheck" /\ run'.pc = "copying"
          /\ IndexPath \in DOMAIN artifact.files /\ artifact.files[IndexPath] = run.index
          /\ run'.copied = <<>> /\ run'.moment = artifact.files
          /\ run'.todo = [k \in 1..Len(run.index.entries) |-> run.index.entries[k][1]]
          /\ run'.first = run.first /\ run'.index = run.index
      BY <2>5 DEF RecheckEffect, Keeps, RunFields
    <3>2. Range(run'.todo) = Indexed(run.index)
      <4>1. IndexHolds(run.index)
        BY <3>1 DEF ScanInv, Scanned
      <4> QED
        BY <3>1, <4>1, IndexedList
    <3>3. DOMAIN run'.copied = {}
      BY <3>1
    <3>4. artifact.dir = run.first.dir => DOMAIN artifact.files = DOMAIN run.first.entries
      BY <3>1 DEF ScanInv, Scanned
    <3>5. IsFunction(artifact.files)
      BY DEF ArtifactInv
    <3> QED
      BY <2>0, <3>1, <3>2, <3>3, <3>4, <3>5 DEF CopyInv, Untouched, Copying
  <2>6. CASE CopyEffect
    <3> DEFINE path == Head(run.todo)
    <3>1. /\ run.pc = "copying" /\ run'.pc = "copying" /\ run.todo # <<>>
          /\ path \in DOMAIN artifact.files
          /\ artifact.files[path] = Recorded(run.index, path)
          /\ run'.copied = Put(path, artifact.files[path], run.copied)
          /\ run'.todo = Tail(run.todo)
          /\ run'.first = run.first /\ run'.index = run.index /\ run'.moment = run.moment
      BY <2>6 DEF CopyEffect, Keeps, RunFields
    <3>2. Range(run.todo) = {path} \cup Range(run'.todo)
      BY <3>1, ListTail DEF ScanInv
    <3>3. /\ DOMAIN run'.copied = {path} \cup DOMAIN run.copied
          /\ run'.copied[path] = artifact.files[path]
          /\ \A p \in DOMAIN run.copied \ {path} : run'.copied[p] = run.copied[p]
      BY <3>1 DEF Put
    <3>4. \A p : Untouched(p)' <=> Untouched(p)
      BY <2>0, <3>1 DEF Untouched
    <3>5. \A p \in DOMAIN run.first.entries :
              Untouched(p) =>
                  /\ p \in DOMAIN run.moment /\ run.moment[p] = artifact.files[p]
                  /\ p \in DOMAIN run'.copied => run'.copied[p] = artifact.files[p]
      BY <3>1, <3>3 DEF CopyInv, Copying
    <3>6. \A p \in DOMAIN run'.copied : Recorded(run.index, p) = run'.copied[p]
      BY <3>1, <3>3 DEF CopyInv, Copying
    <3>7. DOMAIN run'.copied \cup Range(run'.todo) = Indexed(run.index)
      BY <3>1, <3>2, <3>3 DEF CopyInv, Copying
    <3> HIDE DEF path
    <3> QED
      BY <2>0, <3>1, <3>4, <3>5, <3>6, <3>7 DEF CopyInv, Copying
  <2>7. CASE LayoutEffect
    <3>1. /\ run.pc = "copying" /\ run'.pc = "rescan" /\ run.todo = <<>>
          /\ LayoutHolds(run.copied, run.index.provenance, Context)
          /\ Holds({"kind", "index", "contract", "first", "copied", "moment"})
      BY <2>7 DEF LayoutEffect, Keeps, RunFields, Holds
    <3>2. DOMAIN run.copied = Indexed(run.index)
      <4>1. Range(run.todo) = {}
        BY <3>1 DEF Range
      <4> QED
        BY <3>1, <4>1 DEF CopyInv, Copying
    <3> QED
      BY <3>1, <3>2, <2>a DEF Copying
  <2> QED
    BY <1>1, <2>1, <2>2, <2>3, <2>4, <2>5, <2>6, <2>7, SnapshotEffect
<1>2. CASE Contracting \/ Evaluating
  BY <1>2, <1>a, Elsewhere DEF Scanned, Copying
<1>3. CASE EditArtifact
  <2>1. PICK path : EditStep(path)
    BY <1>3, EditSteps
  <2>2. run' = run /\ scenario' = scenario /\ edits' = edits + 1
    BY <1>3 DEF EditArtifact, quiet
  <2>3. /\ artifact'.dir = edits + 1 \/ artifact'.dir = artifact.dir
        /\ \A p \in DOMAIN artifact'.files :
              \/ artifact'.stamps[p] = edits + 1
              \/ /\ p \in DOMAIN artifact.files
                 /\ artifact'.stamps[p] = artifact.stamps[p]
                 /\ artifact'.files[p] = artifact.files[p]
    BY <2>1, <2>2, EditFrame
  <2>4. CASE run.pc \in Copying
    <3>1. /\ run.first.dir # edits + 1
          /\ \A p \in DOMAIN run.first.entries : run.first.entries[p] # edits + 1
      BY <2>4 DEF ScanInv, Scanned, Copying, IsScan, ArtifactInv
    <3>2. \A p \in DOMAIN run.first.entries : Untouched(p)' =>
              Untouched(p) /\ artifact'.files[p] = artifact.files[p]
      BY <2>2, <2>3, <3>1 DEF Untouched
    <3> QED
      BY <1>b, <2>2, <2>3, <3>1, <3>2
  <2>5. CASE run.pc \notin Copying
    BY <1>a, <2>2, <2>5
  <2> QED
    BY <2>4, <2>5
<1>4. CASE Rescoring \/ ReplaceSplit \/ TakeDestination \/ EditBundle
  <2>1. run' = run /\ artifact' = artifact /\ scenario' = scenario
    BY <1>4 DEF Rescoring, ReadGenerations, ReadSecond, Rescore, ReplaceSplit, TakeDestination,
                EditBundle, quiet, unscored
  <2> QED
    BY <2>1, <1>b DEF Untouched
<1>5. CASE UNCHANGED vars
  BY <1>5, <1>b DEF vars, Untouched
<1> QED
  BY <1>1, <1>2, <1>3, <1>4, <1>5 DEF Next, Editing

LEMMA RescanStep ==
  ASSUME ArtifactInv, FlowInv, ScanInv, CopyInv, RescanInv, [Next]_vars
  PROVE  RescanInv'
<1>0. edits \in Nat
  BY DEF ArtifactInv
<1>a. ASSUME run'.pc # "rescanning" PROVE RescanInv'
  BY <1>a DEF RescanInv
<1>b. ASSUME run' = run, edits' \in {edits, edits + 1} PROVE RescanInv'
  <2>1. ASSUME run.pc = "rescanning" PROVE IsScan(run.second, edits')
    BY <1>0, <1>b, <2>1, ScanLater DEF RescanInv
  <2> QED
    BY <1>b, <2>1 DEF RescanInv
<1>1. CASE Snapshotting
  <2>0. artifact' = artifact /\ edits' = edits
    BY <1>1, SnapshotEffect DEF others
  <2>1. CASE Failing \/ IndexEffect \/ RecheckEffect \/ LayoutEffect
    BY <2>1, <1>a DEF Failing, IndexEffect, RecheckEffect, LayoutEffect
  <2>2. CASE CopyEffect
    <3>1. run'.pc = "copying"
      BY <2>2 DEF CopyEffect, Keeps, RunFields
    <3> QED
      BY <3>1, <1>a
  <2>3. CASE ScanEffect
    <3>1. CASE run.pc = "scan"
      BY <2>3, <3>1, <1>a DEF ScanEffect
    <3>2. CASE run.pc # "scan"
      <4>1. /\ run.pc = "rescan"
            /\ run'.second = [dir |-> artifact.dir, entries |-> <<>>]
            /\ run'.first = run.first /\ run'.moment = run.moment /\ run'.copied = run.copied
        BY <2>3, <3>2 DEF ScanEffect, Keeps, RunFields
      <4>2. IsScan(run'.second, edits) /\ DOMAIN run'.second.entries = {}
            /\ run'.second.dir = artifact.dir
        BY <4>1, FreshScan
      <4>3. artifact.dir = run.first.dir => DOMAIN run.moment = DOMAIN run.first.entries
        BY <4>1 DEF CopyInv, Copying
      <4> QED
        BY <2>0, <4>1, <4>2, <4>3 DEF RescanInv
    <3> QED
      BY <3>1, <3>2
  <2>4. CASE EntryEffect
    <3>1. CASE run.pc = "scanning"
      <4>1. run'.pc = "scanning"
        BY <2>4, <3>1 DEF EntryEffect, Keeps, RunFields
      <4> QED
        BY <4>1, <1>a
    <3>2. CASE run.pc # "scanning"
      <4> DEFINE path == Head(run.todo)
      <4>1. /\ run.pc = "rescanning" /\ path \in DOMAIN artifact.files
            /\ run'.second = Noted(run.second, path)
            /\ run'.first = run.first /\ run'.moment = run.moment /\ run'.copied = run.copied
        BY <2>4, <3>2 DEF EntryEffect, Keeps, RunFields
      <4>2. IsScan(run.second, edits)
        BY <4>1 DEF RescanInv
      <4>3. /\ IsScan(run'.second, edits) /\ run'.second.dir = run.second.dir
            /\ DOMAIN run'.second.entries = {path} \cup DOMAIN run.second.entries
            /\ run'.second.entries[path] = artifact.stamps[path]
            /\ \A p \in DOMAIN run.second.entries \ {path} :
                  run'.second.entries[p] = run.second.entries[p]
        BY <4>1, <4>2, NotedScan
      <4>4. ASSUME path \in DOMAIN run.first.entries,
                   artifact.stamps[path] = run.first.entries[path]
            PROVE  /\ path \in DOMAIN run.moment
                   /\ path \in DOMAIN run.copied => run.copied[path] = run.moment[path]
        BY <4>1, <4>4 DEF CopyInv, Copying, Untouched
      <4> HIDE DEF path
      <4>5. \A p \in DOMAIN run'.second.entries \cap DOMAIN run.first.entries :
              run'.second.entries[p] = run.first.entries[p] =>
                  /\ p \in DOMAIN run.moment
                  /\ p \in DOMAIN run.copied => run.copied[p] = run.moment[p]
        BY <4>1, <4>3, <4>4 DEF RescanInv
      <4>6. run.second.dir = run.first.dir => DOMAIN run.moment = DOMAIN run.first.entries
        BY <4>1 DEF RescanInv
      <4> QED
        BY <2>0, <4>1, <4>3, <4>5, <4>6 DEF RescanInv
    <3> QED
      BY <3>1, <3>2
  <2> QED
    BY <1>1, <2>1, <2>2, <2>3, <2>4, SnapshotEffect
<1>2. CASE Contracting \/ Evaluating
  BY <1>2, <1>a, Elsewhere DEF Scanned
<1>3. CASE Rescoring \/ Editing
  <2>1. run' = run /\ edits' \in {edits, edits + 1}
    BY <1>3 DEF Rescoring, ReadGenerations, ReadSecond, Rescore, Editing, EditArtifact, ReplaceSplit,
                TakeDestination, EditBundle, quiet, unscored
  <2> QED
    BY <2>1, <1>b
<1>4. CASE UNCHANGED vars
  BY <1>4, <1>b DEF vars
<1> QED
  BY <1>1, <1>2, <1>3, <1>4 DEF Next

\* What Conclude accepts is one state of the live directory.
LEMMA ConcludedWhole ==
  ASSUME ScanInv, CopyInv, RescanInv, run.pc = "rescanning", run.second = run.first
  PROVE  /\ run.moment = Put(IndexPath, run.index, run.copied)
         /\ \A path \in DOMAIN run.copied : Recorded(run.index, path) = run.copied[path]
         /\ LayoutHolds(run.copied, run.index.provenance, Context)
<1>1. /\ IsFunction(run.moment) /\ run.moment[IndexPath] = run.index
      /\ DOMAIN run.copied = Indexed(run.index)
      /\ \A path \in DOMAIN run.copied : Recorded(run.index, path) = run.copied[path]
      /\ LayoutHolds(run.copied, run.index.provenance, Context)
  BY DEF CopyInv, Copying
<1>2. DOMAIN run.first.entries = Indexed(run.index) \cup {IndexPath}
  BY DEF ScanInv, Scanned
<1>3. /\ DOMAIN run.moment = DOMAIN run.first.entries
      /\ \A path \in DOMAIN run.first.entries :
            path \in DOMAIN run.copied => run.copied[path] = run.moment[path]
  BY DEF RescanInv
<1>4. DOMAIN run.moment = {IndexPath} \cup DOMAIN run.copied
  BY <1>1, <1>2, <1>3
<1>5. \A path \in {IndexPath} \cup DOMAIN run.copied :
          run.moment[path] = IF path = IndexPath THEN run.index ELSE run.copied[path]
  BY <1>1, <1>2, <1>3
<1>6. run.moment = [path \in {IndexPath} \cup DOMAIN run.copied |->
                       IF path = IndexPath THEN run.index ELSE run.copied[path]]
  BY <1>1, <1>4, <1>5 DEF IsFunction
<1> QED
  BY <1>1, <1>6 DEF Put

\* Whoever is accepted keeps what was verified.
LEMMA AcceptedKept ==
  ASSUME FlowInv, Contracting \/ Evaluating, ~Conclude, run'.accepted, scenario.command # "g0"
  PROVE  run.accepted /\ Holds({"kind", "index", "contract", "copied", "moment"})
<1>0. /\ DOMAIN run = RunFields
      /\ run.accepted => run.pc \in Evaluation \cup {"write", "validated", "failed"}
  BY DEF FlowInv
<1>1. CASE Contracting
  <2>1. CASE ReadTasks
    BY <1>0, <2>1 DEF ReadTasks, Fails, RunFields, Holds, Evaluation
  <2>2. CASE PinIndex
    BY <1>0, <2>2 DEF PinIndex, Fails, RunFields, Holds, Evaluation
  <2>3. CASE ComposePaired
    BY <1>0, <2>3 DEF ComposePaired, Fails, RunFields, Holds, Evaluation
  <2>4. CASE ComposeBaseOnly
    BY <1>0, <2>4 DEF ComposeBaseOnly, Fails, RunFields, Holds, Evaluation
  <2>5. CASE WriteContract
    BY <1>0, <2>5 DEF WriteContract, Fails, RunFields, Holds, Evaluation
  <2>6. CASE ValidateContract
    BY <1>0, <2>6 DEF ValidateContract, Fails, RunFields, Holds, Evaluation
  <2>7. CASE PinSplits
    BY <1>0, <2>7 DEF PinSplits, Fails, RunFields, Holds, Evaluation
  <2>8. CASE PinDigest
    BY <1>0, <2>8 DEF PinDigest, Fails, RunFields, Holds, Evaluation
  <2>9. CASE CheckPin
    BY <1>0, <2>9 DEF CheckPin, Fails, RunFields, Holds, Evaluation
  <2> QED
    BY <1>1, <2>1, <2>2, <2>3, <2>4, <2>5, <2>6, <2>7, <2>8, <2>9 DEF Contracting
<1>2. CASE Evaluating
  <2>1. CASE Bind
    BY <1>0, <2>1 DEF Bind, Fails, RunFields, Holds, Evaluation
  <2>2. CASE Iterate
    BY <1>0, <2>2 DEF Iterate, Fails, RunFields, Holds, Evaluation
  <2>3. CASE GenerateBase
    BY <1>0, <2>3 DEF GenerateBase, Fails, RunFields, Holds, Evaluation
  <2>4. CASE LoadSft
    BY <1>0, <2>4 DEF LoadSft, Fails, RunFields, Holds, Evaluation
  <2>5. CASE GenerateSft
    BY <1>0, <2>5 DEF GenerateSft, Fails, RunFields, Holds, Evaluation
  <2>6. CASE Stage
    BY <1>0, <2>6 DEF Stage, Fails, RunFields, Holds, Evaluation
  <2>7. CASE Rename
    BY <1>0, <2>7 DEF Rename, Fails, RunFields, Holds, Evaluation
  <2> QED
    BY <1>2, <2>1, <2>2, <2>3, <2>4, <2>5, <2>6, <2>7 DEF Evaluating
<1> QED
  BY <1>1, <1>2

LEMMA AcceptedStep ==
  ASSUME FlowInv, ScanInv, CopyInv, RescanInv, AcceptedInv, [Next]_vars
  PROVE  AcceptedInv'
<1>a. ASSUME scenario' = scenario, run.accepted,
             Holds({"kind", "index", "contract", "copied", "moment"})
      PROVE  AcceptedInv'
  <2>1. /\ run'.kind = run.kind /\ run'.index = run.index /\ run'.contract = run.contract
        /\ run'.copied = run.copied /\ run'.moment = run.moment
    BY <1>a DEF Holds
  <2>2. Context' = Context
    BY <1>a, <2>1 DEF Context
  <2>3. LayoutHolds(run.copied, run.index.provenance, Context)' <=>
           LayoutHolds(run.copied, run.index.provenance, Context)
    BY <2>1, <2>2
  <2> QED
    BY <1>a, <2>1, <2>3 DEF AcceptedInv
<1>b. ASSUME run' = run, scenario' = scenario PROVE AcceptedInv'
  <2>1. CASE run.accepted
    BY <1>a, <1>b, <2>1 DEF Holds
  <2>2. CASE ~run.accepted
    BY <1>b, <2>2 DEF AcceptedInv
  <2> QED
    BY <2>1, <2>2
<1>c. ASSUME ~run'.accepted PROVE AcceptedInv'
  BY <1>c DEF AcceptedInv
<1>d. ASSUME scenario' = scenario, scenario.command = "g0" PROVE AcceptedInv'
  BY <1>d DEF AcceptedInv
<1>1. CASE Snapshotting
  <2>1. scenario' = scenario
    BY <1>1, SnapshotEffect DEF others
  <2>2. run'.accepted = run.accepted
    BY <1>1, SnapshotEffect DEF Failing, ScanEffect, EntryEffect, IndexEffect, RecheckEffect,
       CopyEffect, LayoutEffect, Keeps, RunFields
  <2>3. run.pc \in Composed
    BY <1>1 DEF Snapshotting, Scan, ScanEntry, ReadIndex, RecheckIndex, CopyFile, CheckLayout, Composed
  <2>4. run.accepted => run.pc \in Evaluation \cup {"write", "validated", "failed"}
    BY DEF FlowInv
  <2>5. run.pc # "write"
    BY <1>1 DEF Snapshotting, Scan, ScanEntry, ReadIndex, RecheckIndex, CopyFile, CheckLayout
  <2>6. ~run'.accepted
    BY <2>2, <2>3, <2>4, <2>5 DEF Composed, Evaluation
  <2> QED
    BY <2>6, <1>c
<1>2. CASE (Contracting \/ Evaluating) /\ ~Conclude
  <2>1. scenario' = scenario
    BY <1>2 DEF Contracting, Evaluating, ReadTasks, PinIndex, ComposePaired, ComposeBaseOnly,
       WriteContract, ValidateContract, PinSplits, PinDigest, CheckPin, Bind, Iterate, GenerateBase,
       LoadSft, GenerateSft, Stage, Rename, others
  <2>2. CASE ~run'.accepted
    BY <2>2, <1>c
  <2>3. CASE scenario.command = "g0"
    BY <2>1, <2>3, <1>d
  <2>4. CASE run'.accepted /\ scenario.command # "g0"
    BY <1>2, <2>1, <2>4, AcceptedKept, <1>a
  <2> QED
    BY <2>2, <2>3, <2>4
<1>3. CASE Conclude
  <2>1. scenario' = scenario /\ DOMAIN run = RunFields
        /\ (run.accepted => run.pc \in Evaluation \cup {"write", "validated", "failed"})
    BY <1>3 DEF Conclude, others, FlowInv
  <2>2. run.pc = "rescanning"
    BY <1>3 DEF Conclude
  <2>3. CASE run.second # run.first
    <3>1. run'.accepted = run.accepted
      BY <1>3, <2>1, <2>3 DEF Conclude, Fails, RunFields
    <3>2. ~run'.accepted
      BY <3>1, <2>1, <2>2 DEF Evaluation
    <3> QED
      BY <3>2, <1>c
  <2>4. CASE run.second = run.first
    <3>1. Holds({"kind", "index", "contract", "copied", "moment"})
      BY <1>3, <2>1 DEF Conclude, Fails, RunFields, Holds
    <3>2. /\ run'.kind = run.kind /\ run'.index = run.index /\ run'.contract = run.contract
          /\ run'.copied = run.copied /\ run'.moment = run.moment
      BY <3>1 DEF Holds
    <3>3. Context' = Context
      BY <2>1, <3>2 DEF Context
    <3>4. LayoutHolds(run.copied, run.index.provenance, Context)' <=>
             LayoutHolds(run.copied, run.index.provenance, Context)
      BY <3>2, <3>3
    <3> QED
      BY <2>2, <2>4, <3>2, <3>4, ConcludedWhole DEF AcceptedInv
  <2> QED
    BY <2>3, <2>4
<1>4. CASE Rescoring \/ Editing
  <2>1. run' = run /\ scenario' = scenario
    BY <1>4 DEF Rescoring, ReadGenerations, ReadSecond, Rescore, Editing, EditArtifact, ReplaceSplit,
                TakeDestination, EditBundle, quiet, unscored
  <2> QED
    BY <2>1, <1>b
<1>5. CASE UNCHANGED vars
  BY <1>5, <1>b DEF vars
<1> QED
  BY <1>1, <1>2, <1>3, <1>4, <1>5 DEF Next

-----------------------------------------------------------------------------
(* Tasks, generations and what is published of them *)

LEMMA SplitRows ==
  ASSUME FlowInv
  PROVE  IsList(split.rows) /\ IsList(TaskIds(split))
<1>1. split.rows \in Seq(Range(split.rows))
  BY ScenariosAreTyped DEF FlowInv
<1>2. Len(split.rows) \in Nat
  BY <1>1, LenProperties
<1> DEFINE ids == TaskIds(split)
           n == Len(split.rows)
<1>3. ids = [k \in 1..n |-> ids[k]]
  BY DEF TaskIds
<1> HIDE DEF ids, n
<1>4. IsList(ids)
  BY <1>2, <1>3, ListFunction DEF n
<1> QED
  BY <1>1, <1>4 DEF IsList, ids

LEMMA GenerationsList ==
  ASSUME NEW answers, IsList(run.prepared)
  PROVE  IsList(Generations(answers))
<1> DEFINE g == Generations(answers)
           n == Len(run.prepared)
<1>1. n \in Nat
  BY ListProperties
<1>2. g = [k \in 1..n |-> g[k]]
  BY DEF Generations
<1> HIDE DEF g, n
<1> QED
  BY <1>1, <1>2, ListFunction DEF g

\* The steps that neither compose a contract nor touch an arm.
ArmsKept == /\ run'.pc \notin Evaluation \ {run.pc}
            /\ run'.pc \in Composed => run.pc \in Composed
            /\ Holds({"contract", "prepared", "base", "sft"})

LEMMA ArmInit == Init => ArmInv
BY DEF Init, NewRun, ArmInv, Composed, Evaluation

LEMMA ArmStep ==
  ASSUME FlowInv, ArmInv, [Next]_vars
  PROVE  ArmInv'
<1>0. DOMAIN run = RunFields
  BY DEF FlowInv
<1>a. ASSUME scenario' = scenario, ArmsKept PROVE ArmInv'
  <2>1. /\ run'.contract = run.contract /\ run'.prepared = run.prepared
        /\ run'.base = run.base /\ run'.sft = run.sft
    BY <1>a DEF ArmsKept, Holds
  <2>2. GenerationsHold' <=> GenerationsHold
    BY <1>a, <2>1 DEF GenerationsHold
  <2>3. run'.pc \in Evaluation => run'.pc = run.pc
    BY <1>a DEF ArmsKept
  <2>4. run'.pc \in Composed => run.pc \in Composed
    BY <1>a DEF ArmsKept
  <2> QED
    BY <1>a, <2>1, <2>2, <2>3, <2>4 DEF ArmInv, Evaluation, Composed
<1>b. ASSUME scenario' = scenario, run' = run PROVE ArmInv'
  BY <1>a, <1>b DEF ArmsKept, Holds
<1>c. ASSUME run'.pc \notin Composed \cup Evaluation PROVE ArmInv'
  BY <1>c DEF ArmInv, Evaluation
<1>1. CASE Snapshotting
  <2>1. scenario' = scenario
    BY <1>1, SnapshotEffect DEF others
  <2>2. run.pc \in Composed
    BY <1>1 DEF Snapshotting, Scan, ScanEntry, ReadIndex, RecheckIndex, CopyFile, CheckLayout, Composed
  <2>3. run'.pc \notin Evaluation /\ Holds({"contract", "prepared", "base", "sft"})
    <3>1. CASE Failing
      BY <3>1 DEF Failing, Keeps, RunFields, Evaluation, Holds
    <3>2. CASE ScanEffect
      BY <3>2 DEF ScanEffect, Keeps, RunFields, Evaluation, Holds
    <3>3. CASE EntryEffect
      <4>1. run'.pc \in {"scanning", "rescanning"}
        BY <3>3 DEF EntryEffect, Keeps, RunFields
      <4>2. Holds({"contract", "prepared", "base", "sft"})
        BY <3>3 DEF EntryEffect, Keeps, RunFields, Holds
      <4> QED
        BY <4>1, <4>2 DEF Evaluation
    <3>4. CASE IndexEffect \/ RecheckEffect \/ LayoutEffect
      BY <3>4 DEF IndexEffect, RecheckEffect, LayoutEffect, Keeps, RunFields, Evaluation, Holds
    <3>5. CASE CopyEffect
      BY <3>5 DEF CopyEffect, Keeps, RunFields, Evaluation, Holds
    <3> QED
      BY <1>1, <3>1, <3>2, <3>3, <3>4, <3>5, SnapshotEffect
  <2> QED
    BY <2>1, <2>2, <2>3, <1>a DEF ArmsKept
<1>2. CASE ReadTasks \/ PinIndex \/ PinSplits \/ PinDigest \/ CheckPin
  <2>1. run'.pc \in {"failed", "compose", "index", "pinDigest", "checkPin", "pinned"}
    <3>1. CASE ReadTasks \/ PinIndex
      BY <1>0, <3>1 DEF ReadTasks, PinIndex, Fails, RunFields
    <3>2. CASE PinSplits \/ PinDigest \/ CheckPin
      BY <1>0, <3>2 DEF PinSplits, PinDigest, CheckPin, Fails, RunFields
    <3> QED
      BY <1>2, <3>1, <3>2
  <2> QED
    BY <2>1, <1>c DEF Evaluation, Composed
<1>3. CASE ComposePaired \/ ComposeBaseOnly
  <2>1. CASE Fails
    BY <1>0, <2>1, <1>c DEF Fails, RunFields, Evaluation, Composed
  <2>2. CASE ~Fails
    <3>1. /\ run'.contract = ContractOf(split) /\ scenario' = scenario
          /\ run'.pc = "scan" \/ (run'.pc = "bind" /\ scenario.command = "g0")
      BY <1>0, <1>3, <2>2 DEF ComposePaired, ComposeBaseOnly, RunFields, others
    <3>2. IsList(run'.contract.tasks)
      BY <3>1, SplitRows DEF ContractOf
    <3> QED
      BY <3>1, <3>2 DEF ArmInv, Evaluation, Composed
  <2> QED
    BY <2>1, <2>2
<1>4. CASE WriteContract \/ ValidateContract
  <2>1. /\ run.pc \in {"write", "validate"} /\ scenario' = scenario
        /\ run'.pc \in {"validate", "scan", "failed"} /\ run'.contract = run.contract
        /\ run'.prepared = run.prepared /\ run'.base = run.base /\ run'.sft = run.sft
    BY <1>0, <1>4 DEF WriteContract, ValidateContract, Fails, RunFields, others
  <2> QED
    BY <2>1, <1>a DEF ArmsKept, Holds, Evaluation, Composed
<1>5. CASE Conclude
  <2>1. run.pc = "rescanning" /\ scenario' = scenario /\ run'.contract = run.contract
    BY <1>0, <1>5 DEF Conclude, Fails, RunFields, others
  <2>2. \/ run'.pc = "failed"
        \/ run'.pc \in {"bind", "write", "validated"} /\ IsInjective(run.contract.tasks)
    BY <1>0, <1>5 DEF Conclude, Fails, RunFields
  <2>3. IsList(run.contract.tasks)
    BY <2>1 DEF ArmInv, Composed
  <2> QED
    BY <2>1, <2>2, <2>3 DEF ArmInv, Evaluation, Composed
<1>6. CASE Evaluating
  <2>0. scenario' = scenario
    BY <1>6 DEF Evaluating, Bind, Iterate, GenerateBase, LoadSft, GenerateSft, Stage, Rename, others
  <2>1. CASE Fails
    BY <1>0, <2>1, <1>c DEF Fails, RunFields, Evaluation, Composed
  <2>a. /\ run.pc \in Evaluation
        /\ IsList(run.contract.tasks)
        /\ scenario.command = "paired" => IsInjective(run.contract.tasks)
        /\ run.pc \in {"base", "load", "sft", "publish", "rename"} => IsList(run.prepared)
        /\ run.pc \in {"load", "sft", "publish", "rename"} => IsList(run.base)
        /\ run.pc \in {"publish", "rename"} /\ scenario.command = "paired" => IsList(run.sft)
        /\ run.pc = "rename" => GenerationsHold
    BY <1>6 DEF Evaluating, Bind, Iterate, GenerateBase, LoadSft, GenerateSft, Stage, Rename, ArmInv,
       Evaluation
  <2>2. CASE Bind /\ ~Fails
    <3>1. run'.pc = "iterate" /\ run'.contract = run.contract
      BY <1>0, <2>2 DEF Bind, RunFields
    <3> QED
      BY <2>0, <2>a, <3>1 DEF ArmInv, Evaluation, Composed
  <2>3. CASE Iterate /\ ~Fails
    <3>1. /\ run'.pc = "base" /\ run'.contract = run.contract
          /\ run'.prepared = [k \in 1..Len(split.rows) |-> Prepared(split.rows[k])]
      BY <1>0, <2>3 DEF Iterate, RunFields
    <3>2. Len(split.rows) \in Nat
      BY SplitRows, ListProperties
    <3>3. IsList(run'.prepared)
      BY <3>1, <3>2, ListFunction
    <3> QED
      BY <2>0, <2>a, <3>1, <3>3 DEF ArmInv, Evaluation, Composed
  <2>4. CASE GenerateBase /\ ~Fails
    <3>1. PICK answers : run' = [run EXCEPT !.base = Generations(answers),
                                     !.pc = IF scenario.command = "g0" THEN "publish" ELSE "load"]
      BY <2>4 DEF GenerateBase
    <3>2. /\ run'.pc = IF scenario.command = "g0" THEN "publish" ELSE "load"
          /\ run'.base = Generations(answers)
          /\ run'.contract = run.contract /\ run'.prepared = run.prepared
      BY <1>0, <3>1 DEF RunFields
    <3>3. IsList(run'.base) /\ IsList(run'.prepared)
      BY <2>4, <2>a, <3>2, GenerationsList DEF GenerateBase
    <3> QED
      BY <2>0, <2>a, <3>2, <3>3 DEF ArmInv, Evaluation, Composed
  <2>5. CASE LoadSft /\ ~Fails
    <3>1. /\ run.pc = "load" /\ run'.pc = "sft" /\ run'.contract = run.contract
          /\ run'.prepared = run.prepared /\ run'.base = run.base
      BY <1>0, <2>5 DEF LoadSft, RunFields
    <3> QED
      BY <2>0, <2>a, <3>1 DEF ArmInv, Evaluation, Composed
  <2>6. CASE GenerateSft /\ ~Fails
    <3>1. PICK answers : run' = [run EXCEPT !.sft = Generations(answers), !.pc = "publish"]
      BY <2>6 DEF GenerateSft
    <3>2. /\ run.pc = "sft" /\ run'.pc = "publish" /\ run'.sft = Generations(answers)
          /\ run'.contract = run.contract /\ run'.prepared = run.prepared /\ run'.base = run.base
      BY <1>0, <2>6, <3>1 DEF RunFields, GenerateSft
    <3>3. IsList(run'.sft) /\ IsList(run'.prepared) /\ IsList(run'.base)
      BY <2>a, <3>2, GenerationsList
    <3> QED
      BY <2>0, <2>a, <3>2, <3>3 DEF ArmInv, Evaluation, Composed
  <2>7. CASE Stage /\ ~Fails
    <3>1. /\ run.pc = "publish" /\ run'.pc = "rename" /\ GenerationsHold
          /\ run'.contract = run.contract /\ run'.prepared = run.prepared
          /\ run'.base = run.base /\ run'.sft = run.sft
      BY <1>0, <2>7 DEF Stage, RunFields
    <3>2. GenerationsHold'
      BY <2>0, <3>1 DEF GenerationsHold
    <3> QED
      BY <2>0, <2>a, <3>1, <3>2 DEF ArmInv, Evaluation, Composed
  <2>8. CASE Rename /\ ~Fails
    <3>1. run'.pc = "done" /\ run'.contract = run.contract
      BY <1>0, <2>8 DEF Rename, RunFields
    <3> QED
      BY <2>0, <2>a, <3>1 DEF ArmInv, Evaluation, Composed
  <2> QED
    BY <1>6, <2>1, <2>2, <2>3, <2>4, <2>5, <2>6, <2>7, <2>8 DEF Evaluating
<1>7. CASE Rescoring \/ Editing
  <2>1. run' = run /\ scenario' = scenario
    BY <1>7 DEF Rescoring, ReadGenerations, ReadSecond, Rescore, Editing, EditArtifact, ReplaceSplit,
                TakeDestination, EditBundle, quiet, unscored
  <2> QED
    BY <2>1, <1>b
<1>8. CASE UNCHANGED vars
  BY <1>8, <1>b DEF vars
<1> QED
  BY <1>1, <1>2, <1>3, <1>4, <1>5, <1>6, <1>7, <1>8 DEF Next, Contracting

LEMMA DestInit == Init => DestInv /\ PostInv /\ PinInv
<1> SUFFICES ASSUME Init PROVE DestInv /\ PostInv /\ PinInv
  OBVIOUS
<1>1. ~IsPaired(dest)
  BY DEF Init, IsPaired, Free
<1>2. rescorer = NewRescorer /\ DOMAIN posts = {}
  BY DEF Init
<1>3. run.pc \notin {"checkPin", "pinned"}
  BY DEF Init, NewRun
<1> QED
  BY <1>1, <1>2, <1>3 DEF DestInv, PostInv, PinInv, ValidatedPinIsOneManifest, NewRescorer

\* What a step can do to the destination.
Edited(arm, lines) == dest' = [dest EXCEPT ![arm].generations = lines]

Lines(s) == {Tail(s), s \o <<Head(s)>>, [k \in 1..Len(s) |-> Head(s)], Reverse(s)}

LEMMA DestEffect ==
  ASSUME FlowInv, [Next]_vars
  PROVE  \/ dest' = dest
         \/ ~IsPaired(dest) /\ ~IsPaired(dest')
         \/ /\ Rename /\ ~IsPaired(dest) /\ dest' = PairedBundle
            /\ run.pc = "rename" /\ scenario.command = "paired"
         \/ /\ EditBundle /\ IsPaired(dest)
            /\ \E arm \in Arms : LET s == dest[arm].generations
                                 IN  s # <<>> /\ \E lines \in Lines(s) : Edited(arm, lines)
<1>a. ~IsPaired(Free) /\ ~IsPaired(Taken)
  BY DEF IsPaired, Free, Taken
<1>1. CASE Snapshotting
  BY <1>1, SnapshotEffect
<1>2. CASE WriteContract \/ PinDigest
  <2>1. \/ dest' = dest
        \/ dest = Free /\ \E contract : dest' = [contract |-> contract]
    BY <1>2 DEF WriteContract, PinDigest
  <2>2. \A contract : ~IsPaired([contract |-> contract])
    BY DEF IsPaired
  <2> QED
    BY <1>a, <2>1, <2>2
<1>3. CASE Contracting /\ ~WriteContract /\ ~PinDigest
  BY <1>3 DEF Contracting, ReadTasks, PinIndex, ComposePaired, ComposeBaseOnly, Conclude,
     ValidateContract, PinSplits, CheckPin
<1>4. CASE Evaluating /\ ~Rename
  BY <1>4 DEF Evaluating, Bind, Iterate, GenerateBase, LoadSft, GenerateSft, Stage
<1>5. CASE Rename
  <2>1. CASE dest # Free
    BY <1>5, <2>1 DEF Rename
  <2>2. CASE dest = Free /\ scenario.command = "g0"
    <3>1. dest' = BaseBundle
      BY <1>5, <2>2 DEF Rename
    <3>2. ~IsPaired(BaseBundle)
      BY DEF IsPaired, BaseBundle
    <3> QED
      BY <1>a, <2>2, <3>1, <3>2
  <2>3. CASE dest = Free /\ scenario.command # "g0"
    <3>1. dest' = PairedBundle /\ run.pc = "rename"
      BY <1>5, <2>3 DEF Rename
    <3>2. scenario.command = "paired"
      BY <2>3, <3>1 DEF FlowInv, Evaluation
    <3> QED
      BY <1>5, <1>a, <2>3, <3>1, <3>2
  <2> QED
    BY <2>1, <2>2, <2>3
<1>6. CASE Rescoring \/ EditArtifact \/ ReplaceSplit
  BY <1>6 DEF Rescoring, ReadGenerations, ReadSecond, Rescore, EditArtifact, ReplaceSplit, unscored
<1>7. CASE TakeDestination
  BY <1>7, <1>a DEF TakeDestination
<1>8. CASE EditBundle
  BY <1>8 DEF EditBundle, Edited, Lines
<1>9. CASE UNCHANGED vars
  BY <1>9 DEF vars
<1> QED
  BY <1>1, <1>2, <1>3, <1>4, <1>5, <1>6, <1>7, <1>8, <1>9 DEF Next, Editing

LEMMA LinesList ==
  ASSUME NEW s, IsList(s), s # <<>>, NEW lines \in Lines(s)
  PROVE  IsList(lines)
<1> DEFINE S == Range(s)
           n == Len(s)
<1>1. s \in Seq(S) /\ n \in Nat
  BY ListProperties DEF IsList
<1>2. Tail(s) \in Seq(S) /\ Head(s) \in S
  BY <1>1, HeadTailProperties
<1> HIDE DEF S
<1>3. s \o <<Head(s)>> \in Seq(S)
  <2>1. <<Head(s)>> \in Seq(S)
    BY <1>2
  <2> QED
    BY <1>1, <2>1, ConcatProperties
<1> DEFINE f == [k \in 1..n |-> Head(s)]
           r == Reverse(s)
<1>4. f = [k \in 1..n |-> f[k]] /\ r = [k \in 1..n |-> r[k]]
  BY DEF Reverse
<1> HIDE DEF f, r, n
<1>5. IsList(f) /\ IsList(r)
  BY <1>1, <1>4, ListFunction
<1>6. lines \in {Tail(s), s \o <<Head(s)>>, f, r}
  BY DEF Lines, f, r, n
<1> QED
  BY <1>2, <1>3, <1>5, <1>6, ListOf

\* An edit of the lines leaves the rest of a bundle as it was.
LEMMA EditedBundle ==
  ASSUME DestInv, IsPaired(dest), NEW arm \in Arms, NEW lines, IsList(lines), Edited(arm, lines)
  PROVE  /\ DestInv' /\ IsPaired(dest')
         /\ dest'.contract = dest.contract /\ dest'.original = dest.original
         /\ dest'.comparison = dest.comparison
<1> DEFINE gens == "generations"
<1>1. /\ arm \in {"base", "sft"} /\ arm \in DOMAIN dest
      /\ "base" \in DOMAIN dest /\ "sft" \in DOMAIN dest
      /\ \A a \in {"base", "sft"} : gens \in DOMAIN dest[a] /\ IsList(dest[a].generations)
  BY DEF DestInv, Arms
<1>2. /\ DOMAIN dest' = DOMAIN dest
      /\ dest'[arm] = [dest[arm] EXCEPT !.generations = lines]
      /\ \A field \in DOMAIN dest \ {arm} : dest'[field] = dest[field]
  BY <1>1 DEF Edited
<1>3. /\ dest'.contract = dest.contract /\ dest'.original = dest.original
      /\ dest'.comparison = dest.comparison /\ dest'.regressions = dest.regressions
  BY <1>1 DEF Edited
<1>4. \A a \in {"base", "sft"} : gens \in DOMAIN dest'[a] /\ IsList(dest'[a].generations)
  <2> TAKE a \in {"base", "sft"}
  <2>1. CASE a = arm
    BY <1>1, <1>2, <2>1
  <2>2. CASE a # arm
    BY <1>1, <1>2, <2>2
  <2> QED
    BY <2>1, <2>2
<1>5. IsPaired(dest')
  BY <1>2 DEF IsPaired
<1>6. IsOriginal(dest')
  BY <1>3 DEF DestInv, IsOriginal
<1> QED
  BY <1>1, <1>2, <1>3, <1>4, <1>5, <1>6 DEF DestInv, Arms

LEMMA PublishedBundle ==
  ASSUME FlowInv, ArmInv, run.pc = "rename", scenario.command = "paired"
  PROVE  /\ IsTasks(PairedBundle.contract.tasks) /\ IsOriginal(PairedBundle)
         /\ \A arm \in Arms : /\ arm \in DOMAIN PairedBundle
                              /\ "generations" \in DOMAIN PairedBundle[arm]
                              /\ IsList(PairedBundle[arm].generations)
<1>1. /\ IsList(run.contract.tasks) /\ IsInjective(run.contract.tasks)
      /\ IsList(run.base) /\ IsList(run.sft)
      /\ TasksOf(run.base) = run.contract.tasks /\ TasksOf(run.sft) = run.contract.tasks
  BY DEF ArmInv, Evaluation, GenerationsHold
<1> DEFINE version == run.contract.version
           base == ScoresOf(run.base, version)
           sft == ScoresOf(run.sft, version)
           d == PairedBundle
<1>2. /\ d.contract = run.contract
      /\ d.comparison = ComparisonOf(base, sft, version)
      /\ d.regressions = RegressionRows(d.comparison.pairs, base, sft)
      /\ d.original.base = run.base /\ d.original.sft = run.sft
  BY DEF PairedBundle
<1>3. /\ "base" \in DOMAIN d /\ "sft" \in DOMAIN d
      /\ d["base"] = ArmBundle(run.base, version) /\ d["sft"] = ArmBundle(run.sft, version)
  BY DEF PairedBundle
<1> HIDE DEF d
<1>4. IsOriginal(d)
  BY <1>1, <1>2 DEF IsOriginal
<1>5. \A arm \in Arms : /\ arm \in DOMAIN d /\ "generations" \in DOMAIN d[arm]
                        /\ IsList(d[arm].generations)
  BY <1>1, <1>3 DEF Arms, ArmBundle
<1> QED
  BY <1>1, <1>2, <1>4, <1>5 DEF IsTasks, d

LEMMA DestStep ==
  ASSUME FlowInv, ArmInv, DestInv, [Next]_vars
  PROVE  DestInv'
<1>1. CASE dest' = dest
  BY <1>1 DEF DestInv
<1>2. CASE ~IsPaired(dest')
  BY <1>2 DEF DestInv
<1>3. CASE dest' = PairedBundle /\ run.pc = "rename" /\ scenario.command = "paired"
  <2>1. /\ IsTasks(dest'.contract.tasks) /\ IsOriginal(dest')
        /\ \A arm \in Arms : /\ arm \in DOMAIN dest' /\ "generations" \in DOMAIN dest'[arm]
                             /\ IsList(dest'[arm].generations)
    BY <1>3, PublishedBundle
  <2> QED
    BY <2>1 DEF DestInv
<1>4. CASE IsPaired(dest) /\ \E arm \in Arms :
              LET s == dest[arm].generations
              IN  s # <<>> /\ \E lines \in Lines(s) : Edited(arm, lines)
  <2>1. PICK arm \in Arms : \E lines \in Lines(dest[arm].generations) :
                               dest[arm].generations # <<>> /\ Edited(arm, lines)
    BY <1>4
  <2>2. PICK lines \in Lines(dest[arm].generations) :
                dest[arm].generations # <<>> /\ Edited(arm, lines)
    BY <2>1
  <2>3. IsList(lines)
    BY <1>4, <2>2, LinesList DEF DestInv
  <2> QED
    BY <1>4, <2>2, <2>3, EditedBundle
<1> QED
  BY <1>1, <1>2, <1>3, <1>4, DestEffect

LEMMA PostStep ==
  ASSUME FlowInv, DestInv, PostInv, [Next]_vars
  PROVE  PostInv'
<1>1. CASE Rescoring
  <2>0. /\ dest' = dest /\ DOMAIN rescorer = {"pc", "version", "base", "sft", "count"}
        /\ rescorer.pc # "idle" => IsPaired(dest)
        /\ DOMAIN posts # {} => IsPaired(dest)
        /\ \A version \in DOMAIN posts : IsPost(posts[version], version)
    BY <1>1 DEF Rescoring, ReadGenerations, ReadSecond, Rescore, unscored, PostInv
  <2>a. \A post, version : IsPost(post, version)' <=> IsPost(post, version)
    BY <2>0 DEF IsPost, CoversContract
  <2>b. IsPaired(dest) => IsList(dest.base.generations) /\ IsList(dest.sft.generations)
    BY DEF DestInv, Arms
  <2>1. ASSUME NEW version, ReadGenerations(version) PROVE PostInv'
    <3>1. /\ IsPaired(dest) /\ posts' = posts
          /\ DOMAIN rescorer' = DOMAIN rescorer
          /\ rescorer'.pc = "read" /\ rescorer'.base = dest.base.generations
      BY <2>0, <2>1 DEF ReadGenerations
    <3>2. IsPaired(dest)'
      BY <2>0, <3>1
    <3> QED
      BY <2>0, <2>a, <2>b, <3>1, <3>2 DEF PostInv
  <2>2. CASE ReadSecond
    <3>1. /\ rescorer.pc = "read" /\ posts' = posts
          /\ DOMAIN rescorer' = DOMAIN rescorer
          /\ rescorer'.pc = "score" /\ rescorer'.base = rescorer.base
          /\ rescorer'.sft = dest.sft.generations
      BY <2>0, <2>2 DEF ReadSecond
    <3>2. IsPaired(dest) /\ IsPaired(dest)' /\ IsList(rescorer.base)
      BY <2>0, <3>1 DEF PostInv
    <3> QED
      BY <2>0, <2>a, <2>b, <3>1, <3>2 DEF PostInv
  <2>3. CASE Rescore
    <3> DEFINE version == rescorer.version
               base == ScoresOf(rescorer.base, version)
               sft == ScoresOf(rescorer.sft, version)
               post == [comparison |-> ComparisonOf(base, sft, version),
                        base |-> rescorer.base, sft |-> rescorer.sft,
                        metrics |-> [base |-> MetricsOf(base, version),
                                     sft |-> MetricsOf(sft, version)]]
    <3>1. rescorer.pc = "score" /\ rescorer' = [NewRescorer EXCEPT !.count = rescorer.count]
      BY <2>3 DEF Rescore
    <3>2. /\ rescorer'.pc = "idle"
          /\ DOMAIN rescorer' = {"pc", "version", "base", "sft", "count"}
      BY <3>1 DEF NewRescorer
    <3>3. IsPaired(dest) /\ IsPaired(dest)' /\ IsList(rescorer.base) /\ IsList(rescorer.sft)
      BY <2>0, <3>1 DEF PostInv
    <3>4. CASE posts' = posts
      BY <2>0, <2>a, <3>2, <3>3, <3>4 DEF PostInv
    <3>5. CASE posts' # posts
      <4>1. /\ CoversContract(rescorer.base) /\ Comparable(base, sft, version)
            /\ posts' = Put(version, post, posts)
        BY <2>3, <3>5 DEF Rescore
      <4>2. /\ post.base = rescorer.base /\ post.sft = rescorer.sft
            /\ post.comparison = ComparisonOf(base, sft, version)
        OBVIOUS
      <4> HIDE DEF post
      <4>3. IsPost(post, version)
        BY <3>3, <4>1, <4>2 DEF IsPost
      <4> HIDE DEF version, base, sft
      <4>4. /\ DOMAIN posts' = {version} \cup DOMAIN posts
            /\ \A v \in DOMAIN posts' : posts'[v] = IF v = version THEN post ELSE posts[v]
        BY <4>1 DEF Put
      <4>5. \A v \in DOMAIN posts' : IsPost(posts'[v], v)
        BY <2>0, <4>3, <4>4
      <4> QED
        BY <2>a, <3>2, <3>3, <4>5 DEF PostInv
    <3> QED
      BY <3>4, <3>5
  <2> QED
    BY <1>1, <2>1, <2>2, <2>3 DEF Rescoring
<1>2. CASE ~Rescoring /\ Next
  <2>1. rescorer' = rescorer /\ posts' = posts
    <3>1. CASE Snapshotting
      BY <3>1, SnapshotEffect DEF others
    <3>2. CASE Contracting
      BY <3>2 DEF Contracting, ReadTasks, PinIndex, ComposePaired, ComposeBaseOnly, Conclude,
         WriteContract, ValidateContract, PinSplits, PinDigest, CheckPin, others
    <3>3. CASE Evaluating
      BY <3>3 DEF Evaluating, Bind, Iterate, GenerateBase, LoadSft, GenerateSft, Stage, Rename, others
    <3>4. CASE Editing
      BY <3>4 DEF Editing, EditArtifact, ReplaceSplit, TakeDestination, EditBundle, quiet
    <3> QED
      BY <1>2, <3>1, <3>2, <3>3, <3>4 DEF Next
  <2>2. CASE ~IsPaired(dest)
    BY <2>1, <2>2 DEF PostInv
  <2>3. CASE IsPaired(dest)
    <3>1. IsPaired(dest') /\ dest'.contract = dest.contract
      <4>1. CASE dest' = dest
        BY <2>3, <4>1
      <4>2. CASE \E arm \in Arms : LET s == dest[arm].generations
                                   IN  s # <<>> /\ \E lines \in Lines(s) : Edited(arm, lines)
        <5>1. PICK arm \in Arms : \E lines \in Lines(dest[arm].generations) :
                                     dest[arm].generations # <<>> /\ Edited(arm, lines)
          BY <4>2
        <5>2. PICK lines \in Lines(dest[arm].generations) :
                      dest[arm].generations # <<>> /\ Edited(arm, lines)
          BY <5>1
        <5>3. IsList(lines)
          BY <2>3, <5>2, LinesList DEF DestInv
        <5> QED
          BY <2>3, <5>2, <5>3, EditedBundle
      <4> QED
        BY <2>3, <4>1, <4>2, DestEffect
    <3>2. \A post, version : IsPost(post, version)' <=> IsPost(post, version)
      BY <3>1 DEF IsPost, CoversContract
    <3> QED
      BY <2>1, <2>3, <3>1, <3>2 DEF PostInv
  <2> QED
    BY <2>2, <2>3
<1>3. CASE UNCHANGED vars
  <2>1. dest' = dest /\ rescorer' = rescorer /\ posts' = posts
    BY <1>3 DEF vars
  <2>2. \A post, version : IsPost(post, version)' <=> IsPost(post, version)
    BY <2>1 DEF IsPost, CoversContract
  <2> QED
    BY <2>1, <2>2 DEF PostInv
<1> QED
  BY <1>1, <1>2, <1>3

LEMMA PinStep ==
  ASSUME FlowInv, PinInv, [Next]_vars
  PROVE  PinInv'
<1>0. DOMAIN run = RunFields
  BY DEF FlowInv
<1>a. ASSUME run'.pc \notin {"checkPin", "pinned"} PROVE PinInv'
  BY <1>a DEF PinInv, ValidatedPinIsOneManifest
<1>b. ASSUME run'.pc = run.pc, dest' = dest PROVE PinInv'
  BY <1>b DEF PinInv, ValidatedPinIsOneManifest
<1>c. ASSUME run' = run, dest # Free => dest' = dest \/ IsPaired(dest) PROVE PinInv'
  <2>1. CASE run.pc \in {"checkPin", "pinned"}
    <3>1. DOMAIN dest = {"contract"}
      BY <2>1 DEF PinInv
    <3>2. dest # Free /\ ~IsPaired(dest)
      BY <3>1 DEF Free, IsPaired
    <3> QED
      BY <1>c, <3>2, <1>b
  <2>2. CASE run.pc \notin {"checkPin", "pinned"}
    BY <1>a, <1>c, <2>2
  <2> QED
    BY <2>1, <2>2
<1>1. CASE Snapshotting
  <2>1. run'.pc \in {"failed", "scanning", "rescanning", "recheck", "copying", "rescan"}
    BY <1>1, SnapshotEffect DEF Failing, ScanEffect, EntryEffect, IndexEffect, RecheckEffect,
       CopyEffect, LayoutEffect, Keeps, RunFields
  <2> QED
    BY <2>1, <1>a
<1>2. CASE Evaluating \/ (Contracting /\ ~PinDigest /\ ~CheckPin)
  <2>1. run'.pc \notin {"checkPin", "pinned"}
    BY <1>2, Elsewhere
  <2> QED
    BY <2>1, <1>a
<1>3. CASE PinDigest
  <2>1. \/ run'.pc = "failed"
        \/ /\ run'.pc = "checkPin"
           /\ \E contract : dest' = [contract |-> contract]
    BY <1>0, <1>3 DEF PinDigest, Fails, RunFields
  <2>2. \A contract : DOMAIN [contract |-> contract] = {"contract"}
    OBVIOUS
  <2> QED
    BY <2>1, <2>2, <1>a DEF PinInv, ValidatedPinIsOneManifest
<1>4. CASE CheckPin
  <2>1. dest' = dest /\ DOMAIN dest = {"contract"}
    BY <1>4 DEF CheckPin, PinInv
  <2>2. \/ run'.pc = "failed"
        \/ /\ split = dest.contract.manifest
           /\ split.rows = dest.contract.rows /\ split.train = dest.contract.train
    BY <1>0, <1>4 DEF CheckPin, Fails, RunFields
  <2> QED
    BY <2>1, <2>2, <1>a DEF PinInv, ValidatedPinIsOneManifest
<1>5. CASE Rescoring \/ EditArtifact \/ ReplaceSplit \/ TakeDestination
  <2>1. run' = run /\ (dest # Free => dest' = dest)
    BY <1>5 DEF Rescoring, ReadGenerations, ReadSecond, Rescore, EditArtifact, ReplaceSplit,
       TakeDestination, quiet, unscored
  <2> QED
    BY <2>1, <1>c
<1>6. CASE EditBundle
  <2>1. run' = run /\ IsPaired(dest)
    BY <1>6 DEF EditBundle, quiet
  <2> QED
    BY <2>1, <1>c
<1>7. CASE UNCHANGED vars
  BY <1>7, <1>b DEF vars
<1> QED
  BY <1>1, <1>2, <1>3, <1>4, <1>5, <1>6, <1>7 DEF Next, Contracting, Editing

-----------------------------------------------------------------------------
(* Fenced replies *)

\* The least and the greatest index of a set of them.
LEMMA LeastIndex ==
  ASSUME NEW I, I \subseteq Int, NEW i \in I, \A j \in I : i <= j
  PROVE  Min(I) = i
<1>1. \A y \in I : (\A j \in I : y <= j) => y = i
  BY SMT
<1> QED
  BY <1>1 DEF Min

LEMMA GreatestIndex ==
  ASSUME NEW n \in Nat, NEW I, I \subseteq 1..n, I # {}
  PROVE  Max(I) \in I /\ \A j \in I : j <= Max(I)
<1> DEFINE Above == {k \in Nat : n - k \in I}
<1>1. Above \subseteq Nat /\ Above # {}
  <2>1. PICK i \in I : TRUE
    OBVIOUS
  <2>2. n - i \in Nat /\ n - (n - i) = i
    OBVIOUS
  <2> QED
    BY <2>1, <2>2
<1>2. PICK k \in Above : \A j \in Above : ~(j < k)
  <2> HIDE DEF Above
  <2>1. \E k \in Above : \A j \in Above : ~(<<j, k>> \in OpToRel(<, Nat))
    BY <1>1, NatLessThanWellFounded, WFMin
  <2> QED
    BY <1>1, <2>1 DEF OpToRel
<1>3. n - k \in I /\ \A j \in I : j <= n - k
  <2>1. ASSUME NEW j \in I PROVE j <= n - k
    <3>1. n - j \in Nat /\ n - (n - j) = j
      OBVIOUS
    <3>2. n - j \in Above
      BY <3>1
    <3> QED
      BY <1>2, <3>1, <3>2
  <2> QED
    BY <1>2, <2>1
<1>4. \E x \in I : \A j \in I : j <= x
  BY <1>3
<1> QED
  BY <1>4 DEF Max

\* normalize_completion cuts after the last line that is not blank.
LEMMA NormalizedText ==
  ASSUME NEW S, NEW s \in Seq(S)
  PROVE  /\ \E n \in 0..Len(s) : /\ Normalized(s) = SubSeq(s, 1, n)
                                 /\ \A i \in 1..Len(s) : ~IsBlank(s[i]) => i <= n
         /\ Normalized(s) \in Seq(S)
<1> DEFINE I == {i \in 1..Len(s) : ~IsBlank(s[i])}
           n == IF I # {} THEN Max(I) ELSE 0
<1>1. Len(s) \in Nat
  BY LenProperties
<1>2. Normalized(s) = SubSeq(s, 1, n)
  BY DEF Normalized, SelectLastInSeq
<1>3. I \subseteq 1..Len(s)
  OBVIOUS
<1>4. n \in 0..Len(s) /\ \A i \in I : i <= n
  <2>1. CASE I = {}
    BY <1>1, <2>1
  <2>2. CASE I # {}
    <3> HIDE DEF I
    <3>1. Max(I) \in I /\ \A j \in I : j <= Max(I)
      BY <1>1, <1>3, <2>2, GreatestIndex
    <3>2. n = Max(I)
      BY <2>2
    <3> HIDE DEF n
    <3>3. n \in I /\ \A j \in I : j <= n
      BY <3>1, <3>2
    <3>4. n \in 0..Len(s)
      BY <1>1, <1>3, <3>3
    <3> QED
      BY <3>3, <3>4
  <2> QED
    BY <2>1, <2>2
<1>5. \A i \in 1..Len(s) : ~IsBlank(s[i]) => i <= n
  BY <1>4
<1> HIDE DEF n, I
<1>6. \A i \in 1..n : s[i] \in S
  BY <1>1, <1>4, ElementOfSeq
<1>7. SubSeq(s, 1, n) \in Seq(S)
  BY <1>1, <1>4, <1>6, SubSeqProperties
<1> QED
  BY <1>2, <1>4, <1>5, <1>7

\* A text that does not begin with a blank line has no leading blanks.
LEMMA NoLeadingBlanks ==
  ASSUME NEW S, NEW s \in Seq(S), s # <<>>, ~IsBlank(s[1])
  PROVE  WithoutLeadingBlanks(s) = s
<1> DEFINE I == {i \in 1..Len(s) : ~IsBlank(s[i])}
<1>1. Len(s) \in Nat /\ Len(s) >= 1
  <2>1. Len(s) \in Nat
    BY LenProperties
  <2>2. Len(s) # 0
    BY EmptySeq
  <2> QED
    BY <2>1, <2>2
<1>2. 1 \in I /\ I \subseteq Int /\ \A j \in I : 1 <= j
  BY <1>1
<1>3. WithoutLeadingBlanks(s) = LET first == IF I # {} THEN Min(I) ELSE 0
                                IN  IF first = 0 THEN <<>> ELSE SubSeq(s, first, Len(s))
  BY DEF WithoutLeadingBlanks, SelectInSeq
<1> HIDE DEF I
<1>4. Min(I) = 1
  BY <1>2, LeastIndex
<1>5. WithoutLeadingBlanks(s) = SubSeq(s, 1, Len(s))
  BY <1>2, <1>3, <1>4
<1>6. SubSeq(s, 1, Len(s)) = s
  BY SubSeqFull
<1> QED
  BY <1>5, <1>6

\* Without its leading blanks a text is empty, or begins with a line that is not
\* blank.
LEMMA LeadingBlanksGo ==
  ASSUME NEW S, NEW s \in Seq(S)
  PROVE  LET p == WithoutLeadingBlanks(s)
         IN  p \in Seq(S) /\ (p # <<>> => ~IsBlank(p[1]))
<1> DEFINE I == {i \in 1..Len(s) : ~IsBlank(s[i])}
           p == WithoutLeadingBlanks(s)
<1>1. Len(s) \in Nat
  BY LenProperties
<1>2. p = LET first == IF I # {} THEN Min(I) ELSE 0
          IN  IF first = 0 THEN <<>> ELSE SubSeq(s, first, Len(s))
  BY DEF WithoutLeadingBlanks, SelectInSeq
<1> HIDE DEF p
<1>3. CASE I = {}
  <2>1. p = <<>>
    BY <1>2, <1>3
  <2> QED
    BY <2>1 DEF p
<1>4. CASE I # {}
  <2> DEFINE first == Min(I)
  <2>1. \E x \in I : \A j \in I : x <= j
    <3>1. IsWellFoundedOn(OpToRel(<, Nat), Nat)
      BY NatLessThanWellFounded
    <3>2. I \subseteq Nat
      BY <1>1
    <3> HIDE DEF I
    <3>3. PICK x \in I : \A j \in I : ~(<<j, x>> \in OpToRel(<, Nat))
      BY <1>4, <3>1, <3>2, WFMin
    <3>4. ASSUME NEW j \in I PROVE x <= j
      <4>1. j \in Nat /\ x \in Nat /\ ~(j < x)
        BY <3>2, <3>3 DEF OpToRel
      <4> QED
        BY <4>1
    <3> QED
      BY <3>4
  <2>2. first \in I
    BY <2>1 DEF Min
  <2>3. first \in 1..Len(s) /\ ~IsBlank(s[first])
    BY <2>2
  <2> HIDE DEF I, first
  <2>4. p = SubSeq(s, first, Len(s))
    <3>1. first # 0
      BY <1>1, <2>3
    <3>2. p = IF first = 0 THEN <<>> ELSE SubSeq(s, first, Len(s))
      BY <1>2, <1>4 DEF first
    <3> QED
      BY <3>1, <3>2
  <2>5. \A i \in first..Len(s) : s[i] \in S
    BY <1>1, <2>3, ElementOfSeq
  <2>6. /\ p \in Seq(S)
        /\ \A i \in 1..Len(s) - first + 1 : p[i] = s[first + i - 1]
    BY <1>1, <2>3, <2>4, <2>5, SubSeqProperties
  <2>7. p[1] = s[first]
    <3>1. 1 \in 1..Len(s) - first + 1 /\ first + 1 - 1 = first
      BY <1>1, <2>3
    <3> QED
      BY <2>6, <3>1
  <2> QED
    BY <2>3, <2>6, <2>7 DEF p
<1> QED
  BY <1>3, <1>4

LEMMA EmptyText ==
  Normalized(<<>>) = <<>> /\ WithoutLeadingBlanks(<<>>) = <<>> /\ FencedCode(<<>>) = <<>>
<1>1. <<>> \in Seq({}) /\ Len(<<>>) = 0
  BY EmptySeq
<1>2. WithoutLeadingBlanks(<<>>) = <<>>
  <2>1. {i \in 1..Len(<<>>) : ~IsBlank(<<>>[i])} = {}
    BY <1>1
  <2> QED
    BY <2>1 DEF WithoutLeadingBlanks, SelectInSeq
<1>3. Normalized(<<>>) = <<>>
  <2>1. PICK n \in 0..0 : Normalized(<<>>) = SubSeq(<<>>, 1, n)
    BY <1>1, NormalizedText
  <2>2. n = 0
    OBVIOUS
  <2>3. SubSeq(<<>>, 1, 0) = <<>>
    OBVIOUS
  <2> QED
    BY <2>1, <2>2, <2>3
<1> QED
  BY <1>2, <1>3 DEF FencedCode

\* A text whose first line that is not blank opens no fence is its own code.
LEMMA UnfencedCode ==
  ASSUME NEW S, NEW s \in Seq(S), LET p == WithoutLeadingBlanks(s) IN p # <<>> => ~Opens(p[1])
  PROVE  LET p == WithoutLeadingBlanks(s) IN FencedCode(p) = Normalized(p)
<1> DEFINE p == WithoutLeadingBlanks(s)
           q == Normalized(p)
<1>1. p \in Seq(S) /\ (p # <<>> => ~IsBlank(p[1]) /\ ~Opens(p[1]))
  BY LeadingBlanksGo
<1> HIDE DEF p
<1>2. CASE p = <<>>
  BY <1>2, EmptyText DEF p
<1>3. CASE p # <<>>
  <2>1. Len(p) \in Nat /\ Len(p) # 0
    BY <1>1, <1>3, LenProperties, EmptySeq
  <2>2. PICK n \in 0..Len(p) : q = SubSeq(p, 1, n) /\ \A i \in 1..Len(p) : ~IsBlank(p[i]) => i <= n
    BY <1>1, NormalizedText
  <2>3. n \in 1..Len(p)
    BY <1>1, <1>3, <2>1, <2>2
  <2> HIDE DEF q
  <2>4. \A i \in 1..n : p[i] \in S
    BY <1>1, <2>1, <2>3, ElementOfSeq
  <2>5. q \in Seq(S) /\ Len(q) = n /\ \A i \in 1..n : q[i] = p[i]
    BY <1>1, <2>1, <2>2, <2>3, <2>4, SubSeqProperties
  <2>6. q # <<>> /\ q[1] = p[1] /\ Head(q) = q[1]
    BY <2>3, <2>5, EmptySeq
  <2>7. WithoutLeadingBlanks(q) = q
    BY <1>1, <1>3, <2>5, <2>6, NoLeadingBlanks
  <2> QED
    BY <1>1, <1>3, <2>6, <2>7 DEF FencedCode, p, q
<1> QED
  BY <1>2, <1>3

\* Where the lines of a wrapped text are.
LEMMA WrappedText ==
  ASSUME NEW S, LongFences \subseteq S, NEW t \in Seq(S), NEW chatter \in Seq(S)
  PROVE  LET w == Wrapped(t, chatter)
             n == Len(t)
         IN  /\ w \in Seq(S) /\ n \in Nat /\ Len(w) \in Nat /\ Len(w) >= n + 2
             /\ w[1] = OpeningFence /\ w[n + 2] = LongFence
             /\ \A i \in 1..n : w[i + 1] = t[i]
<1> DEFINE n == Len(t)
           m == Len(chatter)
           o == OpeningFence
           a == <<o>> \o t
           b == a \o <<LongFence>>
           w == b \o chatter
<1>1. n \in Nat /\ m \in Nat
  BY LenProperties
<1>2. o \in S /\ LongFence \in S
  BY DEF LongFences
<1> HIDE DEF o
<1>3. <<o>> \in Seq(S) /\ Len(<<o>>) = 1 /\ <<o>>[1] = o
      /\ <<LongFence>> \in Seq(S) /\ Len(<<LongFence>>) = 1 /\ <<LongFence>>[1] = LongFence
  BY <1>2
<1>4. /\ a \in Seq(S) /\ Len(a) = n + 1
      /\ a[1] = o /\ \A i \in 1..n : a[i + 1] = t[i]
  <2>1. /\ a \in Seq(S) /\ Len(a) = 1 + n
        /\ \A i \in 1..1 + n : a[i] = IF i <= 1 THEN <<o>>[i] ELSE t[i - 1]
    BY <1>3, ConcatProperties
  <2> HIDE DEF a
  <2>2. a[1] = o
    BY <1>1, <1>3, <2>1
  <2>3. \A i \in 1..n : a[i + 1] = t[i]
    <3> SUFFICES ASSUME NEW i \in 1..n PROVE a[i + 1] = t[i]
      OBVIOUS
    <3>1. i + 1 \in 1..1 + n /\ ~(i + 1 <= 1) /\ (i + 1) - 1 = i
      BY <1>1
    <3> QED
      BY <2>1, <3>1
  <2> QED
    BY <1>1, <2>1, <2>2, <2>3
<1> HIDE DEF a
<1>5. /\ b \in Seq(S) /\ Len(b) = n + 2 /\ b[n + 2] = LongFence
      /\ \A i \in 1..n + 1 : b[i] = a[i]
  <2>1. /\ b \in Seq(S) /\ Len(b) = (n + 1) + 1
        /\ \A i \in 1..(n + 1) + 1 : b[i] = IF i <= n + 1 THEN a[i] ELSE <<LongFence>>[i - (n + 1)]
    BY <1>3, <1>4, ConcatProperties
  <2> HIDE DEF b
  <2>2. b[n + 2] = LongFence
    <3>1. n + 2 \in 1..(n + 1) + 1 /\ ~(n + 2 <= n + 1) /\ (n + 2) - (n + 1) = 1
      BY <1>1
    <3> QED
      BY <1>3, <2>1, <3>1
  <2> QED
    BY <1>1, <2>1, <2>2
<1> HIDE DEF b
<1>6. /\ w \in Seq(S) /\ Len(w) = (n + 2) + m
      /\ \A i \in 1..n + 2 : w[i] = b[i]
  <2>0. /\ w \in Seq(S) /\ Len(w) = Len(b) + Len(chatter)
        /\ \A i \in 1..Len(b) + Len(chatter) :
              w[i] = IF i <= Len(b) THEN b[i] ELSE chatter[i - Len(b)]
    BY <1>5, ConcatProperties
  <2>1. /\ w \in Seq(S) /\ Len(w) = (n + 2) + m
        /\ \A i \in 1..(n + 2) + m : w[i] = IF i <= n + 2 THEN b[i] ELSE chatter[i - (n + 2)]
    BY <1>5, <2>0
  <2> HIDE DEF w
  <2> QED
    BY <1>1, <2>1
<1> HIDE DEF w
<1>7. w = Wrapped(t, chatter)
  BY DEF w, b, a, o, Wrapped
<1>8. w[1] = o /\ w[n + 2] = LongFence
  BY <1>1, <1>4, <1>5, <1>6
<1>9. \A i \in 1..n : w[i + 1] = t[i]
  <2> SUFFICES ASSUME NEW i \in 1..n PROVE w[i + 1] = t[i]
    OBVIOUS
  <2>1. i + 1 \in 1..n + 1 /\ i + 1 \in 1..n + 2
    BY <1>1
  <2> QED
    BY <1>4, <1>5, <1>6, <2>1
<1> HIDE DEF n
<1> QED
  BY <1>1, <1>6, <1>7, <1>8, <1>9 DEF n, o

\* Wrapping a text in a fence longer than any in it does not change its code.
LEMMA WrappedCode ==
  ASSUME NEW S, LongFences \subseteq S, NEW t \in Seq(S), NEW chatter \in Seq(S),
         \A i \in 1..Len(t) : t[i].run \in 0..(LongFence.run - 1)
  PROVE  FencedCode(Wrapped(t, chatter)) = Normalized(WithoutLeadingBlanks(t))
<1> DEFINE w == Wrapped(t, chatter)
           n == Len(t)
           o == OpeningFence
           v == Normalized(w)
<1>1. /\ w \in Seq(S) /\ n \in Nat /\ Len(w) \in Nat /\ Len(w) >= n + 2
      /\ w[1] = o /\ w[n + 2] = LongFence
      /\ \A i \in 1..n : w[i + 1] = t[i]
  BY WrappedText
<1>2. /\ LongFence.mark = "backtick" /\ LongFence.run = 9 /\ LongFence.info = FALSE
      /\ o.mark = "backtick" /\ o.run = 9
  BY DEF LongFence, OpeningFence
<1> HIDE DEF w, o, n
<1>3. PICK m \in 0..Len(w) : v = SubSeq(w, 1, m) /\ \A i \in 1..Len(w) : ~IsBlank(w[i]) => i <= m
  BY <1>1, NormalizedText
<1>4. m >= n + 2 /\ m \in 1..Len(w)
  <2>1. n + 2 \in 1..Len(w) /\ ~IsBlank(w[n + 2])
    BY <1>1, <1>2 DEF IsBlank
  <2> QED
    BY <1>1, <1>3, <2>1
<1> HIDE DEF v
<1>5. v \in Seq(S) /\ Len(v) = m /\ \A i \in 1..m : v[i] = w[i]
  <2>1. \A i \in 1..m : w[i] \in S
    BY <1>1, <1>4, ElementOfSeq
  <2> QED
    BY <1>1, <1>3, <1>4, <2>1, SubSeqProperties
<1>6. v # <<>> /\ v[1] = o /\ Head(v) = o
  BY <1>1, <1>4, <1>5, EmptySeq
<1>7. WithoutLeadingBlanks(v) = v
  <2>1. ~IsBlank(v[1])
    BY <1>2, <1>6 DEF IsBlank
  <2> QED
    BY <1>5, <1>6, <2>1, NoLeadingBlanks
<1> DEFINE body == Tail(v)
           I == {i \in 1..Len(body) : Closes(body[i], Head(v))}
<1>8. body \in Seq(S) /\ Len(body) = m - 1 /\ \A i \in 1..m - 1 : body[i] = w[i + 1]
  <2>1. /\ body \in Seq(S) /\ Len(body) = Len(v) - 1
        /\ \A i \in 1..Len(body) : body[i] = v[i + 1]
    BY <1>5, <1>6, HeadTailProperties
  <2> HIDE DEF body
  <2>2. Len(body) = m - 1
    BY <1>5, <2>1
  <2>3. ASSUME NEW i \in 1..m - 1 PROVE body[i] = w[i + 1]
    <3>1. i + 1 \in 1..m /\ i \in 1..Len(body)
      BY <1>1, <1>4, <2>2
    <3> QED
      BY <1>5, <2>1, <3>1
  <2> QED
    BY <2>1, <2>2, <2>3
<1> HIDE DEF body
<1>9. n + 1 \in I
  <2>1. n + 1 \in 1..m - 1 /\ (n + 1) + 1 = n + 2
    BY <1>1, <1>4
  <2>2. body[n + 1] = LongFence
    BY <1>1, <1>8, <2>1
  <2> QED
    BY <1>2, <1>6, <1>8, <2>1, <2>2 DEF Closes
<1>10. ASSUME NEW i \in I PROVE n + 1 <= i
  <2>1. i \in 1..m - 1 /\ Closes(body[i], o)
    BY <1>6, <1>8
  <2>2. CASE i <= n
    <3>1. i \in 1..n
      BY <1>1, <2>1, <2>2
    <3>2. body[i] = t[i]
      BY <1>1, <1>8, <2>1, <3>1
    <3>3. t[i].run \in 0..8
      BY <1>2, <3>1 DEF n
    <3> QED
      BY <1>2, <2>1, <3>2, <3>3 DEF Closes
  <2> QED
    BY <1>1, <2>1, <2>2
<1>11. Min(I) = n + 1
  <2>1. I \subseteq Int
    BY <1>8
  <2> HIDE DEF I
  <2> QED
    BY <1>9, <1>10, <2>1, LeastIndex
<1>12. SubSeq(body, 1, n) = t
  <2>1. ASSUME NEW i \in 1..n PROVE body[i] = t[i] /\ t[i] \in S
    <3>1. i \in 1..m - 1
      BY <1>1, <1>4
    <3> QED
      BY <1>1, <1>8, <3>1, ElementOfSeq DEF n
  <2>2. /\ SubSeq(body, 1, n) \in Seq(S)
        /\ Len(SubSeq(body, 1, n)) = IF 1 <= n THEN n - 1 + 1 ELSE 0
        /\ \A i \in 1..n - 1 + 1 : SubSeq(body, 1, n)[i] = body[1 + i - 1]
    BY <1>1, <2>1, SubSeqProperties, SMTT(20)
  <2>3. Len(SubSeq(body, 1, n)) = n /\ \A i \in 1..n : SubSeq(body, 1, n)[i] = t[i]
    BY <1>1, <2>1, <2>2
  <2> QED
    BY <2>2, <2>3, SeqEqual DEF n
<1>13. SelectInSeq(body, LAMBDA line : Closes(line, Head(v))) = n + 1
  <2>1. I # {}
    BY <1>9
  <2> QED
    BY <1>11, <2>1 DEF SelectInSeq
<1>14. FencedCode(w) = LET close == SelectInSeq(body, LAMBDA line : Closes(line, Head(v)))
                       IN  Normalized(WithoutLeadingBlanks(
                             IF close = 0 THEN body ELSE SubSeq(body, 1, close - 1)))
  <2>1. Opens(o)
    BY <1>2 DEF Opens
  <2> QED
    BY <1>6, <1>7, <2>1 DEF FencedCode, v, body
<1>15. n + 1 # 0 /\ (n + 1) - 1 = n
  BY <1>1
<1> QED
  BY <1>12, <1>13, <1>14, <1>15 DEF w

-----------------------------------------------------------------------------
(* The texts of a run *)

TaskHolds(task) == task.status = "ok" => task.expected \in TextsOf(scenario)

IsReply(g) ==
    /\ g = [task |-> g.task, prompt |-> g.prompt, expected |-> g.expected,
            status |-> g.status, completion |-> g.completion]
    /\ g.status = "ok" => g.expected \in TextsOf(scenario) /\ g.completion \in TextsOf(scenario)

\* A ready task expects, and is answered with, texts of the scenario.
TextInv ==
    /\ \A k \in 1..Len(run.prepared) : TaskHolds(run.prepared[k])
    /\ \A k \in 1..Len(run.base) : IsReply(run.base[k])

LEMMA TextInit == Init => TextInv
<1> SUFFICES ASSUME Init PROVE TextInv
  OBVIOUS
<1>1. run.prepared = <<>> /\ run.base = <<>> /\ Len(<<>>) = 0
  BY EmptySeq DEF Init, NewRun
<1>2. 1..0 = {}
  OBVIOUS
<1> QED
  BY <1>1, <1>2 DEF TextInv

\* prepare_tasks: a ready task expects what its row does.
LEMMA PreparedText ==
  ASSUME FlowInv, NEW k \in 1..Len(split.rows)
  PROVE  TaskHolds(Prepared(split.rows[k]))
<1> DEFINE row == split.rows[k]
<1>1. row \in Range(split.rows)
  <2>1. DOMAIN split.rows = 1..Len(split.rows)
    BY SplitRows, ListProperties
  <2> QED
    BY <2>1 DEF Range
<1>2. split \in {scenario.split} \cup scenario.splits
  BY DEF FlowInv
<1> HIDE DEF row
<1>3. ASSUME row.bounded PROVE row.expected \in TextsOf(scenario)
  BY <1>1, <1>2, <1>3 DEF TextsOf
<1>4. CASE row.bounded
  BY <1>3, <1>4 DEF TaskHolds, Prepared, row
<1>5. CASE ~row.bounded
  BY <1>5 DEF TaskHolds, Prepared, row
<1> QED
  BY <1>4, <1>5

LEMMA TextStep ==
  ASSUME FlowInv, ArmInv, TextInv, [Next]_vars
  PROVE  TextInv'
<1>0. DOMAIN run = RunFields
  BY DEF FlowInv
<1>a. ASSUME scenario' = scenario, run'.prepared = run.prepared, run'.base = run.base PROVE TextInv'
  BY <1>a DEF TextInv, TaskHolds, IsReply
<1>b. CASE Fails /\ scenario' = scenario
  BY <1>0, <1>a, <1>b DEF Fails, RunFields
<1>1. CASE Snapshotting
  <2>1. scenario' = scenario
    BY <1>1, SnapshotEffect DEF others
  <2>2. Holds({"prepared", "base"})
    <3>1. CASE Failing
      BY <3>1 DEF Failing, Keeps, RunFields, Holds
    <3>2. CASE ScanEffect
      BY <3>2 DEF ScanEffect, Keeps, RunFields, Holds
    <3>3. CASE EntryEffect
      BY <3>3 DEF EntryEffect, Keeps, RunFields, Holds
    <3>4. CASE IndexEffect \/ RecheckEffect \/ LayoutEffect
      BY <3>4 DEF IndexEffect, RecheckEffect, LayoutEffect, Keeps, RunFields, Holds
    <3>5. CASE CopyEffect
      BY <3>5 DEF CopyEffect, Keeps, RunFields, Holds
    <3> QED
      BY <1>1, <3>1, <3>2, <3>3, <3>4, <3>5, SnapshotEffect
  <2> QED
    BY <2>1, <2>2, <1>a DEF Holds
<1>2. CASE Contracting
  <2>1. scenario' = scenario
    BY <1>2 DEF Contracting, ReadTasks, PinIndex, ComposePaired, ComposeBaseOnly, Conclude,
                WriteContract, ValidateContract, PinSplits, PinDigest, CheckPin, others
  <2>2. CASE ReadTasks \/ PinIndex \/ ComposePaired \/ ComposeBaseOnly
    BY <1>0, <1>a, <1>b, <2>1, <2>2 DEF ReadTasks, PinIndex, ComposePaired, ComposeBaseOnly, RunFields
  <2>3. CASE WriteContract \/ ValidateContract \/ PinSplits \/ PinDigest \/ CheckPin
    BY <1>0, <1>a, <1>b, <2>1, <2>3 DEF WriteContract, ValidateContract, PinSplits, PinDigest,
       CheckPin, RunFields
  <2>4. CASE Conclude
    BY <1>0, <1>a, <1>b, <2>1, <2>4 DEF Conclude, RunFields
  <2> QED
    BY <1>2, <2>2, <2>3, <2>4 DEF Contracting
<1>3. CASE Bind \/ LoadSft \/ GenerateSft \/ Stage \/ Rename
  <2>1. scenario' = scenario
    BY <1>3 DEF Bind, LoadSft, GenerateSft, Stage, Rename, others
  <2>2. CASE Bind \/ LoadSft
    BY <1>0, <1>a, <1>b, <2>1, <2>2 DEF Bind, LoadSft, RunFields
  <2>3. CASE GenerateSft
    <3>1. PICK answers : run' = [run EXCEPT !.sft = Generations(answers), !.pc = "publish"]
      BY <2>3 DEF GenerateSft
    <3> QED
      BY <1>0, <1>a, <2>1, <3>1 DEF RunFields
  <2>4. CASE Stage \/ Rename
    BY <1>0, <1>a, <1>b, <2>1, <2>4 DEF Stage, Rename, RunFields
  <2> QED
    BY <1>3, <2>2, <2>3, <2>4
<1>4. CASE Iterate
  <2>1. scenario' = scenario
    BY <1>4 DEF Iterate, others
  <2>2. CASE ~Fails
    <3>1. /\ run'.prepared = [k \in 1..Len(split.rows) |-> Prepared(split.rows[k])]
          /\ run'.base = run.base
      BY <1>0, <1>4, <2>2 DEF Iterate, RunFields
    <3>2. Len(run'.prepared) = Len(split.rows)
      <4>1. Len(split.rows) \in Nat
        BY SplitRows, ListProperties
      <4> QED
        BY <3>1, <4>1, ListFunction
    <3>3. \A k \in 1..Len(run'.prepared) : TaskHolds(run'.prepared[k])
      BY <3>1, <3>2, PreparedText
    <3> QED
      BY <2>1, <3>1, <3>3 DEF TextInv, TaskHolds, IsReply
  <2> QED
    BY <1>b, <2>1, <2>2
<1>5. CASE GenerateBase
  <2>1. scenario' = scenario
    BY <1>5 DEF GenerateBase, others
  <2>2. PICK answers \in Answers :
           run' = [run EXCEPT !.base = Generations(answers),
                              !.pc = IF scenario.command = "g0" THEN "publish" ELSE "load"]
    BY <1>5 DEF GenerateBase
  <2>3. run'.base = Generations(answers) /\ run'.prepared = run.prepared
    BY <1>0, <2>2 DEF RunFields
  <2>4. IsList(run.prepared)
    BY <1>5 DEF GenerateBase, ArmInv
  <2> DEFINE n == Len(run.prepared)
  <2>5. n \in Nat
    BY <2>4, ListProperties
  <2>6. Len(run'.base) = n /\ \A k \in 1..n : run'.base[k] = Generations(answers)[k]
    <3>1. Generations(answers) = [k \in 1..n |-> Generations(answers)[k]]
      BY DEF Generations
    <3> QED
      BY <2>3, <2>5, <3>1, ListFunction
  <2>7. ASSUME NEW k \in 1..n PROVE IsReply(run'.base[k])
    <3> DEFINE task == run.prepared[k]
               answer == answers[k]
    <3>1. run'.base[k] = [task |-> task.task, prompt |-> task.prompt, expected |-> task.expected,
                          status |-> task.status,
                          completion |-> IF task.status = "ok" THEN answer ELSE Missing]
      BY <2>6 DEF Generations
    <3>2. TaskHolds(task)
      BY DEF TextInv
    <3>3. answer \in TextsOf(scenario)
      BY DEF Answers, TextsOf
    <3> HIDE DEF task, answer
    <3> QED
      BY <3>1, <3>2, <3>3 DEF IsReply, TaskHolds
  <2> QED
    BY <2>1, <2>3, <2>6, <2>7 DEF TextInv, TaskHolds, IsReply
<1>6. CASE Rescoring \/ Editing
  <2>1. run' = run /\ scenario' = scenario
    BY <1>6 DEF Rescoring, ReadGenerations, ReadSecond, Rescore, Editing, EditArtifact, ReplaceSplit,
                TakeDestination, EditBundle, quiet, unscored
  <2> QED
    BY <2>1, <1>a
<1>7. CASE UNCHANGED vars
  BY <1>7, <1>a DEF vars
<1> QED
  BY <1>1, <1>2, <1>3, <1>4, <1>5, <1>6, <1>7 DEF Next, Evaluating

-----------------------------------------------------------------------------
(* One verdict however a reply is wrapped *)

\* extract_fenced_code: a reply and the same reply in a longer fence get one
\* verdict.
LEMMA WrappedVerdict ==
  ASSUME NEW S, LongFences \subseteq S, Missing \notin Seq(S),
         NEW g, IsReply(g), ~Unscorable(g), g.completion \in Seq(S), NEW chatter \in Seq(S),
         \A i \in 1..Len(g.completion) : g.completion[i].run \in 0..(LongFence.run - 1),
         g.completion # <<>>,
         ~Opens(Head(WithoutLeadingBlanks(g.completion) \o g.completion))
  PROVE  Verdict([g EXCEPT !.completion = Wrapped(@, chatter)], "exact-match-v2")
           = Verdict([g EXCEPT !.completion = WithoutLeadingBlanks(@)], "exact-match-v2")
<1> DEFINE t == g.completion
           p == WithoutLeadingBlanks(t)
           w == Wrapped(t, chatter)
           wrapped == [g EXCEPT !.completion = w]
           plain == [g EXCEPT !.completion = p]
<1>1. /\ wrapped.completion = w /\ wrapped.expected = g.expected /\ wrapped.status = g.status
      /\ plain.completion = p /\ plain.expected = g.expected /\ plain.status = g.status
  <2>1. DOMAIN g = {"task", "prompt", "expected", "status", "completion"}
    BY DEF IsReply
  <2> HIDE DEF w, p
  <2> QED
    BY <2>1
<1> HIDE DEF wrapped, plain
<1>2. w \in Seq(S) /\ p \in Seq(S)
  BY WrappedText, LeadingBlanksGo
<1>3. ~Unscorable(wrapped) /\ ~Unscorable(plain)
  <2> HIDE DEF w, p
  <2> QED
    BY <1>1, <1>2 DEF Unscorable
<1>4. FencedCode(w) = Normalized(p)
  BY WrappedCode
<1>5. FencedCode(p) = Normalized(p)
  <2>1. p # <<>> => ~Opens(p[1])
    <3> SUFFICES ASSUME p # <<>> PROVE ~Opens(p[1])
      OBVIOUS
    <3> HIDE DEF p
    <3>0. Len(p) \in Nat /\ Len(p) # 0 /\ Len(t) \in Nat
      BY <1>2, LenProperties, EmptySeq
    <3>1. /\ p \o t \in Seq(S) /\ Len(p \o t) = Len(p) + Len(t)
          /\ \A i \in 1..Len(p) + Len(t) : (p \o t)[i] = IF i <= Len(p) THEN p[i] ELSE t[i - Len(p)]
      BY <1>2, ConcatProperties
    <3>2. (p \o t)[1] = p[1]
      <4>1. 1 \in 1..Len(p) + Len(t) /\ 1 <= Len(p)
        BY <3>0
      <4> QED
        BY <3>1, <4>1
    <3>3. p \o t # <<>> /\ Head(p \o t) = (p \o t)[1]
      BY <3>0, <3>1, EmptySeq
    <3> QED
      BY <3>2, <3>3 DEF p
  <2> QED
    BY <2>1, UnfencedCode
<1>6. Verdict(wrapped, "exact-match-v2") = Verdict(plain, "exact-match-v2")
  <2> HIDE DEF w, p
  <2> QED
    BY <1>1, <1>3, <1>4, <1>5 DEF Verdict, Matches
<1> QED
  BY <1>6 DEF wrapped, plain

\* exact-match-v2 accepts what exact-match-v1 does, unless the reference is an
\* empty block.
LEMMA LaterVersionAccepts ==
  ASSUME NEW g, ~Unscorable(g), Verdict(g, "exact-match-v1") = "correct", FencedCode(g.expected) # <<>>
  PROVE  Verdict(g, "exact-match-v2") = "correct"
<1>1. Normalized(g.completion) = Normalized(g.expected)
  BY DEF Verdict, Matches
<1>2. FencedCode(g.completion) = FencedCode(g.expected)
  BY <1>1 DEF FencedCode
<1> QED
  BY <1>2 DEF Verdict, Matches

-----------------------------------------------------------------------------
(* The theorems *)

IInv ==
    /\ ArtifactInv /\ FlowInv
    /\ ScanInv /\ CopyInv /\ RescanInv /\ AcceptedInv
    /\ ArmInv /\ DestInv /\ PostInv /\ PinInv

\* The invariants above hold in every state of every evaluation.
LEMMA Inductive == Spec => []IInv
<1>1. Init => IInv
  BY ArtifactInit, FlowInit, ScanInit, CopyInit, ArmInit, DestInit DEF IInv
<1>2. IInv /\ [Next]_vars => IInv'
  <2> SUFFICES ASSUME IInv, [Next]_vars PROVE IInv'
    OBVIOUS
  <2>0. ArtifactInv /\ FlowInv /\ ScanInv /\ CopyInv /\ RescanInv /\ AcceptedInv
        /\ ArmInv /\ DestInv /\ PostInv /\ PinInv
    BY DEF IInv
  <2>1. ArtifactInv' /\ FlowInv'
    BY <2>0, ArtifactStep, FlowStep
  <2>2. ScanInv' /\ CopyInv' /\ RescanInv' /\ AcceptedInv'
    BY <2>0, ScanStep, CopyStep, RescanStep, AcceptedStep
  <2>3. ArmInv' /\ DestInv' /\ PostInv' /\ PinInv'
    BY <2>0, ArmStep, DestStep, PostStep, PinStep
  <2> QED
    BY <2>1, <2>2, <2>3 DEF IInv
<1> QED
  BY <1>1, <1>2, PTL DEF Spec

\* verified_artifact_snapshot: an accepted artifact was, at one moment of its
\* validation, exactly the pinned index and the files it names, whatever was
\* rewritten, added or removed meanwhile.
THEOREM AcceptedWasWhole == Spec => []AcceptedArtifactWasWhole
<1>1. IInv => AcceptedArtifactWasWhole
  <2> SUFFICES ASSUME IInv, run.accepted, run.copied # <<>> PROVE AcceptedArtifactWasWhole
    BY DEF AcceptedArtifactWasWhole
  <2>1. scenario.command # "g0"
    BY DEF IInv, FlowInv
  <2>2. /\ run.moment = Put(IndexPath, run.index, run.copied)
        /\ \A path \in DOMAIN run.copied : Recorded(run.index, path) = run.copied[path]
        /\ LayoutHolds(run.copied, run.index.provenance, Context)
    BY <2>1 DEF IInv, AcceptedInv
  <2>3. run.index.provenance.manifest = run.contract.manifest
    BY <2>2 DEF LayoutHolds, ProvenanceHolds, Context
  <2> QED
    BY <2>2, <2>3 DEF AcceptedArtifactWasWhole
<1> QED
  BY <1>1, Inductive, PTL

\* _require_artifact_layout: in an accepted bundle every tensor its configuration
\* calls for is in exactly one weights file, the one a loader is led to.
THEOREM AcceptedLoads == Spec => []AcceptedArtifactLoads
<1>1. IInv => AcceptedArtifactLoads
  <2> SUFFICES ASSUME IInv, run.accepted, run.copied # <<>> PROVE AcceptedArtifactLoads
    BY DEF AcceptedArtifactLoads
  <2>1. scenario.command # "g0"
    BY DEF IInv, FlowInv
  <2>2. /\ LayoutHolds(run.copied, run.index.provenance, Context)
        /\ run.kind \in {"peft_adapter", "merged_model"} /\ Context.kind = run.kind
    BY <2>1 DEF IInv, AcceptedInv, FlowInv, Context
  <2>3. CASE run.kind = "peft_adapter"
    BY <2>2, <2>3, AdapterLoads DEF AcceptedArtifactLoads
  <2>4. CASE run.kind = "merged_model"
    BY <2>2, <2>4, LayoutLoads DEF AcceptedArtifactLoads
  <2> QED
    BY <2>2, <2>3, <2>4
<1> QED
  BY <1>1, Inductive, PTL

\* The tasks of a list of scores are those of the generations scored.
LEMMA ScoredTasks ==
  ASSUME NEW left, IsList(left), NEW right, IsList(right), NEW version,
         TasksOf(ScoresOf(left, version)) = TasksOf(ScoresOf(right, version))
  PROVE  Len(left) = Len(right)
<1> DEFINE l == TasksOf(ScoresOf(left, version))
           r == TasksOf(ScoresOf(right, version))
<1>1. /\ Len(ScoresOf(left, version)) = Len(left) /\ Len(left) \in Nat
      /\ Len(ScoresOf(right, version)) = Len(right) /\ Len(right) \in Nat
  BY ScoresList
<1>2. DOMAIN l = 1..Len(left) /\ DOMAIN r = 1..Len(right)
  BY <1>1 DEF TasksOf
<1>3. l = [k \in 1..Len(left) |-> l[k]] /\ r = [k \in 1..Len(right) |-> r[k]]
  BY <1>1 DEF TasksOf
<1>4. l = r
  OBVIOUS
<1> HIDE DEF l, r
<1>5. Len(l) = Len(left) /\ Len(r) = Len(right)
  BY <1>1, <1>3, ListFunction
<1> QED
  BY <1>4, <1>5

\* _require_contract_tasks and rescore_paired_bundle: a post-hoc comparison has
\* the contract's tasks, each once, however the published lines were edited, and
\* repeats the published one where it scored the same lines in the same way.
THEOREM RescoresCover == Spec => []RescoreCoversContract
<1>1. IInv => RescoreCoversContract
  <2> SUFFICES ASSUME IInv, NEW version \in DOMAIN posts
               PROVE  LET post == posts[version]
                      IN  /\ Len(post.comparison.pairs) = Len(dest.contract.tasks)
                          /\ {post.comparison.pairs[k].task : k \in 1..Len(post.comparison.pairs)}
                                = ToSet(dest.contract.tasks)
                          /\ /\ version = dest.contract.version
                             /\ post.base = dest.original.base /\ post.sft = dest.original.sft
                             => post.comparison = dest.comparison
    BY DEF RescoreCoversContract
  <2> DEFINE post == posts[version]
             base == ScoresOf(post.base, version)
             sft == ScoresOf(post.sft, version)
             pairs == post.comparison.pairs
  <2>1. /\ IsPost(post, version) /\ IsPaired(dest) /\ IsTasks(dest.contract.tasks)
        /\ IsOriginal(dest)
    BY DEF IInv, PostInv, DestInv
  <2>2. /\ IsList(post.base) /\ IsList(post.sft) /\ CoversContract(post.base)
        /\ TasksOf(base) = TasksOf(sft)
        /\ post.comparison = ComparisonOf(base, sft, version)
    BY <2>1 DEF IsPost, Comparable
  <2>3. Len(post.sft) = Len(post.base)
    BY <2>2, ScoredTasks
  <2>4. /\ Len(pairs) = Len(post.base)
        /\ \A k \in 1..Len(post.base) : pairs[k].task = post.base[k].task
    BY <2>2, <2>3, ComparisonTells
  <2>5. /\ Len(post.base) = Len(dest.contract.tasks)
        /\ {post.base[k].task : k \in 1..Len(post.base)} = ToSet(dest.contract.tasks)
    BY <2>1, <2>2, CoverCounts
  <2>6. {pairs[k].task : k \in 1..Len(pairs)} = ToSet(dest.contract.tasks)
    <3> HIDE DEF pairs, post
    <3>1. {pairs[k].task : k \in 1..Len(post.base)} = {post.base[k].task : k \in 1..Len(post.base)}
      BY <2>4
    <3> QED
      BY <2>4, <2>5, <3>1
  <2>7. ASSUME version = dest.contract.version,
               post.base = dest.original.base, post.sft = dest.original.sft
        PROVE  post.comparison = dest.comparison
    BY <2>1, <2>2, <2>7 DEF IsOriginal
  <2> QED
    BY <2>4, <2>5, <2>6, <2>7
<1> QED
  BY <1>1, Inductive, PTL

\* _regression_rows: one row for each regressed pair, of that pair's task.
LEMMA RegressionTasks ==
  ASSUME NEW pairs, NEW base, NEW sft
  PROVE  {row.task : row \in RegressionRows(pairs, base, sft)}
           = {pairs[k].task : k \in Outcomes(pairs, "regressed")}
<1> DEFINE Predicted(scores, task) ==
               scores[CHOOSE k \in 1..Len(scores) : scores[k].task = task].predicted
           Row(k) == [task |-> pairs[k].task, base |-> Predicted(base, pairs[k].task),
                      sft |-> Predicted(sft, pairs[k].task)]
           ks == Outcomes(pairs, "regressed")
<1>1. RegressionRows(pairs, base, sft) = {Row(k) : k \in ks}
  BY Zenon DEF RegressionRows
<1>2. \A k : Row(k).task = pairs[k].task
  OBVIOUS
<1> HIDE DEF Row, ks
<1>3. {row.task : row \in {Row(k) : k \in ks}} = {pairs[k].task : k \in ks}
  BY <1>2
<1> QED
  BY <1>1, <1>3 DEF ks

\* compare_arms and _regression_rows: the counts of a comparison make its delta
\* and its conclusion, and the regression rows are exactly the tasks the base
\* solved and SFT did not.
THEOREM ComparisonsAreTrue == Spec => []ComparisonIsTrue
<1>1. IInv => ComparisonIsTrue
  <2> SUFFICES ASSUME IInv, IsPaired(dest)
               PROVE  /\ TellsTheDifference(dest.comparison)
                      /\ \A version \in DOMAIN posts : TellsTheDifference(posts[version].comparison)
                      /\ {row.task : row \in dest.regressions}
                           = {task \in ToSet(dest.contract.tasks) :
                                \E k \in 1..Len(dest.comparison.pairs) :
                                   /\ dest.comparison.pairs[k].task = task
                                   /\ dest.comparison.pairs[k].base = "correct"
                                   /\ dest.comparison.pairs[k].sft = "incorrect"}
    BY DEF ComparisonIsTrue
  <2> DEFINE version == dest.contract.version
             original == dest.original
             base == ScoresOf(original.base, version)
             sft == ScoresOf(original.sft, version)
             pairs == dest.comparison.pairs
  <2>1. IsTasks(dest.contract.tasks) /\ IsOriginal(dest)
    BY DEF IInv, DestInv
  <2>2. /\ IsList(original.base) /\ IsList(original.sft)
        /\ TasksOf(original.base) = dest.contract.tasks
        /\ TasksOf(original.sft) = dest.contract.tasks
        /\ dest.comparison = ComparisonOf(base, sft, version)
        /\ dest.regressions = RegressionRows(pairs, base, sft)
    BY <2>1 DEF IsOriginal
  <2>3. Len(original.sft) = Len(original.base)
    BY <2>2, SameTasks
  <2>4. /\ TellsTheDifference(dest.comparison)
        /\ Len(pairs) = Len(original.base)
        /\ \A k \in 1..Len(original.base) :
              /\ pairs[k].task = original.base[k].task
              /\ pairs[k].outcome = "regressed" <=>
                    pairs[k].base = "correct" /\ pairs[k].sft = "incorrect"
    <3> DEFINE b == original.base
               s == original.sft
               c == dest.comparison
    <3>1. /\ IsList(b) /\ IsList(s) /\ Len(s) = Len(b)
          /\ c = ComparisonOf(ScoresOf(b, version), ScoresOf(s, version), version)
      BY <2>2, <2>3
    <3> HIDE DEF b, s, c, version
    <3>2. /\ TellsTheDifference(c)
          /\ Len(c.pairs) = Len(b)
          /\ \A k \in 1..Len(b) :
                /\ c.pairs[k].task = b[k].task
                /\ c.pairs[k].outcome = "regressed" <=>
                      c.pairs[k].base = "correct" /\ c.pairs[k].sft = "incorrect"
      BY <3>1, ComparisonTells
    <3> QED
      BY <3>2 DEF b, s, c
  <2>5. ASSUME NEW v \in DOMAIN posts PROVE TellsTheDifference(posts[v].comparison)
    <3>1. IsPost(posts[v], v)
      BY DEF IInv, PostInv
    <3>2. /\ IsList(posts[v].base) /\ IsList(posts[v].sft)
          /\ TasksOf(ScoresOf(posts[v].base, v)) = TasksOf(ScoresOf(posts[v].sft, v))
          /\ posts[v].comparison = ComparisonOf(ScoresOf(posts[v].base, v),
                                                ScoresOf(posts[v].sft, v), v)
      BY <3>1 DEF IsPost, Comparable
    <3>3. Len(posts[v].sft) = Len(posts[v].base)
      BY <3>2, ScoredTasks
    <3> QED
      BY <3>2, <3>3, ComparisonTells
  <2>6. {row.task : row \in dest.regressions} = {pairs[k].task : k \in Outcomes(pairs, "regressed")}
    <3> HIDE DEF pairs, base, sft
    <3>1. {row.task : row \in RegressionRows(pairs, base, sft)}
            = {pairs[k].task : k \in Outcomes(pairs, "regressed")}
      BY RegressionTasks
    <3>2. dest.regressions = RegressionRows(pairs, base, sft)
      BY <2>2
    <3> QED
      BY <3>1, <3>2
  <2>7. ToSet(dest.contract.tasks) = {original.base[k].task : k \in 1..Len(original.base)}
    <3>1. DOMAIN TasksOf(original.base) = 1..Len(original.base)
          /\ \A k \in 1..Len(original.base) : TasksOf(original.base)[k] = original.base[k].task
      BY DEF TasksOf
    <3> QED
      BY <2>2, <3>1 DEF ToSet
  <2> HIDE DEF pairs, original
  <2>8. Outcomes(pairs, "regressed")
          = {k \in 1..Len(pairs) : pairs[k].base = "correct" /\ pairs[k].sft = "incorrect"}
    BY <2>4 DEF Outcomes
  <2>9. {pairs[k].task : k \in Outcomes(pairs, "regressed")}
          = {task \in ToSet(dest.contract.tasks) :
               \E k \in 1..Len(pairs) : /\ pairs[k].task = task
                                        /\ pairs[k].base = "correct" /\ pairs[k].sft = "incorrect"}
    <3>1. \A k \in 1..Len(pairs) : pairs[k].task \in ToSet(dest.contract.tasks)
      BY <2>4, <2>7
    <3> QED
      BY <2>8, <3>1
  <2> QED
    BY <2>4, <2>5, <2>6, <2>9 DEF pairs
<1> QED
  BY <1>1, Inductive, PTL

\* validate_experiment_contract: a pin that validates names the splits of the one
\* manifest it names.
THEOREM PinsAreOneManifest == Spec => []ValidatedPinIsOneManifest
<1>1. IInv => ValidatedPinIsOneManifest
  BY DEF IInv, PinInv
<1> QED
  BY <1>1, Inductive, PTL

\* extract_fenced_code: wrapping a reply in a longer fence, whatever follows it, does
\* not change its verdict but for leading blank lines, and v2 accepts what v1 does
\* unless the reference is an empty block.
THEOREM FormattingIsImmaterial == Spec => []FormattingDoesNotMatter
<1>1. FlowInv /\ TextInv => FormattingDoesNotMatter
  <2> SUFFICES ASSUME FlowInv, TextInv, NEW k \in 1..Len(run.base), ~Unscorable(run.base[k])
               PROVE  LET g == run.base[k]
                          plain == [g EXCEPT !.completion = WithoutLeadingBlanks(@)]
                      IN  /\ g.completion # <<>> /\ ~Opens(Head(plain.completion \o g.completion)) =>
                                \A chatter \in {<<>>, g.expected} :
                                   Verdict([g EXCEPT !.completion = Wrapped(@, chatter)], "exact-match-v2")
                                       = Verdict(plain, "exact-match-v2")
                          /\ Verdict(g, "exact-match-v1") = "correct" =>
                                Verdict(g, "exact-match-v2") = "correct" \/ FencedCode(g.expected) = <<>>
    BY DEF FormattingDoesNotMatter
  <2> DEFINE g == run.base[k]
             S == LinesOf(scenario) \cup LongFences
             plain == [g EXCEPT !.completion = WithoutLeadingBlanks(@)]
  <2>1. IsReply(g)
    BY DEF TextInv
  <2> HIDE DEF g
  <2>2. g.expected \in TextsOf(scenario) /\ g.completion \in TextsOf(scenario)
    BY <2>1 DEF IsReply, Unscorable, g
  <2>3. scenario \in Scenarios
    BY DEF FlowInv
  <2>4. ASSUME NEW text \in TextsOf(scenario)
        PROVE  /\ text \in Seq(S)
               /\ \A i \in 1..Len(text) : text[i].run \in 0..(LongFence.run - 1)
    <3>1. text \in Seq(Range(text))
      BY <2>3, ScenariosAreTyped
    <3>2. \A i \in 1..Len(text) : text[i] \in Range(text)
      BY <3>1, ElementOfSeq
    <3>3. Range(text) \subseteq LinesOf(scenario)
      BY DEF LinesOf
    <3>4. Range(text) \subseteq S
      BY <3>3
    <3>5. text \in Seq(S)
      <4> HIDE DEF S
      <4> QED
        BY <3>1, <3>2, <3>4, SeqDef, LenProperties
    <3>6. \A line \in LinesOf(scenario) : line.run \in 0..(LongFence.run - 1)
      BY <2>3, ScenariosAreTyped
    <3> QED
      BY <3>2, <3>3, <3>5, <3>6
  <2>5. LongFences \subseteq S /\ Missing \notin Seq(S) /\ <<>> \in Seq(S)
    BY <2>3, MissingIsNoText, EmptySeq
  <2>6. plain.completion = WithoutLeadingBlanks(g.completion)
    BY <2>1 DEF IsReply
  <2> HIDE DEF S
  <2>7. ASSUME g.completion # <<>>, ~Opens(Head(plain.completion \o g.completion)),
               NEW chatter \in {<<>>, g.expected}
        PROVE  Verdict([g EXCEPT !.completion = Wrapped(@, chatter)], "exact-match-v2")
                   = Verdict(plain, "exact-match-v2")
    <3>1. chatter \in Seq(S) /\ g.completion \in Seq(S)
      BY <2>2, <2>4, <2>5, <2>7
    <3>2. ~Opens(Head(WithoutLeadingBlanks(g.completion) \o g.completion))
      BY <2>6, <2>7
    <3>3. ~Unscorable(g)
      BY DEF g
    <3> QED
      BY <2>1, <2>2, <2>4, <2>5, <2>7, <3>1, <3>2, <3>3, WrappedVerdict
  <2>8. ~Unscorable(g)
    BY DEF g
  <2> QED
    BY <2>7, <2>8, LaterVersionAccepts DEF g
<1>2. Init => TextInv
  BY TextInit
<1>3. (FlowInv /\ ArmInv /\ TextInv) /\ [Next]_vars => TextInv'
  BY TextStep
<1>4. IInv => FlowInv /\ ArmInv
  BY DEF IInv
<1> QED
  BY <1>1, <1>2, <1>3, <1>4, Inductive, PTL DEF Spec

=============================================================================
