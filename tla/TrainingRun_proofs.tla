--------------------------- MODULE TrainingRun_proofs ---------------------------
(***************************************************************************)
(* Type correctness of TrainingRun, the truth of its seals and what it     *)
(* resumes, for every set of recipes, number of steps, save interval,      *)
(* rotation limit, set of resume modes and bound.                          *)
(*                                                                         *)
(* TypeInv adds to TypeOK what the arguments in memory name at a location. *)
(* SealInv says what lies between a training's adapter and its index, and  *)
(* between an export's load and its index: whatever was sealed stays what  *)
(* it was, whatever is about to be sealed is this process's own.           *)
(***************************************************************************)
EXTENDS TrainingRun, WellFoundedInduction, TLAPS

\* The order the least-element argument below runs over.
NatOrder == OpToRel(<, Nat)

\* list_valid_checkpoints is sorted by step: a non-empty set of steps has a
\* newest one.
LEMMA NewestExists ==
  ASSUME NEW S, S \subseteq Steps, S # {}
  PROVE  \E s \in S : \A t \in S : t <= s
<1> DEFINE T == {n \in Nat : MaxSteps - n \in S}
<1>a. MaxSteps \in Nat /\ \A s \in S : s \in Nat /\ s <= MaxSteps
  BY TrainingSteps DEF Steps
<1>1. \A s \in S : MaxSteps - s \in T /\ MaxSteps - (MaxSteps - s) = s
  BY <1>a
<1>2. T \subseteq Nat /\ T # {}
  BY <1>1
<1>3. IsWellFoundedOn(NatOrder, Nat)
  BY NatLessThanWellFounded DEF NatOrder
<1>4. \E m \in T : \A n \in T : <<n, m>> \notin NatOrder
  <2> HIDE DEF T
  <2> QED
    BY <1>2, <1>3, WFMin
<1>5. PICK m \in T : \A n \in T : ~(n < m)
  BY <1>2, <1>4 DEF NatOrder, OpToRel
<1>6. MaxSteps - m \in S /\ \A t \in S : t <= MaxSteps - m
  BY <1>1, <1>5, <1>a
<1> QED
  BY <1>6

\* find_latest_valid_checkpoint returns a checkpoint that is there, or none.
LEMMA LatestValidType ==
  /\ LatestValid \in 0 .. MaxSteps
  /\ LatestValid # 0 => LatestValid \in Present
<1>1. ValidSteps \subseteq Steps /\ ValidSteps \subseteq Present
  BY DEF ValidSteps, Present
<1>2. CASE ValidSteps = {}
  BY <1>2, TrainingSteps DEF LatestValid
<1>3. CASE ValidSteps # {}
  <2>1. \E s \in ValidSteps : \A t \in ValidSteps : t <= s
    BY <1>1, <1>3, NewestExists
  <2>2. LatestValid \in ValidSteps
    BY <1>3, <2>1 DEF LatestValid
  <2> QED
    BY <1>1, <2>2, TrainingSteps DEF Steps
<1> QED
  BY <1>2, <1>3

-----------------------------------------------------------------------------
(* Types.                                                                  *)

\* Inside one save of the Trainer, after its first file was opened.
Saving == {"save_weights", "save_config", "save_optimizer", "save_state", "save_done"}

\* What the arguments in memory name at a location.
Located ==
  /\ pc \in Saving \cup {"save"} => step \in Steps
  /\ pc \in Saving => tree[step] # NoTree
  /\ epc \in {"recheck", "load", "save", "saving", "index"} => export.provenance \in Recipes

TypeInv == TypeOK /\ Located

\* Everything a process forgets is well typed, and weights nobody trained.
LEMMA NothingTypes ==
  /\ NoWeights \in Weights
  /\ NoConfig \in Config
  /\ NoAdapter \in Adapter
  /\ EmptyCheckpoint \in Checkpoint
  /\ NoExport \in [source : 0 .. MaxSteps, provenance : Recipes \cup {NoIndex},
                   made : Weights, sealed : BOOLEAN]
<1>1. NoWeights \in Weights
  BY BoundsAreNumbers DEF NoWeights, Weights
<1>2. NoConfig \in Config
  <2>1. (CHOOSE r \in Recipes : TRUE) \in Recipes
    BY SomeRecipe
  <2> QED
    BY <2>1, TrainingSteps DEF NoConfig, Config
<1>3. NoAdapter \in Adapter
  BY <1>1 DEF NoAdapter, Adapter
<1>4. EmptyCheckpoint \in Checkpoint
  BY <1>1 DEF EmptyCheckpoint, Checkpoint
<1>5. NoExport \in [source : 0 .. MaxSteps, provenance : Recipes \cup {NoIndex},
                    made : Weights, sealed : BOOLEAN]
  BY <1>1, TrainingSteps DEF NoExport
<1> QED
  BY <1>1, <1>2, <1>3, <1>4, <1>5

\* An empty run directory is well typed.
LEMMA InitType == Init => TypeInv
<1> SUFFICES ASSUME Init PROVE TypeInv
  OBVIOUS
<1>1. 0 \in 0 .. MaxSteps /\ budget \in [trainings : 0 .. MaxTrainings,
        exports : 0 .. MaxExports, stops : 0 .. MaxStops]
  BY TrainingSteps, BoundsAreNumbers DEF Init
<1>2. TypeOK
  BY <1>1, NothingTypes DEF Init, TypeOK
<1>3. Located
  BY DEF Init, Located, Saving
<1> QED
  BY <1>2, <1>3 DEF TypeInv

\* A training that leaves the directory alone and forgets nothing.
LEMMA TypeStart == TypeInv /\ StartTraining => TypeInv'
<1> SUFFICES ASSUME TypeInv, StartTraining PROVE TypeInv'
  OBVIOUS
<1>1. RunStatus \in [ready : BOOLEAN, path : 0 .. MaxSteps]
  BY LatestValidType DEF RunStatus, ResumeReady, TrainerStateUsable
<1>2. budget' \in [trainings : 0 .. MaxTrainings, exports : 0 .. MaxExports,
                   stops : 0 .. MaxStops]
  BY BoundsAreNumbers DEF StartTraining, TypeInv, TypeOK
<1>3. TypeOK'
  BY <1>1, <1>2 DEF StartTraining, TypeInv, TypeOK, Goto, directory, exporting
<1>4. Located'
  BY DEF StartTraining, TypeInv, Located, Goto, directory, exporting, Saving
<1> QED
  BY <1>3, <1>4 DEF TypeInv

\* Going on from a checkpoint that is there, or from none.
LEMMA ResumeAtType ==
  ASSUME TypeInv, NEW s \in 0 .. MaxSteps, s # 0 => s \in Present, ResumeAt(s),
         UNCHANGED <<directory, manifest, config, victim, exporting, outcome, reported,
                     proper, budget>>
  PROVE  TypeInv'
<1>1. s # 0 => tree[s] \in Checkpoint
  BY DEF TypeInv, TypeOK, Present
<1>2. s # 0 => tree[s].made.by \in SUBSET Recipes
  BY <1>1 DEF Checkpoint, Weights
<1>3. config.recipe \in Recipes
  BY DEF TypeInv, TypeOK, Config
<1>4. lineage' \in SUBSET Recipes /\ crossed' \in BOOLEAN /\ branched' \in BOOLEAN
  BY <1>2, <1>3 DEF ResumeAt, TypeInv, TypeOK
<1>5. TypeOK'
  BY <1>4 DEF ResumeAt, TypeInv, TypeOK, Goto, directory, exporting
<1>6. Located'
  BY DEF ResumeAt, TypeInv, Located, Goto, directory, exporting, Saving
<1> QED
  BY <1>5, <1>6 DEF TypeInv

\* A training that ends where it is.
LEMMA ForgetType ==
  ASSUME TypeInv, Forget, UNCHANGED <<directory, exporting, history>>,
         manifest' \in Recipes \cup {"none", "torn"},
         outcome' \in {"none", "running", "completed", "failed"},
         budget' \in [trainings : 0 .. MaxTrainings, exports : 0 .. MaxExports,
                      stops : 0 .. MaxStops]
  PROVE  TypeInv'
<1>1. 0 \in 0 .. MaxSteps
  BY TrainingSteps
<1>2. TypeOK'
  BY <1>1, NothingTypes DEF Forget, TypeInv, TypeOK, Goto, directory, exporting, history
<1>3. Located'
  BY DEF Forget, TypeInv, Located, Goto, directory, exporting, Saving
<1> QED
  BY <1>2, <1>3 DEF TypeInv

\* Every outcome of the resolution.
LEMMA TypeResolve == TypeInv /\ Resolve => TypeInv'
<1> SUFFICES ASSUME TypeInv, Resolve PROVE TypeInv'
  OBVIOUS
<1>1. CASE QuarantineIncomplete
  <2>1. tree' \in [Steps -> Checkpoint \cup {NoTree}]
    BY <1>1 DEF QuarantineIncomplete, TypeInv, TypeOK
  <2>2. TypeOK'
    BY <1>1, <2>1 DEF QuarantineIncomplete, TypeInv, TypeOK, training, exporting, history
  <2>3. Located'
    BY <1>1 DEF QuarantineIncomplete, TypeInv, Located, training, exporting, Saving
  <2> QED
    BY <2>2, <2>3 DEF TypeInv
<1>2. CASE ResolveFresh
  BY <1>2, ResumeAtType, TrainingSteps DEF ResolveFresh
<1>3. CASE ResolveLatest
  BY <1>3, ResumeAtType, LatestValidType DEF ResolveLatest
<1>4. CASE ResolveExplicit
  <2>1. config.path \in 0 .. MaxSteps
    BY DEF TypeInv, TypeOK, Config
  <2> QED
    BY <1>4, <2>1, ResumeAtType DEF ResolveExplicit
<1>5. CASE RefuseExplicit
  BY <1>5, ForgetType DEF RefuseExplicit, TypeInv, TypeOK
<1> QED
  BY <1>1, <1>2, <1>3, <1>4, <1>5 DEF Resolve

\* A write of the Trainer to the checkpoint it saves.
LEMMA PutType ==
  ASSUME TypeInv, step \in Steps, NEW t \in Checkpoint, Put(t),
         NEW next \in Saving \cup {"rotate"}, Goto(next),
         UNCHANGED <<adapter, index, manifest, config, step, lineage, victim, exporting,
                     outcome, history, budget>>
  PROVE  TypeInv'
<1>1. t # NoTree
  BY NothingIsNothing
<1>2. tree' \in [Steps -> Checkpoint \cup {NoTree}] /\ tree'[step] = t
  BY DEF Put, TypeInv, TypeOK
<1>3. TypeOK'
  BY <1>2 DEF Saving, TypeInv, TypeOK, Goto, exporting, history
<1>4. Located'
  BY <1>1, <1>2 DEF TypeInv, Located, Goto, exporting, Saving
<1> QED
  BY <1>3, <1>4 DEF TypeInv

\* Every remnant a rotation leaves is still one.
LEMMA WithoutType ==
  ASSUME NEW t \in Checkpoint
  PROVE  Without(t) \subseteq Checkpoint
BY ZenonT(30) DEF Without, Checkpoint

\* What the training in memory trained, on this job.
LEMMA TrainedType == TypeOK => [by |-> lineage, job |-> budget.trainings] \in Weights
BY DEF TypeOK, Weights

\* Steps, saves and rotations.
LEMMA TypeTrainer == TypeInv /\ Trainer => TypeInv'
<1> SUFFICES ASSUME TypeInv, Trainer PROVE TypeInv'
  OBVIOUS
<1>a. TypeOK /\ Located
  BY DEF TypeInv
<1>b. step \in Steps => tree[step] \in Checkpoint \cup {NoTree}
  BY <1>a DEF TypeOK
<1>c. pc \in Saving => step \in Steps /\ tree[step] \in Checkpoint
  BY <1>a, <1>b DEF Located
<1>1. CASE TrainStep
  <2>1. step' \in Steps
    BY <1>1, <1>a, TrainingSteps DEF TrainStep, TypeOK, Steps
  <2>2. TypeOK'
    BY <1>1, <1>a, <2>1 DEF TrainStep, TypeOK, Goto, directory, exporting, history, Steps
  <2>3. Located'
    BY <1>1, <1>a, <2>1 DEF TrainStep, Located, Goto, directory, exporting, Saving
  <2> QED
    BY <2>2, <2>3 DEF TypeInv
<1>2. CASE OpenWeights
  <2> DEFINE old == IF tree[step] = NoTree THEN EmptyCheckpoint ELSE tree[step]
             t   == [old EXCEPT !.weights = "short", !.torn = (tree[step] # NoTree)]
  <2>1. step \in Steps
    BY <1>2, <1>a DEF OpenWeights, Located
  <2>2. old \in Checkpoint
    BY <2>1, <1>b, NothingTypes
  <2>3. t \in Checkpoint
    <3> HIDE DEF old
    <3>1. (tree[step] # NoTree) \in BOOLEAN
      OBVIOUS
    <3> QED
      BY <2>2, <3>1 DEF Checkpoint
  <2>4. Put(t) /\ Goto("save_weights")
    BY <1>2 DEF OpenWeights
  <2> HIDE DEF t
  <2> QED
    BY <1>2, <2>1, <2>3, <2>4, PutType DEF OpenWeights, Saving
<1>3. CASE WriteWeights
  <2> DEFINE mine == [by |-> lineage, job |-> budget.trainings]
             t    == [tree[step] EXCEPT !.weights = "ok", !.made = mine]
  <2>1. step \in Steps /\ tree[step] \in Checkpoint
    BY <1>3, <1>c DEF WriteWeights, Saving
  <2>2. mine \in Weights
    BY <1>a, TrainedType
  <2>3. t \in Checkpoint
    <3> HIDE DEF mine
    <3> QED
      BY <2>1, <2>2 DEF Checkpoint
  <2>4. Put(t) /\ Goto("save_config")
    BY <1>3 DEF WriteWeights
  <2> HIDE DEF t
  <2> QED
    BY <1>3, <2>1, <2>3, <2>4, PutType DEF WriteWeights, Saving
<1>4. CASE WriteConfig
  <2>1. step \in Steps /\ tree[step] \in Checkpoint
    BY <1>4, <1>c DEF WriteConfig, Saving
  <2>2. [tree[step] EXCEPT !.config = TRUE] \in Checkpoint
    BY <2>1 DEF Checkpoint
  <2> QED
    BY <1>4, <2>1, <2>2, PutType DEF WriteConfig, Saving
<1>5. CASE WriteOptimizer
  <2>1. step \in Steps /\ tree[step] \in Checkpoint
    BY <1>5, <1>c DEF WriteOptimizer, Saving
  <2>2. [tree[step] EXCEPT !.resume = TRUE] \in Checkpoint
    BY <2>1 DEF Checkpoint
  <2> QED
    BY <1>5, <2>1, <2>2, PutType DEF WriteOptimizer, Saving
<1>6. CASE OpenState
  <2>1. step \in Steps /\ tree[step] \in Checkpoint
    BY <1>6, <1>c DEF OpenState, Saving
  <2>2. [tree[step] EXCEPT !.state = "malformed"] \in Checkpoint
    BY <2>1 DEF Checkpoint
  <2> QED
    BY <1>6, <2>1, <2>2, PutType DEF OpenState, Saving
<1>7. CASE WriteState
  <2>1. step \in Steps /\ tree[step] \in Checkpoint
    BY <1>7, <1>c DEF WriteState, Saving
  <2>2. [tree[step] EXCEPT !.state = "ok", !.torn = FALSE] \in Checkpoint
    BY <2>1 DEF Checkpoint
  <2> QED
    BY <1>7, <2>1, <2>2, PutType DEF WriteState, Saving
<1>8. CASE RotateBegins
  <2>1. PICK s \in Present \ {step} : /\ \E rest \in Without(tree[s]) : tree' = [tree EXCEPT ![s] = rest]
                                      /\ victim' = s
    BY <1>8 DEF RotateBegins
  <2>2. s \in Steps /\ tree[s] \in Checkpoint
    BY <1>a DEF Present, TypeOK
  <2>r. PICK rest \in Without(tree[s]) : tree' = [tree EXCEPT ![s] = rest]
    BY <2>1
  <2>3. tree' \in [Steps -> Checkpoint \cup {NoTree}]
    <3>1. rest \in Checkpoint
      BY <2>2, WithoutType
    <3> QED
      BY <1>a, <2>r, <3>1 DEF TypeOK
  <2>4. victim' \in 0 .. MaxSteps
    BY <2>1, <2>2, TrainingSteps DEF Steps
  <2>5. TypeOK'
    BY <1>8, <1>a, <2>3, <2>4 DEF RotateBegins, TypeOK, Goto, exporting, history
  <2>6. Located'
    BY <1>8, <1>a DEF RotateBegins, Located, Goto, exporting, Saving
  <2> QED
    BY <2>5, <2>6 DEF TypeInv
<1>9. CASE RotateEnds
  <2>a. tree' = [tree EXCEPT ![victim] = NoTree] /\ victim' = 0
    BY <1>9 DEF RotateEnds
  <2>b. tree \in [Steps -> Checkpoint \cup {NoTree}]
    BY <1>a DEF TypeOK
  <2>c. 0 \in 0 .. MaxSteps
    BY TrainingSteps
  <2>1. tree' \in [Steps -> Checkpoint \cup {NoTree}] /\ victim' \in 0 .. MaxSteps
    BY <2>a, <2>b, <2>c
  <2>2. TypeOK'
    BY <1>9, <1>a, <2>1 DEF RotateEnds, TypeOK, Goto, exporting, history
  <2>3. Located'
    BY <1>9, <1>a DEF RotateEnds, Located, Goto, exporting, Saving
  <2> QED
    BY <2>2, <2>3 DEF TypeInv
<1>10. CASE RotateDone
  <2>1. TypeOK'
    BY <1>10, <1>a DEF RotateDone, TypeOK, Goto, directory, exporting, history
  <2>2. Located'
    BY <1>10, <1>a DEF RotateDone, Located, Goto, directory, exporting, Saving
  <2> QED
    BY <2>1, <2>2 DEF TypeInv
<1> QED
  BY <1>1, <1>2, <1>3, <1>4, <1>5, <1>6, <1>7, <1>8, <1>9, <1>10 DEF Trainer

\* A step of the finalization: the checkpoints and the memory stay.
LEMMA FinalizeStepType ==
  ASSUME TypeInv,
         UNCHANGED <<tree, config, step, lineage, victim, exporting, outcome, history, budget>>,
         adapter' \in Adapter, index' \in Index \cup {NoIndex},
         manifest' \in Recipes \cup {"none", "torn"},
         pc' \in {"adapter", "adapter_weights", "adapter_config", "bins", "index",
                  "manifest", "manifest_write"}
  PROVE  TypeInv'
<1>1. TypeOK'
  BY DEF TypeInv, TypeOK, exporting, history
<1>2. Located'
  BY DEF TypeInv, Located, exporting, Saving
<1> QED
  BY <1>1, <1>2 DEF TypeInv

\* Adapter, index and manifest.
LEMMA TypeFinalize == TypeInv /\ Finalize => TypeInv'
<1> SUFFICES ASSUME TypeInv, Finalize PROVE TypeInv'
  OBVIOUS
<1>a. TypeOK
  BY DEF TypeInv
<1>b. /\ adapter \in Adapter /\ index \in Index \cup {NoIndex}
      /\ manifest \in Recipes \cup {"none", "torn"}
      /\ config.recipe \in Recipes
  BY <1>a DEF TypeOK, Config
<1>1. CASE FinishSteps
  BY <1>1, <1>b, FinalizeStepType DEF FinishSteps, Goto, directory
<1>2. CASE OpenAdapter
  <2>1. [adapter EXCEPT !.weights = "short"] \in Adapter /\ [adapter EXCEPT !.bin = TRUE] \in Adapter
    BY <1>b DEF Adapter
  <2> QED
    BY <1>2, <1>b, <2>1, FinalizeStepType DEF OpenAdapter, Goto
<1>3. CASE WriteAdapter
  <2>1. adapter' \in Adapter
    BY <1>3, <1>a, <1>b, TrainedType DEF WriteAdapter, Adapter
  <2> QED
    BY <1>3, <1>b, <2>1, FinalizeStepType DEF WriteAdapter, Goto
<1>4. CASE WriteAdapterConfig
  <2>1. adapter' \in Adapter
    BY <1>4, <1>b DEF WriteAdapterConfig, Adapter
  <2> QED
    BY <1>4, <1>b, <2>1, FinalizeStepType DEF WriteAdapterConfig, Goto
<1>5. CASE AssertNoBins
  BY <1>5, <1>b, FinalizeStepType DEF AssertNoBins, Goto, directory
<1>6. CASE RefuseBins
  BY <1>6, <1>a, ForgetType DEF RefuseBins, TypeOK
<1>7. CASE PublishIndex
  <2>1. index' \in Index
    BY <1>7, <1>a, <1>b DEF PublishIndex, Listing, Index, TypeOK
  <2> QED
    BY <1>7, <1>b, <2>1, FinalizeStepType DEF PublishIndex, Goto
<1>8. CASE OpenManifest
  BY <1>8, <1>b, FinalizeStepType DEF OpenManifest, Goto, directory
<1>9. CASE WriteManifest
  BY <1>9, <1>a, <1>b, ForgetType DEF WriteManifest, TypeOK
<1> QED
  BY <1>1, <1>2, <1>3, <1>4, <1>5, <1>6, <1>7, <1>8, <1>9 DEF Finalize

\* A training that is stopped.
LEMMA TypeStop == TypeInv /\ StopTraining => TypeInv'
<1> SUFFICES ASSUME TypeInv, StopTraining PROVE TypeInv'
  OBVIOUS
<1>1. budget' \in [trainings : 0 .. MaxTrainings, exports : 0 .. MaxExports,
                   stops : 0 .. MaxStops]
  BY BoundsAreNumbers DEF StopTraining, TypeInv, TypeOK
<1> QED
  BY <1>1, ForgetType DEF StopTraining, TypeInv, TypeOK

\* A step of an export.
LEMMA ExportStepType ==
  ASSUME TypeInv, UNCHANGED <<directory, manifest, training, outcome, reported, branched, crossed>>,
         merged' \in [weights : {"absent", "short", "ok"}, made : Weights,
                      index : MergedIndex \cup {NoIndex}],
         export' \in [source : 0 .. MaxSteps, provenance : Recipes \cup {NoIndex},
                      made : Weights, sealed : BOOLEAN],
         epc' \in {"idle", "provenance", "recheck", "load", "save", "saving", "index"},
         epc' \in {"recheck", "load", "save", "saving", "index"} => export'.provenance \in Recipes,
         proper' \in BOOLEAN,
         budget' \in [trainings : 0 .. MaxTrainings, exports : 0 .. MaxExports,
                      stops : 0 .. MaxStops]
  PROVE  TypeInv'
<1>1. TypeOK'
  BY DEF TypeInv, TypeOK, directory, training
<1>2. Located'
  BY DEF TypeInv, Located, directory, training, Saving
<1> QED
  BY <1>1, <1>2 DEF TypeInv

\* Select, read, check, load, merge, seal, or give up.
LEMMA TypeExport == TypeInv /\ Export => TypeInv'
<1> SUFFICES ASSUME TypeInv, Export PROVE TypeInv'
  OBVIOUS
<1> DEFINE Exports == [source : 0 .. MaxSteps, provenance : Recipes \cup {NoIndex},
                       made : Weights, sealed : BOOLEAN]
           Merges  == [weights : {"absent", "short", "ok"}, made : Weights,
                       index : MergedIndex \cup {NoIndex}]
<1>a. TypeOK /\ Located
  BY DEF TypeInv
<1>b. /\ export \in Exports /\ merged \in Merges /\ proper \in BOOLEAN
      /\ budget \in [trainings : 0 .. MaxTrainings, exports : 0 .. MaxExports,
                     stops : 0 .. MaxStops]
      /\ NoExport \in Exports
      /\ adapter.made \in Weights
      /\ index # NoIndex => index.provenance \in Recipes
  BY <1>a, NothingTypes DEF TypeOK, Adapter, Index
<1>1. CASE SelectSource
  <2>1. (IF RootIsAdapter THEN 0 ELSE LatestValid) \in 0 .. MaxSteps
    BY LatestValidType, TrainingSteps
  <2>2. export' \in Exports
    BY <1>1, <1>b, <2>1 DEF SelectSource
  <2>3. budget' \in [trainings : 0 .. MaxTrainings, exports : 0 .. MaxExports,
                     stops : 0 .. MaxStops]
    BY <1>1, <1>b, BoundsAreNumbers DEF SelectSource
  <2> QED
    BY <1>1, <1>b, <2>2, <2>3, ExportStepType DEF SelectSource, ExportAt, history
<1>2. CASE ReadProvenance
  <2>1. \/ export' = NoExport /\ epc' = "idle"
        \/ /\ export' = [export EXCEPT !.provenance = index.provenance]
           /\ index.provenance \in Recipes /\ epc' = "recheck"
    BY <1>2, <1>b DEF ReadProvenance, ExportAt, Refuse
  <2>2. export' \in Exports /\ (epc' = "recheck" => export'.provenance \in Recipes)
    BY <1>b, <2>1
  <2> QED
    BY <1>2, <1>b, <2>1, <2>2, ExportStepType DEF ReadProvenance, history
<1>3. CASE RecheckSource
  BY <1>3, <1>a, <1>b, ExportStepType DEF RecheckSource, ExportAt, Refuse, history, Located
<1>4. CASE LoadAdapter
  <2>1. SealedAs(export.provenance) \in BOOLEAN
    BY DEF SealedAs, IndexVerifies
  <2>2. \/ export' = NoExport /\ epc' = "idle"
        \/ /\ export' = [export EXCEPT !.made = adapter.made, !.sealed = SealedAs(export.provenance)]
           /\ export.provenance \in Recipes /\ epc' = "save"
    BY <1>4, <1>a DEF LoadAdapter, ExportAt, Refuse, Located
  <2>3. export' \in Exports /\ (epc' = "save" => export'.provenance \in Recipes)
    BY <1>b, <2>1, <2>2, ZenonT(30)
  <2> QED
    BY <1>4, <1>b, <2>2, <2>3, ExportStepType DEF LoadAdapter, history
<1>5. CASE OpenMerged
  <2>1. merged' \in Merges
    BY <1>5, <1>b DEF OpenMerged
  <2> QED
    BY <1>5, <1>a, <1>b, <2>1, ExportStepType DEF OpenMerged, ExportAt, Located, history
<1>6. CASE WriteMerged
  <2>1. merged' \in Merges
    BY <1>6, <1>b DEF WriteMerged
  <2> QED
    BY <1>6, <1>a, <1>b, <2>1, ExportStepType DEF WriteMerged, ExportAt, Located, history
<1>7. CASE IndexMerged
  <2>1. [made |-> merged.made, provenance |-> export.provenance] \in MergedIndex
    BY <1>7, <1>a, <1>b DEF IndexMerged, Located, MergedIndex
  <2>2. merged' \in Merges /\ proper' \in BOOLEAN
    BY <1>7, <1>b, <2>1 DEF IndexMerged
  <2> QED
    BY <1>7, <1>b, <2>2, ExportStepType DEF IndexMerged, ExportAt, Refuse
<1>8. CASE StopExport
  <2>1. budget' \in [trainings : 0 .. MaxTrainings, exports : 0 .. MaxExports,
                     stops : 0 .. MaxStops]
    BY <1>8, <1>b, BoundsAreNumbers DEF StopExport
  <2> QED
    BY <1>8, <1>b, <2>1, ExportStepType DEF StopExport, ExportAt, Refuse, history
<1> QED
  BY <1>1, <1>2, <1>3, <1>4, <1>5, <1>6, <1>7, <1>8 DEF Export

\* Nothing happens.
LEMMA TypeStutter == TypeInv /\ UNCHANGED vars => TypeInv'
BY DEF TypeInv, TypeOK, Located, vars, directory, training, exporting, history

LEMMA TypeStep == TypeInv /\ [Next]_vars => TypeInv'
BY TypeStart, TypeResolve, TypeTrainer, TypeFinalize, TypeStop, TypeExport, TypeStutter DEF Next

\* TypeInv is an invariant of the specification.
LEMMA TypeInvAlways == Spec => []TypeInv
<1>1. Init => TypeInv
  BY InitType
<1>2. TypeInv /\ [Next]_vars => TypeInv'
  BY TypeStep
<1> QED
  BY <1>1, <1>2, PTL DEF Spec

\* Every state a run directory and the processes on it reach is one TypeOK
\* describes (resolve_resume_checkpoint, _finalize_training_run, merge_adapter).
THEOREM TypeCorrect == Spec => []TypeOK
<1>1. TypeInv => TypeOK
  BY DEF TypeInv
<1> QED
  BY <1>1, TypeInvAlways, PTL

-----------------------------------------------------------------------------
(* What a seal is about.                                                   *)

\* The weights of the training that is going on.
OwnWeights == [by |-> lineage, job |-> budget.trainings]

\* After the resume point was resolved, the recipe at work has trained the
\* weights in memory, and no other one, unless a checkpoint of it was resumed.
LineageKnown ==
  pc \notin {"idle", "resolve"} =>
    /\ config.recipe \in lineage
    /\ ~crossed => lineage = {config.recipe}

\* Between the adapter and the index: the safetensors file is this training's
\* own, unless a pickle lies beside it, which stops the training.
AdapterIsOwn ==
  /\ pc \in {"adapter_config", "bins"} /\ ~adapter.bin => adapter.made = OwnWeights
  /\ pc = "index" => adapter.made = OwnWeights

\* What an index was written for, whatever became of the adapter since.
IndexIsTrue ==
  index # NoIndex => /\ index.provenance \in index.adapter.made.by
                     /\ ~crossed => index.adapter.made.by = {index.provenance}

\* Between the index and the manifest nobody writes below the run directory.
SealIsFresh ==
  pc \in {"manifest", "manifest_write"} => /\ IndexVerifies
                                          /\ index.provenance = config.recipe
                                          /\ adapter.made.job = budget.trainings

\* A training that is going on has no outcome yet.
NoOutcomeYet == pc # "idle" => outcome = "running"

\* What an export loaded from a sealed adapter was produced by the recipe it
\* read before, and what it merges is what it loaded.
LoadIsTrue ==
  /\ epc \in {"save", "saving", "index"} /\ export.sealed /\ ~crossed =>
       export.made.by = {export.provenance}
  /\ epc = "index" => merged.made = export.made

\* What a merged index was written for, whatever became of the files since.
MergedIndexIsTrue ==
  merged.index # NoIndex /\ proper /\ ~crossed =>
    merged.index.made.by = {merged.index.provenance}

SealInv ==
  /\ LineageKnown
  /\ AdapterIsOwn
  /\ IndexIsTrue
  /\ SealIsFresh
  /\ NoOutcomeYet
  /\ CompletedIsSealed
  /\ LoadIsTrue
  /\ MergedIndexIsTrue

LEMMA SealInit == Init => SealInv
BY DEF Init, SealInv, LineageKnown, AdapterIsOwn, IndexIsTrue, SealIsFresh, NoOutcomeYet,
       CompletedIsSealed, LoadIsTrue, MergedIndexIsTrue

\* The parts about the run directory.
TrainingSeals ==
  /\ LineageKnown /\ AdapterIsOwn /\ IndexIsTrue /\ SealIsFresh
  /\ NoOutcomeYet /\ CompletedIsSealed

\* The parts about the merged model.
ExportSeals == LoadIsTrue /\ MergedIndexIsTrue

\* A training does not disturb the merged model: it may only make crossed true.
LEMMA ExportSealsFrame ==
  ASSUME TypeInv, ExportSeals, UNCHANGED <<exporting, proper>>, crossed => crossed'
  PROVE  ExportSeals'
BY DEF ExportSeals, LoadIsTrue, MergedIndexIsTrue, exporting

\* An export does not disturb the run directory.
LEMMA TrainingSealsFrame ==
  ASSUME TrainingSeals, UNCHANGED <<directory, manifest, training, outcome, crossed>>,
         budget'.trainings = budget.trainings
  PROVE  TrainingSeals'
BY DEF TrainingSeals, LineageKnown, AdapterIsOwn, OwnWeights, IndexIsTrue, SealIsFresh,
       NoOutcomeYet, CompletedIsSealed, IndexVerifies, directory, training

\* Before the finalization, and after a training: adapter and index stay.
LEMMA TrainingSealsBefore ==
  ASSUME TrainingSeals, UNCHANGED <<adapter, index>>, crossed => crossed',
         pc' \notin {"adapter_config", "bins", "index", "manifest", "manifest_write"},
         LineageKnown', NoOutcomeYet', outcome' # "completed"
  PROVE  TrainingSeals'
BY DEF TrainingSeals, AdapterIsOwn, IndexIsTrue, SealIsFresh, CompletedIsSealed

LEMMA SealStart == TypeInv /\ SealInv /\ StartTraining => SealInv'
<1> SUFFICES ASSUME TypeInv, SealInv, StartTraining PROVE SealInv'
  OBVIOUS
<1>1. TrainingSeals'
  BY TrainingSealsBefore
     DEF StartTraining, SealInv, TrainingSeals, Goto, directory, LineageKnown, NoOutcomeYet
<1>2. ExportSeals'
  BY ExportSealsFrame DEF StartTraining, SealInv, ExportSeals
<1> QED
  BY <1>1, <1>2 DEF SealInv, TrainingSeals, ExportSeals

\* A training that ends where it is, without having completed.
LEMMA SealForget ==
  ASSUME TypeInv, SealInv, Forget, outcome' = "failed", UNCHANGED <<directory, exporting, history>>
  PROVE  SealInv'
<1>1. TrainingSeals'
  BY TrainingSealsBefore
     DEF SealInv, TrainingSeals, Forget, Goto, directory, history, LineageKnown, NoOutcomeYet
<1>2. ExportSeals'
  BY ExportSealsFrame DEF SealInv, ExportSeals, history
<1> QED
  BY <1>1, <1>2 DEF SealInv, TrainingSeals, ExportSeals

\* Going on from a checkpoint: its lineage, or a crossed history.
LEMMA SealResumeAt ==
  ASSUME TypeInv, SealInv, NEW s \in 0 .. MaxSteps, ResumeAt(s), pc = "resolve",
         UNCHANGED <<directory, manifest, config, victim, exporting, outcome, reported,
                     proper, budget>>
  PROVE  SealInv'
<1>1. LineageKnown'
  BY DEF ResumeAt, LineageKnown
<1>2. crossed => crossed'
  BY DEF ResumeAt
<1>3. TrainingSeals'
  BY <1>1, <1>2, TrainingSealsBefore
     DEF SealInv, TrainingSeals, ResumeAt, Goto, directory, NoOutcomeYet
<1>4. ExportSeals'
  BY <1>2, ExportSealsFrame DEF SealInv, ExportSeals
<1> QED
  BY <1>3, <1>4 DEF SealInv, TrainingSeals, ExportSeals

LEMMA SealResolve == TypeInv /\ SealInv /\ Resolve => SealInv'
<1> SUFFICES ASSUME TypeInv, SealInv, Resolve PROVE SealInv'
  OBVIOUS
<1>1. CASE QuarantineIncomplete
  <2>1. TrainingSeals'
    BY <1>1, TrainingSealsBefore
       DEF SealInv, TrainingSeals, QuarantineIncomplete, training, history, LineageKnown,
           NoOutcomeYet
  <2>2. ExportSeals'
    BY <1>1, ExportSealsFrame DEF SealInv, ExportSeals, QuarantineIncomplete, history
  <2> QED
    BY <2>1, <2>2 DEF SealInv, TrainingSeals, ExportSeals
<1>2. CASE ResolveFresh
  BY <1>2, SealResumeAt, TrainingSteps DEF ResolveFresh
<1>3. CASE ResolveLatest
  BY <1>3, SealResumeAt, LatestValidType DEF ResolveLatest
<1>4. CASE ResolveExplicit
  <2>1. config.path \in 0 .. MaxSteps
    BY DEF TypeInv, TypeOK, Config
  <2> QED
    BY <1>4, <2>1, SealResumeAt DEF ResolveExplicit
<1>5. CASE RefuseExplicit
  BY <1>5, SealForget DEF RefuseExplicit
<1> QED
  BY <1>1, <1>2, <1>3, <1>4, <1>5 DEF Resolve

\* Steps, saves and rotations touch checkpoints only.
LEMMA SealTrainer == TypeInv /\ SealInv /\ Trainer => SealInv'
<1> SUFFICES ASSUME TypeInv, SealInv, Trainer PROVE SealInv'
  OBVIOUS
<1>1. /\ UNCHANGED <<adapter, index, manifest, config, lineage, exporting, outcome, history,
                     budget>>
      /\ pc \in Saving \cup {"train", "save", "rotate", "rotating"}
      /\ pc' \in Saving \cup {"train", "save", "rotate", "rotating"}
  BY DEF Trainer, TrainStep, OpenWeights, WriteWeights, WriteConfig, WriteOptimizer, OpenState,
         WriteState, RotateBegins, RotateEnds, RotateDone, Goto, Saving, directory
<1>2. TrainingSeals'
  BY <1>1, TrainingSealsBefore
     DEF SealInv, TrainingSeals, Saving, history, LineageKnown, NoOutcomeYet
<1>3. ExportSeals'
  BY <1>1, ExportSealsFrame DEF SealInv, ExportSeals, history
<1> QED
  BY <1>2, <1>3 DEF SealInv, TrainingSeals, ExportSeals

\* A step of the finalization, given what is to be known after it.
LEMMA SealFinalizeStep ==
  ASSUME TypeInv, SealInv,
         UNCHANGED <<tree, config, step, lineage, victim, exporting, outcome, history, budget>>,
         pc \notin {"idle", "resolve"}, pc' \notin {"idle", "resolve"},
         AdapterIsOwn', IndexIsTrue', SealIsFresh'
  PROVE  SealInv'
<1>1. LineageKnown' /\ NoOutcomeYet' /\ CompletedIsSealed'
  BY DEF SealInv, LineageKnown, NoOutcomeYet, CompletedIsSealed, history
<1>2. ExportSeals'
  BY ExportSealsFrame DEF SealInv, ExportSeals, history
<1> QED
  BY <1>1, <1>2 DEF SealInv, ExportSeals

\* While the index stays, what it was written for stays.
LEMMA IndexIsTrueFrame == IndexIsTrue /\ UNCHANGED <<index, crossed>> => IndexIsTrue'
BY DEF IndexIsTrue

LEMMA SealFinalize == TypeInv /\ SealInv /\ Finalize => SealInv'
<1> SUFFICES ASSUME TypeInv, SealInv, Finalize PROVE SealInv'
  OBVIOUS
<1>a. TypeOK /\ IndexIsTrue /\ AdapterIsOwn /\ LineageKnown /\ SealIsFresh
  BY DEF TypeInv, SealInv
<1>b. adapter \in Adapter /\ adapter.made \in Weights
  BY <1>a DEF TypeOK, Adapter
<1>1. CASE FinishSteps
  <2>1. AdapterIsOwn' /\ SealIsFresh'
    BY <1>1 DEF FinishSteps, Goto, AdapterIsOwn, SealIsFresh
  <2> QED
    BY <1>1, <1>a, <2>1, SealFinalizeStep, IndexIsTrueFrame DEF FinishSteps, Goto, directory, history
<1>2. CASE OpenAdapter
  <2>1. adapter'.bin \/ pc' = "adapter_weights"
    BY <1>2, <1>b DEF OpenAdapter, Goto, Adapter
  <2>2. pc' \in {"adapter_weights", "adapter_config"}
    BY <1>2 DEF OpenAdapter, Goto
  <2>3. AdapterIsOwn' /\ SealIsFresh'
    BY <2>1, <2>2 DEF AdapterIsOwn, SealIsFresh
  <2> QED
    BY <1>2, <1>a, <2>2, <2>3, SealFinalizeStep, IndexIsTrueFrame DEF OpenAdapter, history
<1>3. CASE WriteAdapter
  <2>1. adapter'.made = OwnWeights'
    BY <1>3, <1>b DEF WriteAdapter, OwnWeights, Adapter
  <2>2. AdapterIsOwn' /\ SealIsFresh'
    BY <1>3, <2>1 DEF WriteAdapter, Goto, AdapterIsOwn, SealIsFresh
  <2> QED
    BY <1>3, <1>a, <2>2, SealFinalizeStep, IndexIsTrueFrame DEF WriteAdapter, Goto, history
<1>4. CASE WriteAdapterConfig
  <2>1. adapter'.made = adapter.made /\ adapter'.bin = adapter.bin
    BY <1>4, <1>b DEF WriteAdapterConfig, Adapter
  <2>2. AdapterIsOwn' /\ SealIsFresh'
    BY <1>4, <1>a, <2>1 DEF WriteAdapterConfig, Goto, AdapterIsOwn, SealIsFresh, OwnWeights
  <2> QED
    BY <1>4, <1>a, <2>2, SealFinalizeStep, IndexIsTrueFrame DEF WriteAdapterConfig, Goto, history
<1>5. CASE AssertNoBins
  <2>1. AdapterIsOwn' /\ SealIsFresh'
    BY <1>5, <1>a DEF AssertNoBins, Goto, AdapterIsOwn, SealIsFresh, OwnWeights, directory
  <2> QED
    BY <1>5, <1>a, <2>1, SealFinalizeStep, IndexIsTrueFrame DEF AssertNoBins, Goto, directory, history
<1>6. CASE RefuseBins
  BY <1>6, SealForget DEF RefuseBins
<1>7. CASE PublishIndex
  <2>1. adapter.made = OwnWeights /\ pc' = "manifest"
    BY <1>7, <1>a DEF PublishIndex, AdapterIsOwn, Goto
  <2>2. /\ index' = [adapter |-> adapter, tree |-> tree, provenance |-> config.recipe]
        /\ UNCHANGED <<adapter, tree, lineage, budget, crossed, config>>
    BY <1>7 DEF PublishIndex, Listing, history
  <2>3. config.recipe \in lineage /\ (~crossed => lineage = {config.recipe})
    BY <1>7, <1>a DEF PublishIndex, LineageKnown
  <2>4. index' # NoIndex
    <3>1. index' \in Index
      BY <1>a, <2>2 DEF Index, TypeOK, Config
    <3> QED
      BY <3>1, NothingIsNothing
  <2>5. IndexIsTrue'
    BY <2>1, <2>2, <2>3 DEF IndexIsTrue, OwnWeights
  <2>6. SealIsFresh' /\ AdapterIsOwn'
    BY <2>1, <2>2, <2>4 DEF SealIsFresh, AdapterIsOwn, IndexVerifies, OwnWeights
  <2> QED
    BY <1>7, <2>5, <2>6, SealFinalizeStep DEF PublishIndex, Goto
<1>8. CASE OpenManifest
  <2>1. AdapterIsOwn' /\ SealIsFresh'
    BY <1>8, <1>a DEF OpenManifest, Goto, AdapterIsOwn, SealIsFresh, IndexVerifies, directory
  <2> QED
    BY <1>8, <1>a, <2>1, SealFinalizeStep, IndexIsTrueFrame DEF OpenManifest, Goto, directory, history
<1>9. CASE WriteManifest
  <2>1. CompletedIsSealed'
    BY <1>9, <1>a DEF WriteManifest, SealIsFresh, CompletedIsSealed, IndexVerifies, directory
  <2>2. LineageKnown' /\ AdapterIsOwn' /\ SealIsFresh' /\ NoOutcomeYet'
    BY <1>9 DEF WriteManifest, Forget, Goto, LineageKnown, AdapterIsOwn, SealIsFresh, NoOutcomeYet
  <2>3. IndexIsTrue' /\ ExportSeals'
    BY <1>9, <1>a, IndexIsTrueFrame, ExportSealsFrame
       DEF WriteManifest, directory, history, SealInv, ExportSeals
  <2> QED
    BY <2>1, <2>2, <2>3 DEF SealInv, ExportSeals
<1> QED
  BY <1>1, <1>2, <1>3, <1>4, <1>5, <1>6, <1>7, <1>8, <1>9 DEF Finalize

LEMMA SealStop == TypeInv /\ SealInv /\ StopTraining => SealInv'
BY SealForget DEF StopTraining

\* A step of an export, given what is to be known after it.
LEMMA SealExportStep ==
  ASSUME TypeInv, SealInv, UNCHANGED <<directory, manifest, training, outcome, crossed>>,
         budget'.trainings = budget.trainings, ExportSeals'
  PROVE  SealInv'
BY TrainingSealsFrame DEF SealInv, TrainingSeals, ExportSeals

\* While the merged index stays, what it was written for stays.
LEMMA MergedIndexFrame ==
  MergedIndexIsTrue /\ UNCHANGED <<merged, proper, crossed>> => MergedIndexIsTrue'
BY DEF MergedIndexIsTrue

LEMMA SealExport == TypeInv /\ SealInv /\ Export => SealInv'
<1> SUFFICES ASSUME TypeInv, SealInv, Export PROVE SealInv'
  OBVIOUS
<1>a. TypeOK /\ IndexIsTrue /\ LoadIsTrue /\ MergedIndexIsTrue
  BY DEF TypeInv, SealInv
<1>b. /\ export \in [source : 0 .. MaxSteps, provenance : Recipes \cup {NoIndex},
                     made : Weights, sealed : BOOLEAN]
      /\ merged \in [weights : {"absent", "short", "ok"}, made : Weights,
                     index : MergedIndex \cup {NoIndex}]
      /\ budget \in [trainings : 0 .. MaxTrainings, exports : 0 .. MaxExports,
                     stops : 0 .. MaxStops]
  BY <1>a DEF TypeOK
<1>1. CASE SelectSource
  <2>1. ExportSeals'
    BY <1>1, <1>a DEF SelectSource, ExportAt, ExportSeals, LoadIsTrue, MergedIndexIsTrue, history
  <2>2. budget'.trainings = budget.trainings
    BY <1>1, <1>b DEF SelectSource
  <2> QED
    BY <1>1, <2>1, <2>2, SealExportStep DEF SelectSource, history
<1>2. CASE ReadProvenance
  <2>1. ExportSeals'
    BY <1>2, <1>a DEF ReadProvenance, ExportAt, Refuse, ExportSeals, LoadIsTrue,
                      MergedIndexIsTrue, history
  <2> QED
    BY <1>2, <2>1, SealExportStep DEF ReadProvenance, history
<1>3. CASE RecheckSource
  <2>1. ExportSeals'
    BY <1>3, <1>a DEF RecheckSource, ExportAt, Refuse, ExportSeals, LoadIsTrue,
                      MergedIndexIsTrue, history
  <2> QED
    BY <1>3, <2>1, SealExportStep DEF RecheckSource, history
<1>4. CASE LoadAdapter
  <2>1. ASSUME epc' = "save" PROVE ExportSeals'
    <3>1. /\ export' = [export EXCEPT !.made = adapter.made, !.sealed = SealedAs(export.provenance)]
          /\ UNCHANGED <<merged, proper, crossed>>
      BY <1>4, <2>1 DEF LoadAdapter, ExportAt, Refuse, history
    <3>2. /\ export'.made = adapter.made /\ export'.sealed = SealedAs(export.provenance)
          /\ export'.provenance = export.provenance
      BY <1>b, <3>1
    <3>3. SealedAs(export.provenance) /\ ~crossed => adapter.made.by = {export.provenance}
      BY <1>a DEF SealedAs, IndexVerifies, IndexIsTrue
    <3>4. export'.sealed /\ ~crossed' => export'.made.by = {export'.provenance}
      BY <3>1, <3>2, <3>3, Zenon
    <3>5. LoadIsTrue'
      BY <2>1, <3>4 DEF LoadIsTrue
    <3> QED
      BY <1>a, <3>1, <3>5, MergedIndexFrame DEF ExportSeals
  <2>2. ASSUME epc' = "idle" PROVE ExportSeals'
    <3>1. UNCHANGED <<merged, proper, crossed>>
      BY <1>4 DEF LoadAdapter, history
    <3>2. LoadIsTrue'
      BY <2>2 DEF LoadIsTrue
    <3> QED
      BY <1>a, <3>1, <3>2, MergedIndexFrame DEF ExportSeals
  <2>3. epc' \in {"save", "idle"}
    BY <1>4 DEF LoadAdapter, ExportAt, Refuse
  <2> QED
    BY <1>4, <2>1, <2>2, <2>3, SealExportStep DEF LoadAdapter, history
<1>5. CASE OpenMerged
  <2>1. merged'.index = merged.index
    BY <1>5, <1>b DEF OpenMerged
  <2>2. ExportSeals'
    BY <1>5, <1>a, <2>1 DEF OpenMerged, ExportAt, ExportSeals, LoadIsTrue, MergedIndexIsTrue, history
  <2> QED
    BY <1>5, <2>2, SealExportStep DEF OpenMerged, history
<1>6. CASE WriteMerged
  <2>1. merged'.index = merged.index /\ merged'.made = export.made
    BY <1>6, <1>b DEF WriteMerged
  <2>2. ExportSeals'
    BY <1>6, <1>a, <2>1 DEF WriteMerged, ExportAt, ExportSeals, LoadIsTrue, MergedIndexIsTrue, history
  <2> QED
    BY <1>6, <2>2, SealExportStep DEF WriteMerged, history
<1>7. CASE IndexMerged
  <2>1. /\ merged'.index = [made |-> merged.made, provenance |-> export.provenance]
        /\ proper' = export.sealed /\ epc' = "idle" /\ crossed' = crossed
    BY <1>7, <1>b DEF IndexMerged, Refuse, ExportAt
  <2>2. export.sealed /\ ~crossed => merged.made.by = {export.provenance}
    BY <1>7, <1>a DEF IndexMerged, LoadIsTrue
  <2>3. ExportSeals'
    BY <2>1, <2>2 DEF ExportSeals, LoadIsTrue, MergedIndexIsTrue
  <2> QED
    BY <1>7, <2>3, SealExportStep DEF IndexMerged
<1>8. CASE StopExport
  <2>1. ExportSeals'
    BY <1>8, <1>a DEF StopExport, ExportAt, Refuse, ExportSeals, LoadIsTrue, MergedIndexIsTrue,
                      history
  <2>2. budget'.trainings = budget.trainings
    BY <1>8, <1>b DEF StopExport
  <2> QED
    BY <1>8, <2>1, <2>2, SealExportStep DEF StopExport, history
<1> QED
  BY <1>1, <1>2, <1>3, <1>4, <1>5, <1>6, <1>7, <1>8 DEF Export

LEMMA SealStutter == TypeInv /\ SealInv /\ UNCHANGED vars => SealInv'
BY SealExportStep DEF vars, directory, training, exporting, history, SealInv, ExportSeals,
                      LoadIsTrue, MergedIndexIsTrue

LEMMA SealInvAlways == Spec => [](TypeInv /\ SealInv)
<1>1. Init => SealInv
  BY SealInit
<1>2. TypeInv /\ SealInv /\ [Next]_vars => SealInv'
  BY SealStart, SealResolve, SealTrainer, SealFinalize, SealStop, SealExport, SealStutter DEF Next
<1> QED
  BY <1>1, <1>2, TypeInvAlways, PTL DEF Spec

\* An index that verifies was written for the adapter beside it, whatever was
\* interrupted since (_finalize_training_run, write_artifact_index).
THEOREM SealsAreTrue == Spec => []SealIsTrue
<1>1. SealInv => SealIsTrue
  BY DEF SealInv, IndexIsTrue, SealIsTrue, IndexVerifies
<1> QED
  BY <1>1, SealInvAlways, PTL

\* A merged model that verifies was merged from what its provenance produced,
\* if its adapter was sealed when it was loaded (merge_adapter).
THEOREM MergedSealsAreTrue == Spec => []MergedIsTrue
<1>1. SealInv => MergedIsTrue
  BY DEF SealInv, MergedIndexIsTrue, MergedIsTrue, MergedVerifies
<1> QED
  BY <1>1, SealInvAlways, PTL

\* A training that returned has sealed what it trained, and said so
\* (_finalize_training_run, write_run_manifest).
THEOREM CompletedTrainingIsSealed == Spec => []CompletedIsSealed
<1>1. SealInv => CompletedIsSealed
  BY DEF SealInv
<1> QED
  BY <1>1, SealInvAlways, PTL

-----------------------------------------------------------------------------
(***************************************************************************)
(* What a training resumes, saves over and was reported, for every number  *)
(* of steps, save interval, rotation limit, recipes and bounds.            *)
(*                                                                         *)
(* The argument is about which checkpoint is the newest complete one: a    *)
(* save makes it, a rotation spares it, a quarantine leaves it, and the    *)
(* resolution finds it, wherever a training was stopped.                   *)
(***************************************************************************)

\* A training that resumed the newest checkpoint, by name or by chance, has
\* nothing of the directory ahead of it.
Leads == config.mode = "latest" \/ ~branched

NothingAhead ==
  pc \notin {"idle", "resolve"} /\ Leads =>
    /\ \A t \in Present : t <= step
    /\ pc = "save" => step \notin Present

\* What run-status called ready stays the resume point while the resolution
\* moves incomplete checkpoints away.
ReportStands ==
  pc = "resolve" /\ reported.ready =>
    /\ reported.path \in ValidSteps
    /\ \A t \in ValidSteps : t <= reported.path
    /\ reported.path \notin IncompleteSteps

\* The newest checkpoint that is complete.
IsNewestComplete(s) == /\ s \in Present \ IncompleteSteps
                       /\ \A t \in Present \ IncompleteSteps : t <= s

\* What a save in place has written so far; the trainer state is the last
\* file, if the save found nothing there.
SavedSoFar ==
  /\ pc \in {"save_config", "save_optimizer", "save_state", "save_done"} =>
       tree[step].weights = "ok"
  /\ pc \in {"save_optimizer", "save_state", "save_done"} => tree[step].config
  /\ pc \in {"save_state", "save_done"} => tree[step].resume
  /\ pc \in Saving /\ ~branched => tree[step].state # "ok"

\* The checkpoint just saved is there, complete, and not the one that goes.
RotatesOthers ==
  /\ pc \in {"rotate", "rotating"} => step \in Present \ IncompleteSteps
  /\ pc = "rotating" => victim # step

\* Nothing is of two saves, and the newest complete one has its optimizer.
NewestIsWhole ==
  ~branched => /\ \A s \in Present : ~tree[s].torn
               /\ \A s \in Present : IsNewestComplete(s) => TrainerStateUsable(tree[s])

ResumeInv == /\ NothingAhead
             /\ ReportStands
             /\ SavedSoFar
             /\ RotatesOthers
             /\ NewestIsWhole

-----------------------------------------------------------------------------
(* Checkpoints.                                                            *)

\* The quarantine rule, for a directory without pickles.
LEMMA CompleteMeans ==
  ASSUME NEW t \in Checkpoint
  PROVE  /\ Complete(t, FALSE) <=> t.state = "ok" /\ t.config /\ t.weights = "ok"
         /\ Complete(t, FALSE) => IsValidCheckpoint(t, FALSE)
BY DEF Checkpoint, Complete, IncompleteReason, IsValidCheckpoint, IsAdapterArtifact,
       HasAdapterWeights, GapReason, UnreadableWeightReason

\* find_latest_valid_checkpoint returns the newest one.
LEMMA LatestIsNewest ==
  /\ LatestValid # 0 => LatestValid \in ValidSteps
  /\ \A t \in ValidSteps : t <= LatestValid /\ LatestValid # 0
<1>1. ValidSteps \subseteq Steps
  BY DEF ValidSteps, Present
<1>2. CASE ValidSteps = {}
  BY <1>2 DEF LatestValid
<1>3. CASE ValidSteps # {}
  <2>1. \E s \in ValidSteps : \A t \in ValidSteps : t <= s
    BY <1>1, <1>3, NewestExists
  <2>2. LatestValid \in ValidSteps /\ \A t \in ValidSteps : t <= LatestValid
    BY <1>3, <2>1 DEF LatestValid
  <2>3. LatestValid # 0
    BY <1>1, <2>2 DEF Steps
  <2> QED
    BY <2>2, <2>3
<1> QED
  BY <1>2, <1>3

\* Which steps are complete, said without the reasons.
LEMMA CompleteSteps ==
  ASSUME TypeOK, NEW s \in Steps
  PROVE  /\ s \in Present \ IncompleteSteps <=>
              tree[s] # NoTree /\ tree[s].state = "ok" /\ tree[s].config /\ tree[s].weights = "ok"
         /\ s \in Present \ IncompleteSteps => s \in ValidSteps
<1>1. tree[s] # NoTree => tree[s] \in Checkpoint
  BY DEF TypeOK
<1> QED
  BY <1>1, CompleteMeans DEF Present, IncompleteSteps, ValidSteps

\* Once everything incomplete is out of the way, the latest valid checkpoint
\* is the newest of all.
LEMMA NothingBeyondLatest ==
  ASSUME TypeOK, IncompleteSteps = {}
  PROVE  \A t \in Present : t <= LatestValid
<1> SUFFICES ASSUME NEW t \in Present PROVE t <= LatestValid
  OBVIOUS
<1>1. t \in Steps
  BY DEF Present
<1>2. t \in ValidSteps
  BY <1>1, CompleteSteps
<1> QED
  BY <1>2, LatestIsNewest

-----------------------------------------------------------------------------
(* Every action keeps ResumeInv.                                           *)

LEMMA ResumeInit == Init => ResumeInv
BY DEF Init, ResumeInv, NothingAhead, ReportStands, SavedSoFar, RotatesOthers, NewestIsWhole,
       Present, Saving

\* An action that leaves the checkpoints alone.
LEMMA ResumeFrame ==
  ASSUME TypeInv, ResumeInv, UNCHANGED <<tree, branched>>,
         NothingAhead', ReportStands', SavedSoFar', RotatesOthers'
  PROVE  ResumeInv'
<1>1. Present' = Present /\ IncompleteSteps' = IncompleteSteps
  BY DEF Present, IncompleteSteps
<1>2. NewestIsWhole'
  BY <1>1 DEF ResumeInv, NewestIsWhole, IsNewestComplete
<1> QED
  BY <1>2 DEF ResumeInv

\* A report is about the checkpoints, and stays with them.
LEMMA ReportFrame ==
  ASSUME ReportStands, UNCHANGED <<tree, reported>>, pc' = "resolve" => pc = "resolve"
  PROVE  ReportStands'
<1>1. ValidSteps' = ValidSteps /\ IncompleteSteps' = IncompleteSteps
  BY DEF Present, ValidSteps, IncompleteSteps
<1> QED
  BY <1>1 DEF ReportStands

\* Somewhere between two saves, on the way through one training.
LEMMA ResumePlainStep ==
  ASSUME TypeInv, ResumeInv, UNCHANGED <<tree, branched, reported, step, config>>,
         pc \notin {"idle", "resolve"},
         pc' \notin Saving \cup {"save", "rotate", "rotating", "idle", "resolve"}
  PROVE  ResumeInv'
<1>1. NothingAhead'
  BY DEF ResumeInv, NothingAhead, Leads, Present
<1>2. ReportStands'
  BY DEF ReportStands
<1>3. SavedSoFar' /\ RotatesOthers'
  BY DEF SavedSoFar, RotatesOthers, Saving
<1> QED
  BY <1>1, <1>2, <1>3, ResumeFrame

LEMMA ResumeStart == TypeInv /\ ResumeInv /\ StartTraining => ResumeInv'
<1> SUFFICES ASSUME TypeInv, ResumeInv, StartTraining PROVE ResumeInv'
  OBVIOUS
<1>a. TypeOK
  BY DEF TypeInv
<1>1. UNCHANGED <<tree, branched>> /\ pc' = "resolve" /\ reported' = RunStatus
  BY DEF StartTraining, Goto, directory
<1>2. NothingAhead' /\ SavedSoFar' /\ RotatesOthers'
  BY <1>1 DEF NothingAhead, SavedSoFar, RotatesOthers, Saving
<1>3. ReportStands'
  <2> SUFFICES ASSUME reported'.ready PROVE /\ reported'.path \in ValidSteps'
                                            /\ \A t \in ValidSteps' : t <= reported'.path
                                            /\ reported'.path \notin IncompleteSteps'
    BY DEF ReportStands
  <2>1. ResumeReady /\ reported'.path = LatestValid
    BY <1>1 DEF RunStatus
  <2>2. LatestValid # 0 /\ TrainerStateUsable(tree[LatestValid])
    BY <2>1 DEF ResumeReady
  <2>3. LatestValid \in ValidSteps /\ \A t \in ValidSteps : t <= LatestValid
    BY <2>2, LatestIsNewest
  <2>4. LatestValid \in Steps /\ tree[LatestValid] # NoTree
    BY <2>3 DEF ValidSteps, Present
  <2>5. LatestValid \notin IncompleteSteps
    BY <1>a, <2>2, <2>4, CompleteSteps DEF TrainerStateUsable
  <2>6. ValidSteps' = ValidSteps /\ IncompleteSteps' = IncompleteSteps
    BY <1>1 DEF ValidSteps, IncompleteSteps, Present
  <2> QED
    BY <2>1, <2>3, <2>5, <2>6
<1> QED
  BY <1>1, <1>2, <1>3, ResumeFrame

\* A training that ends, however it ends.
LEMMA ResumeForget ==
  ASSUME TypeInv, ResumeInv, Forget, UNCHANGED <<directory, history>>
  PROVE  ResumeInv'
<1>1. pc' = "idle" /\ UNCHANGED <<tree, branched>>
  BY DEF Forget, Goto, directory, history
<1>2. NothingAhead' /\ SavedSoFar' /\ RotatesOthers' /\ ReportStands'
  BY <1>1 DEF NothingAhead, SavedSoFar, RotatesOthers, ReportStands, Saving
<1> QED
  BY <1>1, <1>2, ResumeFrame

\* Going on: from the newest checkpoint of all, or the history is branched.
LEMMA ResumeResumeAt ==
  ASSUME TypeInv, ResumeInv, NEW s \in 0 .. MaxSteps, ResumeAt(s),
         config.mode = "latest" => \A t \in Present : t <= s,
         UNCHANGED <<directory, config>>
  PROVE  ResumeInv'
<1>1. pc' = "train" /\ step' = s /\ UNCHANGED <<tree, config>>
  BY DEF ResumeAt, Goto, directory
<1>2. Present' = Present /\ IncompleteSteps' = IncompleteSteps /\ Present \subseteq Nat
  BY <1>1 DEF Present, IncompleteSteps, Steps
<1>3. ~branched' => ~branched /\ \A t \in Present : ~(t > s)
  BY DEF ResumeAt
<1>4. NothingAhead'
  BY <1>1, <1>2, <1>3 DEF NothingAhead, Leads
<1>5. SavedSoFar' /\ RotatesOthers' /\ ReportStands'
  BY <1>1 DEF SavedSoFar, RotatesOthers, ReportStands, Saving
<1>6. NewestIsWhole'
  BY <1>1, <1>2, <1>3 DEF ResumeInv, NewestIsWhole, IsNewestComplete
<1> QED
  BY <1>4, <1>5, <1>6 DEF ResumeInv

\* A quarantine takes nothing that counts.
LEMMA ResumeQuarantine ==
  ASSUME TypeInv, ResumeInv, QuarantineIncomplete
  PROVE  ResumeInv'
<1>a. TypeOK
  BY DEF TypeInv
<1>1. PICK s \in IncompleteSteps : tree' = [tree EXCEPT ![s] = NoTree]
  BY DEF QuarantineIncomplete
<1>2. pc = "resolve" /\ pc' = "resolve" /\ UNCHANGED <<reported, branched>>
  BY DEF QuarantineIncomplete, training, history
<1>3. s \in Steps
  BY DEF IncompleteSteps, Present
<1>4. \A t \in Steps : t # s => tree'[t] = tree[t]
  BY <1>a, <1>1 DEF TypeOK
<1>5. tree'[s] = NoTree
  BY <1>a, <1>1, <1>3 DEF TypeOK
<1>6. Present' = Present \ {s} /\ ValidSteps' = ValidSteps \ {s}
        /\ IncompleteSteps' = IncompleteSteps \ {s}
  BY <1>4, <1>5 DEF Present, ValidSteps, IncompleteSteps
<1>7. NothingAhead' /\ SavedSoFar' /\ RotatesOthers'
  BY <1>2 DEF NothingAhead, SavedSoFar, RotatesOthers, Saving
<1>8. ReportStands'
  BY <1>2, <1>6 DEF ResumeInv, ReportStands
<1>9. NewestIsWhole'
  <2>1. Present' \ IncompleteSteps' = Present \ IncompleteSteps
    BY <1>6
  <2> SUFFICES ASSUME ~branched', NEW u \in Present'
               PROVE  ~tree'[u].torn /\ (IsNewestComplete(u)' => TrainerStateUsable(tree'[u]))
    BY DEF NewestIsWhole
  <2>2. u \in Present /\ u \in Steps /\ u # s
    BY <1>6 DEF Present
  <2>3. tree'[u] = tree[u]
    BY <1>4, <2>2
  <2>4. IsNewestComplete(u)' => IsNewestComplete(u)
    BY <2>1 DEF IsNewestComplete
  <2> QED
    BY <1>2, <2>2, <2>3, <2>4 DEF ResumeInv, NewestIsWhole
<1> QED
  BY <1>7, <1>8, <1>9 DEF ResumeInv

LEMMA ResumeResolve == TypeInv /\ ResumeInv /\ Resolve => ResumeInv'
<1> SUFFICES ASSUME TypeInv, ResumeInv, Resolve PROVE ResumeInv'
  OBVIOUS
<1>1. CASE QuarantineIncomplete
  BY <1>1, ResumeQuarantine
<1>2. CASE ResolveFresh
  BY <1>2, ResumeResumeAt, TrainingSteps DEF ResolveFresh
<1>3. CASE ResolveLatest
  BY <1>3, ResumeResumeAt, LatestValidType, NothingBeyondLatest DEF ResolveLatest, TypeInv
<1>4. CASE ResolveExplicit
  <2>1. config.path \in 0 .. MaxSteps
    BY DEF TypeInv, TypeOK, Config
  <2> QED
    BY <1>4, <2>1, ResumeResumeAt DEF ResolveExplicit
<1>5. CASE RefuseExplicit
  BY <1>5, ResumeForget DEF RefuseExplicit
<1> QED
  BY <1>1, <1>2, <1>3, <1>4, <1>5 DEF Resolve

\* Replacing one checkpoint leaves the others what they were.
LEMMA ReplaceOne ==
  ASSUME TypeOK, NEW s \in Steps, NEW t \in Checkpoint, tree' = [tree EXCEPT ![s] = t]
  PROVE  /\ Present' = Present \cup {s}
         /\ \A u \in Steps \ {s} : tree'[u] = tree[u]
         /\ tree'[s] = t
         /\ \A u \in Steps \ {s} : u \in (Present \ IncompleteSteps)' <=>
                                     u \in Present \ IncompleteSteps
         /\ s \in (Present \ IncompleteSteps)' <=>
              t.state = "ok" /\ t.config /\ t.weights = "ok"
<1>1. tree'[s] = t /\ \A u \in Steps \ {s} : tree'[u] = tree[u]
  BY DEF TypeOK
<1>2. t # NoTree
  BY NothingIsNothing
<1>3. Present' = Present \cup {s}
  BY <1>1, <1>2 DEF Present
<1>4. \A u \in Steps \ {s} : u \in (Present \ IncompleteSteps)' <=> u \in Present \ IncompleteSteps
  BY <1>1, <1>3 DEF IncompleteSteps
<1>5. s \in (Present \ IncompleteSteps)' <=> t.state = "ok" /\ t.config /\ t.weights = "ok"
  BY <1>1, <1>3, CompleteMeans DEF IncompleteSteps
<1> QED
  BY <1>1, <1>3, <1>4, <1>5

\* A write of the Trainer that leaves its checkpoint incomplete.
LEMMA ResumeSave ==
  ASSUME TypeInv, ResumeInv, step \in Steps, NEW t \in Checkpoint, Put(t),
         pc' \in Saving, pc \in Saving \cup {"save"},
         UNCHANGED <<branched, reported, step, config>>,
         SavedSoFar',
         ~branched => ~t.torn /\ t.state # "ok" /\ step \notin Present \ IncompleteSteps
  PROVE  ResumeInv'
<1>a. TypeOK
  BY DEF TypeInv
<1>1. /\ Present' = Present \cup {step}
      /\ \A u \in Steps \ {step} : tree'[u] = tree[u]
      /\ tree'[step] = t
      /\ \A u \in Steps \ {step} : u \in (Present \ IncompleteSteps)' <=>
                                     u \in Present \ IncompleteSteps
      /\ step \in (Present \ IncompleteSteps)' <=>
           t.state = "ok" /\ t.config /\ t.weights = "ok"
  BY <1>a, ReplaceOne DEF Put
<1>2. NothingAhead'
  BY <1>1 DEF ResumeInv, NothingAhead, Leads, Saving, Steps
<1>3. ReportStands' /\ RotatesOthers'
  BY DEF ReportStands, RotatesOthers, Saving
<1>4. NewestIsWhole'
  <2> SUFFICES ASSUME ~branched', NEW u \in Present'
               PROVE  ~tree'[u].torn /\ (IsNewestComplete(u)' => TrainerStateUsable(tree'[u]))
    BY DEF NewestIsWhole
  <2>1. ~branched /\ u \in Steps
    BY DEF Present
  <2>2. (Present \ IncompleteSteps)' = Present \ IncompleteSteps
    BY <1>1, <2>1 DEF Present
  <2>3. CASE u = step
    BY <1>1, <2>1, <2>2, <2>3 DEF IsNewestComplete
  <2>4. CASE u # step
    BY <1>1, <2>1, <2>2, <2>4 DEF IsNewestComplete, ResumeInv, NewestIsWhole
  <2> QED
    BY <2>3, <2>4
<1> QED
  BY <1>2, <1>3, <1>4 DEF ResumeInv

\* The trainer state is whole: the newest complete checkpoint is this one.
LEMMA ResumeSaved ==
  ASSUME TypeInv, ResumeInv, WriteState
  PROVE  ResumeInv'
<1> DEFINE t == [tree[step] EXCEPT !.state = "ok", !.torn = FALSE]
<1>a. TypeOK
  BY DEF TypeInv
<1>b. /\ pc = "save_done" /\ pc' = "rotate"
      /\ UNCHANGED <<branched, reported, step, config>>
      /\ tree' = [tree EXCEPT ![step] = t]
  BY DEF WriteState, Put, Goto, history
<1>c. step \in Steps /\ tree[step] \in Checkpoint
  BY <1>a, <1>b DEF TypeInv, Located, Saving, TypeOK
<1>d. t \in Checkpoint
  BY <1>c DEF Checkpoint
<1>e. t.state = "ok" /\ t.config /\ t.weights = "ok" /\ t.resume /\ ~t.torn
  BY <1>b, <1>c DEF ResumeInv, SavedSoFar, Checkpoint
<1> HIDE DEF t
<1>1. /\ Present' = Present \cup {step}
      /\ \A u \in Steps \ {step} : tree'[u] = tree[u]
      /\ tree'[step] = t
      /\ step \in (Present \ IncompleteSteps)'
  BY <1>a, <1>b, <1>c, <1>d, <1>e, ReplaceOne
<1>2. NothingAhead'
  BY <1>b, <1>c, <1>1 DEF ResumeInv, NothingAhead, Leads, Steps
<1>3. ReportStands' /\ SavedSoFar'
  BY <1>b DEF ReportStands, SavedSoFar, Saving
<1>4. RotatesOthers'
  BY <1>b, <1>1 DEF RotatesOthers
<1>5. NewestIsWhole'
  <2> SUFFICES ASSUME ~branched', NEW u \in Present'
               PROVE  ~tree'[u].torn /\ (IsNewestComplete(u)' => TrainerStateUsable(tree'[u]))
    BY DEF NewestIsWhole
  <2>1. ~branched /\ u \in Steps
    BY <1>b DEF Present
  <2>2. u <= step
    BY <1>b, <1>c, <1>1, <2>1 DEF ResumeInv, NothingAhead, Leads, Steps
  <2>3. CASE u = step
    BY <1>1, <1>e, <2>3 DEF TrainerStateUsable
  <2>4. CASE u # step
    <3>1. ~IsNewestComplete(u)'
      BY <1>b, <1>c, <1>1, <2>1, <2>2, <2>4 DEF IsNewestComplete, Steps
    <3> QED
      BY <1>1, <2>1, <2>4, <3>1 DEF ResumeInv, NewestIsWhole
  <2> QED
    BY <2>3, <2>4
<1> QED
  BY <1>2, <1>3, <1>4, <1>5 DEF ResumeInv

\* A rotation takes one that is not the newest complete checkpoint.
LEMMA ResumeRotateBegins ==
  ASSUME TypeInv, ResumeInv, RotateBegins
  PROVE  ResumeInv'
<1>a. TypeOK
  BY DEF TypeInv
<1>b. /\ pc = "rotate" /\ pc' = "rotating"
      /\ UNCHANGED <<branched, reported, step, config>>
  BY DEF RotateBegins, Goto, history
<1>c. PICK s \in Present \ {step} : /\ \E rest \in Without(tree[s]) : tree' = [tree EXCEPT ![s] = rest]
                                    /\ victim' = s
  BY DEF RotateBegins
<1>d. PICK rest \in Without(tree[s]) : tree' = [tree EXCEPT ![s] = rest]
  BY <1>c
<1>e. s \in Steps /\ s # step /\ tree[s] \in Checkpoint
  BY <1>a, <1>c DEF Present, TypeOK
<1>f. rest \in Checkpoint /\ rest.torn = tree[s].torn
  <2>1. CASE rest = [tree[s] EXCEPT !.state = "absent"]
    BY <1>e, <2>1 DEF Checkpoint
  <2>2. CASE rest = [tree[s] EXCEPT !.weights = "absent"]
    BY <1>e, <2>2 DEF Checkpoint
  <2>3. CASE rest = [tree[s] EXCEPT !.config = FALSE]
    BY <1>e, <2>3 DEF Checkpoint
  <2>4. CASE rest = [tree[s] EXCEPT !.resume = FALSE]
    BY <1>e, <2>4 DEF Checkpoint
  <2>5. \/ rest = [tree[s] EXCEPT !.state = "absent"]
        \/ rest = [tree[s] EXCEPT !.weights = "absent"]
        \/ rest = [tree[s] EXCEPT !.config = FALSE]
        \/ rest = [tree[s] EXCEPT !.resume = FALSE]
    BY <1>d, Zenon DEF Without
  <2> QED
    BY <2>1, <2>2, <2>3, <2>4, <2>5, Zenon
<1>g. step \in Steps /\ step \in Present \ IncompleteSteps
  BY <1>b DEF ResumeInv, RotatesOthers, Present
<1>1. /\ Present' = Present
      /\ \A u \in Steps \ {s} : tree'[u] = tree[u]
      /\ tree'[s] = rest
      /\ \A u \in Steps \ {s} : u \in (Present \ IncompleteSteps)' <=>
                                u \in Present \ IncompleteSteps
  <2>1. Present' = Present \cup {s}
    BY <1>a, <1>d, <1>e, <1>f, ReplaceOne
  <2>2. Present' = Present
    BY <1>c, <2>1
  <2> QED
    BY <1>a, <1>d, <1>e, <1>f, <2>2, ReplaceOne
<1>2. NothingAhead'
  BY <1>b, <1>1 DEF ResumeInv, NothingAhead, Leads
<1>3. ReportStands' /\ SavedSoFar'
  BY <1>b DEF ReportStands, SavedSoFar, Saving
<1>4. RotatesOthers'
  BY <1>b, <1>c, <1>e, <1>g, <1>1 DEF RotatesOthers
<1>5. NewestIsWhole'
  <2> SUFFICES ASSUME ~branched', NEW u \in Present'
               PROVE  ~tree'[u].torn /\ (IsNewestComplete(u)' => TrainerStateUsable(tree'[u]))
    BY DEF NewestIsWhole
  <2>1. ~branched /\ u \in Steps /\ u \in Present
    BY <1>b, <1>1 DEF Present
  <2>2. \A w \in Present : w <= step
    BY <1>b, <2>1 DEF ResumeInv, NothingAhead, Leads
  <2>3. ~tree[u].torn
    BY <2>1 DEF ResumeInv, NewestIsWhole
  <2>4. ~tree'[u].torn
    BY <1>1, <1>f, <2>1, <2>3
  <2>5. ASSUME IsNewestComplete(u)' PROVE TrainerStateUsable(tree'[u])
    <3>1. step \in (Present \ IncompleteSteps)'
      BY <1>1, <1>e, <1>g
    <3>2. step <= u
      BY <1>b, <2>5, <3>1 DEF IsNewestComplete
    <3>3. u = step
      BY <1>g, <2>1, <2>2, <3>2 DEF Steps
    <3>4. IsNewestComplete(step)
      BY <1>g, <2>2 DEF IsNewestComplete
    <3>5. TrainerStateUsable(tree[step])
      BY <1>g, <2>1, <3>4 DEF ResumeInv, NewestIsWhole
    <3> QED
      BY <1>1, <1>e, <2>1, <3>3, <3>5
  <2> QED
    BY <2>4, <2>5
<1> QED
  BY <1>2, <1>3, <1>4, <1>5 DEF ResumeInv

\* The rotation is over with that one.
LEMMA ResumeRotateEnds ==
  ASSUME TypeInv, ResumeInv, RotateEnds
  PROVE  ResumeInv'
<1>a. TypeOK
  BY DEF TypeInv
<1>b. /\ pc = "rotating" /\ pc' = "rotate"
      /\ UNCHANGED <<branched, reported, step, config>>
      /\ tree' = [tree EXCEPT ![victim] = NoTree]
  BY DEF RotateEnds, Goto, history
<1>c. victim # step /\ step \in Steps /\ step \in Present \ IncompleteSteps
  BY <1>b DEF ResumeInv, RotatesOthers, Present
<1>1. /\ \A u \in Steps \ {victim} : tree'[u] = tree[u]
      /\ victim \in Steps => tree'[victim] = NoTree
  BY <1>a, <1>b DEF TypeOK
<1>2. /\ Present' = Present \ {victim}
      /\ (Present \ IncompleteSteps)' = (Present \ IncompleteSteps) \ {victim}
  BY <1>1 DEF Present, IncompleteSteps
<1>3. NothingAhead'
  BY <1>b, <1>2 DEF ResumeInv, NothingAhead, Leads
<1>4. ReportStands' /\ SavedSoFar'
  BY <1>b DEF ReportStands, SavedSoFar, Saving
<1>5. RotatesOthers'
  BY <1>b, <1>c, <1>2 DEF RotatesOthers
<1>6. NewestIsWhole'
  <2> SUFFICES ASSUME ~branched', NEW u \in Present'
               PROVE  ~tree'[u].torn /\ (IsNewestComplete(u)' => TrainerStateUsable(tree'[u]))
    BY DEF NewestIsWhole
  <2>1. ~branched /\ u \in Steps /\ u \in Present /\ u # victim
    BY <1>b, <1>2 DEF Present
  <2>2. \A w \in Present : w <= step
    BY <1>b, <2>1 DEF ResumeInv, NothingAhead, Leads
  <2>3. tree'[u] = tree[u]
    BY <1>1, <2>1
  <2>4. ASSUME IsNewestComplete(u)' PROVE IsNewestComplete(u)
    <3>1. u \in Present \ IncompleteSteps
      BY <1>2, <2>4 DEF IsNewestComplete
    <3>2. step <= u
      BY <1>b, <1>c, <1>2, <2>4 DEF IsNewestComplete
    <3>3. u = step
      BY <1>c, <2>1, <2>2, <3>2 DEF Steps
    <3> QED
      BY <2>2, <3>1, <3>3 DEF IsNewestComplete
  <2> QED
    BY <2>1, <2>3, <2>4 DEF ResumeInv, NewestIsWhole
<1> QED
  BY <1>3, <1>4, <1>5, <1>6 DEF ResumeInv

LEMMA ResumeTrainer == TypeInv /\ ResumeInv /\ Trainer => ResumeInv'
<1> SUFFICES ASSUME TypeInv, ResumeInv, Trainer PROVE ResumeInv'
  OBVIOUS
<1>a. TypeOK /\ Located /\ TypeInv'
  BY TypeTrainer DEF TypeInv
<1>b. /\ NothingAhead /\ SavedSoFar
      /\ ~branched => \A s \in Present : ~tree[s].torn
  BY DEF ResumeInv, NewestIsWhole
<1>c. pc \in Saving => /\ step \in Steps /\ step \in Present /\ tree[step] \in Checkpoint
                       /\ (~branched => ~tree[step].torn /\ step \notin Present \ IncompleteSteps)
  <2> SUFFICES ASSUME pc \in Saving
               PROVE  /\ step \in Steps /\ step \in Present /\ tree[step] \in Checkpoint
                      /\ (~branched => ~tree[step].torn /\ step \notin Present \ IncompleteSteps)
    OBVIOUS
  <2>1. step \in Steps /\ step \in Present /\ tree[step] \in Checkpoint
    BY <1>a DEF Located, Present, TypeOK
  <2>2. ~branched => tree[step].state # "ok"
    BY <1>b DEF SavedSoFar
  <2> QED
    BY <1>a, <1>b, <2>1, <2>2, CompleteSteps
<1>1. CASE TrainStep
  <2>1. /\ pc = "train" /\ pc' \in {"save", "train"} /\ step' = step + 1
        /\ UNCHANGED <<tree, branched, reported, config>>
    BY <1>1 DEF TrainStep, Goto, directory, history
  <2>2. step \in Nat /\ Present \subseteq Nat /\ Present' = Present
    BY <1>a, <2>1 DEF TypeOK, Present, Steps
  <2>3. NothingAhead'
    BY <1>b, <2>1, <2>2 DEF NothingAhead, Leads
  <2>4. ReportStands' /\ SavedSoFar' /\ RotatesOthers'
    BY <2>1 DEF ReportStands, SavedSoFar, RotatesOthers, Saving
  <2> QED
    BY <2>1, <2>3, <2>4, ResumeFrame
<1>2. CASE OpenWeights
  <2> DEFINE old == IF tree[step] = NoTree THEN EmptyCheckpoint ELSE tree[step]
             t   == [old EXCEPT !.weights = "short", !.torn = (tree[step] # NoTree)]
  <2>1. /\ pc = "save" /\ pc' = "save_weights" /\ UNCHANGED <<branched, reported, step, config>>
        /\ Put(t)
    BY <1>2 DEF OpenWeights, Goto, history
  <2>2. step \in Steps
    BY <1>a, <2>1 DEF Located
  <2>3. old \in Checkpoint
    BY <1>a, <2>2, NothingTypes DEF TypeOK
  <2>4. t \in Checkpoint /\ t.state = old.state /\ t.torn = (tree[step] # NoTree)
    <3> HIDE DEF old
    <3>1. (tree[step] # NoTree) \in BOOLEAN
      OBVIOUS
    <3> QED
      BY <2>3, <3>1 DEF Checkpoint
  <2>5. ~branched => tree[step] = NoTree /\ step \notin Present
    BY <1>b, <2>1, <2>2 DEF NothingAhead, Leads, Present
  <2>6. ~branched => ~t.torn /\ t.state # "ok"
    BY <2>4, <2>5 DEF EmptyCheckpoint
  <2>7. tree'[step] = t
    BY <1>a, <2>1, <2>2 DEF Put, TypeOK
  <2> HIDE DEF t, old
  <2>8. SavedSoFar'
    BY <2>1, <2>6, <2>7 DEF SavedSoFar
  <2> QED
    BY <2>1, <2>2, <2>4, <2>5, <2>6, <2>8, ResumeSave DEF Saving
<1>3. CASE WriteWeights
  <2> DEFINE mine == [by |-> lineage, job |-> budget.trainings]
             t    == [tree[step] EXCEPT !.weights = "ok", !.made = mine]
  <2>1. /\ pc = "save_weights" /\ pc' = "save_config"
        /\ UNCHANGED <<branched, reported, step, config>> /\ Put(t)
    BY <1>3 DEF WriteWeights, Goto, history
  <2>2. step \in Steps /\ tree[step] \in Checkpoint
    BY <1>c, <2>1 DEF Saving
  <2>3. mine \in Weights
    BY <1>a, TrainedType
  <2>4. t \in Checkpoint /\ t.state = tree[step].state /\ t.torn = tree[step].torn /\ t.weights = "ok"
    <3> HIDE DEF mine
    <3> QED
      BY <2>2, <2>3 DEF Checkpoint
  <2>5. tree'[step] = t
    BY <1>a, <2>1, <2>2 DEF Put, TypeOK
  <2> HIDE DEF t
  <2>6. ~branched => t.state # "ok"
    BY <1>b, <2>1, <2>4 DEF SavedSoFar, Saving
  <2>7. SavedSoFar'
    BY <2>1, <2>4, <2>5, <2>6 DEF SavedSoFar
  <2> QED
    BY <1>c, <2>1, <2>2, <2>4, <2>6, <2>7, ResumeSave DEF Saving
<1>4. CASE WriteConfig
  <2> DEFINE t == [tree[step] EXCEPT !.config = TRUE]
  <2>1. /\ pc = "save_config" /\ pc' = "save_optimizer"
        /\ UNCHANGED <<branched, reported, step, config>> /\ Put(t)
    BY <1>4 DEF WriteConfig, Goto, history
  <2>2. step \in Steps /\ tree[step] \in Checkpoint
    BY <1>c, <2>1 DEF Saving
  <2>4. /\ t \in Checkpoint /\ t.state = tree[step].state /\ t.torn = tree[step].torn
        /\ t.weights = tree[step].weights /\ t.config
    BY <2>2 DEF Checkpoint
  <2>5. tree'[step] = t
    BY <1>a, <2>1, <2>2 DEF Put, TypeOK
  <2> HIDE DEF t
  <2>6. ~branched => t.state # "ok"
    BY <1>b, <2>1, <2>4 DEF SavedSoFar, Saving
  <2>7. SavedSoFar'
    BY <1>b, <2>1, <2>4, <2>5, <2>6 DEF SavedSoFar
  <2> QED
    BY <1>c, <2>1, <2>2, <2>4, <2>6, <2>7, ResumeSave DEF Saving
<1>5. CASE WriteOptimizer
  <2> DEFINE t == [tree[step] EXCEPT !.resume = TRUE]
  <2>1. /\ pc = "save_optimizer" /\ pc' = "save_state"
        /\ UNCHANGED <<branched, reported, step, config>> /\ Put(t)
    BY <1>5 DEF WriteOptimizer, Goto, history
  <2>2. step \in Steps /\ tree[step] \in Checkpoint
    BY <1>c, <2>1 DEF Saving
  <2>4. /\ t \in Checkpoint /\ t.state = tree[step].state /\ t.torn = tree[step].torn
        /\ t.weights = tree[step].weights /\ t.config = tree[step].config /\ t.resume
    BY <2>2 DEF Checkpoint
  <2>5. tree'[step] = t
    BY <1>a, <2>1, <2>2 DEF Put, TypeOK
  <2> HIDE DEF t
  <2>6. ~branched => t.state # "ok"
    BY <1>b, <2>1, <2>4 DEF SavedSoFar, Saving
  <2>7. SavedSoFar'
    BY <1>b, <2>1, <2>4, <2>5, <2>6 DEF SavedSoFar
  <2> QED
    BY <1>c, <2>1, <2>2, <2>4, <2>6, <2>7, ResumeSave DEF Saving
<1>6. CASE OpenState
  <2> DEFINE t == [tree[step] EXCEPT !.state = "malformed"]
  <2>1. /\ pc = "save_state" /\ pc' = "save_done"
        /\ UNCHANGED <<branched, reported, step, config>> /\ Put(t)
    BY <1>6 DEF OpenState, Goto, history
  <2>2. step \in Steps /\ tree[step] \in Checkpoint
    BY <1>c, <2>1 DEF Saving
  <2>4. /\ t \in Checkpoint /\ t.state = "malformed" /\ t.torn = tree[step].torn
        /\ t.weights = tree[step].weights /\ t.config = tree[step].config
        /\ t.resume = tree[step].resume
    BY <2>2 DEF Checkpoint
  <2>5. tree'[step] = t
    BY <1>a, <2>1, <2>2 DEF Put, TypeOK
  <2> HIDE DEF t
  <2>7. SavedSoFar'
    BY <1>b, <2>1, <2>4, <2>5 DEF SavedSoFar
  <2> QED
    BY <1>c, <2>1, <2>2, <2>4, <2>7, ResumeSave DEF Saving
<1>7. CASE WriteState
  BY <1>7, ResumeSaved
<1>8. CASE RotateBegins
  BY <1>8, ResumeRotateBegins
<1>9. CASE RotateEnds
  BY <1>9, ResumeRotateEnds
<1>10. CASE RotateDone
  BY <1>10, ResumePlainStep DEF RotateDone, Goto, directory, history, Saving
<1> QED
  BY <1>1, <1>2, <1>3, <1>4, <1>5, <1>6, <1>7, <1>8, <1>9, <1>10 DEF Trainer

LEMMA ResumeFinalize == TypeInv /\ ResumeInv /\ Finalize => ResumeInv'
<1> SUFFICES ASSUME TypeInv, ResumeInv, Finalize PROVE ResumeInv'
  OBVIOUS
<1>1. CASE FinishSteps
  BY <1>1, ResumePlainStep DEF FinishSteps, Goto, directory, history, Saving
<1>2. CASE OpenAdapter
  <2>1. pc' \in {"adapter_weights", "adapter_config"}
    BY <1>2 DEF OpenAdapter, Goto
  <2> QED
    BY <1>2, <2>1, ResumePlainStep DEF OpenAdapter, history, Saving
<1>3. CASE WriteAdapter
  BY <1>3, ResumePlainStep DEF WriteAdapter, Goto, history, Saving
<1>4. CASE WriteAdapterConfig
  BY <1>4, ResumePlainStep DEF WriteAdapterConfig, Goto, history, Saving
<1>5. CASE AssertNoBins
  BY <1>5, ResumePlainStep DEF AssertNoBins, Goto, directory, history, Saving
<1>6. CASE RefuseBins
  BY <1>6, ResumeForget DEF RefuseBins
<1>7. CASE PublishIndex
  BY <1>7, ResumePlainStep DEF PublishIndex, Goto, history, Saving
<1>8. CASE OpenManifest
  BY <1>8, ResumePlainStep DEF OpenManifest, Goto, directory, history, Saving
<1>9. CASE WriteManifest
  BY <1>9, ResumeForget DEF WriteManifest
<1> QED
  BY <1>1, <1>2, <1>3, <1>4, <1>5, <1>6, <1>7, <1>8, <1>9 DEF Finalize

\* An export reads the checkpoints, and a step in which nothing happens.
LEMMA ResumeBystander ==
  ASSUME TypeInv, ResumeInv, UNCHANGED <<tree, training, branched, reported>>
  PROVE  ResumeInv'
<1>1. Present' = Present /\ UNCHANGED <<pc, config, step, victim>>
  BY DEF training, Present
<1>2. IncompleteSteps' = IncompleteSteps
  BY DEF IncompleteSteps, Present
<1>3. NothingAhead' /\ SavedSoFar' /\ RotatesOthers' /\ ReportStands'
  BY <1>1, <1>2, ReportFrame
     DEF ResumeInv, NothingAhead, Leads, SavedSoFar, RotatesOthers
<1> QED
  BY <1>3, ResumeFrame

LEMMA ResumeStep == TypeInv /\ ResumeInv /\ [Next]_vars => ResumeInv'
<1> SUFFICES ASSUME TypeInv, ResumeInv, [Next]_vars PROVE ResumeInv'
  OBVIOUS
<1>1. CASE StopTraining
  BY <1>1, ResumeForget DEF StopTraining
<1>2. CASE Export
  <2>1. UNCHANGED <<tree, training, branched, reported>>
    BY <1>2 DEF Export, SelectSource, ReadProvenance, RecheckSource, LoadAdapter, OpenMerged,
                WriteMerged, IndexMerged, StopExport, directory, history
  <2> QED
    BY <2>1, ResumeBystander
<1>3. CASE UNCHANGED vars
  BY <1>3, ResumeBystander DEF vars, directory, training, history
<1> QED
  BY <1>1, <1>2, <1>3, ResumeStart, ResumeResolve, ResumeTrainer, ResumeFinalize DEF Next

LEMMA ResumeInvAlways == Spec => [](TypeInv /\ ResumeInv)
<1>1. Init => ResumeInv
  BY ResumeInit
<1> QED
  BY <1>1, ResumeStep, TypeInvAlways, PTL DEF Spec

-----------------------------------------------------------------------------
(* The theorems.                                                           *)

\* Only the three resolving actions start the steps of a training.
LEMMA WhoResolves ==
  ASSUME [Next]_vars, pc = "resolve", pc' = "train"
  PROVE  ResolveFresh \/ ResolveLatest \/ ResolveExplicit
<1>1. ~Trainer /\ ~Finalize /\ ~StartTraining
  BY DEF Trainer, TrainStep, OpenWeights, WriteWeights, WriteConfig, WriteOptimizer, OpenState,
         WriteState, RotateBegins, RotateEnds, RotateDone, Finalize, FinishSteps, OpenAdapter,
         WriteAdapter, WriteAdapterConfig, AssertNoBins, RefuseBins, PublishIndex, OpenManifest,
         WriteManifest, StartTraining
<1>2. ~StopTraining /\ ~RefuseExplicit /\ ~QuarantineIncomplete
  BY DEF StopTraining, RefuseExplicit, Forget, Goto, QuarantineIncomplete, training
<1>3. ~Export /\ ~UNCHANGED vars
  BY DEF Export, SelectSource, ReadProvenance, RecheckSource, LoadAdapter, OpenMerged,
         WriteMerged, IndexMerged, StopExport, vars, training
<1> QED
  BY <1>1, <1>2, <1>3 DEF Next, Resolve

\* Only OpenWeights opens a save.
LEMMA WhoSaves ==
  ASSUME [Next]_vars, pc = "save", pc' = "save_weights"
  PROVE  OpenWeights
<1>1. ~StartTraining /\ ~Finalize /\ ~Resolve
  BY DEF Resolve, QuarantineIncomplete, ResolveFresh, ResolveLatest, ResolveExplicit,
         RefuseExplicit, Finalize, FinishSteps, OpenAdapter, WriteAdapter, WriteAdapterConfig,
         AssertNoBins, RefuseBins, PublishIndex, OpenManifest, WriteManifest, StartTraining
<1>2. ~StopTraining
  BY DEF StopTraining, Forget, Goto
<1>3. ~Export /\ ~UNCHANGED vars
  BY DEF Export, SelectSource, ReadProvenance, RecheckSource, LoadAdapter, OpenMerged,
         WriteMerged, IndexMerged, StopExport, vars, training
<1> QED
  BY <1>1, <1>2, <1>3 DEF Next, Trainer, TrainStep, WriteWeights, WriteConfig, WriteOptimizer,
         OpenState, WriteState, RotateBegins, RotateEnds, RotateDone

\* A checkpoint that is resumed is complete and of one save, unless some
\* training passed over checkpoints it found (resolve_resume_checkpoint).
THEOREM ResumedCheckpointsAreWhole == Spec => ResumedIsWhole
<1>1. ASSUME TypeInv, ResumeInv, [Next]_vars, pc = "resolve", pc' = "train", step' # 0, ~branched'
      PROVE  TrainerStateUsable(tree[step']) /\ ~tree[step'].torn
  <2>1. PICK s \in Present \ IncompleteSteps : ResumeAt(s)
    <3>1. CASE ResolveFresh
      BY <1>1, <3>1 DEF ResolveFresh, ResumeAt
    <3>2. CASE ResolveLatest
      <4>1. LatestValid # 0
        BY <1>1, <3>2 DEF ResolveLatest, ResumeAt
      <4>2. LatestValid \in Present \ IncompleteSteps
        BY <3>2, <4>1, LatestValidType DEF ResolveLatest
      <4> QED
        BY <3>2, <4>2 DEF ResolveLatest
    <3>3. CASE ResolveExplicit
      BY <3>3 DEF ResolveExplicit
    <3> QED
      BY <1>1, <3>1, <3>2, <3>3, WhoResolves
  <2>2. step' = s /\ ~branched /\ \A t \in Present : ~(t > s)
    BY <1>1, <2>1 DEF ResumeAt
  <2>3. IsNewestComplete(s)
    BY <2>1, <2>2 DEF IsNewestComplete, Present, Steps
  <2> QED
    BY <1>1, <2>1, <2>2, <2>3 DEF ResumeInv, NewestIsWhole
<1>2. TypeInv /\ ResumeInv /\ [Next]_vars
        => [(pc = "resolve" /\ pc' = "train" /\ step' # 0 /\ ~branched') =>
              TrainerStateUsable(tree[step']) /\ ~tree[step'].torn]_vars
  BY <1>1
<1> QED
  BY <1>2, ResumeInvAlways, PTL DEF Spec, ResumedIsWhole

\* A training that resumes from the latest checkpoint never saves over one
\* (quarantine_incomplete_checkpoints, find_latest_valid_checkpoint).
THEOREM LatestNeverSavesOver == Spec => LatestNeverOverwrites
<1>1. TypeInv /\ ResumeInv /\ [Next]_vars
        => [(pc = "save" /\ pc' = "save_weights" /\ config.mode = "latest") =>
              tree[step] = NoTree]_vars
  <2> SUFFICES ASSUME TypeInv, ResumeInv, pc = "save", config.mode = "latest"
               PROVE  tree[step] = NoTree
    OBVIOUS
  <2>1. step \in Steps /\ step \notin Present
    BY DEF TypeInv, Located, ResumeInv, NothingAhead, Leads
  <2> QED
    BY <2>1 DEF Present
<1> QED
  BY <1>1, ResumeInvAlways, PTL DEF Spec, LatestNeverOverwrites

\* What run-status reports ready is what the next training resumes from
\* (build_run_status, resolve_resume_checkpoint).
THEOREM ReadyIsResumed == Spec => ReadyMeansResumed
<1>1. ASSUME TypeInv, ResumeInv, [Next]_vars, pc = "resolve", pc' = "train",
             config.mode = "latest", reported.ready
      PROVE  step' = reported.path
  <2>1. ResolveLatest
    BY <1>1, WhoResolves DEF ResolveFresh, ResolveExplicit
  <2>2. step' = LatestValid
    BY <2>1 DEF ResolveLatest, ResumeAt
  <2>3. reported.path \in ValidSteps /\ \A t \in ValidSteps : t <= reported.path
    BY <1>1 DEF ResumeInv, ReportStands
  <2>4. LatestValid \in ValidSteps /\ reported.path <= LatestValid
    BY <2>3, LatestIsNewest
  <2>n. ValidSteps \subseteq Nat
    <3>1. ValidSteps \subseteq Steps
      BY DEF ValidSteps, Present
    <3>2. Steps \subseteq Nat
      BY TrainingSteps DEF Steps
    <3> QED
      BY <3>1, <3>2
  <2>5. LatestValid <= reported.path /\ reported.path \in Nat /\ LatestValid \in Nat
    BY <2>3, <2>4, <2>n
  <2> QED
    BY <2>2, <2>4, <2>5
<1>2. TypeInv /\ ResumeInv /\ [Next]_vars
        => [(pc = "resolve" /\ pc' = "train" /\ config.mode = "latest" /\ reported.ready) =>
              step' = reported.path]_vars
  BY <1>1
<1> QED
  BY <1>2, ResumeInvAlways, PTL DEF Spec, ReadyMeansResumed
=============================================================================
