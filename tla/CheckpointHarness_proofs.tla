----------------------- MODULE CheckpointHarness_proofs -----------------------
(***************************************************************************)
(* Type correctness and safety of CheckpointHarness, for every number of    *)
(* steps, save interval, set of foreign trees and bound.                    *)
(*                                                                          *)
(* TypeOK is not inductive: whether staging[mine].child is a tree, or the   *)
(* directory a quarantine call names exists, depends on where the process   *)
(* is.  TypeInv adds those facts per program location (Located), and is     *)
(* kept by every action.  The lemmas MoveOn, CallOn, FillStaging and        *)
(* ForgetType are the four shapes almost every action has.                  *)
(***************************************************************************)
EXTENDS CheckpointHarness, WellFoundedInduction, TLAPS

\* The order the least-element argument below runs over.
NatOrder == OpToRel(<, Nat)

\* max() over the steps found: a non-empty set of steps has a newest one, so
\* find_latest and select_resume_checkpoint never choose from nothing.
LEMMA LatestExists ==
  ASSUME NEW S, S \subseteq Steps, S # {}
  PROVE  /\ Latest(S) \in S
         /\ \A t \in S : t <= Latest(S)
<1> DEFINE T == {n \in Nat : MaxSteps - n \in S}
<1>1. T \subseteq Nat
  OBVIOUS
<1>2. T # {}
  <2>1. PICK s \in S : TRUE
    OBVIOUS
  <2>2. MaxSteps - s \in Nat /\ MaxSteps - (MaxSteps - s) = s
    BY <2>1, StepsAssumption DEF Steps
  <2> QED
    BY <2>1, <2>2
<1>3. IsWellFoundedOn(NatOrder, Nat)
  BY NatLessThanWellFounded DEF NatOrder
<1>4. \E m \in T : \A n \in T : <<n, m>> \notin NatOrder
  <2> HIDE DEF T
  <2> QED
    BY <1>1, <1>2, <1>3, WFMin
<1>5. PICK m \in T : \A n \in T : ~(n < m)
  BY <1>1, <1>4 DEF NatOrder, OpToRel
<1>6. \A t \in S : t <= MaxSteps - m
  <2> SUFFICES ASSUME NEW t \in S PROVE t <= MaxSteps - m
    OBVIOUS
  <2>1. MaxSteps - t \in Nat /\ MaxSteps - (MaxSteps - t) = t
    BY StepsAssumption DEF Steps
  <2>2. MaxSteps - t \in T
    BY <2>1
  <2> QED
    BY <1>5, <2>1, <2>2, StepsAssumption DEF Steps
<1> QED
  BY <1>5, <1>6 DEF Latest

-----------------------------------------------------------------------------
(* Trees.                                                                  *)

\* Every reason the quarantine rule gives is one the reason file may carry,
\* and "none" is given to no tree the rule takes.
LEMMA ReasonTypes ==
  ASSUME NEW t \in Tree
  PROVE  /\ IncompleteReason(t, FALSE) \in Reasons \cup {"none"}
         /\ ~Complete(t, FALSE) => IncompleteReason(t, FALSE) \in Reasons
         /\ RollbackReason(t) \in Reasons
BY DEF IncompleteReason, GapReason, UnreadableWeightReason, Complete, IsValidCheckpoint,
       IsAdapterArtifact, HasAdapterWeights, RollbackReason, Reasons, GapReasons,
       ContentReasons, CallerReasons, Tree

\* A staged tree is always moved with a reason, also a complete one.
LEMMA ChildReasonType ==
  ASSUME NEW d \in Slots, staging[d].child \in Tree
  PROVE  ChildReason(d) \in Reasons
BY ReasonTypes DEF ChildReason, Reasons, CallerReasons

\* A staging directory starts as a tree, and is not mistaken for no tree.
LEMMA EmptyTreeType == EmptyTree \in Tree /\ EmptyTree # NoTree
<1>1. EmptyTree \in Tree
  BY DEF EmptyTree, Tree
<1> QED
  BY <1>1, NoTreeAssumption

\* One file write of write_adapter_files turns a tree into a tree.
LEMMA NextAdapterWriteType ==
  ASSUME NEW t \in Tree
  PROVE  NextAdapterWrite(t) \in Tree /\ NextAdapterWrite(t) # NoTree
<1>1. NextAdapterWrite(t) \in Tree
  BY DEF NextAdapterWrite, Tree
<1> QED
  BY <1>1, NoTreeAssumption

\* One file write of write_checkpoint_tree turns a tree into a tree.
LEMMA NextWriteType ==
  ASSUME NEW t \in Tree
  PROVE  NextWrite(t) \in Tree /\ NextWrite(t) # NoTree
<1>1. NextWrite(t) \in Tree
  BY NextAdapterWriteType DEF NextWrite, Tree
<1> QED
  BY <1>1, NoTreeAssumption

\* select_resume_checkpoint returns a step of this run, or none.
LEMMA ResumePointType ==
  /\ ResumePoint \in 0 .. MaxSteps
  /\ ResumePoint # 0 => ResumePoint \in ValidSteps
<1>1. EquivalentSteps \subseteq ValidSteps /\ EquivalentSteps \subseteq Steps
        /\ ValidSteps \subseteq Steps
  BY DEF EquivalentSteps, ValidSteps, Present
<1>2. CASE EquivalentSteps # {}
  <2>1. Latest(EquivalentSteps) \in EquivalentSteps
    BY <1>1, <1>2, LatestExists
  <2>2. ResumePoint = Latest(EquivalentSteps)
    BY <1>2 DEF ResumePoint
  <2>3. ResumePoint \in ValidSteps /\ ResumePoint \in Steps
    BY <1>1, <2>1, <2>2
  <2> QED
    BY <2>3, StepsAssumption DEF Steps
<1>3. CASE EquivalentSteps = {} /\ ValidSteps # {}
  <2>1. Latest(ValidSteps) \in ValidSteps
    BY <1>1, <1>3, LatestExists
  <2>2. ResumePoint = Latest(ValidSteps)
    BY <1>3 DEF ResumePoint
  <2>3. ResumePoint \in ValidSteps /\ ResumePoint \in Steps
    BY <1>1, <2>1, <2>2
  <2> QED
    BY <2>3, StepsAssumption DEF Steps
<1>4. CASE EquivalentSteps = {} /\ ValidSteps = {}
  BY <1>4, StepsAssumption DEF ResumePoint
<1> QED
  BY <1>2, <1>3, <1>4

-----------------------------------------------------------------------------
(* What pc says about the rest of the memory.                              *)

\* Where a save step is being published under its name.
Naming == {"save", "stage", "write", "publish", "rename", "fsync", "rollback"}

\* Where this process owns a staging directory.
Opened == {"stage", "write", "publish", "rename", "fsync", "rollback",
           "rollback_staged", "reclaim", "export_stage", "export_write",
           "export_config", "export_weights", "export_tidy", "export_rollback"}

\* Where that directory holds a tree.
Filled == {"write", "publish", "rename", "export_write", "export_config",
           "export_weights"}

\* The directory quarantine_tree was called on.
JobInPlace ==
  /\ job.at = "checkpoint" => job.key \in Steps /\ run[job.key] # NoTree
  /\ job.at \in {"child", "dir"} => job.key \in Slots /\ staging[job.key] # NoDir
  /\ job.at = "child" => staging[job.key].child # NoTree
  /\ job.ret \in {"rollback_staged", "reclaim"} =>
       job.at # "dir" /\ mine \in Slots /\ staging[mine] # NoDir

\* What holds at a program location: the arguments in memory name
\* directories that exist.  TypeOK alone is not inductive without it.
Located ==
  /\ pc \in Naming => step \in Steps
  /\ pc \in Opened => mine \in Slots /\ staging[mine] # NoDir
  /\ pc \in Filled => staging[mine].child # NoTree
  /\ pc \in {"note", "move"} => JobInPlace

TypeInv == TypeOK /\ Located

\* A run directory nobody works on is well typed.
LEMMA InitType == Init => TypeInv
<1> SUFFICES ASSUME Init PROVE TypeInv
  OBVIOUS
<1>1. NoJob \in Job /\ NoEvidence \in [step : Steps \cup {0, -1}, equivalent : BOOLEAN]
  BY DEF NoJob, Job, Reasons, CallerReasons, NoEvidence
<1>2. run \in [Steps -> Tree \cup {NoTree}]
  BY TreesAssumption DEF Init
<1>3. TypeOK
  <2>1. fault \in Faults /\ step \in 0 .. MaxSteps /\ quarantine \subseteq Entry
    BY StepsAssumption DEF Init, Faults
  <2>2. /\ root \in [config : BOOLEAN, weights : BOOLEAN]
        /\ staging \in [Slots -> Dir \cup {NoDir}]
        /\ budget \in [runs : Nat, crashes : Nat, io : Nat, foreign : Nat]
    BY DEF Init
  <2> QED
    BY <1>1, <1>2, <2>1, <2>2 DEF Init, TypeOK, Locations
<1>4. Located
  BY DEF Init, Located, Naming, Opened, Filled
<1> QED
  BY <1>3, <1>4 DEF TypeInv

-----------------------------------------------------------------------------
(* The building blocks of the actions.                                     *)

\* A failing call spends one unit of its bound and stays in its type.
LEMMA IOErrorType ==
  ASSUME TypeOK, IOError
  PROVE  /\ budget' \in [runs : Nat, crashes : Nat, io : Nat, foreign : Nat]
         /\ disturbed' \in BOOLEAN
BY DEF TypeOK, IOError

\* A call of quarantine_tree puts well-typed arguments in job.
LEMMA CallType ==
  ASSUME NEW at \in {"checkpoint", "child", "dir"}, NEW key \in Nat, NEW reason \in Reasons,
         NEW ret \in {"scan", "select", "rollback_staged", "reclaim", "reclaimed"},
         Call(at, key, reason, ret)
  PROVE  /\ job' \in Job
         /\ job'.at = at /\ job'.key = key /\ job'.reason = reason /\ job'.ret = ret
         /\ pc' = "note"
BY DEF Call, Job, Goto

\* What replacing the tree in one staging directory does to the others.
LEMMA ChildUpdate ==
  ASSUME TypeOK, NEW d \in Slots, staging[d] # NoDir, NEW c \in Tree \cup {NoTree},
         staging' = [staging EXCEPT ![d].child = c]
  PROVE  /\ staging' \in [Slots -> Dir \cup {NoDir}]
         /\ staging'[d] \in Dir
         /\ staging'[d].child = c
         /\ staging'[d].kind = staging[d].kind
         /\ \A e \in Slots : staging'[e] = NoDir <=> staging[e] = NoDir
         /\ \A e \in Slots \ {d} : staging'[e] = staging[e]
<1>1. staging[d] \in Dir /\ staging \in [Slots -> Dir \cup {NoDir}]
  BY DEF TypeOK
<1>2. [staging[d] EXCEPT !.child = c] \in Dir
  BY <1>1 DEF Dir
<1>3. staging' = [staging EXCEPT ![d] = [staging[d] EXCEPT !.child = c]]
  BY <1>1
<1>4. staging'[d] = [staging[d] EXCEPT !.child = c]
  BY <1>1, <1>3
<1>5. staging' \in [Slots -> Dir \cup {NoDir}] /\ \A e \in Slots \ {d} : staging'[e] = staging[e]
  BY <1>1, <1>2, <1>3
<1>6. staging'[d].child = c /\ staging'[d].kind = staging[d].kind
  BY <1>1, <1>4 DEF Dir
<1> QED
  BY <1>1, <1>2, <1>4, <1>5, <1>6, NoDirAssumption

\* An action that leaves the disk and the arguments of a call alone keeps
\* TypeInv if it goes to a location whose conditions hold.
LEMMA MoveOn ==
  ASSUME TypeInv, UNCHANGED <<disk, job>>,
         pc' \in Locations \ {"note", "move"},
         pc' \in Naming => step' \in Steps,
         pc' \in Opened => mine' \in Slots /\ staging[mine'] # NoDir,
         pc' \in Filled => staging[mine'].child # NoTree,
         ctx' \in {"restore", "handler", "evidence", "result"},
         step' \in 0 .. MaxSteps,
         fault' \in Faults,
         mine' \in Slots \cup {0},
         failing' \in BOOLEAN,
         outcome' \in {"none", "running", "completed", "failed", "killed"},
         disturbed' \in BOOLEAN,
         budget' \in [runs : Nat, crashes : Nat, io : Nat, foreign : Nat]
  PROVE  TypeInv'
BY DEF TypeInv, TypeOK, Located, disk

\* A call of quarantine_tree on a directory that is there.
LEMMA CallOn ==
  ASSUME TypeInv, UNCHANGED <<disk, step, fault, mine, failing, outcome>>,
         ctx' \in {"restore", "handler", "evidence", "result"},
         disturbed' \in BOOLEAN,
         budget' \in [runs : Nat, crashes : Nat, io : Nat, foreign : Nat],
         NEW at \in {"checkpoint", "child", "dir"}, NEW key \in Nat, NEW reason \in Reasons,
         NEW ret \in {"scan", "select", "rollback_staged", "reclaim", "reclaimed"},
         Call(at, key, reason, ret),
         at = "checkpoint" => key \in Steps /\ run[key] # NoTree,
         at \in {"child", "dir"} => key \in Slots /\ staging[key] # NoDir,
         at = "child" => staging[key].child # NoTree,
         ret \in {"rollback_staged", "reclaim"} => at # "dir" /\ pc \in Opened
  PROVE  TypeInv'
<1>1. /\ job' \in Job /\ pc' = "note"
      /\ job'.at = at /\ job'.key = key /\ job'.ret = ret
  BY CallType
<1>2. TypeOK'
  BY <1>1 DEF TypeInv, TypeOK, disk, Locations
<1>3. JobInPlace'
  BY <1>1 DEF TypeInv, Located, JobInPlace, disk
<1>4. Located'
  BY <1>1, <1>3 DEF Located, Naming, Opened, Filled
<1> QED
  BY <1>2, <1>4 DEF TypeInv

\* The end of a process.
LEMMA ForgetType ==
  ASSUME TypeInv, Forget, UNCHANGED disk,
         outcome' \in {"none", "running", "completed", "failed", "killed"},
         disturbed' \in BOOLEAN,
         budget' \in [runs : Nat, crashes : Nat, io : Nat, foreign : Nat]
  PROVE  TypeInv'
<1>1. 0 \in 0 .. MaxSteps /\ NoFault \in Faults
  BY StepsAssumption DEF Faults
<1>2. /\ run' = run /\ staging' = staging /\ quarantine' = quarantine
      /\ root' = root /\ evidence' = evidence /\ job' = NoJob /\ NoJob \in Job
  BY DEF Forget, disk, NoJob, Job, Reasons, CallerReasons
<1>3. TypeOK'
  BY <1>1, <1>2 DEF Forget, TypeInv, TypeOK, Locations
<1>4. Located'
  BY DEF Forget, Located, Naming, Opened, Filled
<1> QED
  BY <1>3, <1>4 DEF TypeInv

\* mkdtemp: a directory of this process appears.
LEMMA OpenStagingType ==
  ASSUME TypeInv, NEW kind \in {"ckpt", "export"}, NEW next \in {"stage", "export_stage"},
         OpenStaging(kind, next), next = "stage" => pc \in Naming,
         UNCHANGED <<run, root, quarantine, evidence, ctx, step, fault, job, failing,
                     outcome, disturbed, budget>>
  PROVE  TypeInv'
<1> DEFINE new == [kind |-> kind, step |-> step, child |-> NoTree, reason |-> "none"]
<1>1. PICK d \in Slots : staging' = [staging EXCEPT ![d] = new] /\ mine' = d
  BY DEF OpenStaging
<1>2. new \in Dir
  BY DEF TypeInv, TypeOK, Dir, Steps
<1> HIDE DEF new
<1>3. staging' \in [Slots -> Dir \cup {NoDir}] /\ staging'[d] # NoDir
  BY <1>1, <1>2, NoDirAssumption DEF TypeInv, TypeOK
<1>4. pc' = next
  BY DEF OpenStaging, Goto
<1>5. TypeOK'
  BY <1>1, <1>3, <1>4 DEF TypeInv, TypeOK, Locations
<1> QED
  BY <1>1, <1>3, <1>4, <1>5 DEF TypeInv, Located, Naming, Opened, Filled

\* The tree in the directory of this process is replaced.
LEMMA FillStaging ==
  ASSUME TypeInv, mine \in Slots, staging[mine] # NoDir, NEW c \in Tree \cup {NoTree},
         staging' = [staging EXCEPT ![mine].child = c],
         root' \in [config : BOOLEAN, weights : BOOLEAN],
         UNCHANGED <<run, quarantine, evidence, ctx, step, fault, mine, job, failing,
                     outcome, disturbed, budget>>,
         pc' \in Locations \ {"note", "move"},
         pc' \in Naming => pc \in Naming,
         pc' \in Filled => c # NoTree
  PROVE  TypeInv'
<1>1. /\ staging' \in [Slots -> Dir \cup {NoDir}]
      /\ staging'[mine] # NoDir /\ staging'[mine].child = c
  BY ChildUpdate DEF TypeInv
<1>2. TypeOK'
  BY <1>1 DEF TypeInv, TypeOK
<1> QED
  BY <1>1, <1>2 DEF TypeInv, Located

-----------------------------------------------------------------------------
(* Every action keeps TypeInv.                                             *)

\* Starting from a resume point, recording evidence, returning.
LEMMA TypeSelection == TypeInv /\ Selection => TypeInv'
<1> SUFFICES ASSUME TypeInv, Selection PROVE TypeInv'
  OBVIOUS
<1>a. TypeOK /\ Located
  BY DEF TypeInv
<1>1. CASE ScanCheckpoint
  <2>1. PICK s \in IncompleteSteps : Call("checkpoint", s, IncompleteReason(run[s], FALSE), "scan")
    BY <1>1 DEF ScanCheckpoint
  <2>2. s \in Steps /\ run[s] # NoTree /\ ~Complete(run[s], FALSE)
    BY DEF IncompleteSteps, Present
  <2>3. s \in Nat /\ IncompleteReason(run[s], FALSE) \in Reasons
    <3>1. s \in Nat /\ run[s] \in Tree
      BY <1>a, <2>2 DEF TypeOK, Steps
    <3> QED
      BY <2>2, <3>1, ReasonTypes
  <2> QED
    BY <1>1, <1>a, <2>1, <2>2, <2>3, CallOn DEF ScanCheckpoint, TypeOK
<1>2. CASE ScanStagedChild
  <2>1. PICK d \in Slots : HasCheckpointChild(d) /\ Call("child", d, ChildReason(d), "scan")
    BY <1>2 DEF ScanStagedChild
  <2>2. d \in Nat /\ staging[d] # NoDir /\ staging[d].child # NoTree /\ ChildReason(d) \in Reasons
    BY <1>a, <2>1, ChildReasonType DEF HasCheckpointChild, TypeOK, Dir, Slots
  <2> QED
    BY <1>2, <1>a, <2>1, <2>2, CallOn DEF ScanStagedChild, TypeOK
<1>3. CASE ScanStagingDir
  <2>1. PICK d \in Slots : staging[d] # NoDir /\ Call("dir", d, "leftover_staging", "scan")
    BY <1>3 DEF ScanStagingDir, IsLeftover
  <2>2. d \in Nat /\ "leftover_staging" \in Reasons
    BY DEF Slots, Reasons, CallerReasons
  <2> QED
    BY <1>3, <1>a, <2>1, <2>2, CallOn DEF ScanStagingDir, TypeOK
<1>4. CASE ScanDone
  BY <1>4, <1>a, MoveOn DEF ScanDone, TypeOK, Goto, Locations, Naming, Opened, Filled
<1>5. CASE QuarantineSkipped
  <2>1. Skipped \subseteq Steps /\ Skipped \subseteq Present
    BY DEF Skipped, ValidSteps, Present
  <2>2. PICK s \in Skipped : s = Latest(Skipped)
    BY <1>5, <2>1, LatestExists DEF QuarantineSkipped
  <2>3. s \in Steps /\ run[s] # NoTree
    BY <2>1, <2>2 DEF Present
  <2>4. s \in Nat /\ "non_equivalent_resume" \in Reasons
    BY <2>3 DEF Steps, Reasons, CallerReasons
  <2>5. Call("checkpoint", s, "non_equivalent_resume", "select")
    BY <1>5, <2>2 DEF QuarantineSkipped
  <2> QED
    BY <1>5, <1>a, <2>3, <2>4, <2>5, CallOn DEF QuarantineSkipped, TypeOK
<1>6. CASE RestoreLoop
  BY <1>6, <1>a, ResumePointType, MoveOn
     DEF RestoreLoop, TypeOK, Goto, Raise, Locations, Naming, Opened, Filled
<1>7. CASE RecordEvidence
  <2>1. evidence' \in [step : Steps \cup {0, -1}, equivalent : BOOLEAN]
    BY <1>7, ResumePointType DEF RecordEvidence, Resumable, Steps
  <2>2. TypeOK'
    BY <1>7, <1>a, <2>1 DEF RecordEvidence, TypeOK, Goto, Locations
  <2>3. Located'
    BY <1>7 DEF RecordEvidence, Located, Goto, Naming, Opened, Filled
  <2> QED
    BY <2>2, <2>3 DEF TypeInv
<1>8. CASE Return
  BY <1>8, <1>a, ForgetType DEF Return, TypeOK
<1>9. CASE HandleException
  BY <1>9, <1>a, MoveOn DEF HandleException, TypeOK, Goto, Locations, Naming, Opened, Filled
<1> QED
  BY <1>1, <1>2, <1>3, <1>4, <1>5, <1>6, <1>7, <1>8, <1>9 DEF Selection

\* Both steps of quarantine_tree, and its failure, for its three callers.
LEMMA TypeQuarantineTree == TypeInv /\ QuarantineTree => TypeInv'
<1> SUFFICES ASSUME TypeInv, QuarantineTree PROVE TypeInv'
  OBVIOUS
<1>a. TypeOK /\ Located
  BY DEF TypeInv
<1>b. job \in Job
  BY <1>a DEF TypeOK
<1>1. CASE WriteReason
  <2>a. JobInPlace
    BY <1>1, <1>a DEF WriteReason, Located
  <2>b. /\ UNCHANGED <<root, quarantine, evidence, ctx, step, fault, mine, job, failing,
                       outcome, disturbed, budget>>
        /\ pc' = "move"
    BY <1>1 DEF WriteReason, Goto
  <2>1. CASE job.at = "checkpoint"
    <3>1. job.key \in Steps /\ run[job.key] \in Tree
      BY <1>a, <2>a, <2>1 DEF JobInPlace, TypeOK
    <3>2. /\ run' = [run EXCEPT ![job.key] = [run[job.key] EXCEPT !.reason = job.reason]]
          /\ staging' = staging
      BY <1>1, <2>1 DEF WriteReason, Source
    <3>3. [run[job.key] EXCEPT !.reason = job.reason] \in Tree
      BY <1>b, <3>1 DEF Job, Tree
    <3>4. run' \in [Steps -> Tree \cup {NoTree}] /\ run'[job.key] # NoTree
      BY <1>a, <3>1, <3>2, <3>3, NoTreeAssumption DEF TypeOK
    <3>5. TypeOK'
      BY <1>a, <2>b, <3>2, <3>4 DEF TypeOK, Locations
    <3> QED
      BY <2>a, <2>b, <2>1, <3>2, <3>4, <3>5
         DEF TypeInv, Located, JobInPlace, Naming, Opened, Filled
  <2>2. CASE job.at = "child"
    <3>1. /\ job.key \in Slots /\ staging[job.key] \in Dir /\ staging[job.key] # NoDir
          /\ staging[job.key].child \in Tree
      BY <1>a, <2>a, <2>2 DEF JobInPlace, TypeOK, Dir
    <3> DEFINE noted == [staging[job.key].child EXCEPT !.reason = job.reason]
    <3>2. staging' = [staging EXCEPT ![job.key].child = noted] /\ run' = run
      BY <1>1, <2>2 DEF WriteReason, Source
    <3>3. noted \in Tree /\ noted # NoTree
      <4>1. noted \in Tree
        BY <1>b, <3>1 DEF Job, Tree
      <4> QED
        BY <4>1, NoTreeAssumption
    <3> HIDE DEF noted
    <3>4. /\ staging' \in [Slots -> Dir \cup {NoDir}]
          /\ staging'[job.key].child = noted
          /\ \A e \in Slots : staging'[e] = NoDir <=> staging[e] = NoDir
      BY <1>a, <3>1, <3>2, <3>3, ChildUpdate
    <3>5. TypeOK'
      BY <1>a, <2>b, <3>2, <3>4 DEF TypeOK, Locations
    <3> QED
      BY <2>a, <2>b, <2>2, <3>3, <3>4, <3>5
         DEF TypeInv, Located, JobInPlace, Naming, Opened, Filled
  <2>3. CASE job.at = "dir"
    <3>1. job.key \in Slots /\ staging[job.key] \in Dir
      BY <1>a, <2>a, <2>3 DEF JobInPlace, TypeOK
    <3>2. /\ staging' = [staging EXCEPT ![job.key] = [staging[job.key] EXCEPT !.reason = job.reason]]
          /\ run' = run
      BY <1>1, <2>3 DEF WriteReason, Source
    <3>3. [staging[job.key] EXCEPT !.reason = job.reason] \in Dir
      BY <1>b, <3>1 DEF Job, Dir
    <3>4. staging' \in [Slots -> Dir \cup {NoDir}] /\ staging'[job.key] # NoDir
      BY <1>a, <3>1, <3>2, <3>3, NoDirAssumption DEF TypeOK
    <3>5. TypeOK'
      BY <1>a, <2>b, <3>2, <3>4 DEF TypeOK, Locations
    <3> QED
      BY <2>a, <2>b, <2>3, <3>4, <3>5 DEF TypeInv, Located, JobInPlace, Naming, Opened, Filled
  <2> QED
    BY <1>b, <2>1, <2>2, <2>3 DEF Job
<1>2. CASE MoveTree
  <2>a. JobInPlace
    BY <1>2, <1>a DEF MoveTree, Located
  <2>b. /\ UNCHANGED <<root, evidence, ctx, step, fault, mine, job, failing, outcome,
                       disturbed, budget>>
        /\ pc' = job.ret
        /\ pc' \in {"scan", "select", "rollback_staged", "reclaim", "reclaimed"}
    BY <1>2, <1>b DEF MoveTree, Goto, Job
  <2>1. CASE job.at = "checkpoint"
    <3>1. job.key \in Steps /\ run[job.key] \in Tree
      BY <1>a, <2>a, <2>1 DEF JobInPlace, TypeOK
    <3>2. run' = [run EXCEPT ![job.key] = NoTree] /\ staging' = staging
      BY <1>2, <2>1 DEF MoveTree
    <3>3. Quarantined \in Entry
      BY <2>1, <3>1 DEF Quarantined, Source, Entry, Tree
    <3>4. TypeOK'
      <4>1. quarantine' \subseteq Entry /\ run' \in [Steps -> Tree \cup {NoTree}]
        BY <1>2, <1>a, <3>1, <3>2, <3>3 DEF MoveTree, TypeOK
      <4> QED
        BY <1>a, <2>b, <3>2, <4>1 DEF TypeOK, Locations
    <3> QED
      BY <2>a, <2>b, <2>1, <3>2, <3>4 DEF TypeInv, Located, JobInPlace, Naming, Opened, Filled
  <2>2. CASE job.at = "child"
    <3>1. /\ job.key \in Slots /\ staging[job.key] \in Dir /\ staging[job.key] # NoDir
          /\ staging[job.key].child \in Tree
      BY <1>a, <2>a, <2>2 DEF JobInPlace, TypeOK, Dir
    <3>2. staging' = [staging EXCEPT ![job.key].child = NoTree] /\ run' = run
      BY <1>2, <2>2 DEF MoveTree
    <3>3. Quarantined \in Entry
      BY <2>2, <3>1 DEF Quarantined, Source, Entry, Tree, Dir
    <3>4. /\ staging' \in [Slots -> Dir \cup {NoDir}]
          /\ \A e \in Slots : staging'[e] = NoDir <=> staging[e] = NoDir
      BY <1>a, <3>1, <3>2, ChildUpdate
    <3>5. TypeOK'
      <4>1. quarantine' \subseteq Entry
        BY <1>2, <1>a, <3>3 DEF MoveTree, TypeOK
      <4> QED
        BY <1>a, <2>b, <3>2, <3>4, <4>1 DEF TypeOK, Locations
    <3> QED
      BY <2>a, <2>b, <2>2, <3>4, <3>5 DEF TypeInv, Located, JobInPlace, Naming, Opened, Filled
  <2>3. CASE job.at = "dir"
    <3>1. job.key \in Slots /\ staging[job.key] \in Dir
      BY <1>a, <2>a, <2>3 DEF JobInPlace, TypeOK
    <3>2. staging' = [staging EXCEPT ![job.key] = NoDir] /\ run' = run
      BY <1>2, <2>3 DEF MoveTree
    <3>3. Quarantined \in Entry
      BY <2>3, <3>1 DEF Quarantined, Source, Entry, Dir
    <3>4. TypeOK'
      <4>1. quarantine' \subseteq Entry /\ staging' \in [Slots -> Dir \cup {NoDir}]
        BY <1>2, <1>a, <3>1, <3>2, <3>3 DEF MoveTree, TypeOK
      <4> QED
        BY <1>a, <2>b, <3>2, <4>1 DEF TypeOK, Locations
    <3>5. pc' \in {"scan", "select", "reclaimed"}
      BY <2>a, <2>b, <2>3 DEF JobInPlace
    <3> QED
      BY <3>4, <3>5 DEF TypeInv, Located, Naming, Opened, Filled
  <2> QED
    BY <1>b, <2>1, <2>2, <2>3 DEF Job
<1>3. CASE QuarantineFails
  <2>a. JobInPlace
    BY <1>3, <1>a DEF QuarantineFails, Located
  <2>b. /\ budget' \in [runs : Nat, crashes : Nat, io : Nat, foreign : Nat]
        /\ disturbed' \in BOOLEAN
        /\ UNCHANGED disk
    BY <1>3, <1>a, IOErrorType DEF QuarantineFails
  <2>1. CASE job.ret \in {"rollback_staged", "reclaim"}
    <3>1. /\ pc' = "reclaim" /\ failing' = TRUE
          /\ UNCHANGED <<ctx, step, fault, mine, job, outcome>>
      BY <1>3, <2>1 DEF QuarantineFails, RaiseIn, Goto
    <3>2. mine \in Slots /\ staging[mine] # NoDir
      BY <2>a, <2>1 DEF JobInPlace
    <3> QED
      BY <1>a, <2>b, <3>1, <3>2, MoveOn DEF TypeOK, Locations, Naming, Opened, Filled
  <2>2. CASE job.ret \notin {"rollback_staged", "reclaim"} /\ (job.ret = "reclaimed" \/ ctx = "restore")
    <3>1. /\ pc' = "handler" /\ failing' = TRUE
          /\ UNCHANGED <<ctx, step, fault, mine, job, outcome>>
      BY <1>3, <2>2 DEF QuarantineFails, Raise, Goto
    <3> QED
      BY <1>a, <2>b, <3>1, MoveOn DEF TypeOK, Locations, Naming, Opened, Filled
  <2>3. CASE /\ job.ret \notin {"rollback_staged", "reclaim"}
             /\ ~(job.ret = "reclaimed" \/ ctx = "restore")
    BY <1>3, <2>b, <2>3, ForgetType DEF QuarantineFails
  <2> QED
    BY <2>1, <2>2, <2>3
<1> QED
  BY <1>1, <1>2, <1>3 DEF QuarantineTree

\* publish_checkpoint_tree, its rollback and its finally clause.
LEMMA TypePublication == TypeInv /\ Publication => TypeInv'
<1> SUFFICES ASSUME TypeInv, Publication PROVE TypeInv'
  OBVIOUS
<1>a. TypeOK /\ Located
  BY DEF TypeInv
<1> USE DEF Goto, Raise, RaiseIn, Locations, Naming, Opened, Filled
<1>1. CASE Train
  <2>1. step' \in Steps
    BY <1>1, <1>a, StepsAssumption DEF Train, MoreSteps, TypeOK, Steps
  <2> QED
    BY <1>1, <1>a, <2>1, MoveOn DEF Train, TypeOK, Steps
<1>2. CASE FaultBeforeSave
  BY <1>2, <1>a, MoveOn DEF FaultBeforeSave, TypeOK
<1>3. CASE RefuseOccupied
  BY <1>3, <1>a, MoveOn DEF RefuseOccupied, TypeOK
<1>4. CASE MakeStaging
  BY <1>4, <1>a, OpenStagingType DEF MakeStaging, Located
<1>5. CASE MakeStagingFails
  BY <1>5, <1>a, IOErrorType, MoveOn DEF MakeStagingFails, TypeOK
<1>6. CASE StageTree
  BY <1>6, <1>a, EmptyTreeType, FillStaging DEF StageTree, TypeOK, Located
<1>7. CASE WriteTree
  <2>1. NextWrite(staging[mine].child) \in Tree /\ NextWrite(staging[mine].child) # NoTree
    BY <1>7, <1>a, NextWriteType DEF WriteTree, TypeOK, Located, Dir
  <2>2. staging' = [staging EXCEPT ![mine].child = NextWrite(staging[mine].child)]
    BY <1>7 DEF WriteTree
  <2> QED
    BY <1>7, <1>a, <2>1, <2>2, FillStaging DEF WriteTree, TypeOK, Located, memory
<1>8. CASE FinishTree
  <2>a. staging[mine].child \in Tree
    BY <1>8, <1>a DEF FinishTree, TypeOK, Located, Dir
  <2> DEFINE t == [staging[mine].child EXCEPT !.weights = "short"]
  <2>1. CASE IsFault(step, "during_write")
    <3>1. staging' = [staging EXCEPT ![mine].child = t]
      BY <1>8, <2>1 DEF FinishTree
    <3>2. t \in Tree
      BY <2>a DEF Tree
    <3> HIDE DEF t
    <3>3. t # NoTree
      BY <3>2, NoTreeAssumption
    <3> QED
      BY <1>8, <1>a, <3>1, <3>2, <3>3, FillStaging DEF FinishTree, TypeOK, Located
  <2>2. CASE ~IsFault(step, "during_write")
    BY <1>8, <1>a, <2>2, MoveOn DEF FinishTree, TypeOK, Located, disk
  <2> QED
    BY <2>1, <2>2
<1>9. CASE WriteFails
  BY <1>9, <1>a, IOErrorType, MoveOn DEF WriteFails, TypeOK, Located
<1>10. CASE RefuseIncomplete
  BY <1>10, <1>a, MoveOn DEF RefuseIncomplete, TypeOK, Located
<1>11. CASE AdmitComplete
  BY <1>11, <1>a, MoveOn DEF AdmitComplete, TypeOK, Located
<1>12. CASE RenameNoReplace
  <2>1. CASE NameIsFree
    <3>1. staging[mine].child \in Tree /\ step \in Steps /\ mine \in Slots /\ staging[mine] # NoDir
      BY <1>12, <1>a DEF RenameNoReplace, TypeOK, Located, Dir
    <3>2. run' = [run EXCEPT ![step] = staging[mine].child]
      BY <1>12, <2>1 DEF RenameNoReplace
    <3>3. run' \in [Steps -> Tree \cup {NoTree}]
      BY <1>a, <3>1, <3>2 DEF TypeOK
    <3>4. /\ staging' \in [Slots -> Dir \cup {NoDir}]
          /\ staging'[mine] # NoDir
      <4>1. staging' = [staging EXCEPT ![mine].child = NoTree]
        BY <1>12, <2>1 DEF RenameNoReplace
      <4> QED
        BY <1>a, <3>1, <4>1, ChildUpdate
    <3>5. pc' = "fsync" /\ UNCHANGED <<root, quarantine, evidence, ctx, step, fault, mine, job,
                                       failing, outcome, disturbed, budget>>
      BY <1>12, <2>1 DEF RenameNoReplace
    <3>6. TypeOK'
      BY <1>a, <3>3, <3>4, <3>5 DEF TypeOK
    <3> QED
      BY <3>1, <3>4, <3>5, <3>6 DEF TypeInv, Located
  <2>2. CASE ~NameIsFree
    BY <1>12, <1>a, <2>2, MoveOn DEF RenameNoReplace, TypeOK, Located, disk
  <2> QED
    BY <2>1, <2>2
<1>13. CASE FaultDuringRename
  BY <1>13, <1>a, MoveOn DEF FaultDuringRename, TypeOK, Located
<1>14. CASE RenameFails
  BY <1>14, <1>a, IOErrorType, MoveOn DEF RenameFails, TypeOK, Located
<1>15. CASE SyncParent
  BY <1>15, <1>a, MoveOn DEF SyncParent, TypeOK, Located
<1>16. CASE FaultAfterSave
  BY <1>16, <1>a, MoveOn DEF FaultAfterSave, TypeOK
<1>17. CASE SaveDone
  BY <1>17, <1>a, MoveOn DEF SaveDone, TypeOK
<1>18. CASE RollbackDestination
  <2>a. step \in Steps /\ mine \in Slots /\ staging[mine] # NoDir
    BY <1>18, <1>a DEF RollbackDestination, Located
  <2>1. CASE Discarded(run[step])
    <3>1. run[step] # NoTree /\ run[step] \in Tree /\ step \in Nat
      BY <1>a, <2>a, <2>1 DEF Discarded, TypeOK, Steps
    <3>2. RollbackReason(run[step]) \in Reasons
      BY <3>1, ReasonTypes
    <3> QED
      BY <1>18, <1>a, <2>a, <2>1, <3>1, <3>2, CallOn DEF RollbackDestination, TypeOK
  <2>2. CASE ~Discarded(run[step])
    BY <1>18, <1>a, <2>a, <2>2, MoveOn DEF RollbackDestination, TypeOK, disk
  <2> QED
    BY <2>1, <2>2
<1>19. CASE RollbackStaged
  <2>a. mine \in Slots /\ staging[mine] # NoDir
    BY <1>19, <1>a DEF RollbackStaged, Located
  <2>1. CASE staging[mine].child # NoTree
    <3>1. mine \in Nat /\ ChildReason(mine) \in Reasons
      BY <1>a, <2>a, <2>1, ChildReasonType DEF TypeOK, Dir, Slots
    <3> QED
      BY <1>19, <1>a, <2>a, <2>1, <3>1, CallOn DEF RollbackStaged, TypeOK
  <2>2. CASE staging[mine].child = NoTree
    BY <1>19, <1>a, <2>a, <2>2, MoveOn DEF RollbackStaged, TypeOK, disk
  <2> QED
    BY <2>1, <2>2
<1>20. CASE ReclaimStaging
  <2>a. mine \in Slots /\ staging[mine] # NoDir /\ mine \in Nat
    BY <1>20, <1>a DEF ReclaimStaging, Located, Slots
  <2>b. "leftover_staging" \in Reasons
    BY DEF Reasons, CallerReasons
  <2>1. CASE staging[mine].child # NoTree
    <3>1. UNCHANGED disk
      BY <1>20, <2>1 DEF ReclaimStaging, disk
    <3> QED
      BY <1>20, <1>a, <2>a, <2>b, <2>1, <3>1, CallOn DEF ReclaimStaging, TypeOK
  <2>2. CASE staging[mine].child = NoTree
    <3>1. staging' \in [Slots -> Dir \cup {NoDir}]
      BY <1>20, <1>a, <2>2 DEF ReclaimStaging, TypeOK
    <3>2. pc' = "reclaimed" /\ job' = job
      BY <1>20, <2>2 DEF ReclaimStaging
    <3>3. TypeOK'
      BY <1>20, <1>a, <3>1, <3>2 DEF ReclaimStaging, TypeOK
    <3> QED
      BY <3>2, <3>3 DEF TypeInv, Located
  <2> QED
    BY <2>1, <2>2
<1>21. CASE RmdirFails
  <2>1. mine \in Slots /\ staging[mine] # NoDir /\ mine \in Nat
    BY <1>21, <1>a DEF RmdirFails, Located, Slots
  <2>2. "leftover_staging" \in Reasons
    BY DEF Reasons, CallerReasons
  <2> QED
    BY <1>21, <1>a, <2>1, <2>2, IOErrorType, CallOn DEF RmdirFails, TypeOK
<1>22. CASE LeaveStaging
  BY <1>22, <1>a, MoveOn DEF LeaveStaging, TypeOK
<1> QED
  BY <1>1, <1>2, <1>3, <1>4, <1>5, <1>6, <1>7, <1>8, <1>9, <1>10, <1>11, <1>12, <1>13,
     <1>14, <1>15, <1>16, <1>17, <1>18, <1>19, <1>20, <1>21, <1>22 DEF Publication

\* export_final_adapter.
LEMMA TypeExport == TypeInv /\ Export => TypeInv'
<1> SUFFICES ASSUME TypeInv, Export PROVE TypeInv'
  OBVIOUS
<1>a. TypeOK /\ Located
  BY DEF TypeInv
<1> USE DEF Goto, Raise, RaiseIn, Locations, Naming, Opened, Filled
<1>1. CASE FinishSteps
  BY <1>1, <1>a, MoveOn DEF FinishSteps, TypeOK
<1>2. CASE MakeExportStaging
  BY <1>2, <1>a, OpenStagingType DEF MakeExportStaging
<1>3. CASE StageAdapter
  BY <1>3, <1>a, EmptyTreeType, FillStaging DEF StageAdapter, TypeOK, Located
<1>4. CASE WriteAdapter
  <2>1. /\ NextAdapterWrite(staging[mine].child) \in Tree
        /\ NextAdapterWrite(staging[mine].child) # NoTree
    BY <1>4, <1>a, NextAdapterWriteType DEF WriteAdapter, TypeOK, Located, Dir
  <2>2. staging' = [staging EXCEPT ![mine].child = NextAdapterWrite(staging[mine].child)]
    BY <1>4 DEF WriteAdapter
  <2> QED
    BY <1>4, <1>a, <2>1, <2>2, FillStaging DEF WriteAdapter, TypeOK, Located, memory
<1>5. CASE FaultDuringExport
  BY <1>5, <1>a, MoveOn DEF FaultDuringExport, TypeOK, Located
<1>6. CASE CheckRootNames
  BY <1>6, <1>a, MoveOn, ZenonT(30) DEF CheckRootNames, TypeOK, Located
<1>7. CASE RenameConfig
  <2> DEFINE t == [staging[mine].child EXCEPT !.config = FALSE]
  <2>1. staging' = [staging EXCEPT ![mine].child = t]
    BY <1>7 DEF RenameConfig
  <2>2. t \in Tree
    <3>1. staging[mine].child \in Tree
      BY <1>7, <1>a DEF RenameConfig, TypeOK, Located, Dir
    <3> QED
      BY <3>1 DEF Tree
  <2>3. root' \in [config : BOOLEAN, weights : BOOLEAN]
    BY <1>7, <1>a DEF RenameConfig, TypeOK
  <2> HIDE DEF t
  <2>4. t # NoTree
    BY <2>2, NoTreeAssumption
  <2> QED
    BY <1>7, <1>a, <2>1, <2>2, <2>3, <2>4, FillStaging DEF RenameConfig, TypeOK, Located
<1>8. CASE RenameWeights
  <2> DEFINE t == [staging[mine].child EXCEPT !.weights = "absent"]
  <2>1. staging' = [staging EXCEPT ![mine].child = t]
    BY <1>8 DEF RenameWeights
  <2>2. t \in Tree
    <3>1. staging[mine].child \in Tree
      BY <1>8, <1>a DEF RenameWeights, TypeOK, Located, Dir
    <3> QED
      BY <3>1 DEF Tree
  <2>3. root' \in [config : BOOLEAN, weights : BOOLEAN]
    BY <1>8, <1>a DEF RenameWeights, TypeOK
  <2> HIDE DEF t
  <2>4. t # NoTree
    BY <2>2, NoTreeAssumption
  <2> QED
    BY <1>8, <1>a, <2>1, <2>2, <2>3, <2>4, FillStaging DEF RenameWeights, TypeOK, Located
<1>9. CASE RemoveStagedAdapter
  BY <1>9, <1>a, FillStaging DEF RemoveStagedAdapter, Located, TypeOK
<1>10. CASE StagedAdapterStays
  BY <1>10, <1>a, IOErrorType, MoveOn DEF StagedAdapterStays, TypeOK, Located
<1>11. CASE ExportFails
  BY <1>11, <1>a, IOErrorType, MoveOn DEF ExportFails, TypeOK, Located
<1>12. CASE ExportRollback
  <2>a. mine \in Slots /\ staging[mine] # NoDir
    BY <1>12, <1>a DEF ExportRollback, Located
  <2>1. CASE staging[mine].child # NoTree
    <3>1. mine \in Nat /\ "export_failure" \in Reasons
      BY <2>a DEF Slots, Reasons, CallerReasons
    <3> QED
      BY <1>12, <1>a, <2>a, <2>1, <3>1, CallOn DEF ExportRollback, TypeOK
  <2>2. CASE staging[mine].child = NoTree
    BY <1>12, <1>a, <2>a, <2>2, MoveOn DEF ExportRollback, TypeOK, disk
  <2> QED
    BY <2>1, <2>2
<1> QED
  BY <1>1, <1>2, <1>3, <1>4, <1>5, <1>6, <1>7, <1>8, <1>9, <1>10, <1>11, <1>12 DEF Export

\* A start, a kill, another writer.
LEMMA TypeEnvironment == TypeInv /\ (StartRun \/ Crash \/ ForeignWrite) => TypeInv'
<1> SUFFICES ASSUME TypeInv, StartRun \/ Crash \/ ForeignWrite PROVE TypeInv'
  OBVIOUS
<1>a. TypeOK /\ Located
  BY DEF TypeInv
<1>1. CASE StartRun
  BY <1>1, <1>a, FlagsAssumption, MoveOn
     DEF StartRun, TypeOK, Goto, Locations, Naming, Opened, Filled
<1>2. CASE Crash
  BY <1>2, <1>a, ForgetType DEF Crash, TypeOK
<1>3. CASE ForeignWrite
  <2>1. step \in Steps
    BY <1>3, <1>a DEF ForeignWrite, Located, Naming
  <2>2. PICK t \in Tree : run' = [run EXCEPT ![step] = t]
    BY <1>3, TreesAssumption DEF ForeignWrite
  <2>3. /\ run' \in [Steps -> Tree \cup {NoTree}]
        /\ disturbed' \in BOOLEAN
        /\ budget' \in [runs : Nat, crashes : Nat, io : Nat, foreign : Nat]
    BY <1>3, <1>a, <2>1, <2>2 DEF ForeignWrite, TypeOK
  <2>4. TypeOK'
    BY <1>3, <1>a, <2>3 DEF ForeignWrite, TypeOK, memory
  <2> QED
    BY <1>3, <1>a, <2>4 DEF ForeignWrite, TypeInv, Located, memory
<1> QED
  BY <1>1, <1>2, <1>3

\* TypeInv is inductive.
LEMMA TypeStep == TypeInv /\ [Next]_vars => TypeInv'
<1>1. TypeInv /\ UNCHANGED vars => TypeInv'
  BY DEF vars, disk, memory, TypeInv, TypeOK, Located, JobInPlace
<1> QED
  BY <1>1, TypeSelection, TypeQuarantineTree, TypePublication, TypeExport, TypeEnvironment
     DEF Next, Process

\* TypeOK for every bound, save interval and set of foreign trees.
THEOREM TypeCorrect == Spec => []TypeOK
<1>1. TypeInv => TypeOK
  BY DEF TypeInv
<1> QED
  BY <1>1, InitType, TypeStep, PTL DEF Spec

-----------------------------------------------------------------------------
(***************************************************************************)
(* The safety theorems of CheckpointHarness: publication is atomic, the     *)
(* quarantine is explained, no checkpoint is lost and the resume point      *)
(* never gets older, whatever fails or is killed.                           *)
(*                                                                          *)
(* All four follow from one inductive invariant, SafeInv, over TypeInv.     *)
(* The disk changes in few actions only, so a step is first classified      *)
(* (QuietOrNot) and then treated by the kind of change it makes.            *)
(***************************************************************************)

(* Trees: what a reason file does not change, and what the rules imply of  *)
(* each other.                                                             *)

\* A tree that quarantine_tree has written a reason into.
Noted(t, r) == [t EXCEPT !.reason = r]

\* The reason file changes no verdict: what was incomplete, valid or
\* resumable stays so while it is being quarantined.
LEMMA NotedTree ==
  ASSUME NEW t \in Tree, NEW r \in Reasons
  PROVE  /\ Noted(t, r).reason = r
         /\ Content(Noted(t, r)) = Content(t)
         /\ IsValidCheckpoint(Noted(t, r), FALSE) <=> IsValidCheckpoint(t, FALSE)
         /\ ResumeEquivalent(Noted(t, r), FALSE) <=> ResumeEquivalent(t, FALSE)
         /\ Complete(Noted(t, r), FALSE) <=> Complete(t, FALSE)
<1> DEFINE n == Noted(t, r)
<1>1. /\ n.reason = r /\ n.state = t.state /\ n.config = t.config
      /\ n.weights = t.weights /\ n.bin = t.bin /\ n.resume = t.resume
  BY DEF Noted, Tree
<1>2. Content(n) = Content(t)
  BY <1>1 DEF Content, Noted, Tree
<1> HIDE DEF n
<1>3. IsValidCheckpoint(n, FALSE) <=> IsValidCheckpoint(t, FALSE)
  BY <1>1 DEF IsValidCheckpoint, IsAdapterArtifact, HasAdapterWeights
<1>4. ResumeEquivalent(n, FALSE) <=> ResumeEquivalent(t, FALSE)
  BY <1>1 DEF ResumeEquivalent, AdapterWeightsUsable
<1>5. IncompleteReason(n, FALSE) = IncompleteReason(t, FALSE)
  BY <1>1, <1>3 DEF IncompleteReason, GapReason, UnreadableWeightReason, HasAdapterWeights
<1> QED
  BY <1>1, <1>2, <1>3, <1>4, <1>5 DEF Complete, n

\* A complete tree with every piece of trainer state can be resumed from.
LEMMA CompleteResumes ==
  ASSUME NEW t \in Tree, Complete(t, FALSE), t.state = "ok", t.resume
  PROVE  ResumeEquivalent(t, FALSE)
BY DEF Complete, IncompleteReason, GapReason, UnreadableWeightReason, ResumeEquivalent,
       AdapterWeightsUsable, IsValidCheckpoint, Tree

\* The quarantine never takes a checkpoint training can resume from.
LEMMA EquivalentIsComplete ==
  ASSUME NEW t \in Tree, IsValidCheckpoint(t, FALSE), ResumeEquivalent(t, FALSE)
  PROVE  Complete(t, FALSE)
BY DEF Complete, IncompleteReason, UnreadableWeightReason, ResumeEquivalent,
       AdapterWeightsUsable

-----------------------------------------------------------------------------
(* The inductive invariant.                                                *)

\* The staged tree on its way to its name: the trainer state is whole before
\* the sidecar and its companions are, and only a complete tree is renamed.
StagedIsWhole ==
  LET t == staging[mine].child
  IN  /\ pc = "write" /\ t.resume => t.state = "ok" /\ t.weights = "ok"
      /\ pc \in {"publish", "rename"} => t.state = "ok" /\ t.resume
      /\ pc = "rename" => Complete(t, FALSE)

\* The checkpoint quarantine_tree was called on deserves it.
JobIsJustified ==
  pc \in {"note", "move"} /\ job.at = "checkpoint" =>
    \/ ~Complete(run[job.key], FALSE)
    \/ /\ ~ResumeEquivalent(run[job.key], FALSE)
       /\ \E e \in EquivalentSteps : e < job.key

\* The reason is in the source before the source is renamed.
JobIsExplained == pc = "move" => Source.reason # "none"

\* The inductive invariant: the two properties, what the tree on its way to a
\* name has reached, and what justifies the quarantine call in progress.
SafeInv == /\ TypeInv
           /\ StagedIsWhole /\ PublishedIsWhole
           /\ JobIsJustified
           /\ JobIsExplained /\ QuarantineIsExplained

-----------------------------------------------------------------------------
(* Most actions neither touch a checkpoint nor come near a publication.    *)

\* An action that leaves checkpoints alone and is no part of a publication.
Quiet == /\ UNCHANGED <<run, quarantine>>
         /\ pc' \notin {"note", "move", "write", "publish", "rename"}

\* The callers of quarantine_tree.
Calls == \/ ScanCheckpoint \/ ScanStagedChild \/ ScanStagingDir \/ QuarantineSkipped
         \/ RollbackDestination \/ RollbackStaged \/ ReclaimStaging \/ RmdirFails
         \/ ExportRollback

\* The publication of a staged tree.
Publishing == StageTree \/ WriteTree \/ FinishTree \/ AdmitComplete \/ RenameNoReplace

\* Every step is quiet, a call, one of the two steps of quarantine_tree, a step
\* of a publication or another writer: the cases of every proof below.
LEMMA QuietOrNot ==
  ASSUME [Next]_vars
  PROVE  \/ Quiet \/ UNCHANGED vars
         \/ Calls \/ WriteReason \/ MoveTree \/ Publishing \/ ForeignWrite
<1> USE DEF Quiet, disk, Goto, Raise, RaiseIn
<1>1. Selection => Quiet \/ Calls
  BY DEF Selection, Calls, ScanDone, RestoreLoop, RecordEvidence, Return, HandleException, Forget
<1>2. QuarantineTree => Quiet \/ WriteReason \/ MoveTree
  BY DEF QuarantineTree, QuarantineFails, Forget
<1>3. Publication => Quiet \/ Calls \/ Publishing
  BY DEF Publication, Calls, Publishing, Train, FaultBeforeSave, RefuseOccupied, MakeStaging,
         MakeStagingFails, WriteFails, RefuseIncomplete, FaultDuringRename, RenameFails,
         SyncParent, FaultAfterSave, SaveDone, LeaveStaging, OpenStaging
<1>4. Export => Quiet \/ Calls
  BY DEF Export, Calls, FinishSteps, MakeExportStaging, StageAdapter, WriteAdapter,
         FaultDuringExport, CheckRootNames, RenameConfig, RenameWeights, RemoveStagedAdapter,
         StagedAdapterStays, ExportFails, OpenStaging, memory
<1>5. StartRun \/ Crash => Quiet
  BY DEF StartRun, Crash, Forget
<1> QED
  BY <1>1, <1>2, <1>3, <1>4, <1>5 DEF Next, Process

\* quarantine_incomplete_checkpoints, _quarantine_skipped_non_equivalent and the
\* rollback name only checkpoints that are incomplete or have an older heir.
LEMMA CallsJustified ==
  ASSUME TypeInv, Calls
  PROVE  /\ JobIsJustified'
         /\ UNCHANGED <<run, quarantine>>
         /\ pc' \notin {"move", "write", "publish", "rename"}
<1> USE DEF Goto, disk
<1>1. CASE ScanCheckpoint
  <2>1. PICK s \in IncompleteSteps : Call("checkpoint", s, IncompleteReason(run[s], FALSE), "scan")
    BY <1>1 DEF ScanCheckpoint
  <2>2. job'.key = s /\ run' = run /\ quarantine' = quarantine /\ pc' = "note"
    BY <1>1, <2>1 DEF ScanCheckpoint, Call
  <2>3. ~Complete(run[s], FALSE)
    BY DEF IncompleteSteps
  <2> QED
    BY <2>2, <2>3 DEF JobIsJustified
<1>2. CASE ScanStagedChild \/ ScanStagingDir
  <2>1. job'.at # "checkpoint" /\ pc' = "note" /\ run' = run /\ quarantine' = quarantine
    BY <1>2 DEF ScanStagedChild, ScanStagingDir, Call
  <2> QED
    BY <2>1 DEF JobIsJustified
<1>3. CASE QuarantineSkipped
  <2>1. Skipped \subseteq Steps /\ EquivalentSteps \subseteq Steps
    BY DEF Skipped, EquivalentSteps, ValidSteps, Present
  <2>2. PICK s \in Skipped : s = Latest(Skipped)
    BY <1>3, <2>1, LatestExists DEF QuarantineSkipped
  <2>3. EquivalentSteps # {} /\ s \in ValidSteps /\ s > Latest(EquivalentSteps)
    BY DEF Skipped
  <2>4. PICK e \in EquivalentSteps : e = Latest(EquivalentSteps) /\ \A t \in EquivalentSteps : t <= e
    BY <2>1, <2>3, LatestExists
  <2>5. e < s /\ s \notin EquivalentSteps
    BY <2>1, <2>3, <2>4 DEF Steps
  <2>6. ~ResumeEquivalent(run[s], FALSE)
    BY <2>3, <2>5 DEF EquivalentSteps
  <2>7. job'.key = s /\ run' = run /\ quarantine' = quarantine /\ pc' = "note"
    BY <1>3, <2>2 DEF QuarantineSkipped, Call
  <2>8. EquivalentSteps' = EquivalentSteps
    BY <2>7 DEF EquivalentSteps, ValidSteps, Present
  <2> QED
    BY <2>4, <2>5, <2>6, <2>7, <2>8 DEF JobIsJustified
<1>4. CASE RollbackDestination
  <2>1. /\ run' = run /\ quarantine' = quarantine
        /\ \/ pc' = "note" /\ job'.key = step /\ ~Complete(run[step], FALSE)
           \/ pc' = "rollback_staged"
    <3>1. CASE Discarded(run[step])
      <4>1. Call("checkpoint", step, RollbackReason(run[step]), "rollback_staged")
        BY <1>4, <3>1 DEF RollbackDestination
      <4>2. pc' = "note" /\ job'.key = step
        BY <4>1 DEF Call
      <4> QED
        BY <1>4, <3>1, <4>2 DEF RollbackDestination, Discarded
    <3>2. CASE ~Discarded(run[step])
      BY <1>4, <3>2 DEF RollbackDestination
    <3> QED
      BY <3>1, <3>2
  <2> QED
    BY <2>1 DEF JobIsJustified
<1>5. CASE RollbackStaged \/ ReclaimStaging \/ RmdirFails \/ ExportRollback
  <2>1. /\ run' = run /\ quarantine' = quarantine
        /\ \/ pc' = "note" /\ job'.at # "checkpoint"
           \/ pc' \in {"reclaim", "reclaimed"}
    BY <1>5 DEF RollbackStaged, ReclaimStaging, RmdirFails, ExportRollback, Call
  <2> QED
    BY <2>1 DEF JobIsJustified
<1> QED
  BY <1>1, <1>2, <1>3, <1>4, <1>5 DEF Calls

\* PublishedIsWhole depends on the checkpoints alone.
LEMMA PublishedStays ==
  ASSUME PublishedIsWhole, UNCHANGED run
  PROVE  PublishedIsWhole'
BY DEF PublishedIsWhole, Present

\* What the live trainer left is in the invariant.
LEMMA InitSafe == Init => SafeInv
<1> SUFFICES ASSUME Init PROVE SafeInv
  OBVIOUS
<1>1. PublishedIsWhole
  BY DEF Init, PublishedIsWhole, Present
<1>2. StagedIsWhole /\ JobIsJustified /\ JobIsExplained /\ QuarantineIsExplained
  BY DEF Init, StagedIsWhole, JobIsJustified, JobIsExplained, QuarantineIsExplained
<1> QED
  BY <1>1, <1>2, InitType DEF SafeInv

\* The reason is on the tree before the tree is moved.
LEMMA SafeWriteReason ==
  ASSUME SafeInv, WriteReason
  PROVE  /\ StagedIsWhole' /\ PublishedIsWhole' /\ JobIsJustified'
         /\ JobIsExplained' /\ QuarantineIsExplained'
         /\ \A s \in Present : run'[s] # NoTree /\ Content(run'[s]) = Content(run[s])
<1>a. TypeOK /\ JobInPlace /\ job \in Job
  BY DEF SafeInv, TypeInv, TypeOK, WriteReason, Located
<1>b. /\ pc' = "move" /\ UNCHANGED <<quarantine, job>> /\ job.reason \in Reasons
      /\ job.reason # "none"
  BY <1>a DEF WriteReason, Goto, Job, Reasons, GapReasons, ContentReasons, CallerReasons
<1>c. StagedIsWhole' /\ QuarantineIsExplained'
  BY <1>b DEF StagedIsWhole, QuarantineIsExplained, SafeInv
<1>1. CASE job.at = "checkpoint"
  <2>k. PICK k : k = job.key
    OBVIOUS
  <2>n. PICK n : n = Noted(run[k], job.reason)
    OBVIOUS
  <2>1. k \in Steps /\ run[k] \in Tree /\ run[k] # NoTree
    BY <1>a, <1>1, <2>k DEF JobInPlace, TypeOK
  <2>2. run' = [run EXCEPT ![k] = n]
    BY <1>1, <2>k, <2>n DEF WriteReason, Source, Noted
  <2>3. /\ n.reason = job.reason /\ Content(n) = Content(run[k])
        /\ IsValidCheckpoint(n, FALSE) <=> IsValidCheckpoint(run[k], FALSE)
        /\ ResumeEquivalent(n, FALSE) <=> ResumeEquivalent(run[k], FALSE)
        /\ Complete(n, FALSE) <=> Complete(run[k], FALSE)
    BY <1>b, <2>n, <2>1, NotedTree
  <2>4. n \in Tree
    BY <1>b, <2>n, <2>1 DEF Tree, Noted
  <2>5. n # NoTree
    BY <2>4, NoTreeAssumption
  <2>6. run'[k] = n /\ \A s \in Steps \ {k} : run'[s] = run[s]
    BY <1>a, <2>1, <2>2 DEF TypeOK
  <2>7. Present' = Present
    BY <2>1, <2>5, <2>6 DEF Present
  <2>8. ValidSteps' = ValidSteps
    BY <2>1, <2>3, <2>6, <2>7 DEF ValidSteps, Present
  <2>9. EquivalentSteps' = EquivalentSteps
    BY <2>1, <2>3, <2>6, <2>8 DEF EquivalentSteps, ValidSteps, Present
  <2>10. PublishedIsWhole'
    BY <2>3, <2>6, <2>7 DEF PublishedIsWhole, SafeInv, Present
  <2>11. JobIsJustified'
    BY <1>1, <1>b, <2>k, <2>3, <2>6, <2>9 DEF JobIsJustified, SafeInv, WriteReason
  <2>12. JobIsExplained'
    BY <1>1, <1>b, <2>k, <2>3, <2>6 DEF JobIsExplained, Source
  <2>13. \A s \in Present : run'[s] # NoTree /\ Content(run'[s]) = Content(run[s])
    BY <2>3, <2>5, <2>6 DEF Present
  <2> QED
    BY <1>c, <2>10, <2>11, <2>12, <2>13
<1>2. CASE job.at = "child"
  <2> DEFINE k == job.key
             n == [staging[k].child EXCEPT !.reason = job.reason]
  <2>1. k \in Slots /\ staging[k] # NoDir /\ staging[k].child \in Tree
    BY <1>a, <1>2 DEF JobInPlace, TypeOK, Dir
  <2>2. staging' = [staging EXCEPT ![k].child = n] /\ run' = run
    BY <1>2 DEF WriteReason, Source
  <2>3. n \in Tree /\ n.reason = job.reason
    BY <1>b, <2>1 DEF Tree
  <2> HIDE DEF n
  <2>4. staging'[k].child = n
    BY <1>a, <2>1, <2>2, <2>3, ChildUpdate
  <2>5. JobIsExplained'
    BY <1>2, <1>b, <2>3, <2>4 DEF JobIsExplained, Source
  <2> QED
    BY <1>2, <1>b, <1>c, <2>2, <2>5, PublishedStays DEF JobIsJustified, SafeInv, Present
<1>3. CASE job.at = "dir"
  <2> DEFINE k == job.key
  <2>1. k \in Slots /\ staging[k] \in Dir
    BY <1>a, <1>3 DEF JobInPlace, TypeOK
  <2>2. /\ staging' = [staging EXCEPT ![k] = [staging[k] EXCEPT !.reason = job.reason]]
        /\ run' = run
    BY <1>3 DEF WriteReason, Source
  <2>3. staging'[k].reason = job.reason
    BY <1>a, <2>1, <2>2 DEF TypeOK, Dir
  <2>4. JobIsExplained'
    BY <1>3, <1>b, <2>3 DEF JobIsExplained, Source
  <2> QED
    BY <1>3, <1>b, <1>c, <2>2, <2>4, PublishedStays DEF JobIsJustified, SafeInv, Present
<1> QED
  BY <1>a, <1>1, <1>2, <1>3 DEF Job

\* The rename into the quarantine takes a checkpoint away and moves no other.
LEMMA SafeMoveTree ==
  ASSUME SafeInv, MoveTree
  PROVE  /\ StagedIsWhole' /\ PublishedIsWhole' /\ JobIsJustified'
         /\ JobIsExplained' /\ QuarantineIsExplained'
         /\ \A s \in Present :
              \/ run'[s] = run[s]
              \/ /\ run'[s] = NoTree /\ job.at = "checkpoint" /\ job.key = s
                 /\ \E q \in quarantine' : q.step = s /\ q.tree = run[s]
<1>a. TypeOK /\ JobInPlace /\ job \in Job /\ pc = "move"
  BY DEF SafeInv, TypeInv, TypeOK, MoveTree, Located
<1>b. /\ pc' \notin {"note", "move", "write", "publish", "rename"}
      /\ quarantine' = quarantine \cup {Quarantined}
  BY <1>a DEF MoveTree, Goto, Job
<1>c. StagedIsWhole' /\ JobIsJustified' /\ JobIsExplained'
  BY <1>b DEF StagedIsWhole, JobIsJustified, JobIsExplained
<1>d. QuarantineIsExplained'
  BY <1>a, <1>b DEF QuarantineIsExplained, SafeInv, JobIsExplained, Quarantined
<1>1. CASE job.at = "checkpoint"
  <2>1. job.key \in Steps /\ run' = [run EXCEPT ![job.key] = NoTree]
    BY <1>a, <1>1 DEF JobInPlace, MoveTree
  <2>2. run'[job.key] = NoTree /\ \A s \in Steps \ {job.key} : run'[s] = run[s]
    BY <1>a, <2>1 DEF TypeOK
  <2>3. PublishedIsWhole'
    BY <2>1, <2>2 DEF SafeInv, PublishedIsWhole, Present
  <2>4. Quarantined.step = job.key /\ Quarantined.tree = run[job.key]
    BY <1>1 DEF Quarantined, Source
  <2> QED
    BY <1>1, <1>b, <1>c, <1>d, <2>1, <2>2, <2>3, <2>4 DEF Present
<1>2. CASE job.at # "checkpoint"
  <2>1. run' = run
    BY <1>a, <1>2 DEF MoveTree, Job
  <2> QED
    BY <1>c, <1>d, <2>1, PublishedStays DEF SafeInv
<1> QED
  BY <1>1, <1>2

\* The staged tree is whole when it reaches its name.
LEMMA SafePublishing ==
  ASSUME SafeInv, Publishing
  PROVE  /\ StagedIsWhole' /\ PublishedIsWhole' /\ JobIsJustified'
         /\ JobIsExplained' /\ QuarantineIsExplained'
         /\ \A s \in Present : run'[s] = run[s]
<1>a. /\ TypeOK /\ Located /\ StagedIsWhole /\ PublishedIsWhole /\ QuarantineIsExplained
  BY DEF SafeInv, TypeInv
<1> DEFINE t == staging[mine].child
<1> USE DEF Goto, RaiseIn
<1>b. quarantine' = quarantine /\ pc' \notin {"note", "move"}
  BY DEF Publishing, StageTree, WriteTree, FinishTree, AdmitComplete, RenameNoReplace, memory,
         disk
<1>c. JobIsJustified' /\ JobIsExplained' /\ QuarantineIsExplained'
  BY <1>a, <1>b DEF JobIsJustified, JobIsExplained, QuarantineIsExplained
<1>1. CASE StageTree
  <2>1. mine \in Slots /\ staging[mine] # NoDir
    BY <1>1, <1>a DEF StageTree, Located, Opened
  <2>2. staging'[mine].child = EmptyTree
    BY <1>1, <1>a, <2>1, EmptyTreeType, ChildUpdate DEF StageTree
  <2>3. StagedIsWhole'
    BY <1>1, <2>2 DEF StageTree, StagedIsWhole, EmptyTree
  <2> QED
    BY <1>1, <1>a, <1>c, <2>3, PublishedStays DEF StageTree
<1>2. CASE WriteTree
  <2>1. mine \in Slots /\ staging[mine] # NoDir /\ t \in Tree /\ ~t.resume
    BY <1>2, <1>a DEF WriteTree, Located, Opened, Filled, TypeOK, Dir
  <2>2. staging' = [staging EXCEPT ![mine].child = NextWrite(t)]
    BY <1>2 DEF WriteTree
  <2>3. staging'[mine].child = NextWrite(t)
    BY <1>a, <2>1, <2>2, NextWriteType, ChildUpdate
  <2>4. NextWrite(t).resume => NextWrite(t).state = "ok" /\ NextWrite(t).weights = "ok"
    BY <2>1 DEF NextWrite, NextAdapterWrite, Tree
  <2>5. StagedIsWhole'
    BY <1>2, <2>3, <2>4 DEF WriteTree, memory, StagedIsWhole
  <2> QED
    BY <1>2, <1>a, <1>c, <2>5, PublishedStays DEF WriteTree
<1>3. CASE FinishTree
  <2>1. /\ mine \in Slots /\ staging[mine] # NoDir /\ t \in Tree /\ t.resume
        /\ t.state = "ok"
    BY <1>3, <1>a DEF FinishTree, Located, Opened, Filled, TypeOK, Dir, StagedIsWhole
  <2>2. staging'[mine].child.state = "ok" /\ staging'[mine].child.resume
    <3>1. CASE IsFault(step, "during_write")
      <4> DEFINE n == [t EXCEPT !.weights = "short"]
      <4>1. staging' = [staging EXCEPT ![mine].child = n]
        BY <1>3, <3>1 DEF FinishTree
      <4>2. n \in Tree /\ n.state = "ok" /\ n.resume
        BY <2>1 DEF Tree
      <4> HIDE DEF n
      <4> QED
        BY <1>a, <2>1, <4>1, <4>2, ChildUpdate
    <3>2. CASE ~IsFault(step, "during_write")
      BY <1>3, <2>1, <3>2 DEF FinishTree
    <3> QED
      BY <3>1, <3>2
  <2>3. StagedIsWhole'
    BY <1>3, <2>2 DEF FinishTree, StagedIsWhole
  <2> QED
    BY <1>3, <1>a, <1>c, <2>3, PublishedStays DEF FinishTree
<1>4. CASE AdmitComplete
  BY <1>4, <1>a, <1>c, PublishedStays DEF AdmitComplete, disk, Refused, StagedIsWhole
<1>5. CASE RenameNoReplace
  <2>a. StagedIsWhole'
    BY <1>5 DEF RenameNoReplace, StagedIsWhole
  <2>1. CASE NameIsFree
    <3>1. t \in Tree /\ step \in Steps /\ t.state = "ok" /\ t.resume /\ Complete(t, FALSE)
      BY <1>5, <1>a DEF RenameNoReplace, Located, Naming, Filled, Opened, TypeOK, Dir, StagedIsWhole
    <3>2. ResumeEquivalent(t, FALSE)
      BY <3>1, CompleteResumes
    <3>3. run[step] = NoTree /\ run' = [run EXCEPT ![step] = t]
      BY <1>5, <2>1 DEF RenameNoReplace, NameIsFree
    <3> HIDE DEF t
    <3>4. run'[step] = t /\ \A s \in Steps \ {step} : run'[s] = run[s]
      BY <1>a, <3>1, <3>3 DEF TypeOK
    <3>5. PublishedIsWhole'
      BY <1>a, <3>1, <3>2, <3>4 DEF PublishedIsWhole, Present
    <3> QED
      BY <1>c, <2>a, <3>3, <3>4, <3>5 DEF Present
  <2>2. CASE ~NameIsFree
    BY <1>5, <1>a, <1>c, <2>a, <2>2, PublishedStays DEF RenameNoReplace
  <2> QED
    BY <2>1, <2>2
<1> QED
  BY <1>1, <1>2, <1>3, <1>4, <1>5 DEF Publishing

\* Another writer takes a free name; the publication in progress is as it was.
LEMMA SafeForeignWrite ==
  ASSUME SafeInv, ForeignWrite
  PROVE  /\ StagedIsWhole' /\ PublishedIsWhole' /\ JobIsJustified'
         /\ JobIsExplained' /\ QuarantineIsExplained'
         /\ \A s \in Present : run'[s] = run[s]
<1>a. TypeOK /\ step \in Steps /\ run[step] = NoTree
  BY DEF SafeInv, TypeInv, ForeignWrite, Located, Naming
<1>1. PICK t \in InitialTrees : run' = [run EXCEPT ![step] = t]
  BY DEF ForeignWrite
<1>2. run'[step] = t /\ \A s \in Steps \ {step} : run'[s] = run[s]
  BY <1>a, <1>1 DEF TypeOK
<1>3. PublishedIsWhole'
  BY <1>a, <1>2 DEF SafeInv, PublishedIsWhole, Present
<1>4. StagedIsWhole' /\ JobIsJustified' /\ JobIsExplained' /\ QuarantineIsExplained'
  BY DEF SafeInv, ForeignWrite, memory, StagedIsWhole, JobIsJustified, JobIsExplained,
         QuarantineIsExplained
<1> QED
  BY <1>a, <1>2, <1>3, <1>4 DEF Present

-----------------------------------------------------------------------------
\* SafeInv is inductive.
LEMMA SafeStep == SafeInv /\ [Next]_vars => SafeInv'
<1> SUFFICES ASSUME SafeInv, [Next]_vars PROVE SafeInv'
  OBVIOUS
<1>a. TypeInv /\ TypeInv'
  BY TypeStep DEF SafeInv
<1>1. CASE Quiet
  BY <1>1, <1>a, PublishedStays
     DEF Quiet, SafeInv, StagedIsWhole, JobIsJustified, JobIsExplained, QuarantineIsExplained
<1>2. CASE UNCHANGED vars
  BY <1>2, <1>a, PublishedStays
     DEF vars, disk, memory, SafeInv, StagedIsWhole, JobIsJustified, JobIsExplained,
         QuarantineIsExplained, EquivalentSteps, ValidSteps, Present, Source
<1>3. CASE Calls
  BY <1>3, <1>a, CallsJustified, PublishedStays
     DEF SafeInv, StagedIsWhole, JobIsExplained, QuarantineIsExplained
<1> QED
  BY <1>a, <1>1, <1>2, <1>3, QuietOrNot, SafeWriteReason, SafeMoveTree, SafePublishing,
     SafeForeignWrite DEF SafeInv

\* No checkpoint-N directory is ever seen half-written, for any save interval,
\* number of runs and interleaving of faults, kills and foreign writers.
THEOREM PublicationIsAtomic == Spec => []PublishedIsWhole
<1>1. SafeInv => PublishedIsWhole
  BY DEF SafeInv
<1> QED
  BY <1>1, InitSafe, SafeStep, PTL DEF Spec

\* Every quarantined directory carries the reason it was moved for, wherever
\* quarantine_tree was interrupted.
THEOREM QuarantineExplained == Spec => []QuarantineIsExplained
<1>1. SafeInv => QuarantineIsExplained
  BY DEF SafeInv
<1> QED
  BY <1>1, InitSafe, SafeStep, PTL DEF Spec

\* The step version of NoCheckpointIsLost.
LEMMA NothingIsLost ==
  ASSUME SafeInv, [Next]_vars, NEW s \in Present
  PROVE  \/ run'[s] # NoTree /\ Content(run'[s]) = Content(run[s])
         \/ /\ run'[s] = NoTree
            /\ \E q \in quarantine' : q.step = s /\ q.tree = run[s]
            /\ \/ ~Complete(run[s], FALSE)
               \/ /\ ~ResumeEquivalent(run[s], FALSE)
                  /\ \E e \in EquivalentSteps : e < s
<1>a. TypeInv /\ JobIsJustified /\ run[s] # NoTree
  BY DEF SafeInv, Present
<1>1. CASE MoveTree
  BY <1>1, <1>a, SafeMoveTree DEF JobIsJustified, MoveTree
<1>2. CASE ~MoveTree
  <2>1. \/ run'[s] = run[s]
        \/ run'[s] # NoTree /\ Content(run'[s]) = Content(run[s])
    BY <1>2, <1>a, QuietOrNot, SafeWriteReason, SafePublishing, SafeForeignWrite, CallsJustified
       DEF Quiet, vars, disk
  <2> QED
    BY <1>a, <2>1
<1> QED
  BY <1>1, <1>2

\* No step overwrites or deletes a checkpoint: it leaves for the quarantine,
\* whole, and only if it is incomplete or an older one resumes instead.
THEOREM NoCheckpointIsLost == Spec => LeavesOnlyByQuarantine
<1>1. SafeInv /\ [Next]_vars =>
        [\A s \in Present :
           \/ run'[s] # NoTree /\ Content(run'[s]) = Content(run[s])
           \/ /\ run'[s] = NoTree
              /\ \E q \in quarantine' : q.step = s /\ q.tree = run[s]
              /\ \/ ~Complete(run[s], FALSE)
                 \/ /\ ~ResumeEquivalent(run[s], FALSE)
                    /\ \E e \in EquivalentSteps : e < s]_vars
  BY NothingIsLost
<1> QED
  BY <1>1, InitSafe, SafeStep, PTL DEF Spec, LeavesOnlyByQuarantine

\* Whether a checkpoint can be resumed from is decided by its content.
LEMMA ContentDecides ==
  ASSUME NEW t \in Tree, NEW u \in Tree, Content(t) = Content(u),
         IsValidCheckpoint(t, FALSE), ResumeEquivalent(t, FALSE)
  PROVE  IsValidCheckpoint(u, FALSE) /\ ResumeEquivalent(u, FALSE)
<1>1. /\ Content(t).state = t.state /\ Content(t).config = t.config
      /\ Content(t).weights = t.weights /\ Content(t).bin = t.bin /\ Content(t).resume = t.resume
  BY DEF Content, Tree
<1>2. /\ Content(u).state = u.state /\ Content(u).config = u.config
      /\ Content(u).weights = u.weights /\ Content(u).bin = u.bin /\ Content(u).resume = u.resume
  BY DEF Content, Tree
<1>3. /\ t.state = u.state /\ t.config = u.config /\ t.weights = u.weights
      /\ t.bin = u.bin /\ t.resume = u.resume
  BY <1>1, <1>2
<1> QED
  BY <1>3 DEF IsValidCheckpoint, IsAdapterArtifact, HasAdapterWeights, ResumeEquivalent,
              AdapterWeightsUsable

\* The step version of ResumePointIsKept.
LEMMA EquivalentStays ==
  ASSUME SafeInv, [Next]_vars, NEW s \in EquivalentSteps
  PROVE  s \in EquivalentSteps'
<1>1. /\ s \in Present /\ s \in Steps /\ run[s] \in Tree
      /\ IsValidCheckpoint(run[s], FALSE) /\ ResumeEquivalent(run[s], FALSE)
  BY DEF SafeInv, TypeInv, TypeOK, EquivalentSteps, ValidSteps, Present
<1>2. run'[s] # NoTree /\ Content(run'[s]) = Content(run[s])
  BY <1>1, NothingIsLost, EquivalentIsComplete
<1>3. run'[s] \in Tree
  BY <1>1, <1>2, TypeStep DEF SafeInv, TypeInv, TypeOK
<1>4. IsValidCheckpoint(run'[s], FALSE) /\ ResumeEquivalent(run'[s], FALSE)
  BY <1>1, <1>2, <1>3, ContentDecides
<1> QED
  BY <1>1, <1>2, <1>4 DEF EquivalentSteps, ValidSteps, Present

\* The newest checkpoint training can resume from never gets older.
THEOREM ResumePointIsKept == Spec => ResumePointNeverRegresses
<1>1. SafeInv /\ [Next]_vars =>
        [\A s \in EquivalentSteps : \E e \in EquivalentSteps' : e >= s]_vars
  <2> SUFFICES ASSUME SafeInv, [Next]_vars, NEW s \in EquivalentSteps
               PROVE  \E e \in EquivalentSteps' : e >= s
    OBVIOUS
  <2>1. s \in Int
    BY DEF EquivalentSteps, ValidSteps, Present, Steps
  <2> QED
    BY <2>1, EquivalentStays
<1> QED
  BY <1>1, InitSafe, SafeStep, PTL DEF Spec, ResumePointNeverRegresses

-----------------------------------------------------------------------------
(***************************************************************************)
(* What a run reports.  The report is made at the end of a walk through     *)
(* the loop, the export or the exception handler, so its invariant says     *)
(* where the process is in that walk: Mood relates pc, ctx and failing,     *)
(* Covered what has been saved, Exported what is at the run root, Told what *)
(* last_failure.json says.                                                  *)
(***************************************************************************)

\* Where the process is, or where quarantine_tree returns to.
Where == IF pc \in {"note", "move"} THEN job.ret ELSE pc

Saving == {"save", "stage", "write", "publish", "rename"}

Exporting == {"export", "export_stage", "export_write", "export_config", "export_weights"}

Excepting == {"rollback", "rollback_staged", "export_rollback", "handler"}

Selecting == {"scan", "select"}

\* An exception is propagating exactly in the except clauses and in what the
\* handler of run_fault_harness does; ctx follows the phase of the run.
Mood ==
  /\ pc = "idle" => ~failing /\ step = 0 /\ ctx = "restore"
  /\ pc # "idle" => outcome = "running"
  /\ Where \in Saving \cup {"step", "fsync", "saved"} => ~failing /\ ctx = "restore"
  /\ Where \in Exporting \cup {"export_tidy"} => ~failing /\ ctx = "result"
  /\ Where \in Excepting => failing
  /\ Where \in Selecting /\ ctx = "restore" => ~failing /\ step = 0
  /\ ctx \in {"handler", "evidence"} => failing

\* The adapter is at the run root once export_final_adapter has returned; its
\* configuration is renamed before its weights.
Exported ==
  /\ ~failing /\ ctx = "result" =>
       /\ step = MaxSteps
       /\ Where \notin Exporting => root.config /\ root.weights
       /\ pc = "export_weights" => root.config
  /\ root.weights => root.config

\* Nothing is left for quarantine_incomplete_checkpoints to do.
Clean == IncompleteSteps = {} /\ \A d \in Slots : staging[d] = NoDir

\* Selection follows a scan that found nothing.
SelectsClean == Where = "select" => Clean

EvidenceIsCurrent == evidence = [step |-> ResumePoint, equivalent |-> Resumable]

\* What the handler recorded stays true while the result is built.
Told ==
  failing /\ ctx = "result" /\ Where \in Selecting =>
    pc \in Selecting /\ Clean /\ Skipped = {} /\ EvidenceIsCurrent

\* Of the steps E training can be resumed from, one is at least as new as any
\* save step up to n.
Covers(E, n) == \A s \in Steps : IsSaveStep(s) /\ s <= n => \E e \in E : e >= s

\* What the loop has trained it has saved, up to the save it is in.
Covered == ~failing => Covers(EquivalentSteps, IF pc \in Saving THEN step - 1 ELSE step)

ReportInv == /\ SafeInv
             /\ Mood /\ Exported
             /\ SelectsClean /\ Told
             /\ Covered
             /\ ReportIsTrue

-----------------------------------------------------------------------------
(* Control.                                                                *)

\* A call of quarantine_tree is as far as the caller it returns to.
LEMMA CallWhere ==
  ASSUME NEW at, NEW key, NEW reason, NEW ret, Call(at, key, reason, ret)
  PROVE  pc' = "note" /\ job'.ret = ret /\ Where' = ret
BY DEF Call, Goto, Where

\* Where the callers of quarantine_tree in the except and finally clauses go,
\* whether they call it or find nothing to move.
LEMMA RollbackWhere ==
  /\ RollbackDestination => Where' = "rollback_staged"
  /\ RollbackStaged \/ ExportRollback => Where' = "reclaim"
  /\ ReclaimStaging \/ RmdirFails => Where' = "reclaimed"
<1> USE DEF Goto, Where
<1>1. RollbackDestination => Where' = "rollback_staged"
  <2>1. CASE Discarded(run[step])
    BY <2>1, CallWhere DEF RollbackDestination
  <2>2. CASE ~Discarded(run[step])
    BY <2>2 DEF RollbackDestination
  <2> QED
    BY <2>1, <2>2
<1>2. RollbackStaged \/ ExportRollback => Where' = "reclaim"
  <2>1. CASE staging[mine].child # NoTree
    BY <2>1, CallWhere DEF RollbackStaged, ExportRollback
  <2>2. CASE staging[mine].child = NoTree
    BY <2>2 DEF RollbackStaged, ExportRollback
  <2> QED
    BY <2>1, <2>2
<1>3. ReclaimStaging => Where' = "reclaimed"
  <2>1. CASE staging[mine].child # NoTree
    BY <2>1, CallWhere DEF ReclaimStaging
  <2>2. CASE staging[mine].child = NoTree
    BY <2>2 DEF ReclaimStaging
  <2> QED
    BY <2>1, <2>2
<1>4. RmdirFails => Where' = "reclaimed"
  BY CallWhere DEF RmdirFails
<1> QED
  BY <1>1, <1>2, <1>3, <1>4

\* The selection keeps the phases apart.
LEMMA ControlSelection ==
  ASSUME TypeInv, Mood, Exported, Selection
  PROVE  Mood' /\ Exported'
<1> USE DEF Mood, Exported, Where, Saving, Exporting, Excepting, Selecting
<1>a. pc # "idle" => outcome = "running"
  OBVIOUS
<1>1. CASE ScanCheckpoint
  <2>1. pc' = "note" /\ job'.ret = "scan"
    BY <1>1, CallWhere DEF ScanCheckpoint
  <2> QED
    BY <1>1, <2>1 DEF ScanCheckpoint, disk
<1>2. CASE ScanStagedChild
  <2>1. pc' = "note" /\ job'.ret = "scan"
    BY <1>2, CallWhere DEF ScanStagedChild
  <2> QED
    BY <1>2, <2>1 DEF ScanStagedChild, disk
<1>3. CASE ScanStagingDir
  <2>1. pc' = "note" /\ job'.ret = "scan"
    BY <1>3, CallWhere DEF ScanStagingDir
  <2> QED
    BY <1>3, <2>1 DEF ScanStagingDir, disk
<1>4. CASE ScanDone
  BY <1>4 DEF ScanDone, Goto, disk
<1>5. CASE QuarantineSkipped
  <2>1. pc' = "note" /\ job'.ret = "select"
    BY <1>5, CallWhere DEF QuarantineSkipped
  <2> QED
    BY <1>5, <2>1 DEF QuarantineSkipped, disk
<1>6. CASE RestoreLoop
  BY <1>6 DEF RestoreLoop, Goto, Raise, disk
<1>7. CASE RecordEvidence
  BY <1>7 DEF RecordEvidence, Goto
<1>8. CASE Return
  BY <1>8 DEF Return, Forget, disk
<1>9. CASE HandleException
  BY <1>9 DEF HandleException, Goto, disk
<1> QED
  BY <1>1, <1>2, <1>3, <1>4, <1>5, <1>6, <1>7, <1>8, <1>9 DEF Selection

\* quarantine_tree returns to its caller, or raises where the caller would.
LEMMA ControlQuarantineTree ==
  ASSUME TypeInv, Mood, Exported, QuarantineTree
  PROVE  Mood' /\ Exported'
<1> USE DEF Mood, Exported, Where, Saving, Exporting, Excepting, Selecting
<1>a. job.ret \in {"scan", "select", "rollback_staged", "reclaim", "reclaimed"}
  BY DEF TypeInv, TypeOK, Job
<1>b. ctx \in {"restore", "handler", "evidence", "result"} /\ failing \in BOOLEAN
  BY DEF TypeInv, TypeOK
<1>1. CASE WriteReason
  BY <1>a, <1>1 DEF WriteReason, Goto
<1>2. CASE MoveTree
  BY <1>a, <1>2 DEF MoveTree, Goto
<1>3. CASE QuarantineFails
  <2>1. UNCHANGED root /\ pc \in {"note", "move"}
    BY <1>3 DEF QuarantineFails, disk
  <2>2. CASE job.ret \in {"rollback_staged", "reclaim"}
    <3>1. pc' = "reclaim" /\ failing' = TRUE /\ UNCHANGED <<ctx, step, outcome>>
      BY <1>3, <2>2 DEF QuarantineFails, RaiseIn, Goto
    <3> QED
      BY <1>a, <1>b, <2>1, <2>2, <3>1
  <2>3. CASE job.ret \notin {"rollback_staged", "reclaim"} /\ (job.ret = "reclaimed" \/ ctx = "restore")
    <3>1. pc' = "handler" /\ failing' = TRUE /\ UNCHANGED <<ctx, step, outcome>>
      BY <1>3, <2>3 DEF QuarantineFails, Raise, Goto
    <3> QED
      BY <1>a, <1>b, <2>1, <3>1
  <2>4. CASE job.ret \notin {"rollback_staged", "reclaim"} /\ ~(job.ret = "reclaimed" \/ ctx = "restore")
    <3>1. Forget
      BY <1>3, <2>4 DEF QuarantineFails
    <3> QED
      BY <2>1, <3>1 DEF Forget
  <2> QED
    BY <2>2, <2>3, <2>4
<1> QED
  BY <1>1, <1>2, <1>3 DEF QuarantineTree

\* The loop and the publication.
LEMMA ControlPublication ==
  ASSUME TypeInv, Mood, Exported, Publication
  PROVE  Mood' /\ Exported'
<1> USE DEF Mood, Exported, Where, Saving, Exporting, Excepting, Selecting, Goto, Raise, RaiseIn,
            disk, memory
<1>b. ctx \in {"restore", "handler", "evidence", "result"} /\ failing \in BOOLEAN
  BY DEF TypeInv, TypeOK
<1>1. CASE Train \/ FaultBeforeSave \/ RefuseOccupied
  BY <1>1 DEF Train, FaultBeforeSave, RefuseOccupied
<1>2. CASE MakeStaging
  <2>1. pc' = "stage"
    BY <1>2 DEF MakeStaging, OpenStaging
  <2> QED
    BY <1>2, <2>1 DEF MakeStaging
<1>3. CASE MakeStagingFails
  BY <1>3 DEF MakeStagingFails
<1>4. CASE StageTree \/ WriteTree
  BY <1>4 DEF StageTree, WriteTree
<1>5. CASE FinishTree
  BY <1>5 DEF FinishTree
<1>6. CASE WriteFails \/ RefuseIncomplete \/ AdmitComplete
  BY <1>6 DEF WriteFails, RefuseIncomplete, AdmitComplete
<1>7. CASE RenameNoReplace
  BY <1>7 DEF RenameNoReplace
<1>8. CASE FaultDuringRename \/ RenameFails \/ SyncParent \/ FaultAfterSave \/ SaveDone
  BY <1>8 DEF FaultDuringRename, RenameFails, SyncParent, FaultAfterSave, SaveDone
<1>9. CASE RollbackDestination
  BY <1>9, RollbackWhere DEF RollbackDestination
<1>10. CASE RollbackStaged
  BY <1>10, RollbackWhere DEF RollbackStaged
<1>11. CASE ReclaimStaging
  BY <1>11, RollbackWhere DEF ReclaimStaging
<1>12. CASE RmdirFails
  BY <1>12, RollbackWhere DEF RmdirFails
<1>13. CASE LeaveStaging
  BY <1>b, <1>13 DEF LeaveStaging
<1> QED
  BY <1>1, <1>2, <1>3, <1>4, <1>5, <1>6, <1>7, <1>8, <1>9, <1>10, <1>11, <1>12, <1>13
     DEF Publication

\* The export, which begins when the last step is trained.
LEMMA ControlExport ==
  ASSUME TypeInv, Mood, Exported, Export
  PROVE  Mood' /\ Exported'
<1> USE DEF Mood, Exported, Where, Saving, Exporting, Excepting, Selecting, Goto, Raise, RaiseIn,
            disk, memory
<1>b. /\ ctx \in {"restore", "handler", "evidence", "result"} /\ failing \in BOOLEAN
      /\ step \in 0 .. MaxSteps /\ root \in [config : BOOLEAN, weights : BOOLEAN]
  BY DEF TypeInv, TypeOK
<1>1. CASE FinishSteps
  <2>1. step = MaxSteps
    BY <1>b, <1>1, StepsAssumption DEF FinishSteps, MoreSteps
  <2> QED
    BY <1>1, <2>1 DEF FinishSteps, RootIsAdapter
<1>2. CASE MakeExportStaging
  <2>1. pc' = "export_stage"
    BY <1>2 DEF MakeExportStaging, OpenStaging
  <2> QED
    BY <1>2, <2>1 DEF MakeExportStaging
<1>3. CASE StageAdapter \/ WriteAdapter \/ FaultDuringExport \/ CheckRootNames
  BY <1>3 DEF StageAdapter, WriteAdapter, FaultDuringExport, CheckRootNames
<1>4. CASE RenameConfig
  <2>1. root'.config /\ root'.weights = root.weights
    BY <1>b, <1>4 DEF RenameConfig
  <2> QED
    BY <1>4, <2>1 DEF RenameConfig
<1>5. CASE RenameWeights
  <2>1. root'.weights /\ root'.config = root.config
    BY <1>b, <1>5 DEF RenameWeights
  <2> QED
    BY <1>5, <2>1 DEF RenameWeights
<1>6. CASE RemoveStagedAdapter \/ StagedAdapterStays \/ ExportFails
  BY <1>6 DEF RemoveStagedAdapter, StagedAdapterStays, ExportFails
<1>7. CASE ExportRollback
  BY <1>7, RollbackWhere DEF ExportRollback
<1> QED
  BY <1>1, <1>2, <1>3, <1>4, <1>5, <1>6, <1>7 DEF Export

\* Every step keeps the phases of a run apart.
LEMMA ControlStep ==
  ASSUME TypeInv, Mood, Exported, [Next]_vars
  PROVE  Mood' /\ Exported'
<1> USE DEF Mood, Exported, Where, Saving, Exporting, Excepting, Selecting
<1>1. CASE StartRun
  BY <1>1 DEF StartRun, Goto, disk
<1>2. CASE Crash
  BY <1>2 DEF Crash, Forget, disk
<1>3. CASE ForeignWrite
  BY <1>3 DEF ForeignWrite, memory
<1>4. CASE UNCHANGED vars
  BY <1>4 DEF vars, disk, memory
<1> QED
  BY <1>1, <1>2, <1>3, <1>4, ControlSelection, ControlQuarantineTree, ControlPublication,
     ControlExport DEF Next, Process

-----------------------------------------------------------------------------
(* The selection reads the checkpoints and nothing else.                   *)

\* Two selections over the same checkpoints agree.
LEMMA SelectionStays ==
  ASSUME UNCHANGED run
  PROVE  /\ Present' = Present
         /\ IncompleteSteps' = IncompleteSteps
         /\ ValidSteps' = ValidSteps
         /\ EquivalentSteps' = EquivalentSteps
         /\ Skipped' = Skipped
         /\ ResumePoint' = ResumePoint
         /\ Resumable' = Resumable
<1>1. Present' = Present
  BY DEF Present
<1>2. ValidSteps' = ValidSteps /\ IncompleteSteps' = IncompleteSteps
  BY <1>1 DEF ValidSteps, IncompleteSteps
<1>3. EquivalentSteps' = EquivalentSteps
  BY <1>2 DEF EquivalentSteps
<1>4. Skipped' = Skipped
  BY <1>2, <1>3 DEF Skipped
<1>5. ResumePoint' = ResumePoint
  BY <1>2, <1>3 DEF ResumePoint
<1> QED
  BY <1>1, <1>2, <1>3, <1>4, <1>5 DEF Resumable

\* quarantine_tree makes no checkpoint incomplete: it writes a reason, which
\* changes no verdict, or takes the checkpoint away.
LEMMA QuarantineKeepsComplete ==
  ASSUME SafeInv, WriteReason \/ MoveTree, IncompleteSteps = {}
  PROVE  /\ IncompleteSteps' = {}
         /\ Present' \subseteq Present
<1>a. TypeOK /\ JobInPlace /\ job \in Job
  BY DEF SafeInv, TypeInv, TypeOK, WriteReason, MoveTree, Located
<1>1. CASE job.at # "checkpoint"
  <2>1. run' = run
    BY <1>a, <1>1 DEF WriteReason, MoveTree, Job
  <2> QED
    BY <2>1, SelectionStays
<1>2. CASE job.at = "checkpoint"
  <2>k. PICK k : k = job.key
    OBVIOUS
  <2>1. k \in Steps /\ run[k] \in Tree /\ run[k] # NoTree /\ job.reason \in Reasons
    BY <1>a, <1>2, <2>k DEF JobInPlace, TypeOK, Job
  <2>2. CASE WriteReason
    <3>n. PICK n : n = Noted(run[k], job.reason)
      OBVIOUS
    <3>1. run' = [run EXCEPT ![k] = n]
      BY <1>2, <2>2, <2>k, <3>n DEF WriteReason, Source, Noted
    <3>2. Complete(n, FALSE) <=> Complete(run[k], FALSE)
      BY <2>1, <3>n, NotedTree
    <3>3. run'[k] = n /\ \A s \in Steps \ {k} : run'[s] = run[s]
      BY <1>a, <2>1, <3>1 DEF TypeOK
    <3>4. Present' \subseteq Present
      BY <2>1, <3>3 DEF Present
    <3>5. \A s \in Present' : Complete(run'[s], FALSE)
      BY <3>2, <3>3, <3>4 DEF IncompleteSteps, Present
    <3> QED
      BY <3>4, <3>5 DEF IncompleteSteps
  <2>3. CASE MoveTree
    <3>1. run' = [run EXCEPT ![k] = NoTree]
      BY <1>2, <2>3, <2>k DEF MoveTree
    <3>2. run'[k] = NoTree /\ \A s \in Steps \ {k} : run'[s] = run[s]
      BY <1>a, <2>1, <3>1 DEF TypeOK
    <3>3. Present' \subseteq Present /\ \A s \in Present' : run'[s] = run[s]
      BY <3>2 DEF Present
    <3>4. \A s \in Present' : Complete(run'[s], FALSE)
      BY <3>3 DEF IncompleteSteps
    <3> QED
      BY <3>3, <3>4 DEF IncompleteSteps
  <2> QED
    BY <2>2, <2>3
<1> QED
  BY <1>1, <1>2

\* A pickle disqualifies a checkpoint, so where every checkpoint is complete the
\* run root is an adapter as soon as both its files are there.
LEMMA CompleteHasNoPickle ==
  ASSUME NEW t \in Tree, Complete(t, FALSE)
  PROVE  ~t.bin /\ IsValidCheckpoint(t, FALSE)
BY DEF Complete, IncompleteReason, GapReason, UnreadableWeightReason, IsValidCheckpoint,
       IsAdapterArtifact, HasAdapterWeights, Tree

-----------------------------------------------------------------------------
(* How a process comes to select.                                          *)

\* A publication and an export end in a scan only by returning to the caller.
LEMMA StaysAway ==
  ASSUME Publication \/ Export
  PROVE  \/ Where' \notin Selecting
         \/ Where' = "scan" /\ pc' = "scan" /\ (FinishSteps \/ (LeaveStaging /\ ~failing'))
<1> USE DEF Where, Selecting, Goto, Raise, RaiseIn, disk, memory
<1>1. Train \/ FaultBeforeSave \/ RefuseOccupied \/ MakeStaging \/ MakeStagingFails
        => Where' \notin Selecting
  BY DEF Train, FaultBeforeSave, RefuseOccupied, MakeStaging, MakeStagingFails, OpenStaging
<1>2. StageTree \/ WriteTree \/ FinishTree \/ WriteFails \/ RefuseIncomplete \/ AdmitComplete
        \/ RenameNoReplace => Where' \notin Selecting
  BY DEF StageTree, WriteTree, FinishTree, WriteFails, RefuseIncomplete, AdmitComplete,
         RenameNoReplace
<1>3. FaultDuringRename \/ RenameFails \/ SyncParent \/ FaultAfterSave \/ SaveDone
        => Where' \notin Selecting
  BY DEF FaultDuringRename, RenameFails, SyncParent, FaultAfterSave, SaveDone
<1>4. LeaveStaging => Where' \notin Selecting \/ (Where' = "scan" /\ pc' = "scan" /\ ~failing')
  BY DEF LeaveStaging
<1>5. RollbackDestination \/ RollbackStaged \/ ReclaimStaging \/ RmdirFails \/ ExportRollback
        => Where' \notin Selecting
  BY RollbackWhere
<1>6. FinishSteps => Where' \notin Selecting \/ (Where' = "scan" /\ pc' = "scan")
  BY DEF FinishSteps
<1>7. MakeExportStaging \/ StageAdapter \/ WriteAdapter \/ FaultDuringExport \/ CheckRootNames
        => Where' \notin Selecting
  BY DEF MakeExportStaging, StageAdapter, WriteAdapter, FaultDuringExport, CheckRootNames,
         OpenStaging
<1>8. RenameConfig \/ RenameWeights \/ RemoveStagedAdapter \/ StagedAdapterStays \/ ExportFails
        => Where' \notin Selecting
  BY DEF RenameConfig, RenameWeights, RemoveStagedAdapter, StagedAdapterStays, ExportFails
<1> QED
  BY <1>1, <1>2, <1>3, <1>4, <1>5, <1>6, <1>7, <1>8 DEF Publication, Export

\* The select location is entered from a scan that is over, and left for the
\* quarantine and back.
LEMMA ReachesSelect ==
  ASSUME TypeInv, [Next]_vars, Where' = "select"
  PROVE  \/ (ScanDone \/ QuarantineSkipped \/ UNCHANGED vars)
         \/ Where = "select" /\ (WriteReason \/ MoveTree)
<1> USE DEF Where, Goto, Raise, RaiseIn, disk, memory
<1>a. job.ret \in {"scan", "select", "rollback_staged", "reclaim", "reclaimed"}
  BY DEF TypeInv, TypeOK, Job
<1>1. CASE Selection
  <2>1. ~ScanCheckpoint /\ ~ScanStagedChild /\ ~ScanStagingDir
    BY CallWhere DEF ScanCheckpoint, ScanStagedChild, ScanStagingDir
  <2>2. ~RestoreLoop /\ ~RecordEvidence /\ ~Return /\ ~HandleException
    BY DEF RestoreLoop, RecordEvidence, Return, HandleException, Forget
  <2> QED
    BY <1>1, <2>1, <2>2 DEF Selection
<1>2. CASE QuarantineTree
  <2>1. ~QuarantineFails
    BY DEF QuarantineFails, Forget
  <2>2. (WriteReason \/ MoveTree) => Where = "select"
    BY <1>a DEF WriteReason, MoveTree
  <2> QED
    BY <1>2, <2>1, <2>2 DEF QuarantineTree
<1>3. ~Publication /\ ~Export
  BY StaysAway DEF Selecting
<1>4. ~StartRun /\ ~Crash /\ ~ForeignWrite
  BY DEF StartRun, Crash, ForeignWrite, Forget
<1> QED
  BY <1>1, <1>2, <1>3, <1>4 DEF Next, Process

\* A selection that follows a clean scan stays clean.
LEMMA SelectsCleanStep ==
  ASSUME SafeInv, SelectsClean, [Next]_vars
  PROVE  SelectsClean'
<1> SUFFICES ASSUME Where' = "select" PROVE Clean'
  BY DEF SelectsClean
<1>a. TypeInv
  BY DEF SafeInv
<1>b. \/ (ScanDone \/ QuarantineSkipped \/ UNCHANGED vars)
      \/ Where = "select" /\ (WriteReason \/ MoveTree)
  BY <1>a, ReachesSelect
<1>1. CASE ScanDone
  <2>1. IncompleteSteps = {} /\ (\A d \in Slots : staging[d] = NoDir) /\ UNCHANGED <<run, staging>>
    BY <1>1 DEF ScanDone, IsLeftover, disk
  <2> QED
    BY <2>1, SelectionStays DEF Clean
<1>2. CASE QuarantineSkipped \/ UNCHANGED vars
  <2>1. UNCHANGED <<run, staging>> /\ Where = "select"
    BY <1>2 DEF QuarantineSkipped, vars, memory, disk, Where
  <2> QED
    BY <2>1, SelectionStays DEF Clean, SelectsClean
<1>3. CASE Where = "select" /\ (WriteReason \/ MoveTree)
  <2>1. IncompleteSteps = {} /\ \A d \in Slots : staging[d] = NoDir
    BY <1>3 DEF SelectsClean, Clean
  <2>2. IncompleteSteps' = {}
    BY <1>3, <2>1, QuarantineKeepsComplete
  <2>3. JobInPlace /\ job \in Job
    BY <1>3, <1>a DEF TypeInv, TypeOK, Located, WriteReason, MoveTree
  <2>4. job.at = "checkpoint"
    BY <2>1, <2>3 DEF JobInPlace, Job
  <2>5. staging' = staging
    BY <1>3, <2>4 DEF WriteReason, MoveTree
  <2> QED
    BY <2>1, <2>2, <2>5 DEF Clean
<1> QED
  BY <1>b, <1>1, <1>2, <1>3

-----------------------------------------------------------------------------
(* The evidence of a failed run.                                           *)

\* A failed run builds its result right after it recorded the evidence.
LEMMA ReachesResult ==
  ASSUME TypeInv, Mood, [Next]_vars, failing', ctx' = "result", Where' \in Selecting
  PROVE  \/ RecordEvidence
         \/ /\ failing /\ ctx = "result" /\ Where \in Selecting
            /\ \/ (ScanCheckpoint \/ ScanStagedChild \/ ScanStagingDir \/ ScanDone)
               \/ (QuarantineSkipped \/ WriteReason \/ MoveTree \/ UNCHANGED vars)
<1> USE DEF Where, Selecting, Goto, Raise, RaiseIn, disk, memory
<1>a. job.ret \in {"scan", "select", "rollback_staged", "reclaim", "reclaimed"}
  BY DEF TypeInv, TypeOK, Job
<1>1. CASE Selection
  <2>1. ~RestoreLoop /\ ~Return /\ ~HandleException
    BY DEF RestoreLoop, Return, HandleException, Forget
  <2>2. ScanCheckpoint \/ ScanStagedChild \/ ScanStagingDir \/ ScanDone \/ QuarantineSkipped
          => failing /\ ctx = "result" /\ Where \in Selecting
    BY DEF ScanCheckpoint, ScanStagedChild, ScanStagingDir, ScanDone, QuarantineSkipped
  <2> QED
    BY <1>1, <2>1, <2>2 DEF Selection
<1>2. CASE QuarantineTree
  <2>1. ~QuarantineFails
    BY DEF QuarantineFails, Forget
  <2>2. (WriteReason \/ MoveTree) => failing /\ ctx = "result" /\ Where \in Selecting
    BY <1>a DEF WriteReason, MoveTree
  <2> QED
    BY <1>2, <2>1, <2>2 DEF QuarantineTree
<1>3. ~Publication /\ ~Export
  <2>1. ~FinishSteps
    BY DEF FinishSteps, Mood, Saving
  <2> QED
    BY <2>1, StaysAway
<1>4. ~StartRun /\ ~Crash /\ ~ForeignWrite
  BY DEF StartRun, Crash, ForeignWrite, Forget, Mood
<1>5. UNCHANGED vars => failing /\ ctx = "result" /\ Where \in Selecting
  BY DEF vars
<1> QED
  BY <1>1, <1>2, <1>3, <1>4, <1>5 DEF Next, Process

\* Between the record and the result the scan finds nothing and nothing is
\* skipped, so the recorded step is still the resume point.
LEMMA ToldStep ==
  ASSUME SafeInv, Mood, SelectsClean, Told, [Next]_vars
  PROVE  Told'
<1> SUFFICES ASSUME failing', ctx' = "result", Where' \in Selecting
             PROVE  pc' \in Selecting /\ Clean' /\ Skipped' = {} /\ EvidenceIsCurrent'
  BY DEF Told
<1>a. TypeInv
  BY DEF SafeInv
<1>1. CASE RecordEvidence
  <2>1. /\ UNCHANGED <<run, staging>> /\ pc = "select" /\ pc' = "scan" /\ Skipped = {}
        /\ evidence' = [step |-> ResumePoint, equivalent |-> Resumable]
    BY <1>1 DEF RecordEvidence, Goto
  <2>2. Clean
    BY <2>1 DEF SelectsClean, Where
  <2> QED
    BY <2>1, <2>2, SelectionStays DEF Clean, EvidenceIsCurrent, Selecting
<1>2. CASE ~RecordEvidence
  <2>a. /\ failing /\ ctx = "result" /\ Where \in Selecting
        /\ \/ (ScanCheckpoint \/ ScanStagedChild \/ ScanStagingDir \/ ScanDone)
           \/ (QuarantineSkipped \/ WriteReason \/ MoveTree \/ UNCHANGED vars)
    BY <1>a, <1>2, ReachesResult
  <2>b. pc \in Selecting /\ Clean /\ Skipped = {} /\ EvidenceIsCurrent
    BY <2>a DEF Told
  <2>1. ~ScanCheckpoint /\ ~ScanStagedChild /\ ~ScanStagingDir /\ ~QuarantineSkipped
    BY <2>b DEF Clean, ScanCheckpoint, ScanStagedChild, ScanStagingDir, QuarantineSkipped,
                HasCheckpointChild, IsLeftover
  <2>2. ~WriteReason /\ ~MoveTree
    BY <2>b DEF WriteReason, MoveTree, Selecting
  <2>3. /\ UNCHANGED <<run, staging, evidence>>
        /\ pc' \in Selecting
    <3>1. CASE ScanDone
      BY <3>1, <2>a DEF ScanDone, Goto, disk, Selecting
    <3>2. CASE UNCHANGED vars
      BY <3>2, <2>b DEF vars, disk, memory, Selecting
    <3> QED
      BY <2>a, <2>1, <2>2, <3>1, <3>2
  <2> QED
    BY <2>b, <2>3, SelectionStays DEF Clean, EvidenceIsCurrent
<1> QED
  BY <1>1, <1>2

-----------------------------------------------------------------------------
(* What a completed run has saved.                                         *)

\* What can be resumed from stays: so does everything it covers.
LEMMA CoversStays ==
  ASSUME SafeInv, [Next]_vars, NEW n \in Int, Covers(EquivalentSteps, n)
  PROVE  Covers(EquivalentSteps', n)
<1> SUFFICES ASSUME NEW s \in Steps, IsSaveStep(s), s <= n
             PROVE  \E e \in EquivalentSteps' : e >= s
  BY DEF Covers
<1>1. PICK e \in EquivalentSteps : e >= s
  BY DEF Covers
<1>2. e \in EquivalentSteps'
  BY EquivalentStays
<1> QED
  BY <1>1, <1>2

\* A run starts over, or from a step that covers all before it.
LEMMA CoversStart ==
  ASSUME NEW E, NEW n, n = 0 \/ n \in E
  PROVE  Covers(E, n)
<1>1. \A s \in Steps : ~(s <= 0)
  BY DEF Steps
<1>2. CASE n \in E
  BY <1>2 DEF Covers, Steps
<1> QED
  BY <1>1, <1>2 DEF Covers

\* The publication of a step covers it; other steps need none.
LEMMA CoversNext ==
  ASSUME NEW E, NEW n \in 0 .. MaxSteps, Covers(E, n - 1), n \in E \/ ~IsSaveStep(n)
  PROVE  Covers(E, n)
<1> SUFFICES ASSUME NEW s \in Steps, IsSaveStep(s), s <= n
             PROVE  \E e \in E : e >= s
  BY DEF Covers
<1>1. s = n \/ s <= n - 1
  BY StepsAssumption DEF Steps
<1>2. CASE s = n
  <2>1. n >= n
    OBVIOUS
  <2> QED
    BY <1>2, <2>1
<1> QED
  BY <1>1, <1>2 DEF Covers

\* The loop goes on in four ways: an exception, the end of the process, a step
\* that saves nothing new, a step of the loop, the restored loop, or the rename
\* that makes a save step a checkpoint.
LEMMA LoopStep ==
  ASSUME TypeInv, [Next]_vars
  PROVE  \/ failing'
         \/ Forget
         \/ ~failing /\ step' = step /\ (pc \in Saving <=> pc' \in Saving)
         \/ Train \/ RestoreLoop \/ (RenameNoReplace /\ NameIsFree)
<1> USE DEF Saving, Goto, Raise, RaiseIn, disk, memory
<1>a. /\ job.ret \in {"scan", "select", "rollback_staged", "reclaim", "reclaimed"}
      /\ failing \in BOOLEAN
  BY DEF TypeInv, TypeOK, Job
<1>1. CASE Selection
  <2>1. ScanCheckpoint \/ ScanStagedChild \/ ScanStagingDir \/ ScanDone \/ QuarantineSkipped
          \/ RecordEvidence \/ HandleException
          => failing' = failing /\ step' = step /\ pc \notin Saving /\ pc' \notin Saving
    BY DEF ScanCheckpoint, ScanStagedChild, ScanStagingDir, ScanDone, QuarantineSkipped,
           RecordEvidence, HandleException, Call
  <2>2. Return => Forget
    BY DEF Return
  <2> QED
    BY <1>1, <1>a, <2>1, <2>2 DEF Selection
<1>2. CASE QuarantineTree
  <2>1. WriteReason \/ MoveTree
          => failing' = failing /\ step' = step /\ pc \notin Saving /\ pc' \notin Saving
    BY <1>a DEF WriteReason, MoveTree
  <2>2. QuarantineFails => failing' \/ Forget
    BY DEF QuarantineFails
  <2> QED
    BY <1>2, <1>a, <2>1, <2>2 DEF QuarantineTree
<1>3. CASE Publication
  <2>1. FaultBeforeSave \/ RefuseOccupied \/ MakeStagingFails \/ WriteFails \/ RefuseIncomplete
          \/ FaultDuringRename \/ RenameFails \/ FaultAfterSave => failing'
    BY DEF FaultBeforeSave, RefuseOccupied, MakeStagingFails, WriteFails, RefuseIncomplete,
           FaultDuringRename, RenameFails, FaultAfterSave
  <2>2. MakeStaging \/ StageTree \/ WriteTree \/ FinishTree
          => failing' = failing /\ step' = step /\ pc \in Saving /\ pc' \in Saving
    BY DEF MakeStaging, OpenStaging, StageTree, WriteTree, FinishTree
  <2>3. AdmitComplete
          => failing' \/ (failing' = failing /\ step' = step /\ pc \in Saving /\ pc' \in Saving)
    BY DEF AdmitComplete
  <2>4. RenameNoReplace /\ ~NameIsFree => failing'
    BY DEF RenameNoReplace
  <2>5. SyncParent \/ SaveDone \/ LeaveStaging
          => failing' = failing /\ step' = step /\ pc \notin Saving /\ pc' \notin Saving
    BY DEF SyncParent, SaveDone, LeaveStaging
  <2>6. RollbackDestination \/ RollbackStaged \/ ReclaimStaging \/ RmdirFails
          => failing' = failing /\ step' = step /\ pc \notin Saving /\ pc' \notin Saving
    BY DEF RollbackDestination, RollbackStaged, ReclaimStaging, RmdirFails, Call
  <2> QED
    BY <1>3, <1>a, <2>1, <2>2, <2>3, <2>4, <2>5, <2>6 DEF Publication
<1>4. CASE Export
  <2>1. FinishSteps \/ MakeExportStaging \/ StageAdapter \/ WriteAdapter
          => failing' = failing /\ step' = step /\ pc \notin Saving /\ pc' \notin Saving
    BY DEF FinishSteps, MakeExportStaging, OpenStaging, StageAdapter, WriteAdapter
  <2>2. FaultDuringExport \/ ExportFails => failing'
    BY DEF FaultDuringExport, ExportFails
  <2>3. CheckRootNames
          => \/ failing'
             \/ failing' = failing /\ step' = step /\ pc \notin Saving /\ pc' \notin Saving
    BY DEF CheckRootNames
  <2>4. RenameConfig \/ RenameWeights \/ RemoveStagedAdapter \/ StagedAdapterStays \/ ExportRollback
          => failing' = failing /\ step' = step /\ pc \notin Saving /\ pc' \notin Saving
    BY DEF RenameConfig, RenameWeights, RemoveStagedAdapter, StagedAdapterStays,
           ExportRollback, Call
  <2> QED
    BY <1>4, <1>a, <2>1, <2>2, <2>3, <2>4 DEF Export
<1>5. CASE StartRun \/ Crash \/ ForeignWrite \/ UNCHANGED vars
  BY <1>5, <1>a DEF StartRun, Crash, ForeignWrite, vars
<1> QED
  BY <1>1, <1>2, <1>3, <1>4, <1>5 DEF Next, Process

\* Every step the loop leaves behind is saved.
LEMMA CoveredStep ==
  ASSUME SafeInv, Covered, Mood, [Next]_vars
  PROVE  Covered'
<1>a. TypeInv /\ TypeOK /\ TypeOK' /\ step \in 0 .. MaxSteps /\ step' \in 0 .. MaxSteps
  BY TypeStep DEF SafeInv, TypeInv, TypeOK
<1>g. PICK after : after = IF pc' \in Saving THEN step' - 1 ELSE step'
  OBVIOUS
<1> SUFFICES ASSUME ~failing' PROVE Covers(EquivalentSteps', after)
  BY <1>g DEF Covered, Covers, IsSaveStep
<1>1. CASE Forget
  BY <1>1, <1>g, CoversStart DEF Forget, Saving
<1>2. CASE ~failing /\ step' = step /\ (pc \in Saving <=> pc' \in Saving)
  <2>1. Covers(EquivalentSteps, after) /\ after \in Int
    BY <1>2, <1>a, <1>g DEF Covered
  <2> QED
    BY <2>1, CoversStays
<1>3. CASE Train
  <2>1. /\ step' = step + 1 /\ pc = "step" /\ pc' \in {"save", "step"}
        /\ pc' = "save" <=> IsSaveStep(step + 1)
    BY <1>3 DEF Train, Goto
  <2>2. ~failing
    BY <2>1 DEF Mood, Where
  <2>3. Covers(EquivalentSteps, step)
    BY <2>1, <2>2 DEF Covered, Saving
  <2>4. CASE IsSaveStep(step + 1)
    <3>1. after = step
      BY <1>a, <1>g, <2>1, <2>4 DEF Saving
    <3> QED
      BY <1>a, <2>3, <3>1, CoversStays
  <2>5. CASE ~IsSaveStep(step + 1)
    <3>1. after = step + 1 /\ after \in 0 .. MaxSteps /\ after - 1 = step
      BY <1>a, <1>g, <2>1, <2>5 DEF Saving
    <3>2. Covers(EquivalentSteps, after)
      BY <2>3, <2>5, <3>1, CoversNext
    <3> QED
      BY <3>1, <3>2, CoversStays
  <2> QED
    BY <2>4, <2>5
<1>4. CASE RestoreLoop
  <2>1. /\ step' = ResumePoint /\ pc' = "step" /\ run' = run
        /\ ResumePoint = 0 \/ ResumePoint \in EquivalentSteps
    BY <1>4 DEF RestoreLoop, Raise, Goto, Resumable, disk
  <2>2. EquivalentSteps' = EquivalentSteps
    BY <2>1, SelectionStays
  <2> QED
    BY <1>g, <2>1, <2>2, CoversStart DEF Saving
<1>5. CASE RenameNoReplace /\ NameIsFree
  <2>1. /\ pc = "rename" /\ pc' = "fsync" /\ step' = step
        /\ run' = [run EXCEPT ![step] = staging[mine].child]
    BY <1>5 DEF RenameNoReplace, Goto
  <2>2. ~failing
    BY <2>1 DEF Mood, Where, Saving
  <2>3. Covers(EquivalentSteps, step - 1)
    BY <2>1, <2>2 DEF Covered, Saving
  <2>4. Covers(EquivalentSteps', step - 1)
    BY <1>a, <2>3, CoversStays
  <2>t. PICK t : t = staging[mine].child
    OBVIOUS
  <2>5. t \in Tree /\ t # NoTree /\ step \in Steps /\ t.state = "ok" /\ t.resume /\ Complete(t, FALSE)
    BY <1>a, <2>1, <2>t
       DEF SafeInv, TypeInv, Located, Naming, Filled, Opened, TypeOK, Dir, StagedIsWhole
  <2>6. ResumeEquivalent(t, FALSE) /\ IsValidCheckpoint(t, FALSE)
    BY <2>5, CompleteResumes, CompleteHasNoPickle
  <2>7. run'[step] = t
    BY <1>a, <2>1, <2>t, <2>5 DEF TypeOK
  <2>8. step \in EquivalentSteps'
    BY <2>5, <2>6, <2>7 DEF EquivalentSteps, ValidSteps, Present
  <2>9. after = step
    BY <1>g, <2>1 DEF Saving
  <2> QED
    BY <1>a, <2>4, <2>8, <2>9, CoversNext
<1> QED
  BY <1>a, <1>1, <1>2, <1>3, <1>4, <1>5, LoopStep

-----------------------------------------------------------------------------
(* The report.                                                             *)

\* Only the return of run_fault_harness reports success or failure.
LEMMA OnlyReturnReports ==
  ASSUME Mood, [Next]_vars, outcome' \in {"failed", "completed"}
  PROVE  Return \/ UNCHANGED vars
<1> USE DEF Mood, disk, memory
<1>1. CASE Selection /\ ~Return
  <2>1. outcome' = outcome /\ pc # "idle"
    BY <1>1 DEF Selection, ScanCheckpoint, ScanStagedChild, ScanStagingDir, ScanDone,
                QuarantineSkipped, RestoreLoop, RecordEvidence, HandleException
  <2> QED
    BY <2>1
<1>2. ~QuarantineTree
  BY DEF QuarantineTree, WriteReason, MoveTree, QuarantineFails
<1>3. CASE Publication
  <2>1. outcome' = outcome /\ pc # "idle"
    BY <1>3 DEF Publication, Train, FaultBeforeSave, RefuseOccupied, MakeStaging,
         MakeStagingFails, StageTree, WriteTree, FinishTree, WriteFails, RefuseIncomplete,
         AdmitComplete, RenameNoReplace, FaultDuringRename, RenameFails, SyncParent,
         FaultAfterSave, SaveDone, RollbackDestination, RollbackStaged, ReclaimStaging,
         RmdirFails, LeaveStaging
  <2> QED
    BY <2>1
<1>4. CASE Export
  <2>1. outcome' = outcome /\ pc # "idle"
    BY <1>4 DEF Export, FinishSteps, MakeExportStaging, StageAdapter, WriteAdapter,
         FaultDuringExport, CheckRootNames, RenameConfig, RenameWeights, RemoveStagedAdapter,
         StagedAdapterStays, ExportFails, ExportRollback
  <2> QED
    BY <2>1
<1>5. ~StartRun /\ ~Crash /\ ~ForeignWrite
  BY DEF StartRun, Crash, ForeignWrite
<1> QED
  BY <1>1, <1>2, <1>3, <1>4, <1>5 DEF Next, Process

\* What Return reports is what is on the disk it leaves.
LEMMA ReportStep ==
  ASSUME SafeInv, Mood, Exported, SelectsClean, Told, Covered, ReportIsTrue, [Next]_vars
  PROVE  ReportIsTrue'
<1>a. TypeOK
  BY DEF SafeInv, TypeInv
<1>1. CASE outcome' \notin {"failed", "completed"}
  BY <1>1 DEF ReportIsTrue
<1>2. CASE UNCHANGED vars
  <2>1. UNCHANGED <<run, root, evidence, outcome>>
    BY <1>2 DEF vars, disk
  <2> QED
    BY <2>1, SelectionStays DEF ReportIsTrue, RootIsAdapter, IsSaveStep
<1>3. CASE Return
  <2>1. /\ pc = "select" /\ ctx = "result" /\ UNCHANGED <<run, root, evidence>>
        /\ outcome' = IF failing THEN "failed" ELSE "completed"
    BY <1>3 DEF Return, disk
  <2>2. Where = "select"
    BY <2>1 DEF Where
  <2>3. CASE failing
    <3>1. EvidenceIsCurrent
      BY <2>1, <2>2, <2>3 DEF Told, Selecting
    <3> QED
      BY <2>1, <2>3, <3>1, SelectionStays DEF ReportIsTrue, EvidenceIsCurrent
  <2>4. CASE ~failing
    <3>1. step = MaxSteps /\ root.config /\ root.weights
      BY <2>1, <2>2, <2>4 DEF Exported, Exporting
    <3>2. \A s \in Present : ~run[s].bin
      <4> SUFFICES ASSUME NEW s \in Present PROVE ~run[s].bin
        OBVIOUS
      <4>1. Complete(run[s], FALSE) /\ run[s] \in Tree
        BY <1>a, <2>2 DEF SelectsClean, Clean, IncompleteSteps, Present, TypeOK
      <4> QED
        BY <4>1, CompleteHasNoPickle
    <3>3. Covers(EquivalentSteps, MaxSteps)
      BY <2>1, <2>4, <3>1 DEF Covered, Saving
    <3>4. \A s \in Steps : IsSaveStep(s) => \E e \in EquivalentSteps : e >= s
      BY <3>3, StepsAssumption DEF Covers, Steps
    <3> QED
      BY <2>1, <2>4, <3>1, <3>2, <3>4, SelectionStays DEF ReportIsTrue, RootIsAdapter, IsSaveStep
  <2> QED
    BY <2>3, <2>4
<1> QED
  BY <1>1, <1>2, <1>3, OnlyReturnReports

\* A directory nobody has worked on has nothing to report.
LEMMA InitReport == Init => ReportInv
<1> SUFFICES ASSUME Init PROVE ReportInv
  OBVIOUS
<1>1. Mood /\ Exported /\ SelectsClean /\ Told /\ ReportIsTrue
  BY DEF Init, Mood, Exported, SelectsClean, Told, ReportIsTrue, Where, Saving, Exporting,
         Excepting, Selecting
<1>2. Covered
  <2>1. step = 0 /\ pc \notin Saving
    BY DEF Init, Saving
  <2> QED
    BY <2>1, CoversStart DEF Covered
<1> QED
  BY <1>1, <1>2, InitSafe DEF ReportInv

\* ReportInv is inductive.
LEMMA ReportInvStep == ReportInv /\ [Next]_vars => ReportInv'
<1> SUFFICES ASSUME ReportInv, [Next]_vars PROVE ReportInv'
  OBVIOUS
<1>1. TypeInv
  BY DEF ReportInv, SafeInv
<1> QED
  BY <1>1, SafeStep, ControlStep, SelectsCleanStep, ToldStep, CoveredStep, ReportStep
     DEF ReportInv

\* What a run reports is true: last_failure.json of a failed one names the step
\* the next run would resume from, and a completed one has exported its adapter
\* and left a checkpoint that covers every save step.
THEOREM ReportsAreTrue == Spec => []ReportIsTrue
<1>1. ReportInv => ReportIsTrue
  BY DEF ReportInv
<1> QED
  BY <1>1, InitReport, ReportInvStep, PTL DEF Spec

-----------------------------------------------------------------------------
(***************************************************************************)
(* Why an undisturbed run that resumes completes.  Nothing in its way can   *)
(* raise: after the restore every checkpoint is complete and behind the     *)
(* loop (Behind), so no name it publishes under is taken; what it stages is *)
(* complete when it is looked at (StagedIsSound); and the run root has no   *)
(* adapter yet.  What is left are the two exceptions Calm names.            *)
(***************************************************************************)

\* Every checkpoint is complete, and the step being saved is none of them.
Behind == /\ IncompleteSteps = {}
          /\ \A s \in Present : s <= step /\ (pc \in Saving => s # step)

\* The staged tree on its way to being complete.
StagedIsSound ==
  LET t == staging[mine].child
  IN  /\ pc = "write" => ~t.bin /\ (t.weights # "absent" => t.config)
      /\ pc = "publish" => Complete(t, FALSE)

\* The restore of the loop was refused, and the handler finds nothing to do.
Unresumable == /\ pc \in Selecting \cup {"handler"}
               /\ Clean /\ Skipped = {}
               /\ ResumePoint # 0 /\ ~Resumable

\* The run restores its loop until it has chosen a step.
Restoring == Where \in Selecting /\ ctx = "restore"

Unexported == {"export", "export_stage", "export_write"}

Calm ==
  ~disturbed /\ pc # "idle" =>
    /\ fault = NoFault
    /\ ~failing /\ ~Restoring => Behind
    /\ ~failing => StagedIsSound
    /\ ~failing /\ Where \in Unexported => ~(root.config /\ root.weights)
    /\ failing => TornExport \/ Unresumable

CalmInv == ReportInv /\ Calm /\ UndisturbedRunsComplete

-----------------------------------------------------------------------------
(* What an undisturbed run does not meet.                                  *)

\* A run without fault and failing call was undisturbed before this step too.
LEMMA StaysUndisturbed ==
  ASSUME [Next]_vars, ~disturbed', pc' # "idle"
  PROVE  \/ StartRun
         \/ (~disturbed /\ pc # "idle" /\ fault' = fault /\ ~ForeignWrite /\ ~IOError)
<1> USE DEF disk, memory
<1>a. ~IOError /\ ~ForeignWrite
  BY DEF IOError, ForeignWrite
<1>b. ~Forget /\ ~Crash
  BY DEF Forget, Crash
<1>1. CASE Selection
  BY <1>1, <1>a, <1>b DEF Selection, ScanCheckpoint, ScanStagedChild, ScanStagingDir, ScanDone,
     QuarantineSkipped, RestoreLoop, RecordEvidence, HandleException, Return
<1>2. CASE QuarantineTree
  BY <1>2, <1>a DEF QuarantineTree, WriteReason, MoveTree, QuarantineFails
<1>3. CASE Publication
  BY <1>3, <1>a DEF Publication, Train, FaultBeforeSave, RefuseOccupied, MakeStaging,
         MakeStagingFails, StageTree, WriteTree, FinishTree, WriteFails, RefuseIncomplete,
         AdmitComplete, RenameNoReplace, FaultDuringRename, RenameFails, SyncParent,
         FaultAfterSave, SaveDone, RollbackDestination, RollbackStaged, ReclaimStaging,
         RmdirFails, LeaveStaging
<1>4. CASE Export
  BY <1>4, <1>a DEF Export, FinishSteps, MakeExportStaging, StageAdapter, WriteAdapter,
         FaultDuringExport, CheckRootNames, RenameConfig, RenameWeights, RemoveStagedAdapter,
         StagedAdapterStays, ExportFails, ExportRollback
<1>5. CASE UNCHANGED vars
  BY <1>5, <1>a DEF vars
<1> QED
  BY <1>a, <1>b, <1>1, <1>2, <1>3, <1>4, <1>5 DEF Next, Process

\* The restore ends with the choice of a step.
LEMMA RestoreEnds ==
  ASSUME TypeInv, [Next]_vars, Restoring, ~failing', pc' # "idle"
  PROVE  Restoring' \/ RestoreLoop
<1> USE DEF Restoring, Where, Selecting, Goto, Raise, RaiseIn, disk, memory
<1>a. job.ret \in {"scan", "select", "rollback_staged", "reclaim", "reclaimed"}
  BY DEF TypeInv, TypeOK, Job
<1>1. CASE Selection
  <2>1. ScanCheckpoint \/ ScanStagedChild \/ ScanStagingDir \/ QuarantineSkipped => Restoring'
    <3>1. ScanCheckpoint \/ ScanStagedChild \/ ScanStagingDir \/ QuarantineSkipped
            => pc' = "note" /\ job'.ret \in Selecting
      BY CallWhere DEF ScanCheckpoint, ScanStagedChild, ScanStagingDir, QuarantineSkipped
    <3>2. ScanCheckpoint \/ ScanStagedChild \/ ScanStagingDir \/ QuarantineSkipped => ctx' = ctx
      BY DEF ScanCheckpoint, ScanStagedChild, ScanStagingDir, QuarantineSkipped
    <3> QED
      BY <3>1, <3>2
  <2>2. ScanDone => Restoring'
    BY DEF ScanDone
  <2>3. ~RecordEvidence /\ ~Return /\ ~HandleException
    BY DEF RecordEvidence, Return, HandleException
  <2> QED
    BY <1>1, <2>1, <2>2, <2>3 DEF Selection
<1>2. CASE QuarantineTree
  <2>1. WriteReason \/ MoveTree => Restoring'
    BY <1>a DEF WriteReason, MoveTree
  <2>2. ~QuarantineFails
    BY DEF QuarantineFails, Forget
  <2> QED
    BY <1>2, <2>1, <2>2 DEF QuarantineTree
<1>3. ~Publication /\ ~Export
  BY DEF Publication, Train, FaultBeforeSave, RefuseOccupied, MakeStaging,
         MakeStagingFails, StageTree, WriteTree, FinishTree, WriteFails, RefuseIncomplete,
         AdmitComplete, RenameNoReplace, FaultDuringRename, RenameFails, SyncParent,
         FaultAfterSave, SaveDone, RollbackDestination, RollbackStaged, ReclaimStaging,
         RmdirFails, LeaveStaging,
         Export, FinishSteps, MakeExportStaging, StageAdapter, WriteAdapter,
         FaultDuringExport, CheckRootNames, RenameConfig, RenameWeights, RemoveStagedAdapter,
         StagedAdapterStays, ExportFails, ExportRollback
<1>4. ~StartRun /\ ~Crash /\ ~ForeignWrite
  BY DEF StartRun, Crash, Forget, ForeignWrite
<1>5. CASE UNCHANGED vars
  BY <1>5 DEF vars
<1> QED
  BY <1>1, <1>2, <1>3, <1>4, <1>5 DEF Next, Process

\* Where an exception starts: what it means for a run that meets no fault and
\* no failing call is in CalmRaises.
LEMMA RaisedBy ==
  ASSUME TypeInv, [Next]_vars, ~failing, failing', ~IOError
  PROVE  \/ (RestoreLoop \/ RefuseOccupied \/ RefuseIncomplete \/ AdmitComplete)
         \/ (RenameNoReplace \/ CheckRootNames)
         \/ (FaultBeforeSave \/ FaultDuringRename \/ FaultAfterSave \/ FaultDuringExport)
<1> USE DEF disk, memory, Goto, Raise, RaiseIn
<1>1. CASE Selection
  BY <1>1 DEF Selection, ScanCheckpoint, ScanStagedChild, ScanStagingDir, ScanDone,
     QuarantineSkipped, RecordEvidence, HandleException, Return, Forget
<1>2. ~QuarantineTree
  BY DEF QuarantineTree, WriteReason, MoveTree, QuarantineFails
<1>3. CASE Publication
  BY <1>3 DEF Publication, Train, MakeStaging,
         MakeStagingFails, StageTree, WriteTree, FinishTree, WriteFails,
         RenameFails, SyncParent, SaveDone, RollbackDestination, RollbackStaged, ReclaimStaging,
         RmdirFails, LeaveStaging
<1>4. CASE Export
  BY <1>4 DEF Export, FinishSteps, MakeExportStaging, StageAdapter, WriteAdapter,
         RenameConfig, RenameWeights, RemoveStagedAdapter,
         StagedAdapterStays, ExportFails, ExportRollback
<1>5. ~StartRun /\ ~Crash /\ ~ForeignWrite /\ ~UNCHANGED vars
  BY DEF StartRun, Crash, ForeignWrite, vars, Forget
<1> QED
  BY <1>1, <1>2, <1>3, <1>4, <1>5 DEF Next, Process

\* A tree is being written, or is whole, only in a publication.
LEMMA ReachesPublish ==
  ASSUME TypeInv, [Next]_vars, pc' \in {"write", "publish"}
  PROVE  StageTree \/ WriteTree \/ FinishTree \/ ForeignWrite \/ UNCHANGED vars
<1>1. ~Quiet /\ ~Calls
  BY CallsJustified DEF Quiet
<1>2. ~WriteReason /\ ~MoveTree
  BY DEF WriteReason, MoveTree, Goto, TypeInv, TypeOK, Job
<1>3. ~AdmitComplete /\ ~RenameNoReplace
  BY DEF AdmitComplete, RenameNoReplace, Goto, RaiseIn
<1> QED
  BY <1>1, <1>2, <1>3, QuietOrNot DEF Publishing

\* The files at the run root change in the two renames of the export only.
LEMMA RootChanges ==
  ASSUME [Next]_vars, root' # root
  PROVE  RenameConfig \/ RenameWeights
<1> USE DEF disk
<1>1. ~Selection /\ ~QuarantineTree
  BY DEF Selection, ScanCheckpoint, ScanStagedChild, ScanStagingDir, ScanDone,
     QuarantineSkipped, RestoreLoop, RecordEvidence, HandleException, Return,
     QuarantineTree, WriteReason, MoveTree, QuarantineFails
<1>2. ~Publication
  BY DEF Publication, Train, FaultBeforeSave, RefuseOccupied, MakeStaging,
         MakeStagingFails, StageTree, WriteTree, FinishTree, WriteFails, RefuseIncomplete,
         AdmitComplete, RenameNoReplace, FaultDuringRename, RenameFails, SyncParent,
         FaultAfterSave, SaveDone, RollbackDestination, RollbackStaged, ReclaimStaging,
         RmdirFails, LeaveStaging
<1>3. CASE Export
  BY <1>3 DEF Export, FinishSteps, MakeExportStaging, StageAdapter, WriteAdapter,
         FaultDuringExport, CheckRootNames, RemoveStagedAdapter,
         StagedAdapterStays, ExportFails, ExportRollback
<1>4. ~StartRun /\ ~Crash /\ ~ForeignWrite /\ ~UNCHANGED vars
  BY DEF StartRun, Crash, ForeignWrite, vars
<1> QED
  BY <1>1, <1>2, <1>3, <1>4 DEF Next, Process

\* The export begins when the steps are trained.
LEMMA ReachesExport ==
  ASSUME TypeInv, [Next]_vars, Where' \in Unexported, ~failing'
  PROVE  FinishSteps \/ (Where \in Unexported /\ root' = root /\ ~failing)
<1> USE DEF Where, Unexported, Goto, Raise, RaiseIn, disk, memory
<1>a. job.ret \in {"scan", "select", "rollback_staged", "reclaim", "reclaimed"}
  BY DEF TypeInv, TypeOK, Job
<1>b. \A at, key, reason :
        /\ ~Call(at, key, reason, "scan") /\ ~Call(at, key, reason, "select")
  BY CallWhere
<1>1. ~Selection
  BY <1>b DEF Selection, ScanCheckpoint, ScanStagedChild, ScanStagingDir, ScanDone,
     QuarantineSkipped, RestoreLoop, RecordEvidence, HandleException, Return, Forget
<1>2. ~QuarantineTree
  BY <1>a DEF QuarantineTree, WriteReason, MoveTree, QuarantineFails, Forget
<1>3. ~Publication
  <2>1. ~RollbackDestination /\ ~RollbackStaged /\ ~ReclaimStaging /\ ~RmdirFails
    BY RollbackWhere
  <2> QED
    BY <2>1 DEF Publication, Train, FaultBeforeSave, RefuseOccupied, MakeStaging,
         MakeStagingFails, StageTree, WriteTree, FinishTree, WriteFails, RefuseIncomplete,
         AdmitComplete, RenameNoReplace, FaultDuringRename, RenameFails, SyncParent,
         FaultAfterSave, SaveDone, LeaveStaging, OpenStaging
<1>4. CASE Export
  <2>1. ~ExportRollback
    BY RollbackWhere
  <2> QED
    BY <1>4, <2>1 DEF Export, MakeExportStaging, StageAdapter, WriteAdapter,
         FaultDuringExport, CheckRootNames, RenameConfig, RenameWeights, RemoveStagedAdapter,
         StagedAdapterStays, ExportFails, OpenStaging
<1>5. ~StartRun /\ ~Crash /\ ~ForeignWrite
  BY DEF StartRun, Crash, ForeignWrite, Forget
<1>6. CASE UNCHANGED vars
  BY <1>6 DEF vars
<1> QED
  BY <1>1, <1>2, <1>3, <1>4, <1>5, <1>6 DEF Next, Process

-----------------------------------------------------------------------------
(* Calm is kept.                                                           *)

\* After a selection that found nothing incomplete and skipped nothing, no
\* checkpoint is newer than the one it chose.
LEMMA NewestIsChosen ==
  ASSUME TypeOK, IncompleteSteps = {}, Skipped = {}, ResumePoint = 0 \/ Resumable
  PROVE  \A s \in Present : s <= ResumePoint
<1> SUFFICES ASSUME NEW s \in Present PROVE s <= ResumePoint
  OBVIOUS
<1>1. s \in Steps /\ run[s] \in Tree /\ Complete(run[s], FALSE)
  BY DEF Present, IncompleteSteps, TypeOK
<1>2. s \in ValidSteps
  BY <1>1, CompleteHasNoPickle DEF ValidSteps
<1>3. EquivalentSteps \subseteq Steps /\ ValidSteps \subseteq Steps
  BY DEF EquivalentSteps, ValidSteps, Present
<1>4. EquivalentSteps # {}
  <2>1. CASE Resumable
    BY <2>1 DEF Resumable
  <2>2. CASE ResumePoint = 0 /\ EquivalentSteps = {}
    <3>1. Latest(ValidSteps) \in Steps
      BY <1>2, <1>3, LatestExists
    <3>2. ResumePoint = Latest(ValidSteps)
      BY <1>2, <2>2 DEF ResumePoint
    <3> QED
      BY <2>2, <3>1, <3>2 DEF Steps
  <2> QED
    BY <2>1, <2>2
<1>5. ResumePoint = Latest(EquivalentSteps) /\ Latest(EquivalentSteps) \in Steps
  BY <1>3, <1>4, LatestExists DEF ResumePoint
<1>6. ~(s > Latest(EquivalentSteps))
  BY <1>2, <1>4 DEF Skipped
<1> QED
  BY <1>1, <1>5, <1>6 DEF Steps

\* The loop never meets a checkpoint ahead of it, nor leaves an incomplete one.
LEMMA BehindStep ==
  ASSUME SafeInv, Mood, SelectsClean, Calm, [Next]_vars, FALSE \notin ResumeFlags,
         ~disturbed', pc' # "idle", ~failing', ~Restoring'
  PROVE  Behind'
<1>a. TypeInv /\ TypeOK /\ step \in 0 .. MaxSteps
  BY DEF SafeInv, TypeInv, TypeOK
<1>1. CASE StartRun
  <2>1. pc' = "scan" /\ ctx' = "restore"
    BY <1>1, FlagsAssumption DEF StartRun, Goto, Mood
  <2> QED
    BY <2>1 DEF Restoring, Where, Selecting
<1>2. CASE ~StartRun
  <2>a. ~disturbed /\ pc # "idle" /\ ~ForeignWrite
    BY <1>2, StaysUndisturbed
  <2>b. ~Forget
    BY DEF Forget
  <2>1. CASE RestoreLoop
    <3>1. /\ pc = "select" /\ Skipped = {} /\ (ResumePoint = 0 \/ Resumable)
          /\ step' = ResumePoint /\ pc' = "step" /\ run' = run
      BY <2>1 DEF RestoreLoop, Raise, Goto, disk
    <3>2. IncompleteSteps = {}
      BY <3>1 DEF SelectsClean, Clean, Where
    <3>3. \A s \in Present : s <= ResumePoint
      BY <1>a, <3>1, <3>2, NewestIsChosen
    <3> QED
      BY <3>1, <3>2, <3>3, SelectionStays DEF Behind, Saving
  <2>2. CASE ~RestoreLoop
    <3>a. ~Restoring
      BY <1>a, <2>2, RestoreEnds
    <3>b. ~failing => Behind
      BY <2>a, <3>a DEF Calm
    <3>1. CASE Train
      <4>1. step' = step + 1 /\ run' = run /\ ~failing /\ pc \notin Saving
        BY <3>1 DEF Train, disk, Mood, Where, Saving
      <4>2. IncompleteSteps' = {} /\ Present' = Present /\ \A s \in Present : s <= step
        BY <3>b, <4>1, SelectionStays DEF Behind
      <4>3. \A s \in Present : s <= step + 1 /\ s # step + 1
        BY <1>a, <4>2 DEF Present, Steps
      <4> QED
        BY <4>1, <4>2, <4>3 DEF Behind
    <3>2. CASE RenameNoReplace /\ NameIsFree
      <4>t. PICK t : t = staging[mine].child
        OBVIOUS
      <4>1. /\ pc = "rename" /\ pc' = "fsync" /\ step' = step /\ ~failing
            /\ run' = [run EXCEPT ![step] = t]
        BY <3>2, <4>t DEF RenameNoReplace, Goto, Mood, Where, Saving
      <4>2. step \in Steps /\ Complete(t, FALSE)
        BY <1>a, <4>1, <4>t DEF SafeInv, TypeInv, Located, Naming, StagedIsWhole
      <4>3. run'[step] = t /\ \A s \in Steps \ {step} : run'[s] = run[s]
        BY <1>a, <4>1, <4>2 DEF TypeOK
      <4>4. IncompleteSteps = {} /\ \A s \in Present : s <= step
        BY <3>b, <4>1 DEF Behind
      <4>5. IncompleteSteps' = {}
        BY <4>2, <4>3, <4>4 DEF IncompleteSteps, Present
      <4>6. \A s \in Present' : s <= step
        BY <4>2, <4>3, <4>4 DEF Present, Steps
      <4> QED
        BY <4>1, <4>5, <4>6 DEF Behind, Saving
    <3>3. CASE ~failing /\ step' = step /\ (pc \in Saving <=> pc' \in Saving) /\ ~Train
                 /\ ~(RenameNoReplace /\ NameIsFree)
      <4>1. Behind
        BY <3>b, <3>3
      <4>2. CASE WriteReason \/ MoveTree
        <5>1. IncompleteSteps' = {} /\ Present' \subseteq Present
          BY <4>1, <4>2, QuarantineKeepsComplete DEF Behind
        <5> QED
          BY <3>3, <4>1, <5>1 DEF Behind
      <4>3. CASE ~WriteReason /\ ~MoveTree
        <5>1. run' = run
          <6>1. Quiet \/ UNCHANGED vars \/ Calls \/ Publishing
            BY <2>a, <4>3, QuietOrNot
          <6>2. Publishing => run' = run
            BY <3>3 DEF Publishing, StageTree, WriteTree, FinishTree, AdmitComplete,
                        RenameNoReplace, RaiseIn, disk
          <6> QED
            BY <1>a, <6>1, <6>2, CallsJustified DEF Quiet, vars, disk
        <5> QED
          BY <3>3, <4>1, <5>1, SelectionStays DEF Behind
      <4> QED
        BY <4>2, <4>3
    <3> QED
      BY <1>a, <2>b, <2>2, <3>1, <3>2, <3>3, LoopStep
  <2> QED
    BY <2>1, <2>2
<1> QED
  BY <1>1, <1>2

\* What is staged without fault is complete when it is looked at.
LEMMA StagedStep ==
  ASSUME SafeInv, Mood, Calm, [Next]_vars, ~disturbed', pc' # "idle"
  PROVE  StagedIsSound'
<1> SUFFICES ASSUME pc' \in {"write", "publish"} PROVE StagedIsSound'
  BY DEF StagedIsSound
<1>a. TypeInv /\ TypeOK /\ Located
  BY DEF SafeInv, TypeInv
<1>b. ~StartRun
  BY DEF StartRun, Goto
<1>c. ~disturbed /\ pc # "idle" /\ ~ForeignWrite
  BY <1>b, StaysUndisturbed
<1>t. PICK t : t = staging[mine].child
  OBVIOUS
<1>1. CASE StageTree
  <2>1. mine \in Slots /\ staging[mine] # NoDir /\ mine' = mine /\ pc' = "write"
    BY <1>1, <1>a DEF StageTree, Located, Opened, Goto
  <2>2. staging'[mine].child = EmptyTree
    BY <1>1, <1>a, <2>1, EmptyTreeType, ChildUpdate DEF StageTree
  <2> QED
    BY <2>1, <2>2 DEF StagedIsSound, EmptyTree
<1>2. CASE WriteTree
  <2>1. /\ mine \in Slots /\ staging[mine] # NoDir /\ t \in Tree /\ mine' = mine
        /\ pc = "write" /\ pc' = "write"
    BY <1>2, <1>a, <1>t DEF WriteTree, Located, Opened, Filled, TypeOK, Dir, memory
  <2>2. ~t.bin /\ (t.weights # "absent" => t.config)
    BY <1>c, <1>t, <2>1 DEF Calm, Mood, Where, Saving, StagedIsSound
  <2>3. staging' = [staging EXCEPT ![mine].child = NextWrite(t)]
    BY <1>2, <1>t DEF WriteTree
  <2>4. staging'[mine].child = NextWrite(t)
    BY <1>a, <2>1, <2>3, NextWriteType, ChildUpdate
  <2>5. ~NextWrite(t).bin /\ (NextWrite(t).weights # "absent" => NextWrite(t).config)
    BY <2>1, <2>2 DEF NextWrite, NextAdapterWrite, Tree
  <2> QED
    BY <2>1, <2>4, <2>5 DEF StagedIsSound
<1>3. CASE FinishTree
  <2>1. /\ t \in Tree /\ mine' = mine /\ pc = "write" /\ pc' = "publish" /\ t.resume
        /\ t.state = "ok" /\ t.weights = "ok"
    BY <1>3, <1>a, <1>t
       DEF FinishTree, SafeInv, StagedIsWhole, Located, Opened, Filled, TypeOK, Dir, Goto
  <2>2. ~t.bin /\ t.config /\ fault = NoFault
    BY <1>c, <1>t, <2>1 DEF Calm, Mood, Where, Saving, StagedIsSound
  <2>3. staging' = staging
    BY <1>3, <2>2 DEF FinishTree, IsFault, NoFault
  <2>4. Complete(t, FALSE)
    BY <2>1, <2>2 DEF Complete, IncompleteReason, IsValidCheckpoint, IsAdapterArtifact,
                      HasAdapterWeights, UnreadableWeightReason
  <2> QED
    BY <1>t, <2>1, <2>3, <2>4 DEF StagedIsSound
<1>4. CASE UNCHANGED vars
  <2>1. UNCHANGED <<pc, mine, staging>> /\ StagedIsSound
    BY <1>4, <1>c DEF vars, disk, memory, Calm, Mood, Where, Saving
  <2> QED
    BY <2>1 DEF StagedIsSound
<1> QED
  BY <1>a, <1>c, <1>1, <1>2, <1>3, <1>4, ReachesPublish

\* The export finds no adapter at the run root, or does not begin.
LEMMA UnexportedStep ==
  ASSUME SafeInv, Mood, Calm, [Next]_vars, ~disturbed', pc' # "idle",
         ~failing', Where' \in Unexported
  PROVE  ~(root'.config /\ root'.weights)
<1>a. TypeInv /\ TypeOK
  BY DEF SafeInv, TypeInv
<1>1. CASE FinishSteps
  <2>1. /\ pc = "step" /\ root' = root /\ ~RootIsAdapter
    BY <1>1 DEF FinishSteps, disk, Goto, Where, Unexported
  <2>2. ~disturbed /\ ~failing /\ ~Restoring
    BY <1>1, <2>1 DEF FinishSteps, Mood, Where, Restoring, Selecting, Saving
  <2>3. IncompleteSteps = {}
    BY <2>1, <2>2 DEF Calm, Behind
  <2>4. \A s \in Present : ~run[s].bin
    <3> SUFFICES ASSUME NEW s \in Present PROVE ~run[s].bin
      OBVIOUS
    <3>1. run[s] \in Tree /\ Complete(run[s], FALSE)
      BY <1>a, <2>3 DEF IncompleteSteps, Present, TypeOK
    <3> QED
      BY <3>1, CompleteHasNoPickle
  <2> QED
    BY <2>1, <2>4 DEF RootIsAdapter
<1>2. CASE Where \in Unexported /\ root' = root /\ ~failing
  <2>1. ~StartRun
    BY <1>2 DEF StartRun, Where, Unexported
  <2>2. ~disturbed /\ pc # "idle"
    BY <2>1, StaysUndisturbed
  <2> QED
    BY <1>2, <2>2 DEF Calm
<1> QED
  BY <1>a, <1>1, <1>2, ReachesExport

\* An exception an undisturbed run does raise comes from a torn export or from
\* checkpoints none of which can be resumed from.
LEMMA CalmRaises ==
  ASSUME SafeInv, Mood, Exported, SelectsClean, Calm, [Next]_vars,
         ~disturbed', pc' # "idle", ~failing, failing'
  PROVE  TornExport' \/ Unresumable'
<1>a. TypeInv /\ TypeOK /\ Located
  BY DEF SafeInv, TypeInv
<1>b. ~StartRun
  BY DEF StartRun
<1>c. /\ ~disturbed /\ pc # "idle" /\ fault = NoFault /\ ~IOError
      /\ StagedIsSound
      /\ ~Restoring => Behind
      /\ Where \in Unexported => ~(root.config /\ root.weights)
  BY <1>b, StaysUndisturbed DEF Calm
<1>d. pc \in Saving => run[step] = NoTree
  <2> SUFFICES ASSUME pc \in Saving PROVE run[step] = NoTree
    OBVIOUS
  <2>1. step \in Steps
    BY <1>a DEF Located, Naming, Saving
  <2>2. Behind
    BY <1>c DEF Restoring, Where, Selecting, Saving
  <2> QED
    BY <2>1, <2>2 DEF Behind, Present
<1>1. CASE RestoreLoop
  <2>1. /\ pc = "select" /\ pc' = "handler" /\ Skipped = {} /\ UNCHANGED <<run, staging>>
        /\ ~(ResumePoint = 0 \/ Resumable)
    BY <1>1 DEF RestoreLoop, Raise, Goto, disk
  <2>2. Clean
    BY <2>1 DEF SelectsClean, Where
  <2> QED
    BY <2>1, <2>2, SelectionStays DEF Unresumable, Clean
<1>2. ~RefuseOccupied
  BY <1>d DEF RefuseOccupied, Occupied, Saving
<1>3. ~RefuseIncomplete
  BY <1>c DEF RefuseIncomplete, Refused, StagedIsSound
<1>4. ~AdmitComplete /\ ~RenameNoReplace
  BY <1>d DEF AdmitComplete, RenameNoReplace, NameIsFree, Saving
<1>5. CASE CheckRootNames
  <2>1. /\ pc = "export_write" /\ root' = root /\ (root.config \/ root.weights)
    BY <1>5 DEF CheckRootNames, disk
  <2>2. ~(root.config /\ root.weights)
    BY <1>c, <2>1 DEF Where, Unexported
  <2> QED
    BY <2>1, <2>2 DEF TornExport, Exported
<1>6. ~FaultBeforeSave /\ ~FaultDuringRename /\ ~FaultAfterSave /\ ~FaultDuringExport
  BY <1>c DEF FaultBeforeSave, FaultDuringRename, FaultAfterSave, FaultDuringExport, IsFault,
              NoFault
<1> QED
  BY <1>a, <1>c, <1>1, <1>2, <1>3, <1>4, <1>5, <1>6, RaisedBy

\* The handler moves nothing when the restore was refused: the scan and the
\* selection before it already did.
LEMMA RefusalStays ==
  ASSUME SafeInv, Mood, [Next]_vars, failing, Unresumable, pc' # "idle", ~IOError
  PROVE  Unresumable'
<1>a. /\ pc \in Selecting \cup {"handler"} /\ Clean /\ Skipped = {}
      /\ ResumePoint # 0 /\ ~Resumable
  BY DEF Unresumable
<1>b. pc = Where
  BY <1>a DEF Where, Selecting
<1>1. ~ScanCheckpoint /\ ~ScanStagedChild /\ ~ScanStagingDir /\ ~QuarantineSkipped
  BY <1>a DEF Clean, ScanCheckpoint, ScanStagedChild, ScanStagingDir, QuarantineSkipped,
              HasCheckpointChild, IsLeftover
<1>2. ~RestoreLoop /\ ~Return
  BY <1>b DEF RestoreLoop, Mood, Selecting, Return, Forget
<1>3. ~QuarantineTree
  BY <1>a DEF QuarantineTree, WriteReason, MoveTree, QuarantineFails, Selecting
<1>4. ~Publication /\ ~Export
  BY <1>a DEF Selecting, Publication, Train, FaultBeforeSave, RefuseOccupied, MakeStaging,
         MakeStagingFails, StageTree, WriteTree, FinishTree, WriteFails, RefuseIncomplete,
         AdmitComplete, RenameNoReplace, FaultDuringRename, RenameFails, SyncParent,
         FaultAfterSave, SaveDone, RollbackDestination, RollbackStaged, ReclaimStaging,
         RmdirFails, LeaveStaging,
         Export, FinishSteps, MakeExportStaging, StageAdapter, WriteAdapter,
         FaultDuringExport, CheckRootNames, RenameConfig, RenameWeights, RemoveStagedAdapter,
         StagedAdapterStays, ExportFails, ExportRollback
<1>5. ~StartRun /\ ~Crash /\ ~ForeignWrite
  BY <1>a DEF StartRun, Crash, Forget, ForeignWrite, Selecting
<1>6. ScanDone \/ RecordEvidence \/ HandleException \/ UNCHANGED vars
  BY <1>1, <1>2, <1>3, <1>4, <1>5 DEF Next, Process, Selection
<1>7. UNCHANGED <<run, staging>> /\ pc' \in Selecting \cup {"handler"}
  BY <1>a, <1>6 DEF ScanDone, RecordEvidence, HandleException, vars, disk, memory, Goto, Selecting
<1> QED
  BY <1>a, <1>7, SelectionStays DEF Unresumable, Clean

\* Calm is kept by every step of runs that all resume.
LEMMA CalmStep ==
  ASSUME SafeInv, Mood, Exported, SelectsClean, Calm, [Next]_vars, FALSE \notin ResumeFlags
  PROVE  Calm'
<1> SUFFICES ASSUME ~disturbed', pc' # "idle"
             PROVE  /\ fault' = NoFault
                    /\ ~failing' /\ ~Restoring' => Behind'
                    /\ ~failing' => StagedIsSound'
                    /\ ~failing' /\ Where' \in Unexported => ~(root'.config /\ root'.weights)
                    /\ failing' => TornExport' \/ Unresumable'
  BY DEF Calm, NoFault
<1>1. fault' = NoFault
  <2>1. StartRun => fault' = NoFault
    BY DEF StartRun
  <2> QED
    BY <2>1, StaysUndisturbed DEF Calm
<1>2. ASSUME failing' PROVE TornExport' \/ Unresumable'
  <2>1. CASE ~failing
    BY <1>2, <2>1, CalmRaises
  <2>2. CASE failing
    <3>1. ~StartRun
      BY <2>2 DEF StartRun, Mood
    <3>2. ~disturbed /\ pc # "idle" /\ ~IOError
      BY <3>1, StaysUndisturbed
    <3>3. TornExport \/ Unresumable
      BY <2>2, <3>2 DEF Calm
    <3>4. root' = root
      BY <2>2, RootChanges DEF RenameConfig, RenameWeights, Mood, Where, Exporting
    <3>5. TornExport => TornExport'
      BY <3>4 DEF TornExport
    <3> QED
      BY <2>2, <3>2, <3>3, <3>5, RefusalStays
  <2> QED
    BY <2>1, <2>2 DEF SafeInv, TypeInv, TypeOK
<1> QED
  BY <1>1, <1>2, BehindStep, StagedStep, UnexportedStep

\* A failed run was not disturbed: its exception was one of the two.
LEMMA UndisturbedStep ==
  ASSUME Mood, Calm, UndisturbedRunsComplete, [Next]_vars
  PROVE  UndisturbedRunsComplete'
<1> SUFFICES ASSUME outcome' = "failed", ~disturbed'
             PROVE  TornExport' \/ (ResumePoint' # 0 /\ ~Resumable')
  BY DEF UndisturbedRunsComplete
<1>1. CASE UNCHANGED vars
  <2>1. UNCHANGED <<run, root, outcome, disturbed>>
    BY <1>1 DEF vars, disk
  <2> QED
    BY <2>1, SelectionStays DEF UndisturbedRunsComplete, TornExport
<1>2. CASE Return
  <2>1. pc = "select" /\ failing /\ ~disturbed /\ UNCHANGED <<run, root>>
    BY <1>2 DEF Return, disk
  <2>2. TornExport \/ (ResumePoint # 0 /\ ~Resumable)
    BY <2>1 DEF Calm, Unresumable
  <2> QED
    BY <2>1, <2>2, SelectionStays DEF TornExport
<1> QED
  BY <1>1, <1>2, OnlyReturnReports

\* Where every run resumes, a run that meets no fault, no failing call and no
\* other writer fails only if none of the checkpoints it found can be resumed
\* from (_require_equivalent_resume) or an earlier export was torn
\* (_publish_run_root_adapter).
THEOREM UndisturbedComplete ==
  ASSUME FALSE \notin ResumeFlags
  PROVE  Spec => []UndisturbedRunsComplete
<1>1. Init => CalmInv
  <2> SUFFICES ASSUME Init PROVE CalmInv
    OBVIOUS
  <2>1. Calm /\ UndisturbedRunsComplete
    BY DEF Init, Calm, UndisturbedRunsComplete
  <2> QED
    BY <2>1, InitReport DEF CalmInv
<1>2. CalmInv /\ [Next]_vars => CalmInv'
  BY ReportInvStep, CalmStep, UndisturbedStep DEF CalmInv, ReportInv
<1>3. CalmInv => UndisturbedRunsComplete
  BY DEF CalmInv
<1> QED
  BY <1>1, <1>2, <1>3, PTL DEF Spec
=============================================================================
