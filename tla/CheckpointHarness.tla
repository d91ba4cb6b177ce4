-------------------------- MODULE CheckpointHarness --------------------------
(***************************************************************************)
(* run_fault_harness and the recovery contract it exists to exercise: the  *)
(* atomic publisher of checkpoint-N trees, the rollback of a failed        *)
(* publication, the quarantine, the choice of the resume point and the     *)
(* export of the final adapter, over a run directory that outlives every   *)
(* process that works on it.                                               *)
(*                                                                         *)
(* One run of the harness is a walk through pc; every file-system call     *)
(* that changes the run directory is a step of its own, so a process can   *)
(* be killed (Crash) between any two of them, and every call that may fail *)
(* can raise OSError (the *Fails actions), which takes the same exception  *)
(* handlers as an injected fault.  A kill loses pc, step, fault, job and   *)
(* mine; run, root, staging, quarantine and evidence are on disk.          *)
(*                                                                         *)
(* Source: train/fault_harness.py, fault_harness_export.py,                *)
(* fault_harness_faults.py, fault_harness_payloads.py,                     *)
(* checkpoint_publish.py, checkpoints.py, resume_state.py.                 *)
(***************************************************************************)
EXTENDS CheckpointTree, Integers

CONSTANTS
  MaxSteps,       \* HarnessConfig.max_steps
  SaveSteps,      \* HarnessConfig.save_steps
  ResumeFlags,    \* the values HarnessConfig.resume takes
  InitialTrees,   \* trees the live trainer may have left in the directory
  NoTree,         \* no directory of that name
  NoDir,          \* no staging directory
  MaxRuns,        \* bound: processes started
  MaxCrashes,     \* bound: kills
  MaxIOErrors,    \* bound: file-system calls that fail
  MaxForeign      \* bound: trees another process writes into the directory

ASSUME StepsAssumption == /\ MaxSteps \in Nat \ {0}
                          /\ SaveSteps \in Nat \ {0}
ASSUME TreesAssumption == InitialTrees \subseteq Tree
ASSUME FlagsAssumption == ResumeFlags \subseteq BOOLEAN
ASSUME NoTreeAssumption == NoTree \notin Tree
ASSUME BoundsAssumption == {MaxRuns, MaxCrashes, MaxIOErrors, MaxForeign} \subseteq Nat

VARIABLES
  run,        \* run[s]: the tree at checkpoint-s
  root,       \* adapter files at the run root
  staging,    \* .agoge-ckpt-staging-* and .agoge-export-staging-* directories
  quarantine, \* entries of .agoge-quarantine
  evidence,   \* .agoge-quarantine/last_failure.json
  pc,         \* where the process is
  ctx,        \* which caller the selection of a resume point returns to
  step,       \* _LoopState: the step being trained
  fault,      \* HarnessConfig.fault of this run
  mine,       \* the staging directory of this process
  job,        \* arguments of the quarantine_tree call in progress
  failing,    \* an exception is propagating, or was caught
  outcome,    \* how the last process ended
  disturbed,  \* history: this run met an injected fault or an OSError
  budget      \* bounds used so far

disk == <<run, root, staging, quarantine, evidence>>
memory == <<pc, ctx, step, fault, mine, job, failing>>
vars == <<disk, memory, outcome, disturbed, budget>>

Steps == 1 .. MaxSteps
Slots == 1 .. MaxRuns
IsSaveStep(s) == s % SaveSteps = 0

-----------------------------------------------------------------------------
(* Faults a run may be configured with.  The kinds (oom, sigint, sigterm,  *)
(* export_failure) all raise an exception the harness catches, so only the *)
(* point is kept; short_write is the one that raises nothing.              *)

SaveFaultPoints == {"before_save", "during_write", "during_rename", "after_save"}

NoFault == [step |-> 0, point |-> "none"]

Faults ==
  {NoFault}
    \cup {[step |-> s, point |-> p] : s \in {x \in Steps : IsSaveStep(x)},
                                      p \in SaveFaultPoints}
    \cup {[step |-> MaxSteps, point |-> "during_export"]}

IsFault(s, point) == fault = [step |-> s, point |-> point]

-----------------------------------------------------------------------------
(* Reading the run directory.  The harness never opts in to pickles, so    *)
(* allow_unsafe is FALSE throughout.                                       *)

Present == {s \in Steps : run[s] # NoTree}

ValidSteps == {s \in Present : IsValidCheckpoint(run[s], FALSE)}

IncompleteSteps == {s \in Present : ~Complete(run[s], FALSE)}

EquivalentSteps == {s \in ValidSteps : ResumeEquivalent(run[s], FALSE)}

Latest(S) == CHOOSE s \in S : \A t \in S : t <= s

\* select_resume_checkpoint: newest equivalent, else newest valid, else none.
ResumePoint ==
  IF EquivalentSteps # {} THEN Latest(EquivalentSteps)
  ELSE IF ValidSteps # {} THEN Latest(ValidSteps)
  ELSE 0

Resumable == ResumePoint \in EquivalentSteps

NothingSkipped == {}

SkipsResumePoint == {s \in ValidSteps : EquivalentSteps # {} /\ s >= Latest(EquivalentSteps)}

\* Newer trees passed over on the way to the newest equivalent one.
Skipped == IF EquivalentSteps = {} THEN {}
           ELSE {s \in ValidSteps : s > Latest(EquivalentSteps)}

\* is_adapter_artifact(run_dir): a pickle anywhere below the run directory
\* (hidden directories excepted) disqualifies it.
RootIsAdapter == /\ root.config
                 /\ root.weights
                 /\ \A s \in Present : ~run[s].bin

-----------------------------------------------------------------------------
Dir == [kind   : {"ckpt", "export"},
        step   : Steps \cup {0},
        child  : Tree \cup {NoTree},
        reason : Reasons \cup {"none"}]

ASSUME NoDirAssumption == NoDir \notin Dir

\* A quarantined directory, the reason file it carries and what it holds.
Entry == [origin : {"checkpoint", "child", "dir"},
          step   : Steps \cup {0},
          reason : Reasons \cup {"none"},
          tree   : Tree \cup {NoTree}]

Job == [at : {"checkpoint", "child", "dir"}, key : Nat,
        reason : Reasons,
        ret : {"scan", "select", "rollback_staged", "reclaim", "reclaimed"}]

NoJob == [at |-> "dir", key |-> 0, reason |-> "leftover_staging", ret |-> "scan"]

NoEvidence == [step |-> -1, equivalent |-> FALSE]

Locations == {"idle", "scan", "select", "note", "move", "step", "save", "stage",
              "write", "publish", "rename", "fsync", "rollback", "rollback_staged",
              "reclaim", "reclaimed", "saved", "export", "export_stage",
              "export_write", "export_config", "export_weights",
              "export_tidy", "export_rollback", "handler"}

TypeOK ==
  /\ run \in [Steps -> Tree \cup {NoTree}]
  /\ root \in [config : BOOLEAN, weights : BOOLEAN]
  /\ staging \in [Slots -> Dir \cup {NoDir}]
  /\ quarantine \subseteq Entry
  /\ evidence \in [step : Steps \cup {0, -1}, equivalent : BOOLEAN]
  /\ pc \in Locations
  /\ ctx \in {"restore", "handler", "evidence", "result"}
  /\ step \in 0 .. MaxSteps
  /\ fault \in Faults
  /\ mine \in Slots \cup {0}
  /\ job \in Job
  /\ failing \in BOOLEAN
  /\ outcome \in {"none", "running", "completed", "failed", "killed"}
  /\ disturbed \in BOOLEAN
  /\ budget \in [runs : Nat, crashes : Nat, io : Nat, foreign : Nat]

Init ==
  /\ run \in [Steps -> InitialTrees \cup {NoTree}]
  /\ root = [config |-> FALSE, weights |-> FALSE]
  /\ staging = [d \in Slots |-> NoDir]
  /\ quarantine = {}
  /\ evidence = NoEvidence
  /\ pc = "idle"
  /\ ctx = "restore"
  /\ step = 0
  /\ fault = NoFault
  /\ mine = 0
  /\ job = NoJob
  /\ failing = FALSE
  /\ outcome = "none"
  /\ disturbed = FALSE
  /\ budget = [runs |-> 0, crashes |-> 0, io |-> 0, foreign |-> 0]

-----------------------------------------------------------------------------
(* Control: where an exception goes.                                       *)

Goto(location) == pc' = location

\* Raised inside run_fault_harness's try block: caught by its handler.
Raise == Goto("handler") /\ failing' = TRUE

\* Raised while a staging directory is open: its except clause comes first.
RaiseIn(clause) == Goto(clause) /\ failing' = TRUE

IOError == /\ budget.io < MaxIOErrors
           /\ budget' = [budget EXCEPT !.io = @ + 1]
           /\ disturbed' = TRUE

\* The memory of a process that is gone.
Forget == /\ pc' = "idle"
          /\ ctx' = "restore"
          /\ step' = 0
          /\ fault' = NoFault
          /\ mine' = 0
          /\ job' = NoJob
          /\ failing' = FALSE

Call(at, key, reason, ret) ==
  /\ job' = [at |-> at, key |-> key, reason |-> reason, ret |-> ret]
  /\ Goto("note")

-----------------------------------------------------------------------------
(* run_fault_harness: start, resume or fresh start, end.                   *)

StartRun ==
  /\ pc = "idle"
  /\ budget.runs < MaxRuns
  /\ \E f \in Faults, resume \in ResumeFlags :
       /\ fault' = f
       /\ disturbed' = (f # NoFault)
       /\ Goto(IF resume THEN "scan" ELSE "step")
  /\ budget' = [budget EXCEPT !.runs = @ + 1]
  /\ outcome' = "running"
  /\ UNCHANGED <<disk, ctx, step, mine, job, failing>>

\* quarantine_incomplete_checkpoints: every incomplete checkpoint-N, every
\* checkpoint in a leftover staging directory, then that directory itself.
ScanCheckpoint ==
  /\ pc = "scan"
  /\ \E s \in IncompleteSteps :
       Call("checkpoint", s, IncompleteReason(run[s], FALSE), "scan")
  /\ UNCHANGED <<disk, ctx, step, fault, mine, failing, outcome, disturbed, budget>>

HasCheckpointChild(d) == /\ staging[d] # NoDir
                         /\ staging[d].kind = "ckpt"
                         /\ staging[d].child # NoTree

ChildReason(d) == LET reason == IncompleteReason(staging[d].child, FALSE)
                  IN  IF reason = "none" THEN "interrupted_save" ELSE reason

ScanStagedChild ==
  /\ pc = "scan"
  /\ \E d \in Slots : HasCheckpointChild(d) /\ Call("child", d, ChildReason(d), "scan")
  /\ UNCHANGED <<disk, ctx, step, fault, mine, failing, outcome, disturbed, budget>>

IsLeftover(d) == staging[d] # NoDir

ScanStagingDir ==
  /\ pc = "scan"
  /\ \E d \in Slots : /\ IsLeftover(d)
                      /\ ~HasCheckpointChild(d)
                      /\ Call("dir", d, "leftover_staging", "scan")
  /\ UNCHANGED <<disk, ctx, step, fault, mine, failing, outcome, disturbed, budget>>

\* rollback_run_dir is followed by a scan of its own in select_resume_checkpoint.
ScanDone ==
  /\ pc = "scan"
  /\ IncompleteSteps = {}
  /\ \A d \in Slots : ~IsLeftover(d)
  /\ IF ctx = "handler" THEN ctx' = "evidence" /\ Goto("scan")
                        ELSE ctx' = ctx /\ Goto("select")
  /\ UNCHANGED <<disk, step, fault, mine, job, failing, outcome, disturbed, budget>>

\* _quarantine_skipped_non_equivalent, newest first.
QuarantineSkipped ==
  /\ pc = "select"
  /\ Skipped # {}
  /\ Call("checkpoint", Latest(Skipped), "non_equivalent_resume", "select")
  /\ UNCHANGED <<disk, ctx, step, fault, mine, failing, outcome, disturbed, budget>>

\* _restore_or_initialize: refuse a resume point that is not equivalent.
RestoreLoop ==
  /\ pc = "select" /\ ctx = "restore"
  /\ Skipped = {}
  /\ IF ResumePoint = 0 \/ Resumable
     THEN step' = ResumePoint /\ Goto("step") /\ UNCHANGED failing
     ELSE Raise /\ UNCHANGED step
  /\ UNCHANGED <<disk, ctx, fault, mine, job, outcome, disturbed, budget>>

\* _record_failure_evidence; publish_bytes_replace makes it one step.
RecordEvidence ==
  /\ pc = "select" /\ ctx = "evidence"
  /\ Skipped = {}
  /\ evidence' = [step |-> ResumePoint, equivalent |-> Resumable]
  /\ ctx' = "result"
  /\ Goto("scan")
  /\ UNCHANGED <<run, root, staging, quarantine, step, fault, mine, job, failing,
                 outcome, disturbed, budget>>

\* The HarnessResult is built and returned.
Return ==
  /\ pc = "select" /\ ctx = "result"
  /\ Skipped = {}
  /\ outcome' = IF failing THEN "failed" ELSE "completed"
  /\ Forget
  /\ UNCHANGED <<disk, disturbed, budget>>

HandleException ==
  /\ pc = "handler"
  /\ ctx' = "handler"
  /\ Goto("scan")
  /\ UNCHANGED <<disk, step, fault, mine, job, failing, outcome, disturbed, budget>>

-----------------------------------------------------------------------------
(* quarantine_tree: the reason is written into the source, then the source *)
(* is moved.  A tree already carrying a reason gets a new one.             *)

Source == CASE job.at = "checkpoint" -> run[job.key]
            [] job.at = "child"      -> staging[job.key].child
            [] job.at = "dir"        -> staging[job.key]

WriteReason ==
  /\ pc = "note"
  /\ LET noted == [Source EXCEPT !.reason = job.reason]
     IN  CASE job.at = "checkpoint" ->
                run' = [run EXCEPT ![job.key] = noted] /\ UNCHANGED staging
           [] job.at = "child" ->
                staging' = [staging EXCEPT ![job.key].child = noted] /\ UNCHANGED run
           [] job.at = "dir" ->
                staging' = [staging EXCEPT ![job.key] = noted] /\ UNCHANGED run
  /\ Goto("move")
  /\ UNCHANGED <<root, quarantine, evidence, ctx, step, fault, mine, job, failing,
                 outcome, disturbed, budget>>

Quarantined ==
  [origin |-> job.at,
   step   |-> IF job.at = "checkpoint" THEN job.key ELSE staging[job.key].step,
   reason |-> Source.reason,
   tree   |-> IF job.at = "dir" THEN staging[job.key].child ELSE Source]

CopiesTree ==
  /\ pc = "move"
  /\ quarantine' = quarantine \cup {Quarantined}
  /\ Goto(job.ret)
  /\ UNCHANGED <<run, root, staging, evidence, ctx, step, fault, mine, job, failing,
                 outcome, disturbed, budget>>

MoveTree ==
  /\ pc = "move"
  /\ quarantine' = quarantine \cup {Quarantined}
  /\ CASE job.at = "checkpoint" ->
            run' = [run EXCEPT ![job.key] = NoTree] /\ UNCHANGED staging
       [] job.at = "child" ->
            staging' = [staging EXCEPT ![job.key].child = NoTree] /\ UNCHANGED run
       [] job.at = "dir" ->
            staging' = [staging EXCEPT ![job.key] = NoDir] /\ UNCHANGED run
  /\ Goto(job.ret)
  /\ UNCHANGED <<root, evidence, ctx, step, fault, mine, job, failing, outcome,
                 disturbed, budget>>

\* An OSError in quarantine_tree: in the rollback of a publication the
\* finally clause still runs; in the handler nothing is left to catch it.
QuarantineFails ==
  /\ pc \in {"note", "move"}
  /\ IOError
  /\ IF job.ret \in {"rollback_staged", "reclaim"}
     THEN RaiseIn("reclaim") /\ UNCHANGED <<ctx, step, fault, mine, job, outcome>>
     ELSE IF job.ret = "reclaimed" \/ ctx = "restore"
     THEN Raise /\ UNCHANGED <<ctx, step, fault, mine, job, outcome>>
     ELSE Forget /\ outcome' = "killed"
  /\ UNCHANGED disk

-----------------------------------------------------------------------------
(* _run_steps and _save_step.                                              *)

MoreSteps == step < MaxSteps

Train ==
  /\ pc = "step" /\ MoreSteps
  /\ step' = step + 1
  /\ Goto(IF IsSaveStep(step + 1) THEN "save" ELSE "step")
  /\ UNCHANGED <<disk, ctx, fault, mine, job, failing, outcome, disturbed, budget>>

FaultBeforeSave ==
  /\ pc = "save"
  /\ IsFault(step, "before_save")
  /\ Raise
  /\ UNCHANGED <<disk, ctx, step, fault, mine, job, outcome, disturbed, budget>>

\* publish_checkpoint_tree refuses an occupied name before it stages anything.
Occupied == run[step] # NoTree

RefuseOccupied ==
  /\ pc = "save"
  /\ ~IsFault(step, "before_save")
  /\ Occupied
  /\ Raise
  /\ UNCHANGED <<disk, ctx, step, fault, mine, job, outcome, disturbed, budget>>

OpenStaging(kind, next) ==
  \E d \in Slots :
    /\ staging[d] = NoDir
    /\ \A e \in Slots : staging[e] = NoDir => d <= e
    /\ staging' = [staging EXCEPT ![d] =
                     [kind |-> kind, step |-> step, child |-> NoTree, reason |-> "none"]]
    /\ mine' = d
    /\ Goto(next)

MakeStaging ==
  /\ pc = "save"
  /\ ~IsFault(step, "before_save")
  /\ run[step] = NoTree
  /\ OpenStaging("ckpt", "stage")
  /\ UNCHANGED <<run, root, quarantine, evidence, ctx, step, fault, job, failing,
                 outcome, disturbed, budget>>

\* mkdtemp fails: there is nothing to roll back yet.
MakeStagingFails ==
  /\ pc \in {"save", "export"}
  /\ IOError
  /\ Raise
  /\ UNCHANGED <<disk, ctx, step, fault, mine, job, outcome>>

StageTree ==
  /\ pc = "stage"
  /\ staging' = [staging EXCEPT ![mine].child = EmptyTree]
  /\ Goto("write")
  /\ UNCHANGED <<run, root, quarantine, evidence, ctx, step, fault, mine, job,
                 failing, outcome, disturbed, budget>>

\* One write_fsynced_bytes call either has begun ("malformed", "short") or is
\* done, in the order of write_checkpoint_tree; the sidecar, optimizer,
\* scheduler and RNG files together make "resume".
NextAdapterWrite(t) ==
  IF ~t.config THEN [t EXCEPT !.config = TRUE]
  ELSE IF t.weights = "absent" THEN [t EXCEPT !.weights = "short"]
  ELSE [t EXCEPT !.weights = "ok"]

NextWrite(t) ==
  IF t.state = "absent" THEN [t EXCEPT !.state = "malformed"]
  ELSE IF t.state = "malformed" THEN [t EXCEPT !.state = "ok"]
  ELSE IF t.weights # "ok" THEN NextAdapterWrite(t)
  ELSE [t EXCEPT !.resume = TRUE]

WriteTree ==
  /\ pc = "write"
  /\ ~staging[mine].child.resume
  /\ staging' = [staging EXCEPT ![mine].child = NextWrite(@)]
  /\ UNCHANGED <<run, root, quarantine, evidence, memory, outcome, disturbed, budget>>

\* The last statement of write_checkpoint_tree truncates the weights of a
\* short_write snapshot.
FinishTree ==
  /\ pc = "write"
  /\ staging[mine].child.resume
  /\ IF IsFault(step, "during_write")
     THEN staging' = [staging EXCEPT ![mine].child.weights = "short"]
     ELSE UNCHANGED staging
  /\ Goto("publish")
  /\ UNCHANGED <<run, root, quarantine, evidence, ctx, step, fault, mine, job,
                 failing, outcome, disturbed, budget>>

WriteFails ==
  /\ pc \in {"stage", "write"}
  /\ IOError
  /\ RaiseIn("rollback")
  /\ UNCHANGED <<disk, ctx, step, fault, mine, job, outcome>>

AdmitsShortWrites(t) == ~IsValidCheckpoint(t, FALSE)

\* _publish_refusal_reason, then the second look at the destination name.
Refused(t) == ~Complete(t, FALSE)

RefuseIncomplete ==
  /\ pc = "publish"
  /\ Refused(staging[mine].child)
  /\ RaiseIn("rollback")
  /\ UNCHANGED <<disk, ctx, step, fault, mine, job, outcome, disturbed, budget>>

AdmitComplete ==
  /\ pc = "publish"
  /\ ~Refused(staging[mine].child)
  /\ IF run[step] = NoTree THEN Goto("rename") /\ UNCHANGED failing
                           ELSE RaiseIn("rollback")
  /\ UNCHANGED <<disk, ctx, step, fault, mine, job, outcome, disturbed, budget>>

RenameReplaces == TRUE

\* renameat2(RENAME_NOREPLACE): moves the tree, or finds the name taken.
NameIsFree == run[step] = NoTree

RenameNoReplace ==
  /\ pc = "rename"
  /\ ~IsFault(step, "during_rename")
  /\ IF NameIsFree
     THEN /\ run' = [run EXCEPT ![step] = staging[mine].child]
          /\ staging' = [staging EXCEPT ![mine].child = NoTree]
          /\ Goto("fsync")
          /\ UNCHANGED failing
     ELSE RaiseIn("rollback") /\ UNCHANGED <<run, staging>>
  /\ UNCHANGED <<root, quarantine, evidence, ctx, step, fault, mine, job, outcome,
                 disturbed, budget>>

FaultDuringRename ==
  /\ pc = "rename"
  /\ IsFault(step, "during_rename")
  /\ RaiseIn("rollback")
  /\ UNCHANGED <<disk, ctx, step, fault, mine, job, outcome, disturbed, budget>>

RenameFails ==
  /\ pc \in {"rename", "fsync"}
  /\ IOError
  /\ RaiseIn("rollback")
  /\ UNCHANGED <<disk, ctx, step, fault, mine, job, outcome>>

\* The parent directory is fsynced: nothing a process kill could undo.
SyncParent ==
  /\ pc = "fsync"
  /\ Goto("reclaim")
  /\ UNCHANGED <<disk, ctx, step, fault, mine, job, failing, outcome, disturbed, budget>>

FaultAfterSave ==
  /\ pc = "saved"
  /\ IsFault(step, "after_save")
  /\ Raise
  /\ UNCHANGED <<disk, ctx, step, fault, mine, job, outcome, disturbed, budget>>

SaveDone ==
  /\ pc = "saved"
  /\ ~IsFault(step, "after_save")
  /\ Goto("step")
  /\ UNCHANGED <<disk, ctx, step, fault, mine, job, failing, outcome, disturbed, budget>>

-----------------------------------------------------------------------------
(* _rollback_failed_publish and _reclaim_staging_root.                     *)

\* Whatever occupies the destination is kept only if it is complete.
Discarded(t) == t # NoTree /\ ~Complete(t, FALSE)

RollbackReason(t) == IF Complete(t, FALSE) THEN "interrupted_save"
                                           ELSE IncompleteReason(t, FALSE)

RollbackDestination ==
  /\ pc = "rollback"
  /\ IF Discarded(run[step])
     THEN Call("checkpoint", step, RollbackReason(run[step]), "rollback_staged")
     ELSE Goto("rollback_staged") /\ UNCHANGED job
  /\ UNCHANGED <<disk, ctx, step, fault, mine, failing, outcome, disturbed, budget>>

RollbackStaged ==
  /\ pc = "rollback_staged"
  /\ IF staging[mine].child # NoTree
     THEN Call("child", mine, ChildReason(mine), "reclaim")
     ELSE Goto("reclaim") /\ UNCHANGED job
  /\ UNCHANGED <<disk, ctx, step, fault, mine, failing, outcome, disturbed, budget>>

\* Quarantine a staging root that is not empty, remove one that is.
ReclaimStaging ==
  /\ pc = "reclaim"
  /\ IF staging[mine].child # NoTree
     THEN Call("dir", mine, "leftover_staging", "reclaimed") /\ UNCHANGED staging
     ELSE /\ staging' = [staging EXCEPT ![mine] = NoDir]
          /\ Goto("reclaimed")
          /\ UNCHANGED job
  /\ UNCHANGED <<run, root, quarantine, evidence, ctx, step, fault, mine, failing,
                 outcome, disturbed, budget>>

RmdirFails ==
  /\ pc = "reclaim"
  /\ staging[mine].child = NoTree
  /\ IOError
  /\ Call("dir", mine, "leftover_staging", "reclaimed")
  /\ UNCHANGED <<disk, ctx, step, fault, mine, failing, outcome>>

\* A return in the finally clause.
SwallowInFinally ==
  /\ pc = "reclaimed"
  /\ mine' = 0
  /\ failing' = FALSE
  /\ Goto(IF ctx = "result" THEN "scan" ELSE "saved")
  /\ UNCHANGED <<disk, ctx, step, fault, job, outcome, disturbed, budget>>

\* The finally clause is over: the exception goes on, or the caller does.
LeaveStaging ==
  /\ pc = "reclaimed"
  /\ mine' = 0
  /\ Goto(IF failing THEN "handler" ELSE IF ctx = "result" THEN "scan" ELSE "saved")
  /\ UNCHANGED <<disk, ctx, step, fault, job, failing, outcome, disturbed, budget>>

-----------------------------------------------------------------------------
(* export_final_adapter; ctx = "result" from here on: only the result of   *)
(* the run remains to be built.                                            *)

FinishSteps ==
  /\ pc = "step" /\ ~MoreSteps
  /\ ctx' = "result"
  /\ Goto(IF RootIsAdapter THEN "scan" ELSE "export")
  /\ UNCHANGED <<disk, step, fault, mine, job, failing, outcome, disturbed, budget>>

MakeExportStaging ==
  /\ pc = "export"
  /\ OpenStaging("export", "export_stage")
  /\ UNCHANGED <<run, root, quarantine, evidence, ctx, step, fault, job, failing,
                 outcome, disturbed, budget>>

StageAdapter ==
  /\ pc = "export_stage"
  /\ staging' = [staging EXCEPT ![mine].child = EmptyTree]
  /\ Goto("export_write")
  /\ UNCHANGED <<run, root, quarantine, evidence, ctx, step, fault, mine, job,
                 failing, outcome, disturbed, budget>>

WriteAdapter ==
  /\ pc = "export_write"
  /\ staging[mine].child.weights # "ok"
  /\ staging' = [staging EXCEPT ![mine].child = NextAdapterWrite(@)]
  /\ UNCHANGED <<run, root, quarantine, evidence, memory, outcome, disturbed, budget>>

FaultDuringExport ==
  /\ pc = "export_write"
  /\ staging[mine].child.weights = "ok"
  /\ IsFault(MaxSteps, "during_export")
  /\ RaiseIn("export_rollback")
  /\ UNCHANGED <<disk, ctx, step, fault, mine, job, outcome, disturbed, budget>>

\* Both names must be free before either file is renamed.
CheckRootNames ==
  /\ pc = "export_write"
  /\ staging[mine].child.weights = "ok"
  /\ ~IsFault(MaxSteps, "during_export")
  /\ IF root.config \/ root.weights
     THEN RaiseIn("export_rollback")
     ELSE Goto("export_config") /\ UNCHANGED failing
  /\ UNCHANGED <<disk, ctx, step, fault, mine, job, outcome, disturbed, budget>>

RenameConfig ==
  /\ pc = "export_config"
  /\ root' = [root EXCEPT !.config = TRUE]
  /\ staging' = [staging EXCEPT ![mine].child.config = FALSE]
  /\ Goto("export_weights")
  /\ UNCHANGED <<run, quarantine, evidence, ctx, step, fault, mine, job, failing,
                 outcome, disturbed, budget>>

RenameWeights ==
  /\ pc = "export_weights"
  /\ root' = [root EXCEPT !.weights = TRUE]
  /\ staging' = [staging EXCEPT ![mine].child.weights = "absent"]
  /\ Goto("export_tidy")
  /\ UNCHANGED <<run, quarantine, evidence, ctx, step, fault, mine, job, failing,
                 outcome, disturbed, budget>>

\* _rmdir_if_empty swallows its OSError; the staging root then is not empty.
RemoveStagedAdapter ==
  /\ pc = "export_tidy"
  /\ staging' = [staging EXCEPT ![mine].child = NoTree]
  /\ Goto("reclaim")
  /\ UNCHANGED <<run, root, quarantine, evidence, ctx, step, fault, mine, job,
                 failing, outcome, disturbed, budget>>

StagedAdapterStays ==
  /\ pc = "export_tidy"
  /\ IOError
  /\ Goto("reclaim")
  /\ UNCHANGED <<disk, ctx, step, fault, mine, job, failing, outcome>>

ExportFails ==
  /\ pc \in {"export_stage", "export_write", "export_config", "export_weights"}
  /\ IOError
  /\ RaiseIn("export_rollback")
  /\ UNCHANGED <<disk, ctx, step, fault, mine, job, outcome>>

\* _quarantine_failed_export(run_dir, staged, published): published is the
\* caller's list, which _publish_run_root_adapter extends only by returning,
\* so it is empty in every except clause and no renamed file is taken back.
ExportRollback ==
  /\ pc = "export_rollback"
  /\ IF staging[mine].child # NoTree
     THEN Call("child", mine, "export_failure", "reclaim")
     ELSE Goto("reclaim") /\ UNCHANGED job
  /\ UNCHANGED <<disk, ctx, step, fault, mine, failing, outcome, disturbed, budget>>

-----------------------------------------------------------------------------
(* The environment.                                                        *)

\* SIGKILL, at any point of a run.
Crash ==
  /\ pc # "idle"
  /\ budget.crashes < MaxCrashes
  /\ budget' = [budget EXCEPT !.crashes = @ + 1]
  /\ outcome' = "killed"
  /\ Forget
  /\ UNCHANGED <<disk, disturbed>>

\* Another process writes checkpoint-N in place while this one stages the
\* same name: the race the no-replace rename is there for.
ForeignWrite ==
  /\ pc \in {"stage", "write", "publish", "rename"}
  /\ budget.foreign < MaxForeign
  /\ run[step] = NoTree
  /\ \E t \in InitialTrees : run' = [run EXCEPT ![step] = t]
  /\ budget' = [budget EXCEPT !.foreign = @ + 1]
  /\ disturbed' = TRUE
  /\ UNCHANGED <<root, staging, quarantine, evidence, memory, outcome>>

-----------------------------------------------------------------------------
Selection == \/ ScanCheckpoint \/ ScanStagedChild \/ ScanStagingDir \/ ScanDone
             \/ QuarantineSkipped \/ RestoreLoop \/ RecordEvidence \/ Return
             \/ HandleException

QuarantineTree == WriteReason \/ MoveTree \/ QuarantineFails

Publication == \/ Train \/ FaultBeforeSave \/ RefuseOccupied \/ MakeStaging
               \/ MakeStagingFails \/ StageTree \/ WriteTree \/ FinishTree \/ WriteFails
               \/ RefuseIncomplete \/ AdmitComplete \/ RenameNoReplace
               \/ FaultDuringRename \/ RenameFails \/ SyncParent
               \/ FaultAfterSave \/ SaveDone
               \/ RollbackDestination \/ RollbackStaged \/ ReclaimStaging
               \/ RmdirFails \/ LeaveStaging

Export == \/ FinishSteps \/ MakeExportStaging \/ StageAdapter \/ WriteAdapter
          \/ FaultDuringExport \/ CheckRootNames \/ RenameConfig \/ RenameWeights
          \/ RemoveStagedAdapter \/ StagedAdapterStays \/ ExportFails
          \/ ExportRollback

Process == Selection \/ QuarantineTree \/ Publication \/ Export

Next == StartRun \/ Process \/ Crash \/ ForeignWrite

Spec == Init /\ [][Next]_vars

\* The process is scheduled as long as it lives; nothing promises a re-run.
FairSpec == Spec /\ WF_vars(Process)

-----------------------------------------------------------------------------
(* Safety.                                                                 *)

\* The content of a tree, whatever reason file a quarantine left in it.
Content(t) == [t EXCEPT !.reason = "none"]

\* A checkpoint-N directory is never seen half-written: at every instant,
\* inside a publication, its rollback or after a kill, each one is a tree
\* somebody else left there or a complete tree that restores every piece of
\* trainer state (publish_checkpoint_tree's staging, refusal and rename).
PublishedIsWhole ==
  \A s \in Present :
    \/ \E t \in InitialTrees : Content(run[s]) = Content(t)
    \/ Complete(run[s], FALSE) /\ ResumeEquivalent(run[s], FALSE)

\* No step overwrites or deletes a checkpoint: it leaves the run directory
\* only into the quarantine, with its content intact, and only if it is
\* incomplete or an older checkpoint can be resumed in its place
\* (quarantine_incomplete_checkpoints, _quarantine_skipped_non_equivalent,
\* the no-replace publication).
LeavesOnlyByQuarantine ==
  [][\A s \in Present :
       \/ run'[s] # NoTree /\ Content(run'[s]) = Content(run[s])
       \/ /\ run'[s] = NoTree
          /\ \E q \in quarantine' : q.step = s /\ q.tree = run[s]
          /\ \/ ~Complete(run[s], FALSE)
             \/ /\ ~ResumeEquivalent(run[s], FALSE)
                /\ \E e \in EquivalentSteps : e < s]_vars

\* Whatever fails, is killed or is retried, the newest checkpoint training
\* can resume from never gets older ("failure cleanup keeps the last complete
\* checkpoint", docs/checkpoint_fault_injection.md).
ResumePointNeverRegresses ==
  [][\A s \in EquivalentSteps : \E e \in EquivalentSteps' : e >= s]_vars

\* Every directory under .agoge-quarantine says why it is there, also when
\* the process was killed inside quarantine_tree: the reason is written into
\* the source before the move.
QuarantineIsExplained == \A q \in quarantine : q.reason # "none"

\* What a run reports is true.  A failed one has named, in last_failure.json, the
\* step the next run would resume from (_record_failure_evidence selects, and
\* quarantines, after the rollback and not before); a completed one has exported
\* its adapter and can be resumed from its last save step or, if another save
\* interval left one there, from a later step, whichever of the earlier runs
\* wrote it (the exception handler, the rollback in finally).
ReportIsTrue ==
  /\ outcome = "failed" => evidence = [step |-> ResumePoint, equivalent |-> Resumable]
  /\ outcome = "completed" =>
       /\ RootIsAdapter
       /\ \A s \in Steps : IsSaveStep(s) => \E e \in EquivalentSteps : e >= s

\* A kill, or an OSError, between the two renames of the export.
TornExport == root.config /\ ~root.weights

\* An undisturbed run that resumes fails for two reasons only: no checkpoint
\* it found is equivalent, or an earlier export was torn
\* (_require_equivalent_resume, _publish_run_root_adapter).
UndisturbedRunsComplete ==
  (outcome = "failed" /\ ~disturbed) =>
    TornExport \/ (ResumePoint # 0 /\ ~Resumable)

(* Liveness.                                                               *)

\* Every run returns or dies: no exception path loops, and the scan for
\* incomplete trees comes to an end.
RunEnds == pc # "idle" ~> pc = "idle"
=============================================================================
