------------------------------ MODULE CleanupRun ------------------------------
(***************************************************************************)
(* agoge cleanup-run: plan, verify, delete, reseal.                        *)
(*                                                                         *)
(* A finished run directory holds checkpoint-N entries, a run-root adapter *)
(* and usually an artifact_index.json that hashes every file below it and  *)
(* carries the producer provenance the evaluation contract trusts.         *)
(* Cleanup deletes checkpoints and then rewrites that index over what is   *)
(* left, under the OLD provenance, so it must not attest anything the old  *)
(* index did not.  Invocations may overlap, be killed anywhere (also       *)
(* inside a recursive delete) and share the directory with somebody who    *)
(* edits files or swaps a checkpoint for a symlink or a mount.             *)
(*                                                                         *)
(* Source: cleanup_run.py, artifacts/safetensors_io.py, run_status.py.     *)
(***************************************************************************)
EXTENDS Integers, FiniteSets

CONSTANTS
  Names,           \* checkpoint-N entry names
  StepOf,          \* the step a name parses to: checkpoint-1 and -001 agree
  Root,            \* the run directory itself, as the parent of its files
  Cleaners,        \* operators running cleanup-run
  NoIndex,         \* there is no artifact_index.json
  Settings         \* the circumstances a behaviour may have, each a record
                   \* [cleaners: the operators at work,
                   \*  keep, force: the values the two options take,
                   \*  kinds: [Names -> what each may be at the start],
                   \*  weights: what a checkpoint's weights may be then,
                   \*  concurrent: whether edits may hit a running cleanup,
                   \*  cleanups, crashes, errors, edits: bounds]

ASSUME NamesAssumption == IsFiniteSet(Names)
ASSUME StepOfAssumption == StepOf \in [Names -> Nat]
ASSUME RootAssumption == Root \notin Names
ASSUME SettingsAssumption ==
  \A s \in Settings : /\ s.cleaners \subseteq Cleaners /\ s.concurrent \in BOOLEAN
                       /\ s.keep \subseteq Nat /\ s.force \subseteq BOOLEAN

VARIABLES
  setting,   \* the circumstances of this behaviour; they never change
  kind,      \* kind[n]: what checkpoint-n is on disk
  files,     \* files[p]: the content of a file, "absent" if there is none
  index,     \* artifact_index.json
  merged,    \* merged/<run_name>: sealed from this run, from another, absent
  pc,        \* pc[c]: where the invocation of c is
  options,   \* --keep-latest and --force of the invocation
  steps,     \* checkpoints.steps of the report the plan is built from
  plan,      \* plan["removed"]: the entries to delete
  todo,      \* the part of the plan not yet tried
  doomed,    \* the entry shutil.rmtree is working on
  sealed,    \* the provenance read before the first deletion
  listing,   \* the files write_artifact_index has hashed
  removed,   \* report["removed"]
  failed,    \* report["failed"]
  forced,    \* history: some invocation was given --force
  sealedAt,  \* history: what the producer sealed
  keepable0, \* history: the checkpoints a keep slot was meant for
  outdated,  \* history: those the report still counted and that are not whole
  late,      \* history: whose entry was swapped too late for rmtree to notice
  budget     \* bounds used so far

disk == <<kind, files, index, merged>>
memory == <<options, steps, plan, todo, doomed, sealed, listing, removed, failed>>
history == <<setting, forced, sealedAt, keepable0, outdated, late>>
vars == <<disk, pc, memory, history, budget>>

-----------------------------------------------------------------------------
\* The files of a checkpoint the rules tell apart, a file nobody sealed, and
\* the adapter at the run root.
Parts == {"state", "weights", "extra"}
Path == (Names \X Parts) \cup {<<Root, "adapter">>}

\* Contents double as hashes: "absent", "good", "short" (a truncated file) and
\* "edited" (any other content that still parses).  An entry of the directory is
\* "none", "dir", "symlink" or "mount".
Provenance == {"none", "sealed"}
Content == {"absent", "good", "short", "edited"}
Index == [entries : [Path -> Content], listed : BOOLEAN, provenance : Provenance]

ASSUME NoIndexAssumption == NoIndex \notin Index

Below(n) == {p \in Path : p[1] = n}

\* What os.walk(run_dir) reaches: it does not follow a symlinked directory.
Walked(n) == n \in Names => kind[n] \in {"dir", "mount"}
OnDisk == [p \in Path |-> IF Walked(p[1]) THEN files[p] ELSE "absent"]

-----------------------------------------------------------------------------
(* build_run_status, as far as the plan reads it.                          *)

\* is_valid_checkpoint follows a symlink and looks no further than names.
IsValid(n) == /\ kind[n] # "none"
              /\ files[<<n, "state">>] # "absent"
              /\ files[<<n, "weights">>] # "absent"

Skippable(n) == kind[n] \in {"symlink", "mount"}

HasProvenance == index # NoIndex /\ index.provenance = "sealed"

\* export.ready with source_kind = final_adapter.
AdapterReady == files[<<Root, "adapter">>] \in {"good", "edited"}

Recoverable == HasProvenance /\ (AdapterReady \/ merged = "match")

-----------------------------------------------------------------------------
NoFiles == [p \in Path |-> "absent"]

\* A run that trained to some point: each checkpoint is there or not, its
\* weights whole or truncated; the index, if training got to write one, lists
\* exactly the files below the run directory.
Init ==
  /\ setting \in Settings
  /\ kind \in {k \in [Names -> UNION {setting.kinds[n] : n \in Names}] :
                 \A n \in Names : k[n] \in setting.kinds[n]}
  /\ files \in {f \in [Path -> {"absent", "good", "short"}] :
                  /\ \A n \in Names :
                       /\ f[<<n, "extra">>] = "absent"
                       /\ f[<<n, "state">>] = IF kind[n] = "none" THEN "absent" ELSE "good"
                       /\ IF kind[n] = "none" THEN f[<<n, "weights">>] = "absent"
                                              ELSE f[<<n, "weights">>] \in setting.weights}
  /\ \E provenance \in Provenance, there \in BOOLEAN :
       index = IF there THEN [entries |-> OnDisk, listed |-> TRUE, provenance |-> provenance]
                        ELSE NoIndex
  /\ merged \in {"none", "match", "other"}
  /\ pc = [c \in Cleaners |-> "idle"]
  /\ options = [c \in Cleaners |-> [keep |-> 0, force |-> FALSE]]
  /\ steps = [c \in Cleaners |-> {}]
  /\ plan = [c \in Cleaners |-> {}]
  /\ todo = [c \in Cleaners |-> {}]
  /\ doomed = [c \in Cleaners |-> Root]
  /\ sealed = [c \in Cleaners |-> "none"]
  /\ listing = [c \in Cleaners |-> NoFiles]
  /\ removed = [c \in Cleaners |-> {}]
  /\ failed = [c \in Cleaners |-> {}]
  /\ forced = FALSE
  /\ sealedAt = OnDisk
  /\ keepable0 = [c \in Cleaners |-> {}]
  /\ outdated = [c \in Cleaners |-> {}]
  /\ late = {}
  /\ budget = [cleanups |-> 0, crashes |-> 0, errors |-> 0, edits |-> 0]

-----------------------------------------------------------------------------
Goto(c, location) == pc' = [pc EXCEPT ![c] = location]

Idle(c) == pc[c] = "idle"

(* plan_cleanup.  The report and the directory listing are two scans.      *)

\* build_run_status and the guard; without --force an unrecoverable run is
\* refused here.
Report(c) ==
  /\ Idle(c)
  /\ c \in setting.cleaners /\ budget.cleanups < setting.cleanups
  /\ budget' = [budget EXCEPT !.cleanups = @ + 1]
  /\ \E keep \in setting.keep, force \in setting.force :
       /\ Recoverable \/ force
       /\ options' = [options EXCEPT ![c] = [keep |-> keep, force |-> force]]
       /\ forced' = (forced \/ force)
  /\ steps' = [steps EXCEPT ![c] = {StepOf[n] : n \in {m \in Names : IsValid(m)}}]
  /\ removed' = [removed EXCEPT ![c] = {}]
  /\ failed' = [failed EXCEPT ![c] = {}]
  /\ Goto(c, "list")
  /\ UNCHANGED <<setting, disk, plan, todo, doomed, sealed, listing, sealedAt, keepable0,
                 outdated, late>>

\* _keep_set: the last KeepLatest entries in step order.  Entries of equal
\* step come in directory order, so any of them may fall on either side.
KeepSets(keepable, k) ==
  {K \in SUBSET keepable :
     /\ Cardinality(K) = IF k < Cardinality(keepable) THEN k ELSE Cardinality(keepable)
     /\ \A n \in K, m \in keepable \ K : StepOf[m] <= StepOf[n]}

LinksFillSlots(c) == {n \in Names : kind[n] # "none" /\ StepOf[n] \in steps[c]}

Keepable(c) == {n \in Names : kind[n] # "none" /\ ~Skippable(n) /\ StepOf[n] \in steps[c]}

\* _candidate_dirs, _keep_set and _partition_candidates.
MakePlan(c) ==
  /\ pc[c] = "list"
  /\ \E keep \in KeepSets(Keepable(c), options[c].keep) :
       plan' = [plan EXCEPT ![c] =
                  {n \in Names : kind[n] # "none" /\ ~Skippable(n)} \ keep]
  /\ keepable0' = [keepable0 EXCEPT ![c] = {n \in Names : IsValid(n) /\ ~Skippable(n)}]
  /\ outdated' = [outdated EXCEPT ![c] =
                    {n \in Names : /\ kind[n] # "none" /\ ~Skippable(n)
                                   /\ ~IsValid(n) /\ StepOf[n] \in steps[c]}]
  /\ Goto(c, "planned")
  /\ UNCHANGED <<setting, disk, options, steps, todo, doomed, sealed, listing, removed,
                 failed, forced, sealedAt, late, budget>>

\* --dry-run stops here.
DryRun(c) ==
  /\ pc[c] = "planned"
  /\ Goto(c, "idle")
  /\ UNCHANGED <<disk, memory, history, budget>>

-----------------------------------------------------------------------------
(* execute_cleanup.                                                        *)

\* _verify_surviving_entries: every survivor the old index lists is still what
\* it lists, or a checkpoint file that is gone, and nothing else has appeared.
\* An entry below a symlink resolves outside the run and is refused first.
VerifiesListedOnly(skip) ==
  \A p \in Path : index.entries[p] # "absent" =>
    p[1] \in skip \/ files[p] \in {index.entries[p], "absent"}

Verified(skip) ==
  /\ \A p \in Path : index.entries[p] # "absent" =>
       /\ p[1] = Root \/ kind[p[1]] # "symlink"
       /\ \/ p[1] \in skip
          \/ files[p] = index.entries[p]
          \/ files[p] = "absent" /\ p[1] \in Names
  /\ \A p \in Path : OnDisk[p] # "absent" /\ p[1] \notin skip =>
       index.entries[p] # "absent"

\* _provenance_guard_error: without sealed provenance there is nothing to
\* carry and nothing to verify.
GuardError(provenance, skip) ==
  /\ provenance # "none"
  /\ index = NoIndex \/ ~index.listed \/ ~Verified(skip)

SealedProvenance == IF HasProvenance THEN "sealed" ELSE "none"

\* _sealed_provenance, then _pre_delete_error: abort while every checkpoint is
\* still on disk.
VerifyBeforeDelete(c) ==
  /\ pc[c] = "planned"
  /\ sealed' = [sealed EXCEPT ![c] = SealedProvenance]
  /\ IF plan[c] # {} /\ GuardError(SealedProvenance, plan[c])
     THEN /\ failed' = [failed EXCEPT ![c] = {Root}]
          /\ Goto(c, "idle")
          /\ UNCHANGED todo
     ELSE /\ todo' = [todo EXCEPT ![c] = plan[c]]
          /\ Goto(c, "delete")
          /\ UNCHANGED failed
  /\ UNCHANGED <<disk, options, steps, plan, doomed, listing, removed, history, budget>>

DeletesThroughLinks(n) == kind[n] = "none"

\* The second _skip_reason, or rmtree raising for an entry that has vanished.
Undeletable(n) == Skippable(n) \/ kind[n] = "none"

NextDoomed(c, n) == n \in todo[c] /\ \A m \in todo[c] : StepOf[n] <= StepOf[m]

\* _remove_checkpoints: an entry that became a symlink or a mount after
\* planning is not deleted; one that vanished makes rmtree raise.
TakeEntry(c) ==
  /\ pc[c] = "delete"
  /\ \E n \in Names :
       /\ NextDoomed(c, n)
       /\ todo' = [todo EXCEPT ![c] = @ \ {n}]
       /\ IF Undeletable(n)
          THEN /\ failed' = [failed EXCEPT ![c] = @ \cup {n}]
               /\ UNCHANGED <<doomed, pc>>
          ELSE /\ doomed' = [doomed EXCEPT ![c] = n]
               /\ Goto(c, "rmtree")
               /\ UNCHANGED failed
  /\ UNCHANGED <<disk, options, steps, plan, sealed, listing, removed, history, budget>>

\* shutil.rmtree: "rmtree" until it has opened the entry; then "unlink" inside
\* the directory, or "mounted" inside a mount that came after the last look.
Removing == {"rmtree", "unlink", "mounted"}

\* It looks at the entry, opens it and compares the two: a link raises, a mount
\* is opened like any directory.
OpenTree(c) ==
  /\ pc[c] = "rmtree"
  /\ kind[doomed[c]] \notin {"none", "symlink"}
  /\ Goto(c, IF kind[doomed[c]] = "mount" THEN "mounted" ELSE "unlink")
  /\ UNCHANGED <<disk, memory, history, budget>>

\* It unlinks file by file through the directory it has opened: also when that
\* is now behind a link, while a mount over it hides the files from it.
UnlinkFile(c) ==
  /\ pc[c] = "mounted" \/ (pc[c] = "unlink" /\ kind[doomed[c]] # "mount")
  /\ \E p \in Below(doomed[c]) : /\ files[p] # "absent"
                                 /\ files' = [files EXCEPT ![p] = "absent"]
  /\ UNCHANGED <<kind, index, merged, pc, memory, history, budget>>

RemoveDir(c) ==
  /\ pc[c] = "unlink"
  /\ kind[doomed[c]] # "none" /\ ~Skippable(doomed[c])
  /\ \A p \in Below(doomed[c]) : files[p] = "absent"
  /\ kind' = [kind EXCEPT ![doomed[c]] = "none"]
  /\ removed' = [removed EXCEPT ![c] = @ \cup {doomed[c]}]
  /\ Goto(c, "delete")
  /\ UNCHANGED <<files, index, merged, options, steps, plan, todo, doomed, sealed,
                 listing, failed, history, budget>>

\* Another invocation has deleted the entry, or is deleting it.
Contended(c) ==
  \/ kind[doomed[c]] = "none"
  \/ \E d \in Cleaners \ {c} : pc[d] \in Removing /\ doomed[d] = doomed[c]

\* The entry is a link when rmtree opens it, or changes while it is opened; or
\* it is a link or a mount when all is unlinked and rmdir is due.
Refused(c) ==
  /\ Skippable(doomed[c])
  /\ \/ pc[c] = "rmtree"
     \/ pc[c] = "unlink" /\ kind[doomed[c]] = "mount"
     \/ \A p \in Below(doomed[c]) : files[p] = "absent"

\* rmtree raises, possibly half-way.
RmtreeFails(c) ==
  /\ pc[c] \in Removing
  /\ \/ /\ budget.errors < setting.errors
        /\ budget' = [budget EXCEPT !.errors = @ + 1]
     \/ Contended(c) /\ UNCHANGED budget
     \/ Refused(c) /\ UNCHANGED budget
  /\ failed' = [failed EXCEPT ![c] = @ \cup {doomed[c]}]
  /\ late' = late \ {c}
  /\ Goto(c, "delete")
  /\ UNCHANGED <<disk, options, steps, plan, todo, doomed, sealed, listing, removed, setting,
                 forced, sealedAt, keepable0, outdated>>

TouchedByFailure(c) == failed[c] # {}

Touched(c) == removed[c] \cup failed[c] # {}

\* _reseal_after_delete: what a failed rmtree left was never verified.
Reseal(c) ==
  /\ pc[c] = "delete" /\ todo[c] = {}
  /\ IF failed[c] # {} /\ GuardError(sealed[c], removed[c])
     THEN /\ failed' = [failed EXCEPT ![c] = @ \cup {Root}]
          /\ Goto(c, "idle")
     ELSE /\ Goto(c, IF Touched(c) /\ index # NoIndex THEN "hash" ELSE "idle")
          /\ UNCHANGED failed
  /\ UNCHANGED <<disk, options, steps, plan, todo, doomed, sealed, listing, removed,
                 history, budget>>

\* write_artifact_index: walk and hash, then replace the index in one rename.
HashFiles(c) ==
  /\ pc[c] = "hash"
  /\ listing' = [listing EXCEPT ![c] = OnDisk]
  /\ Goto(c, "publish")
  /\ UNCHANGED <<disk, options, steps, plan, todo, doomed, sealed, removed, failed,
                 history, budget>>

PublishBareIndex(c) ==
  /\ pc[c] = "publish"
  /\ index' = [entries |-> listing[c], listed |-> TRUE, provenance |-> "none"]
  /\ Goto(c, "idle")
  /\ UNCHANGED <<kind, files, merged, memory, history, budget>>

PublishIndex(c) ==
  /\ pc[c] = "publish"
  /\ index' = [entries |-> listing[c], listed |-> TRUE, provenance |-> sealed[c]]
  /\ Goto(c, "idle")
  /\ UNCHANGED <<kind, files, merged, memory, history, budget>>

RewriteFails(c) ==
  /\ pc[c] \in {"hash", "publish"}
  /\ budget.errors < setting.errors
  /\ budget' = [budget EXCEPT !.errors = @ + 1]
  /\ failed' = [failed EXCEPT ![c] = @ \cup {Root}]
  /\ Goto(c, "idle")
  /\ UNCHANGED <<disk, options, steps, plan, todo, doomed, sealed, listing, removed, history>>

-----------------------------------------------------------------------------
(* The environment.                                                        *)

\* SIGKILL; the report is never printed.
Crash(c) ==
  /\ ~Idle(c)
  /\ budget.crashes < setting.crashes
  /\ budget' = [budget EXCEPT !.crashes = @ + 1]
  /\ removed' = [removed EXCEPT ![c] = {}]
  /\ failed' = [failed EXCEPT ![c] = {}]
  /\ late' = late \ {c}
  /\ Goto(c, "idle")
  /\ UNCHANGED <<disk, options, steps, plan, todo, doomed, sealed, listing, setting, forced,
                 sealedAt, keepable0, outdated>>

MayEdit ==
  /\ budget.edits < setting.edits
  /\ setting.concurrent \/ \A c \in Cleaners : Idle(c)
  /\ budget' = [budget EXCEPT !.edits = @ + 1]

\* A file is changed, or one nobody sealed is added.
EditFile ==
  /\ MayEdit
  /\ \E p \in Path :
       /\ Walked(p[1])
       /\ files[p] # "absent" \/ p[2] = "extra"
       /\ files' = [files EXCEPT ![p] = "edited"]
  /\ UNCHANGED <<kind, index, merged, pc, memory, history>>

\* The operators deleting n that cannot notice it becoming a k: rmtree does not
\* look for mounts when it opens n, and for links only then.
Overtaken(n, k) ==
  {c \in Cleaners : doomed[c] = n /\ pc[c] = IF k = "mount" THEN "rmtree" ELSE "unlink"}

\* A checkpoint is moved away and linked back, or mounted over, at any moment.
SwapEntry ==
  /\ MayEdit
  /\ \E n \in Names, k \in {"symlink", "mount"} :
       /\ kind[n] = "dir"
       /\ kind' = [kind EXCEPT ![n] = k]
       /\ late' = late \cup Overtaken(n, k)
  /\ UNCHANGED <<files, index, merged, pc, memory, setting, forced, sealedAt, keepable0, outdated>>

\* artifact_index.json is replaced by JSON without a usable artifacts list.
MangleIndex ==
  /\ MayEdit
  /\ index # NoIndex
  /\ index' = [index EXCEPT !.listed = FALSE]
  /\ UNCHANGED <<kind, files, merged, pc, memory, history>>

-----------------------------------------------------------------------------
Cleanup(c) == \/ MakePlan(c) \/ DryRun(c) \/ VerifyBeforeDelete(c) \/ TakeEntry(c)
              \/ OpenTree(c) \/ UnlinkFile(c) \/ RemoveDir(c) \/ RmtreeFails(c) \/ Reseal(c)
              \/ HashFiles(c) \/ PublishIndex(c) \/ RewriteFails(c)

Edit == EditFile \/ SwapEntry \/ MangleIndex

Next == \/ \E c \in Cleaners : Report(c) \/ Cleanup(c) \/ Crash(c)
        \/ Edit

Spec == Init /\ [][Next]_vars

-----------------------------------------------------------------------------
(* Safety.                                                                 *)

\* The rewritten index carries the old producer provenance, so it must never
\* attest a file, or a content, the producer did not seal: not a modified
\* survivor, not a file added since, not what a failed rmtree left behind, as
\* long as nobody edits a file while a cleanup is between its verification and
\* its index (_provenance_guard_error before the deletion and after a failure).
SealIsHonest ==
  HasProvenance /\ ~setting.concurrent => \A p \in Path : index.entries[p] \in {"absent", sealedAt[p]}

\* From the first deletion on, in every crash and overlap, a run cleaned
\* without --force keeps an artifact the export path accepts: a usable
\* adapter or its own merged model, and the sealed provenance with it
\* (_guard; publish_bytes_replace keeps the index whole).
DeletionIsRecoverable ==
  (\E c \in Cleaners : pc[c] \in Removing \/ removed[c] # {}) => Recoverable \/ forced

\* The end of an invocation that went on to delete, by itself and not by a kill.
Returns(c) == /\ pc[c] \notin {"idle", "planned"} /\ pc'[c] = "idle"
              /\ budget'.crashes = budget.crashes

\* A cleanup that had the run for itself, removed something and reports no
\* failure leaves an index
\* that lists exactly the files on disk, or no index (_reseal_after_delete,
\* write_artifact_index): eval/_artifact_snapshot.py requires the two to agree.
CleanReportMeansTrueIndex ==
  [][\A c \in Cleaners :
       Returns(c) /\ setting.cleaners = {c} /\ ~setting.concurrent /\ removed'[c] # {} /\ failed'[c] = {} =>
         index' = NoIndex \/ index'.entries = OnDisk']_vars

\* A link or a mount is never removed, and nothing behind it is deleted, at
\* whatever moment it took the place of a checkpoint: during the plan, after it
\* (the second _skip_reason) or, for a link, on the way into shutil.rmtree.  Only
\* two swaps come too late, for the deletion they overtake and no other: a mount
\* between the second _skip_reason and rmtree's open, and a link back to a
\* directory that rmtree has already opened.
SkippedIsUntouched ==
  [][\A n \in Names : Skippable(n) =>
       /\ kind'[n] = kind[n]
       /\ (\A c \in late : doomed[c] # n) =>
            \A p \in Below(n) : files[p] # "absent" => files'[p] # "absent"]_vars

DistinctSteps == \A n, m \in Names : n # m => StepOf[n] # StepOf[m]

\* --keep-latest N spares the N newest valid checkpoints: links and mounts do
\* not use up a slot, nor does a directory without the checkpoint files
\* (_keep_set over the steps the report found valid).  Between the report and
\* the listing another cleanup may have begun to delete one: it can take a
\* slot, as can a broken entry of the same step as a valid one (checkpoint-001
\* beside checkpoint-1), but nothing else.
KeepsTheNewest ==
  \A c \in Cleaners : pc[c] \in {"planned", "delete"} \cup Removing =>
    LET spared == keepable0[c] \ plan[c]
        slots == spared \cup (outdated[c] \ plan[c])
    IN  /\ Cardinality(slots) >= options[c].keep \/ spared = keepable0[c]
        /\ \A n \in spared, m \in keepable0[c] \ spared : StepOf[m] <= StepOf[n]
        /\ DistinctSteps /\ setting.cleaners = {c} => outdated[c] = {}
=============================================================================
