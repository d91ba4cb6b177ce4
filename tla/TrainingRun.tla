------------------------------ MODULE TrainingRun ------------------------------
(***************************************************************************)
(* One run directory, adapters/<run_name>, over several trainings and the  *)
(* exports made from it.                                                   *)
(*                                                                         *)
(* Trainings follow one another in the directory: each resolves a resume   *)
(* point in what the last one left, saves checkpoints over the names it    *)
(* reaches, and finalizes: run-root adapter, artifact index with the       *)
(* producer provenance of ITS recipe, run manifest.  Any of these steps    *)
(* may be the last.  Meanwhile export-final-model may read the directory   *)
(* and write merged/<run_name>, file after file.  What evaluation trusts   *)
(* at the end is an index that verifies and the provenance in it.          *)
(*                                                                         *)
(* The Trainer and PEFT are external: they write in place, the trainer     *)
(* state last, and rotate old checkpoints after a save.                    *)
(*                                                                         *)
(* Source: train/trainer.py, train/checkpoints.py, run_status.py,          *)
(* export/merge_adapter.py, artifacts/, manifests.py, _cli_export.py.      *)
(***************************************************************************)
EXTENDS CheckpointTree, Integers, FiniteSets

CONSTANTS
  Recipes,       \* pinned base model and frozen train split: a provenance
  MaxSteps,      \* steps of one training
  SaveSteps,     \* training.save_steps
  SaveLimit,     \* training.save_total_limit; 0 is none
  ResumeModes,   \* how a training is told to resume
  SafeFlags,     \* the values runtime.save_safetensors takes
  NoTree,        \* no directory of that name
  NoIndex,       \* no artifact_index.json
  MaxTrainings,  \* bound: trainings started
  MaxExports,    \* bound: exports started
  MaxStops       \* bound: processes killed, or ended by an exception

ASSUME TrainingSteps == {MaxSteps, SaveSteps} \subseteq Nat \ {0} /\ SaveLimit \in Nat
ASSUME TrainingOptions == /\ ResumeModes \subseteq {"fresh", "latest", "explicit"}
                          /\ SafeFlags \subseteq BOOLEAN
ASSUME BoundsAreNumbers == {MaxTrainings, MaxExports, MaxStops} \subseteq Nat

VARIABLES
  tree,      \* tree[s]: checkpoint-s
  adapter,   \* the adapter files at the run root
  index,     \* artifact_index.json at the run root
  manifest,  \* runs/<run_name>/manifest.json
  merged,    \* merged/<run_name>, with its index
  pc,        \* where the training is
  config,    \* its configuration
  step,      \* global_step
  lineage,   \* the weights in memory: what trained them
  victim,    \* the checkpoint being rotated out
  epc,       \* where the export is
  export,    \* its source, provenance and loaded weights
  outcome,   \* how the last training ended
  reported,  \* history: run-status before the last training
  branched,  \* history: some training passed over checkpoints it found
  crossed,   \* history: some training resumed another recipe's checkpoint
  proper,    \* history: the merged index is of an adapter that was sealed
  budget     \* bounds used so far

directory == <<tree, adapter, index>>
training == <<pc, config, step, lineage, victim>>
exporting == <<merged, epc, export>>
history == <<reported, branched, crossed, proper>>
vars == <<directory, manifest, training, exporting, outcome, history, budget>>

Steps == 1 .. MaxSteps

-----------------------------------------------------------------------------
(* Weights are told apart by what trained them: the recipes, and the       *)
(* training that wrote them last.  Equal means an equal hash.              *)

Weights == [by : SUBSET Recipes, job : 0 .. MaxTrainings]
NoWeights == [by |-> {}, job |-> 0]

\* A checkpoint: the files CheckpointTree looks at (resume: optimizer,
\* scheduler and RNG), the weights, and whether its parts come from two saves.
Checkpoint == [state : {"absent", "malformed", "ok"}, config : BOOLEAN,
               weights : {"absent", "short", "ok"}, bin : {FALSE},
               resume : BOOLEAN, made : Weights, torn : BOOLEAN]

EmptyCheckpoint == [state |-> "absent", config |-> FALSE, weights |-> "absent",
                    bin |-> FALSE, resume |-> FALSE, made |-> NoWeights, torn |-> FALSE]

Adapter == [config : BOOLEAN, weights : {"absent", "short", "ok"}, bin : BOOLEAN,
            made : Weights]

NoAdapter == [config |-> FALSE, weights |-> "absent", bin |-> FALSE, made |-> NoWeights]

Index == [adapter : Adapter, tree : [Steps -> Checkpoint \cup {NoTree}],
          provenance : Recipes]

MergedIndex == [made : Weights, provenance : Recipes]

\* path is resume_checkpoint_path, a checkpoint of this run; 0 is none.
Config == {c \in [recipe : Recipes, mode : {"fresh", "latest", "explicit"},
                  path : 0 .. MaxSteps, safe : BOOLEAN] :
             (c.mode = "explicit") <=> (c.path # 0)}

ASSUME SomeRecipe == Recipes # {}
ASSUME NothingIsNothing == /\ NoTree \notin Checkpoint
                           /\ NoIndex \notin Index \cup MergedIndex \cup Recipes

-----------------------------------------------------------------------------
(* Reading the directory.                                                  *)

Present == {s \in Steps : tree[s] # NoTree}
ValidSteps == {s \in Present : IsValidCheckpoint(tree[s], FALSE)}

OnlyInvalid == Present \ ValidSteps

\* find_latest_valid_checkpoint; 0 is None.
LatestValid == IF ValidSteps = {} THEN 0
               ELSE CHOOSE s \in ValidSteps : \A t \in ValidSteps : t <= s

OnlyUpToLatest == {s \in Present : s <= LatestValid /\ ~Complete(tree[s], FALSE)}

IncompleteSteps == {s \in Present : ~Complete(tree[s], FALSE)}

RootIsAdapter == IsAdapterArtifact(adapter, FALSE)

ReadyIfValid == LatestValid # 0

\* trainer_state_usable and adapter_optimizer_shapes parse what the rules of
\* the selection only find: optimizer, scheduler and RNG are there, too.
TrainerStateUsable(t) == t.state = "ok" /\ t.config /\ t.weights = "ok" /\ t.resume

\* _resume_status.
ResumeReady == LatestValid # 0 /\ TrainerStateUsable(tree[LatestValid])

\* build_run_status, the part about resuming.
RunStatus == [ready |-> ResumeReady, path |-> LatestValid]

\* _listed_artifacts: every file below the run directory, checkpoints included.
Listing == [adapter |-> adapter, tree |-> tree]

IndexVerifies == /\ index # NoIndex
                 /\ index.adapter = adapter
                 /\ index.tree = tree

MergedVerifies == /\ merged.index # NoIndex
                  /\ merged.weights = "ok"
                  /\ merged.index.made = merged.made

-----------------------------------------------------------------------------
NoConfig == [recipe |-> CHOOSE r \in Recipes : TRUE, mode |-> "fresh", path |-> 0,
             safe |-> TRUE]
NoExport == [source |-> 0, provenance |-> NoIndex, made |-> NoWeights, sealed |-> FALSE]

TypeOK ==
  /\ tree \in [Steps -> Checkpoint \cup {NoTree}]
  /\ adapter \in Adapter
  /\ index \in Index \cup {NoIndex}
  /\ manifest \in Recipes \cup {"none", "torn"}
  /\ merged \in [weights : {"absent", "short", "ok"}, made : Weights,
                 index : MergedIndex \cup {NoIndex}]
  /\ pc \in {"idle", "resolve", "train", "save", "save_weights", "save_config",
             "save_optimizer", "save_state", "save_done", "rotate", "rotating",
             "adapter", "adapter_weights", "adapter_config", "bins", "index",
             "manifest", "manifest_write"}
  /\ config \in Config
  /\ step \in 0 .. MaxSteps
  /\ lineage \in SUBSET Recipes
  /\ victim \in 0 .. MaxSteps
  /\ epc \in {"idle", "provenance", "recheck", "load", "save", "saving", "index"}
  /\ export \in [source : 0 .. MaxSteps, provenance : Recipes \cup {NoIndex},
                 made : Weights, sealed : BOOLEAN]
  /\ outcome \in {"none", "running", "completed", "failed"}
  /\ reported \in [ready : BOOLEAN, path : 0 .. MaxSteps]
  /\ branched \in BOOLEAN /\ crossed \in BOOLEAN /\ proper \in BOOLEAN
  /\ budget \in [trainings : 0 .. MaxTrainings, exports : 0 .. MaxExports,
                 stops : 0 .. MaxStops]

Init ==
  /\ tree = [s \in Steps |-> NoTree]
  /\ adapter = NoAdapter
  /\ index = NoIndex
  /\ manifest = "none"
  /\ merged = [weights |-> "absent", made |-> NoWeights, index |-> NoIndex]
  /\ pc = "idle" /\ config = NoConfig /\ step = 0 /\ lineage = {} /\ victim = 0
  /\ epc = "idle" /\ export = NoExport
  /\ outcome = "none"
  /\ reported = [ready |-> FALSE, path |-> 0]
  /\ branched = FALSE /\ crossed = FALSE /\ proper = FALSE
  /\ budget = [trainings |-> 0, exports |-> 0, stops |-> 0]

Goto(location) == pc' = location

-----------------------------------------------------------------------------
(* train-qlora: the provenance comes from the configuration, the resume    *)
(* point from the directory.                                               *)

StartTraining ==
  /\ pc = "idle"
  /\ budget.trainings < MaxTrainings
  /\ budget' = [budget EXCEPT !.trainings = @ + 1]
  /\ config' \in {c \in Config : c.mode \in ResumeModes /\ c.safe \in SafeFlags}
  /\ reported' = RunStatus
  /\ outcome' = "running"
  /\ Goto("resolve")
  /\ UNCHANGED <<directory, manifest, step, lineage, victim, exporting, branched, crossed, proper>>

\* quarantine_incomplete_checkpoints, also for a run that will not resume,
\* but not for one that was given a path.
QuarantineIncomplete ==
  /\ pc = "resolve" /\ config.mode # "explicit"
  /\ \E s \in IncompleteSteps : tree' = [tree EXCEPT ![s] = NoTree]
  /\ UNCHANGED <<adapter, index, manifest, training, exporting, outcome, history, budget>>

\* The rest of resolve_resume_checkpoint, and the Trainer's load.
ResumeAt(s) ==
  /\ step' = s
  /\ lineage' = {config.recipe} \cup (IF s = 0 THEN {} ELSE tree[s].made.by)
  /\ crossed' = (crossed \/ (s # 0 /\ tree[s].made.by # {config.recipe}))
  /\ branched' = (branched \/ \E t \in Present : t > s)
  /\ Goto("train")

ResolveFresh ==
  /\ pc = "resolve" /\ config.mode = "fresh"
  /\ IncompleteSteps = {}
  /\ ResumeAt(0)
  /\ UNCHANGED <<directory, manifest, config, victim, exporting, outcome, reported, proper, budget>>

ResolveLatest ==
  /\ pc = "resolve" /\ config.mode = "latest"
  /\ IncompleteSteps = {}
  /\ ResumeAt(LatestValid)
  /\ UNCHANGED <<directory, manifest, config, victim, exporting, outcome, reported, proper, budget>>

\* _resolve_explicit_resume_checkpoint.
ResolveExplicit ==
  /\ pc = "resolve" /\ config.mode = "explicit"
  /\ config.path \in Present \ IncompleteSteps
  /\ ResumeAt(config.path)
  /\ UNCHANGED <<directory, manifest, config, victim, exporting, outcome, reported, proper, budget>>

Forget == /\ Goto("idle") /\ config' = NoConfig
          /\ step' = 0 /\ lineage' = {} /\ victim' = 0

RefuseExplicit ==
  /\ pc = "resolve" /\ config.mode = "explicit"
  /\ config.path \notin Present \ IncompleteSteps
  /\ Forget
  /\ outcome' = "failed"
  /\ UNCHANGED <<directory, manifest, exporting, history, budget>>

-----------------------------------------------------------------------------
(* The Trainer (external): one optimizer step; a save in place, the        *)
(* trainer state last; the rotation of old checkpoints.                    *)

SaveDue(s) == s % SaveSteps = 0 \/ s = MaxSteps

TrainStep ==
  /\ pc = "train"
  /\ step < MaxSteps
  /\ step' = step + 1
  /\ Goto(IF SaveDue(step + 1) THEN "save" ELSE "train")
  /\ UNCHANGED <<directory, manifest, config, lineage, victim, exporting, outcome,
                 history, budget>>

Put(t) == tree' = [tree EXCEPT ![step] = t]

\* The weights file is truncated first; what else is there stays.
OpenWeights ==
  /\ pc = "save"
  /\ LET old == IF tree[step] = NoTree THEN EmptyCheckpoint ELSE tree[step]
     IN  Put([old EXCEPT !.weights = "short", !.torn = (tree[step] # NoTree)])
  /\ Goto("save_weights")
  /\ UNCHANGED <<adapter, index, manifest, config, step, lineage, victim, exporting,
                 outcome, history, budget>>

WriteWeights ==
  /\ pc = "save_weights"
  /\ Put([tree[step] EXCEPT !.weights = "ok",
                            !.made = [by |-> lineage, job |-> budget.trainings]])
  /\ Goto("save_config")
  /\ UNCHANGED <<adapter, index, manifest, config, step, lineage, victim, exporting,
                 outcome, history, budget>>

WriteConfig ==
  /\ pc = "save_config"
  /\ Put([tree[step] EXCEPT !.config = TRUE])
  /\ Goto("save_optimizer")
  /\ UNCHANGED <<adapter, index, manifest, config, step, lineage, victim, exporting,
                 outcome, history, budget>>

WriteOptimizer ==
  /\ pc = "save_optimizer"
  /\ Put([tree[step] EXCEPT !.resume = TRUE])
  /\ Goto("save_state")
  /\ UNCHANGED <<adapter, index, manifest, config, step, lineage, victim, exporting,
                 outcome, history, budget>>

OpenState ==
  /\ pc = "save_state"
  /\ Put([tree[step] EXCEPT !.state = "malformed"])
  /\ Goto("save_done")
  /\ UNCHANGED <<adapter, index, manifest, config, step, lineage, victim, exporting,
                 outcome, history, budget>>

WriteState ==
  /\ pc = "save_done"
  /\ Put([tree[step] EXCEPT !.state = "ok", !.torn = FALSE])
  /\ Goto("rotate")
  /\ UNCHANGED <<adapter, index, manifest, config, step, lineage, victim, exporting,
                 outcome, history, budget>>

OverLimit == SaveLimit # 0 /\ Cardinality(Present) > SaveLimit

\* shutil.rmtree of one that is not the last saved: some file goes first.
Without(t) == {[t EXCEPT !.state = "absent"], [t EXCEPT !.weights = "absent"],
               [t EXCEPT !.config = FALSE], [t EXCEPT !.resume = FALSE]}

RotateBegins ==
  /\ pc = "rotate"
  /\ OverLimit
  /\ \E s \in Present \ {step} :
       /\ \E rest \in Without(tree[s]) : tree' = [tree EXCEPT ![s] = rest]
       /\ victim' = s
  /\ Goto("rotating")
  /\ UNCHANGED <<adapter, index, manifest, config, step, lineage, exporting, outcome,
                 history, budget>>

RotateEnds ==
  /\ pc = "rotating"
  /\ tree' = [tree EXCEPT ![victim] = NoTree]
  /\ victim' = 0
  /\ Goto("rotate")
  /\ UNCHANGED <<adapter, index, manifest, config, step, lineage, exporting, outcome,
                 history, budget>>

RotateDone ==
  /\ pc = "rotate"
  /\ ~OverLimit
  /\ Goto("train")
  /\ UNCHANGED <<directory, manifest, config, step, lineage, victim, exporting, outcome,
                 history, budget>>

-----------------------------------------------------------------------------
(* _finalize_training_run.  Nothing but the last two steps is atomic.      *)

FinishSteps ==
  /\ pc = "train"
  /\ step = MaxSteps
  /\ Goto("adapter")
  /\ UNCHANGED <<directory, manifest, config, step, lineage, victim, exporting, outcome,
                 history, budget>>

\* save_pretrained: safetensors, or a pickle beside what is there.
OpenAdapter ==
  /\ pc = "adapter"
  /\ IF config.safe
     THEN adapter' = [adapter EXCEPT !.weights = "short"] /\ Goto("adapter_weights")
     ELSE adapter' = [adapter EXCEPT !.bin = TRUE] /\ Goto("adapter_config")
  /\ UNCHANGED <<tree, index, manifest, config, step, lineage, victim, exporting, outcome,
                 history, budget>>

WriteAdapter ==
  /\ pc = "adapter_weights"
  /\ adapter' = [adapter EXCEPT !.weights = "ok",
                                !.made = [by |-> lineage, job |-> budget.trainings]]
  /\ Goto("adapter_config")
  /\ UNCHANGED <<tree, index, manifest, config, step, lineage, victim, exporting, outcome,
                 history, budget>>

\* adapter_config.json and the tokenizer.
WriteAdapterConfig ==
  /\ pc = "adapter_config"
  /\ adapter' = [adapter EXCEPT !.config = TRUE]
  /\ Goto("bins")
  /\ UNCHANGED <<tree, index, manifest, config, step, lineage, victim, exporting, outcome,
                 history, budget>>

\* assert_no_unsafe_weight_bins: a pickle that is there, whoever wrote it,
\* ends every training here.
AssertNoBins ==
  /\ pc = "bins"
  /\ ~adapter.bin
  /\ Goto("index")
  /\ UNCHANGED <<directory, manifest, config, step, lineage, victim, exporting, outcome,
                 history, budget>>

RefuseBins ==
  /\ pc = "bins"
  /\ adapter.bin
  /\ Forget
  /\ outcome' = "failed"
  /\ UNCHANGED <<directory, manifest, exporting, history, budget>>

KeepsOldProvenance ==
  /\ pc = "index"
  /\ index' = [adapter |-> adapter, tree |-> tree,
               provenance |-> IF index = NoIndex THEN config.recipe ELSE index.provenance]
  /\ Goto("manifest")
  /\ UNCHANGED <<tree, adapter, manifest, config, step, lineage, victim, exporting, outcome,
                 history, budget>>

\* write_artifact_index; nobody else writes below the run directory between
\* the hashing and the replace.
PublishIndex ==
  /\ pc = "index"
  /\ index' = [adapter |-> Listing.adapter, tree |-> Listing.tree,
               provenance |-> config.recipe]
  /\ Goto("manifest")
  /\ UNCHANGED <<tree, adapter, manifest, config, step, lineage, victim, exporting, outcome,
                 history, budget>>

\* write_run_manifest opens the file in place.
OpenManifest ==
  /\ pc = "manifest"
  /\ manifest' = "torn"
  /\ Goto("manifest_write")
  /\ UNCHANGED <<directory, config, step, lineage, victim, exporting, outcome, history, budget>>

WriteManifest ==
  /\ pc = "manifest_write"
  /\ manifest' = config.recipe
  /\ outcome' = "completed"
  /\ Forget
  /\ UNCHANGED <<directory, exporting, history, budget>>

\* SIGKILL, Ctrl-C, an OSError or a CUDA error: the directory stays as it is.
StopTraining ==
  /\ pc # "idle"
  /\ budget.stops < MaxStops
  /\ budget' = [budget EXCEPT !.stops = @ + 1]
  /\ Forget
  /\ outcome' = "failed"
  /\ UNCHANGED <<directory, manifest, exporting, history>>

-----------------------------------------------------------------------------
(* export-final-model: select, read the provenance, check, load the base   *)
(* model, load the adapter, merge, save, index.                            *)

ExportAt(location) == epc' = location

Refuse == ExportAt("idle") /\ export' = NoExport

\* resolve_export_source: the run root before any checkpoint.
SelectSource ==
  /\ epc = "idle"
  /\ budget.exports < MaxExports
  /\ budget' = [budget EXCEPT !.exports = @ + 1]
  /\ RootIsAdapter \/ LatestValid # 0
  /\ export' = [NoExport EXCEPT !.source = IF RootIsAdapter THEN 0 ELSE LatestValid]
  /\ ExportAt("provenance")
  /\ UNCHANGED <<directory, manifest, training, merged, outcome, history>>

\* producer_provenance_from_adapter: no checkpoint has an index of its own.
ReadProvenance ==
  /\ epc = "provenance"
  /\ IF export.source = 0 /\ index # NoIndex
     THEN /\ export' = [export EXCEPT !.provenance = index.provenance]
          /\ ExportAt("recheck")
     ELSE Refuse
  /\ UNCHANGED <<directory, manifest, training, merged, outcome, history, budget>>

\* is_adapter_artifact, and require_producer_provenance: what the index says
\* now must be what it said when the provenance was read.
RecheckSource ==
  /\ epc = "recheck"
  /\ IF RootIsAdapter /\ index.provenance = export.provenance
     THEN ExportAt("load") /\ UNCHANGED export
     ELSE Refuse
  /\ UNCHANGED <<directory, manifest, training, merged, outcome, history, budget>>

SealedAs(provenance) == IndexVerifies /\ index.provenance = provenance

\* PeftModel.from_pretrained, after the base model was loaded.
LoadAdapter ==
  /\ epc = "load"
  /\ IF adapter.weights = "ok"
     THEN /\ export' = [export EXCEPT !.made = adapter.made,
                                      !.sealed = SealedAs(export.provenance)]
          /\ ExportAt("save")
     ELSE Refuse
  /\ UNCHANGED <<directory, manifest, training, merged, outcome, history, budget>>

\* save_pretrained into a directory that may hold an earlier export.
OpenMerged ==
  /\ epc = "save"
  /\ merged' = [merged EXCEPT !.weights = "short"]
  /\ ExportAt("saving")
  /\ UNCHANGED <<directory, manifest, training, export, outcome, history, budget>>

WriteMerged ==
  /\ epc = "saving"
  /\ merged' = [merged EXCEPT !.weights = "ok", !.made = export.made]
  /\ ExportAt("index")
  /\ UNCHANGED <<directory, manifest, training, export, outcome, history, budget>>

SealsWithCurrentProvenance ==
  /\ epc = "index"
  /\ merged' = [merged EXCEPT !.index = [made |-> merged.made,
                                         provenance |-> index.provenance]]
  /\ proper' = export.sealed
  /\ Refuse
  /\ UNCHANGED <<directory, manifest, training, outcome, reported, branched, crossed, budget>>

IndexMerged ==
  /\ epc = "index"
  /\ merged' = [merged EXCEPT !.index = [made |-> merged.made,
                                         provenance |-> export.provenance]]
  /\ proper' = export.sealed
  /\ Refuse
  /\ UNCHANGED <<directory, manifest, training, outcome, reported, branched, crossed, budget>>

StopExport ==
  /\ epc # "idle"
  /\ budget.stops < MaxStops
  /\ budget' = [budget EXCEPT !.stops = @ + 1]
  /\ Refuse
  /\ UNCHANGED <<directory, manifest, training, merged, outcome, history>>

-----------------------------------------------------------------------------
Resolve == \/ QuarantineIncomplete \/ ResolveFresh \/ ResolveLatest
           \/ ResolveExplicit \/ RefuseExplicit

Trainer == \/ TrainStep \/ OpenWeights \/ WriteWeights \/ WriteConfig \/ WriteOptimizer
           \/ OpenState \/ WriteState \/ RotateBegins \/ RotateEnds \/ RotateDone

Finalize == \/ FinishSteps \/ OpenAdapter \/ WriteAdapter \/ WriteAdapterConfig
            \/ AssertNoBins \/ RefuseBins \/ PublishIndex \/ OpenManifest
            \/ WriteManifest

Export == \/ SelectSource \/ ReadProvenance \/ RecheckSource \/ LoadAdapter
          \/ OpenMerged \/ WriteMerged \/ IndexMerged \/ StopExport

Next == StartTraining \/ Resolve \/ Trainer \/ Finalize \/ StopTraining \/ Export

Spec == Init /\ [][Next]_vars

-----------------------------------------------------------------------------
(* Safety.                                                                 *)

\* An adapter directory whose index verifies was last trained by the recipe
\* the index names; by that recipe alone, if no training ever resumed another
\* one's checkpoint.  Whatever was interrupted, and however stale the index,
\* it must not verify over an adapter it was not written for
\* (_finalize_training_run, write_artifact_index).
SealIsTrue ==
  IndexVerifies => /\ index.provenance \in adapter.made.by
                   /\ ~crossed => adapter.made.by = {index.provenance}

\* A merged model whose index verifies was merged from weights its
\* provenance produced, if the adapter was sealed at the instant it was
\* loaded: neither a training that goes on during the export nor an earlier
\* export's files falsify it (merge_adapter, export_final_model).
MergedIsTrue ==
  (MergedVerifies /\ proper /\ ~crossed) =>
    merged.made.by = {merged.index.provenance}

\* A training that returned has sealed the whole directory, with its own
\* provenance, and its manifest is whole (_finalize_training_run's order).
CompletedIsSealed ==
  outcome = "completed" => /\ IndexVerifies
                           /\ manifest = index.provenance
                           /\ adapter.made.job = budget.trainings

\* As long as every training went on from the newest checkpoint, one that is
\* resumed is complete, optimizer and all, and was written by one save, although
\* the Trainer writes and rotates in place and may be killed in either
\* (resolve_resume_checkpoint).
ResumedIsWhole ==
  [][(pc = "resolve" /\ pc' = "train" /\ step' # 0 /\ ~branched') =>
        TrainerStateUsable(tree[step']) /\ ~tree[step'].torn]_vars

\* A training that resumes from the latest checkpoint never saves over one
\* (quarantine_incomplete_checkpoints before find_latest_valid_checkpoint).
LatestNeverOverwrites ==
  [][(pc = "save" /\ pc' = "save_weights" /\ config.mode = "latest") =>
        tree[step] = NoTree]_vars

\* If run-status says resume is ready, the checkpoint it names is the one a
\* training started then resumes from (README.md, "Inspect a run").
ReadyMeansResumed ==
  [][(pc = "resolve" /\ pc' = "train" /\ config.mode = "latest" /\ reported.ready) =>
        step' = reported.path]_vars

=============================================================================
