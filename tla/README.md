# agoge-forger: TLA+ models and proofs

agoge-forger is a QLoRA training forge: it trains adapters, keeps checkpoints,
exports and cleans up runs, evaluates adapters against their base model and
writes evidence about all of it. It has almost no shared-memory concurrency.
What makes it hard is that **the file system is its only memory**: run
directories outlive the processes that work on them, processes are killed
anywhere, files are published one rename at a time, and every later command
trusts what an earlier one left behind. The modules here model that.

Paths below are relative to the repository; the package is
`src/agoge_forger/`.

## 1. Inventory

| part | state it keeps | operations | what is hard |
|---|---|---|---|
| **Checkpoint trees** `train/checkpoints.py`, `train/resume_state.py` | the files of one `checkpoint-N` | structural, completeness and resume-equivalence rules | three rules of increasing strictness, each used by other commands |
| **Checkpoint recovery** `train/checkpoint_publish.py`, `train/fault_harness*.py`, `train/checkpoints.py`, `train/resume_state.py` | `checkpoint-N`, staging directories, `.agoge-quarantine`, `last_failure.json`, the run-root adapter | stage, write, validate, no-replace rename, roll back, quarantine, select a resume point, export | kills between any two calls; exceptions raised inside exception handlers; a second writer; repeated resumption |
| **cleanup-run** `cleanup_run.py` | the checkpoints, the run-root adapter, `artifact_index.json` | plan, verify, delete, reseal | the plan is stale when executed; the index is rewritten under the old provenance; overlapping invocations; partial `rmtree` |
| **Atomic publication** `_atomic_directory.py`, `_atomic_file.py` | a destination name | probe, rename-no-replace, replace | race for a name; which failure leaves what |
| **Training runs** `train/trainer.py`, `artifacts/`, `manifests.py`, `export/merge_adapter.py`, `run_status.py` | a run directory, its sealed index, `runs/*.json`, merged exports | resolve the resume point, train, finalize, report, merge | adapter, index and manifest are written in sequence into a directory an earlier run may have filled |
| **Telemetry session** `telemetry/session.py`, `callback.py`, `window.py`, `markers.py` | markers, window request, profiler summary, the open window | start, mark, capture, stop, summarise, close | must never stop training; failures and Ctrl-C between any two writes; left-overs of an earlier run under the same name; resumption inside the window |
| **Telemetry joins and probes** `telemetry/join*.py`, `summarize*.py`, `gpu.py`, `backends.py` | none | aggregate finished records | pure |
| **Held-out evaluation** `eval/harness.py`, `contract.py`, `experiment_contract.py`, `_artifact_snapshot.py`, `_artifact_validation.py`, `generate.py`, `score.py`, `compare.py`, `bundle.py`, `rescore.py` | a private copy of the artifact, contracts, generations, scores, the published bundle | pin, verify, generate twice, score, compare, publish, score again | artifact, split, destination and published bundle may change between any two readings; what a bundle's files mean together |
| **Doctest execution** `eval/_doctest_runner.py`, `_doctest_worker.py` | a child process, its pipe, its deadline | spawn, feed, wait, kill, classify | timeout against a late answer; a child that lies, dies or hangs |
| **Frozen splits** `split_*.py`, `_source_snapshot.py`, `_token_provenance.py` | the source, the published snapshot, token sidecars | connect, assign, audit, publish, validate, load, count | union-find over three relations; two writers for one name; a source, an artifact or a tokenizer that changes while it is read |
| **Mixtures** `mixture_*.py` | snapshots, statistics and ledgers of the sources; the mixture | load, isolate, allocate, select, publish | rounding, exhausted sources; four readings per source that must be of one snapshot |
| **Release verification** `release/` | none | cross-check published evidence | mostly schema checks |
| **Chat provider** `providers/chat_completions.py` | one response being assembled | request, stream, time | errors after part of the stream |
| **Run-status validators** `_run_status_*.py` | none | validate bytes of one file | pure |
| **Command line** `_cli_*.py`, `cli.py` | none | parse, call, exit code | thin |
| **Model, data and environment helpers** `models/`, `datasets.py`, `config.py` ... | none | wrap Transformers, PEFT, torch | external |

How they meet: *training* writes the tree that *recovery* guards, *run-status*
reports on, *export* reads and *cleanup* shrinks; *training* carries the
*telemetry session* along as a callback; `artifact_index.json` is written by
training, rewritten by cleanup, and is what *evaluation* and *export* trust;
*atomic publication* is under every one of them. There are no messages and no
locks: all interaction is through directory entries.

What makes each part correct, in one line each:

* *recovery*: a checkpoint name is absent or whole; nothing is lost but into
  the quarantine, with a reason; the resume point never gets older; failure
  evidence is true; a run that says it completed has saved and exported;
* *cleanup*: a rewritten index attests only what the producer sealed; a run
  that was recoverable stays so; the newest valid checkpoints are kept; a
  symlink or mount is never followed; a clean report means a true index;
* *telemetry*: it never aborts training; markers point into the window that was
  really open; the summary tells what happened and survives one failed write;
  the manifest never publishes another session's summary;
* *training runs*: the sealed index, the adapter beside it and the manifest
  belong to one training; reports and training agree on the resume point;
* *publication*: at most one writer wins, and a loser changes nothing;
* *doctests*: a verdict is earned by the worker itself, within its deadline and
  inside its fences; it is always returned and then final;
* *splits*: a partition loses and invents nothing and related records share a
  split; what a validation accepts is what the source gives; a sidecar counts
  what it pins;
* *evaluation*: an accepted artifact was whole at one moment and loads; the
  comparison tells the difference; a post-hoc one covers the same tasks;
* *mixtures*: the budget is spent as far as it can be, and fairly; related records
  enter together; the pins of a source belong together.

## 2. Modules

| module | role |
|---|---|
| `CheckpointTree` | operators: what can be told about one `checkpoint-N` tree |
| `CheckpointHarness` | the recovery contract: publisher, rollback, quarantine, resume selection, export, faults |
| `CheckpointHarness_proofs` | lemmas, the inductive type invariant and what the publisher knows, what a run reports; seven theorems |
| `CleanupRun`, `CleanupRun_proofs` | `agoge cleanup-run` by any number of overlapping operators; its safety |
| `TelemetrySession`, `TelemetrySession_proofs` | the telemetry of one training run, over the files of an earlier one; the truth of references, summary and manifest |
| `TrainingRun` | one run directory over several trainings, and the exports made from it |
| `TrainingRun_proofs` | its types and the truth of its seals; what a training resumes, saves over and was reported |
| `AtomicPublication` | abstract: what a no-replace publication promises |
| `SplitAssignment` | operators: from the lines of a source to an audited partition |
| `SplitSnapshot` | materializers, a validator, a loader and a token counter around one snapshot; refines `AtomicPublication` |
| `SplitSnapshot_proofs` | the refinement, one winner at most, what validations, loads and counts may be trusted for; the union-find, the partition, the acceptance of untouched snapshots |
| `PairedScoring` | operators: scoring one arm, comparing two |
| `ArtifactBundle` | operators: what makes files an adapter or a merged model |
| `HeldOutEval`, `HeldOutEval_proofs` | one evaluation or contract command, and post-hoc scorings; composes the two above; what acceptance, comparison and pins mean, and the fence scanner |
| `DoctestRun`, `DoctestRun_proofs` | the doctest scorer: parent, worker, fences, deadline; its safety |
| `MixtureAllocation` | operators: quotas, groups, selection; extends `SplitAssignment` |
| `Mixture`, `Mixture_proofs` | compositions over sources that are replaced meanwhile; that pins agree, the budget is spent, related records enter together and selections stay isolated |
| `MC...` | the small instances TLC checks |

`CheckpointHarness` and `TrainingRun` have their type invariants proved. The other
modules have untyped contents (bundles, snapshots); what their proofs need of the shape
of the state is part of their inductive invariants.

### CheckpointHarness

One run of `run_fault_harness` is a walk through `pc`. Every file-system call
that changes the run directory is a step of its own: `Crash` can happen
between any two, and each call that may fail has a `...Fails` action which
enters the handler the code's `except` and `finally` clauses lead to.

| state | code |
|---|---|
| `run[s]`, `root` | `checkpoint-s`, the adapter files at the run root |
| `staging` | `.agoge-ckpt-staging-*`, `.agoge-export-staging-*` |
| `quarantine`, `evidence` | `.agoge-quarantine/*`, `last_failure.json` |
| `pc`, `ctx`, `job`, `failing` | the call stack: where, on whose behalf, the arguments of `quarantine_tree`, whether an exception is propagating |
| `step`, `fault`, `mine` | `_LoopState`, `HarnessConfig.fault`, the staging directory of this process |

`Selection` is `select_resume_checkpoint` and the handler of
`run_fault_harness`; `QuarantineTree` the two calls of `quarantine_tree`
(reason file, then rename); `Publication` is `publish_checkpoint_tree` with its
`except` and `finally`; `Export` is `export_final_adapter`; `Crash` is SIGKILL
and `ForeignWrite` another process taking the name being staged. A tree is
six fields (`CheckpointTree!Tree`): what the rules can tell apart and nothing
else. Fault *kinds* (oom, sigint, sigterm) collapse, since each becomes an exception
the harness catches; fault *points* are kept.

Abstractions that matter: mount points are left out (nothing in a harness run
makes one); the process can die, the machine does not, so `fsync` is only a
call that can fail; reads succeed; the scan for incomplete trees takes any
order, a superset of the sorted one; the number of staging names is bounded by
the number of processes, as each opens at most one that survives it. The
harness never allows pickled weights, so `allow_unsafe` is FALSE.

### CleanupRun

`Report`, `MakePlan` (two scans in `plan_cleanup`), `VerifyBeforeDelete`, one action per
entry of the plan (`TakeEntry`, with the second `_skip_reason`), `shutil.rmtree` (`OpenTree`, then `UnlinkFile` one by one,
then `RemoveDir`), `Reseal` with the verification after a failure,
`write_artifact_index` as hash-then-publish. `shutil.rmtree` is external and modelled as Python implements it on Linux: it refuses a root that is a link
when it opens it, works through the descriptor from then on, and does not know mounts. A name may be a directory, symlink,
mount or gap; file contents double as their hashes. A `setting`, chosen at the start
from the constant `Settings`, says who cleans, with which options, over which entries,
and within which bounds; several operators interleave freely. `Edit` is
somebody else changing a file or, between any two steps, also of the deletion, swapping a checkpoint for a link or a mount; in settings that are
not `concurrent` only while nobody cleans, which is the use README.md
describes. The root adapter is edited but never removed. Report formatting, dry
runs and logging are left out.

### TelemetrySession

The session (`session.py`), the Trainer callback (`callback.py`), the window
(`window.py`) and the marker file (`markers.py`) around a Trainer that is external:
it calls the hooks in order and may raise, be interrupted or reach its last
step. `Init` covers the files an earlier run of the same name left; that is
why a kill is not an action (what it leaves is a next run's initial state).
Clock readings are a counter that may stall. `profiler_error`, overhead figures,
the environment overlay and request parsing are left out. Python's
`KeyboardInterrupt` may arrive at any step.

### TrainingRun

`pc` walks one `train-qlora` from `resolve_resume_checkpoint` over the saves of
the Trainer to the three writes of `_finalize_training_run`; `epc` walks one
`export-final-model` beside it. A training ends anywhere (`StopTraining` is a
kill or an exception; both leave the directory as it is), and the next one, with
its own recipe and resume mode, finds what it left.

| state | code |
|---|---|
| `tree[s]`, `adapter`, `index` | `checkpoint-s`, the adapter and `artifact_index.json` at the run root |
| `manifest` | `runs/<run_name>/manifest.json` |
| `merged` | `merged/<run_name>` with the index in it |
| `config`, `step`, `lineage` | the recipe and resume mode, `global_step`, what trained the weights in memory |
| `export` | source, producer provenance and loaded weights of the export |

Weights are identified by the recipes that trained them and the training that
wrote them last: equal stands for an equal hash. The Trainer is external: it
opens and completes each file in place, trainer state last, and afterwards
rotates checkpoints out, any but the one just saved, file after file. A quarantine is one
move (`CheckpointHarness` has its steps); hashing and publishing an index is one
step, as trainings of one run do not overlap. `allow_unsafe_serialization` is
FALSE. Model loading, preflight, the CPU scoring patch and telemetry are
left out.

### SplitAssignment, SplitSnapshot, AtomicPublication

`SplitAssignment` is `split_materialize.py` without its files: strict decoding and identity of a
line, the union-find of `_atomic_components` (path lookup and joins in the code's order), the
anchor and the salted bucket of a component, and the leakage audit. A digest is the value it
digests, so that equal digests mean equal contents. `ConnectedComponents` is the reference the
union-find is compared with.

| `SplitSnapshot` state | code |
|---|---|
| `source`, `versions` | the live source, its stat identity, every content it has had |
| `makers[p]` | one `materialize_split`: its copy of the source, its staging directory, its outcome |
| `dest` | the published manifest and artifacts |
| `reader` | one `validate_split_manifest` (with or without source), `load_frozen_dataset`, or `write_token_statistics` |
| `tokenizer`, `sidecar` | the tokenizer's state and the published token statistics |

A file is read in two chunks. A loud edit changes the stat identity, a silent one rewrites the
bytes under an unchanged identity, which `_source_snapshot.py` expects of overlay file systems
and answers with a second hash of the live file; the size is part of that identity, so a silent edit
keeps it. `Tamper` edits, re-encodes, relabels or moves what was published, or puts a blank line into it, which
readers skip. `Free` is a destination nobody has made. Sorting by id is `InOrder`, which gives every element of a finite
set the place the number of smaller keys gives it. The refinement is stated in the module: `Publication` is
`INSTANCE AtomicPublication` with `dest` as the cell, the contents the source has had as the
inputs offered, and `Materialized` as the output; `PublishesAtomically == Publication!Spec`.
It says that what appears is the materialization of one content and never a mixture of two.

Abstracted: JSON canonicalization (a line is canonical or not), the legacy v1 content policy, report
wording, edits that replace a file by rename (each is a loud edit here).

### PairedScoring, ArtifactBundle, HeldOutEval

`PairedScoring` has `extract_fenced_code` line by line, the three scorers' verdicts (whether the
doctest one exists and is positive are parameters, see `DoctestRun`), the metrics and the comparison, with a fraction as a pair.
`ArtifactBundle` has the rules by which an index, a configuration and safetensors files are
an adapter or a merged model of the contracted training, and beside them what PEFT and Transformers
do with a directory (marked external in the map), so that the two can be compared.

`HeldOutEval` walks one command through `run.pc`: `paired` and `g0` evaluate, `contract` and `pin`
write a contract and validate it later. `verified_artifact_snapshot` is scan, one step per entry,
index read, copy file by file, recheck, layout; `generate` binds the split, iterates its rows and
generates arm by arm; the bundle is staged and renamed. `Rescoring` reads the two generation files one
after the other. `EditArtifact`, `ReplaceSplit`, `TakeDestination` and `EditBundle` are everybody else.

What a reader may not expect: the destination is looked at when the bundle is staged and by the rename, and never
before the arms have generated; `_artifact_root` is
lexical, so an output inside the artifact is a field of the scenario; in a `g0` evaluation the contract's own
task digest replaces the one given on the command line; `verified_adapter_source` is called by nothing
in the package and is left out.

### DoctestRun

Parent (`_doctest_runner.py`, `score.py`) and worker (`_doctest_worker.py`) interleave. `worker` is the location in
the worker: setting up fence by fence (fork and exec revoked, extension loaders, `os`, cached modules),
opening the result file, installing the audit hook, compiling, loading, finding tests, running them, checking the
harness, publishing. The deadline may pass at any of these. The candidate is arbitrary: at each step it may
raise, hang, die, rebind the harness, or make any call. A call is what the fences can tell
apart (path inside or outside, through a descriptor, writing or not; a module denied, nested or opaque), and
goes through unless a fence that is *already up* denies it; `reach` remembers what went through.

Frames, the garbage collector and leftover threads, which the code excludes by its own means, are not used against it.
Windows and the wording of messages are left out.

### MixtureAllocation, Mixture

`MixtureAllocation` is `mixture_allocate.py` (largest-remainder quotas, groups in digest order, whole
groups only) with the grouping of `mixture_compose.py`; `SelectionDigest` is a parameter. Where the code sorts, the model says what a place in the
order means: `Ahead` are the sources that get a leftover token before a given one, `Leftover` the tokens there are.
`Mixture` composes the specifications of a scenario one after the other. `Start`, `ReadManifest`,
`ReadStatistics`, `ReadLedger`, `ReadRows` are `load_source`, each a reading of its own between
which `ReplaceInput` may replace any file; `Compose` is isolation, quotas, selection and the manifest
schema; `Publish` the rename. A reserved list is the whole selection of an earlier mixture. The code compares
ledger and statistics by their totals and bounds, so a ledger with its lengths at the wrong members
passes; the instance contains one.

## 3. Runs

| run | instance | shows |
|---|---|---|
| `CheckpointHarness_recovery` | 2 steps, each possibly occupied by a pickled tree or one without optimizer; 2 processes, any fault, 1 kill, 1 OSError, 1 foreign write (3.0 M states) | atomic publication, nothing lost, the resume point never older, reports true |
| `CheckpointHarness_resume` | 3 steps, saving at 2, whole or non-equivalent trees; resumed twice, 1 kill, 1 OSError | an undisturbed run fails for two known reasons only; every run ends |
| `CleanupRun_sealed` | 3 names; settings `Sealed` (1 operator, 2 cleanups, 1 kill, 1 OSError, 1 edit), `Overlap` (2 operators, 1 OSError), `Keep` (every mixture of entries and weights, keep 0 to 2, 1 edit during the cleanup) (3.4 M states) | index honesty, recoverability, keep boundary, links, clean reports |
| `TelemetrySession_run` | 2 steps, fresh or resumed at 1 or 2, every window shape, 2 failing calls, 1 Ctrl-C | references, summary and manifest say what happened |
| `TrainingRun_lifecycle` | 2 steps, saved each, at most 1 kept; 3 trainings of 2 recipes in any mode, 1 export, 2 stops | verified seals are true, resumed checkpoints whole, reports kept |
| `SplitSnapshot_frozen` | 2 materializers over 17 five-row sources with every relation and refusal, 2 hashes, 2 source edits; one reader, 1 change of snapshot or tokenizer (538 000 states) | the refinement, the partition, true verdicts, true sidecars |
| `SplitSnapshot_loose` | a source with one line that is not canonical | **violated**: it is materialized, and its snapshot cannot be loaded |
| `HeldOutEval_paired` | 46 scenarios: 25 bundle layouts, answers of several formats, edits of artifact, split, destination and result; 2 edits, 2 post-hoc scorings | acceptance, loading, scoring, comparison and pins |
| `HeldOutEval_weights` | an artifact rewritten after its verification | **violated**: other weights are evaluated than the contract names |
| `DoctestRun_score` | 5 references over 2 pairs, candidates of up to 2 examples, 1 failing system call, any call, any delay | the verdict is earned, final and always returned; the fences hold |
| `DoctestRun_slow_start` | the same | **violated**: a worker too slow to start makes its candidate incorrect |
| `Mixture_budget` | up to 3 sources, budgets 1 to 26, 4 weightings, 3 salts, two arms, 2 replacements (10 307 states) | quotas, selection, isolation and pins |

**Why the bounds are enough.** *Recovery*: an older and a newer
checkpoint are two steps; with a third step that is not a save step the final
save differs from the last step. Two processes are one that is
disturbed and one that finds what it left; in the safety run each of them can
meet the kill or the OSError, and a fault *and* an OSError in the same handler
are reached. *Cleanup*: names on both sides of the keep boundary and one on it; a kill, an error
and an edit in one behaviour cover the pairs. *Telemetry*: two steps give a window before, at, inside and beyond the
run; two failures make a retry fail too.
*Training*: a stale seal needs two trainings and a stop; a third is the one that resumes or
overwrites what the second left, over two names one of which is always rotated out.
*Doctests*: two examples are one that passes and one dropped, doubled or failed; longer candidates repeat
them (and the theorems have no bound). *Evaluation*: two edits are one that changes and one that changes back,
which is what a check-then-use must survive; two scorings are the contract's version and another one.
*Mixtures*: the smallest cases of every tie, and two replacements between the four readings of a source.

**Bounds that matter for what is claimed.** With three silent edits, A to B to A to B under one stat identity and
each in its own chunk, a copy of the source could be a mixture whose second hash agrees: the refinement is checked with
`MaxSourceEdits = 2`, and proved under `MaxSourceEdits \in 0..2`. Likewise a tokenizer that changes there and
back within one count would make `SidecarIsTrue` fail: `MaxTampers = 1` in the run, `MaxTampers \in 0..1` in the theorem.
Two more theorems carry the first bound because they follow from the refinement: `OneMakerPublishes`, and `RelatedRecordsStayTogether` of the splits (what is published is
the materialization of one content). No other theorem has a bound; what the other readers are told is proved for any number of edits. A silent edit is the fault the code
guards against, not one it excludes.

`CHECK_DEADLOCK FALSE` is set in every configuration because each system stops: the bounded number of processes
has returned. TLC checks the safety properties under that, so a handler that cannot go on would show as a
behaviour that ends early; `RunEnds` and `ScoreIsReturned` exclude it where a process must return.

**Fairness.** `WF_vars(Process)` in the harness, `WF_vars(Parent)` in the doctest scorer: a live process is
scheduled, and the clock of a deadline advances. No fairness is given to kills, errors,
edits, foreign writers, to the doctest worker (a candidate may hang) or to a re-run: nothing promises that an operator
starts the command again. Liveness is claimed only for a process that runs.

**Exceptions in properties.** Five properties except a case for which the code fails, so that they can say something about
all others: `UndisturbedRunsComplete` (`TornExport`), `SealIsHonest` (settings with edits during a
cleanup), `SummaryIsTrue` (interrupted runs may claim less), `UntouchedIsAccepted` (sources with blank lines; lines
not canonical when there is no source), `SkippedIsUntouched` (a swap too late for the deletion under way to notice, `late`).
Without the exception TLC finds each violated; the cases are findings 1, 4, 5, 12 and 13 below and, for the last, the mount under "Also seen".

## 4. Proofs

45 theorems in 8 modules. Each rests on named assumptions about the constants only (in four of them the bounds of section 3; in
`UndisturbedComplete`, that every run resumes, which is what its run checks), and on an
inductive invariant:

**CheckpointHarness.** `TypeCorrect` (`Spec => []TypeOK`) needs more than types. `TypeOK` is not
inductive: `run[step]` is a tree only if `step` is a step at the locations that use it,
`staging[mine]` is a directory only after `mkdtemp`, and `quarantine_tree` moves something only
if its arguments still name something. `TypeInv == TypeOK /\ Located` states these for
each location; the lemmas `MoveOn`, `CallOn`, `OpenStagingType` and `FillStaging`
are the building blocks of the actions, and one step per action does the rest.
The four safety theorems rest on `SafeInv`, which adds what the publisher
knows at each location: past the admission check the staged tree is complete and
resumable; a published name was free and the tree in it is the staged one; a tree
on its way into the quarantine was rejected by the rule its job names; every
quarantined entry has its reason. From it:

* `PublicationIsAtomic`: `[]PublishedIsWhole`;
* `QuarantineExplained`: `[]QuarantineIsExplained`;
* `NoCheckpointIsLost`: `LeavesOnlyByQuarantine`, an action property; only `RenameNoReplace`,
  `WriteReason`, `MoveTree` and `ForeignWrite` touch `run`;
* `ResumePointIsKept`: `ResumePointNeverRegresses`. A skipped tree leaves
  only while an older equivalent one stays, and complete ones do not leave at all.

Two theorems are about what a run reports. `ReportInv` adds to `SafeInv` what is known on the way to a return, which is far from
it in the code: `Mood` relates the location, what is being unwound to (`ctx`), whether an exception is in flight and the outcome; `Exported`
and `Told` say from where on the adapter is at the run root and the evidence names the step that would be resumed from; `Covered` counts the save steps the
loop has left behind, each of which has an equivalent checkpoint at it or beyond. `CalmInv` adds, for a run nobody disturbs, that no newer
checkpoint stands in the way of a save, what it stages passes the admission check, and the adapter is not exported yet.

* `ReportsAreTrue`: `[]ReportIsTrue`. The attempt to prove an earlier form of the property, that a completed run can be resumed from its *last save step*, showed that it
  is false: a checkpoint that a run with another save interval left beyond that step is resumed from, and the step is never saved. Hence the form it has;
* `UndisturbedComplete`: `[]UndisturbedRunsComplete`.

They hold for every number of steps, save interval, set of foreign trees and bound. `LatestExists` (a
non-empty set of steps has a newest one) is proved from the well-foundedness of the naturals.

**CleanupRun**, for every set of checkpoint names and steps, any operators, options and bounds, any number of kills, failures and edits:

* `PlanInv`: every entry of a plan is to be done, being deleted, gone or reported as failed; what was removed stays removed; the provenance in
  an invocation's memory is that of the index. `HonestInv` follows what was verified: up to the last deletion about
  everything that is *not* in the plan, from the reseal on about everything on disk, then about the hashes in memory. It lasts
  under overlapping cleanups because they only ever remove files. Theorem `SealStaysHonest`.
* `RecoverInv`: past the guard an invocation goes on only while the run is recoverable or `--force` was given, and no step of a cleanup or an edit takes
  adapter, merged model or provenance away. Theorem `DeletedRunsAreRecoverable`.
* `LinksAreSpared`: a link or a mount is never removed, and what is behind it is not deleted, whenever it took the checkpoint's place, up to
  the moment `rmtree` opens the entry. `LinkInv` says how a deletion can be behind one at all: the second `_skip_reason` lets none through and `rmtree`'s open no link, so
  only by a swap that the history variable `late` has recorded. Two kinds are: a mount between the look (`cleanup_run.py:513`) and `rmtree`'s open (`:518`), into which
  `rmtree` goes, and a directory moved away and linked back once open, whose own files, the ones that were looked at, it goes on to delete. The property
  excepts exactly the deletion that is overtaken, and that one only until it fails.
* `CleanReportsAreTrue`, from `AloneInv`: who has the run for itself publishes the hashes of what is still there.
* `NewestAreSpared`, from `KeepInv`: nothing becomes valid after the report, so all that is valid when the plan is made is keepable; for who has the run for
  itself nothing stops being valid either. `KeepSetsKeep` (as many as there are slots, or all, and the newest) needs `Names` to be finite. The proof showed that
  the property, without its clause about `outdated`, is false: see the end of section 5.

**TrainingRun**, for every set of recipes, number of steps, save interval, rotation limit and bound:

* `SealInv`: from the save of the adapter to its index the weights are this training's own, or a pickle
  stops it; what an index was written for is true of the adapter *in the index*, so an adapter written since can
  only make it fail to verify; between index and manifest nothing is written below the directory;
  an export seals what it loaded. Theorems `SealsAreTrue`, `MergedSealsAreTrue`, `CompletedTrainingIsSealed`.
* `ResumeInv` follows the newest complete checkpoint: a save in place makes it last of all (its trainer state
  is the last file), a rotation spares it, a quarantine leaves it, the resolution finds it. Half-rotated
  checkpoints without optimizer may lie below it, which is why the invariant is about the newest only. Theorems
  `ResumedCheckpointsAreWhole`, `LatestNeverSavesOver`, `ReadyIsResumed`.

**DoctestRun**, for every reference, number of examples and number of faults. None of the properties is
inductive: that a verdict was earned depends on how far the worker was when its result was written, that the candidate
stays inside on which fences are up where it runs. `ScoreInv` says per location of the worker what parent, file and
faults may be (`WorkerInv`), which fences are up and that nothing got out (`FenceInv`), what the result in memory and on
disk means (`ResultInv`), and what was read from it (`VerdictInv`). Theorems `CorrectIsEarned`, `InvalidWithoutCandidate`,
`CandidateIsFenced`, `ScoreIsFinal`.

**Mixture**, for every specification, input, tokenizer, digest and number of replacements.

* `PinInv` says what the composition
  holds *in memory* at each location, because what lies on disk may have been replaced: a loaded source's statistics
  and ledger are of its manifest, the ledger has an entry for exactly the records of the consumed split, and what is staged at
  `Publish` was composed of such sources, with one tokenizer. Theorem `PinsAreOfOneSnapshot`.
* `MixtureInv == WorldHolds /\ DiskHolds /\ IsRun(run) /\ LoadHolds /\ PromisesHold` says the rest: specifications and inputs are as
  assumed; whatever lies on disk is one of the inputs; every source loaded so far has a validated snapshot and a ledger with one
  entry per record; what is published, and what is staged, keeps the promise. One lemma per action. `Compose` is the one that matters:
  the state has no share in the three properties, they are about what one step computes. Theorems
  `BudgetsAreSpent`, `RelatedRecordsAreSelectedTogether`, `SelectionsStayIsolated`.
* *Budget.* A share is a quotient and a remainder; the quotients leave fewer tokens than there are sources with a
  remainder, so `Ahead` gives them out one to a source, to the larger remainder first, and never to a source whose share is whole. Sums over
  sources are counted as sets of units, which makes their laws facts about cardinality. The selection is a fold over groups; `Accounts` says after each what was
  accepted, what is left, and that every group that was passed over did not fit into what was left then, hence not now.
* *Groups.* `AtomicGroups` are the connected components, by the union-find theorem of the splits; a group is accepted or excluded as one, so related
  records are chosen together (`Chosen`). Distinct groups have distinct digests by `DigestsTellNames`, so each has a place of its own in the selection order.
* *Isolation* holds because `Compose` refuses sources whose identities meet (`Isolated`) and a selection that meets a reserved one (`Unreserved`).
  A reserved list is the selection of an earlier destination, which does not change once the composition has gone past it, and a destination
  with a higher number is still empty (`PromisesHold`).

The assumptions say what the inputs are: `ScenariosAreTyped` (records, weights and token counts have their types, ids of a ledger are unique), `DigestsTellNames` (no two names of a
source have the same SHA-256 selection digest; on such a tie the code would order by the names), `NothingIsNothing`.

**TelemetrySession**, for any number of steps, window, request, failing calls and Ctrl-C, over any files an earlier run left. The invariant has
fifteen parts: where the control is and which call it returns to; that no clock reading is newer than now and the stamps of one window
are in order; where the loop stands when a step's markers are written (`PlaceInv`: all steps before the window's first have theirs when it opens, none after it); that a step's
markers refer to the window exactly if the step is one of it and the window was opened, which for its beginning is the same as lying in it (`RefInv`); what the open window captured; which files on disk are this session's own and since
when; what the pending and the written summary say; that the manifest publishes nothing else. Theorems `ReferencesAreHonest`,
`SummariesAreTrue`, `ManifestIsOwn`.

**HeldOutEval**, for every scenario and number of edits. Everything hangs on stamps: every edit of the artifact changes one, so two equal scans with
the copy between them mean that nothing changed meanwhile, and the copy is the artifact at one moment (`ScanInv`, `CopyInv`,
`RescanInv`, `AcceptedInv`). `ArmInv` says what each arm has generated for which contract, `DestInv` what a published bundle's files mean
together, `PostInv` what a post-hoc scoring has read of it when, `PinInv` what a pin was read from. Theorems `AcceptedWasWhole`, `AcceptedLoads`,
`ComparisonsAreTrue`, `RescoresCover`, `PinsAreOneManifest`. `FormattingIsImmaterial` is about the fence scanner alone, for answers of any length: it follows the scanner's state
along the lines of a reply, an inner fence cannot close a longer one, and what comes after the closing line is not looked at. It needs `MissingIsNoText` (`None` in Python is not a string).

**SplitSnapshot**, for all sources, hashes, makers and tokenizers:

* `ReaderInv` says at each location of the reader what it may rely on: the schema of the manifest, the artifacts it has left behind, the copied source, that a
  load or a count begins with a manifest validated in full, that a bound manifest is the one the generator reads again. Nothing in it
  speaks of what is on disk, which may change at any moment. Theorem `ReaderIsAsFarAsItBelieves`; with the lemmas about operators (members of a readable
  source have distinct ids; listing a finite set by distinct keys repeats nothing; members with the ids the assignment gives, all of them the source's own, are
  the assignment's) it gives `LoadersGetTrain` and `SourceVerdicts`, for any number of edits.
* `CountHeld`: each count so far is under the tokenizer first derived or the present one. `SidecarsAreTrue`.
* `CopyInv` says what a copy of an edited source may hold at each of its steps: a mixture needs one edit before its second half is read, and the second hash agrees with it only
  after two more, by `SamePrefix` (equal first halves have equal lengths). So the source a maker stages is one it has had, and every step maps to a step of
  `AtomicPublication`: `MaterializationsPublishAtomically`. That at most one wins follows from the abstract
  specification alone (the lemma `OneWinnerHolds`, from `WinnerInv`: a cell that is filled stays filled); with the refinement it gives `OneMakerPublishes`, which is about the code.
* `ComponentsAreConnected`: for every list of members, the union-find of `_atomic_components` finds exactly the connected components. A
  number falls along every parent pointer, so a lookup ends; halving a path keeps its root; a join puts together the two trees and nothing else; after the last key, two members
  are in one tree exactly if a chain of shared keys leads from one to the other. That and the refinement give `RelatedRecordsStayTogether`.
* `UntouchedAreAccepted` is about sources without blank lines and, for a reader without the source, with canonical lines (others are refused: findings 12 and 13), where copies
  can be staged and the tokenizer's provenance derived; for all such sources and every hash. It rests on `CalmInv`: while nobody has edited anything, copies are the source, what is published is its materialization, and a reader of it has matched so far
  what it read. What takes the work is that a validation recomputes the ownership of the members from the artifacts, which list them in another order than the source does: a
  component's anchor and so its split do not depend on the order (`ComponentsAreConnected` again), and the minimum, maximum and quantiles of the counts lie between the bounds the schema asks for
  (`LengthsAreNumbers`).

**Recursion.** The models recurse over numbers, sets, paths in the forest and lists by recursive functions and folds. The
induction theorems of the library take an operator as a parameter, which the installed provers cannot instantiate. For each recursive
function the proofs therefore show, from the well-foundedness of its order, that a function satisfying the recursive equation exists, so that the equation can
be used; and prove what it computes by taking a least counterexample, which needs no operator parameter. A fold over a
list is unrolled the same way, one element at a time.

Model-checked only: liveness (`RunEnds`, `ScoreIsReturned`), which is out of the prover's reach. Every safety property of a passing run is
a theorem.

## 5. Findings

Three have a run of their own. For the others the property that meets the case excepts it (section 3), or they were read from
the code while modelling it.

1. **A torn export never heals** (`train/fault_harness_export.py:23`).
   `_publish_run_root_adapter` renames two files and returns the
   list of what it renamed; the caller extends its own list only after that
   return, so the rollback is always given an empty list. A failure or a kill between the renames
   leaves `adapter_config.json` at the run root, and every later export refuses the
   occupied name.
2. **A half-written snapshot occupies a keep slot** (`cleanup_run.py:101`):
   the keep set uses the structural rule, README.md promises otherwise.
3. **A killed cleanup is never repaired** (`cleanup_run.py:560`).
   The next invocation has nothing to delete and so does not reseal.
4. **An edit during cleanup is sealed** (`cleanup_run.py:541`): verification and the
   new hashes are two passes over the tree.
5. **Ctrl-C can lose the last captured step** (`telemetry/callback.py:221`).
6. **A resumed run that fails early marks step 0** (`telemetry/callback.py:33`): `run_failed`
   takes the step from callback state that only `on_step_end` sets.
7. **An export can seal new weights under an old recipe**
   (`artifacts/producer_provenance.py:48`). The check compares the sealed
   provenance with the one read before, never the index with the adapter beside
   it: between `save_pretrained` and `write_artifact_index` of a second training, or after a
   stop there, the old index is found beside the new weights. `MergedIsTrue` is what holds: the adapter was sealed when loaded.
8. **Another recipe's checkpoint is resumed** (`train/checkpoints.py:367`) and the
   result is sealed with the new train split alone. `SealIsTrue` says what is left: the
   named recipe took part, and it was the only one if nothing like this happened (`crossed`).
9. **A run without a final adapter cannot be exported** (`_cli_export.py:138`), because
   nothing seals a checkpoint, although `run-status` reports it ready.
10. **`run-status` and training disagree** (`run_status.py:150`) about the resume
   checkpoint whenever the newest one is truncated or malformed. `ReadyMeansResumed` is what holds:
   they agree if the report says ready.
11. **A worker that is slow to start makes its candidate incorrect** (`eval/_doctest_runner.py:226`,
   `DoctestRun_slow_start`): a timeout does not look whether the worker had started.
12. **A snapshot of a loose source cannot be loaded** (`split_validation.py:213`, `SplitSnapshot_loose`). One line that is not
   canonical JSON is materialized without complaint; without the source the recorded digest of the raw line is compared with
   the digest of its canonical re-encoding.
13. **A source with a blank line gives a snapshot nobody accepts** (`split_validation.py:239`): lines are numbered
   physically, and a coordinate above the number of records is refused.
14. **The weights evaluated are not the weights verified** (`eval/harness.py:276`, `HeldOutEval_weights`): the verified copy is
   deleted before the SFT arm loads the live directory.
15. **The rows evaluated are not compared with the digest reported** (`eval/harness.py:249`): digests are compared in one
   validation, rows are taken from another, and only their ids are matched.
16. **Arms of an experiment are not compared** (`mixture_identity.py:116`): all observations of a composition have the one arm
   of its specification; arms are apart only as far as the author copies identities into the reserved lists, and the report
   states isolation in any case.

Also seen, not claimed as findings: a mount that comes over a checkpoint between the second `_skip_reason` (`cleanup_run.py:513`) and `shutil.rmtree` (`:518`) is
emptied, since `rmtree` itself does not know mounts (`late` in `SkippedIsUntouched`); the plan of a cleanup takes the valid steps from the report and the entries from a later listing
(`cleanup_run.py:227`, `:238`), so a checkpoint that an overlapping cleanup has half deleted in between takes a keep slot, and with `--keep-latest 1`
the last whole one goes (`outdated` in `KeepsTheNewest`); the index is rewritten although every
deletion failed (`cleanup_run.py:560`), and a training that passes over newer
checkpoints (fresh, or resumed by path) saves over them in place; killed there, new weights
lie under an old trainer state and pass every rule (`branched` in `ResumedIsWhole`).

## 6. Plan

Order of work, most important behaviour first. Done: recovery, cleanup, telemetry, trainings; then the abstract
publication with the splits that refine it, the evaluation with its artifact snapshot, the doctest scorer, and mixtures.
What is left, in order:

1. The publication of recovery and of evaluation bundles as further refinements of `AtomicPublication`; probe-then-rename
   on file systems without `RENAME_NOREPLACE` needs a weaker promise than the one stated.
2. Overlapping trainings of one run directory, which nothing in the code prevents.
3. A composition of `TrainingRun` and `HeldOutEval`: a training that rewrites the adapter of a running evaluation, in place
   of the edits that stand for it now.

Runs are kept few: one safety run per module, a second one only where liveness or
another instance asks another question, and a violated run only for a finding that
needs a behaviour to be believed.

## 7. Not modelled

* **Run-status validators** (`_run_status_*.py`): byte and JSON validation of one file each, without state; only their verdicts
  reach the models, as fields of a tree.
* **Telemetry probes, joins and profiler summaries**: stateless aggregation of finished records.
* **Release verification**: a pure function of published files, schema checks and digest comparisons in a fixed order.
* **Chat provider**: one synchronous request without retries; a half-read stream is one record that its caller drops.
* **Command line**: parsing, logging and exit codes. What decides the kind of an artifact and when its index is read is part of
  `HeldOutEval`, the provenance an export reads part of `TrainingRun`.
* **Model, data and environment helpers**: thin layers over Transformers, PEFT and torch, and stateless helpers.
* **Durability across power loss**: a process can die anywhere, the machine does not; `fsync` is a call that may fail.
* **The content of prompts, payloads and reports**, beyond what a digest or a scorer tells apart.
