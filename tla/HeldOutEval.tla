---------------------------- MODULE HeldOutEval ----------------------------
(***************************************************************************)
(* A held-out evaluation (eval/harness.py, eval/contract.py,               *)
(* eval/experiment_contract.py, eval/_artifact_snapshot.py,                *)
(* eval/_descriptor_bundle.py, eval/generate.py, eval/bundle.py,           *)
(* _cli_eval.py) and post-hoc scorings of what it published                *)
(* (eval/rescore.py), while other processes rewrite the SFT artifact,      *)
(* replace the frozen split, take the destination or edit the bundle.      *)
(*                                                                         *)
(* The process runs one of the commands that share these steps: "paired"   *)
(* and "g0" evaluate, "contract" writes a paired contract and validates it *)
(* later, and "pin" writes an experiment contract and validates it later.  *)
(* Every write of a file changes its stat identity, and adding or removing *)
(* one that of its directory; a file is then read in one step, for a write *)
(* during the read is refused by the descriptor's two identities.          *)
(***************************************************************************)
EXTENDS ArtifactBundle, PairedScoring

CONSTANTS
    Scenarios,     \* what a behaviour starts with; see ScenariosAreTyped
    Link,          \* the content of a symlink or other irregular entry
    Removed,       \* an edit that removes a file
    MaxEdits,      \* bound: edits of the artifact and of the split
    MaxRescores    \* bound: post-hoc scorings

VARIABLES
    scenario,    \* this behaviour's scenario; it never changes
    artifact,    \* [files, stamps, dir]: the live SFT bundle
    split,       \* the live frozen split snapshot
    run,         \* the process's local state
    dest,        \* Free, Taken, or what is at the destination
    rescorer,    \* a post-hoc scoring's local state
    posts,       \* [versions written -> their comparison file]
    edits        \* edits so far

vars == <<scenario, artifact, split, run, dest, rescorer, posts, edits>>

\* A fence longer than any in a text, and its opening line with an info string.
LongFence == [mark |-> "backtick", run |-> 9, info |-> FALSE, word |-> ""]
OpeningFence == [LongFence EXCEPT !.info = TRUE]
LongFences == {OpeningFence, LongFence}

\* The texts of a scenario, see PairedScoring: what a model can answer, and what
\* the rows with a completion boundary expect.
TextsOf(s) ==
    LET rows == UNION {Range(snapshot.rows) : snapshot \in {s.split} \cup s.splits}
    IN  s.texts \cup {row.expected : row \in {r \in rows : r.bounded}}

LinesOf(s) == UNION {Range(text) : text \in TextsOf(s)}

\* command, artifact files (a function on finitely many paths), split, version
\* and policy of the contract, texts a model can answer with, edits and splits
\* (with sequences of rows) editors can write, and whether the output directory
\* is inside the artifact, gets taken, or gets edited.
ASSUME ScenariosAreTyped ==
    \A s \in Scenarios :
        /\ s.command \in {"paired", "g0", "contract", "pin"}
        /\ s.version \in Versions
        /\ s.policy \in {"reject", "mark_unsupported", "left", "right"}
        /\ s.inside \in BOOLEAN /\ s.taken \in BOOLEAN /\ s.tampering \in BOOLEAN
        /\ IsFiniteSet(DOMAIN s.files) /\ s.files = [path \in DOMAIN s.files |-> s.files[path]]
        /\ \A snapshot \in {s.split} \cup s.splits : snapshot.rows \in Seq(Range(snapshot.rows))
        /\ \A text \in TextsOf(s) : text \in Seq(Range(text))
        /\ \A line \in LinesOf(s) : line.run \in 0..(LongFence.run - 1)

ASSUME MissingIsNoText ==
    \A s \in Scenarios : Missing \notin Seq(LinesOf(s) \cup LongFences)

\* A frozen split [rows, train, valid]: its digest is itself, a row is
\* [id, prompt, expected, bounded, long].
TaskIds(snapshot) == [k \in 1..Len(snapshot.rows) |-> snapshot.rows[k].id]

NewRun ==
    [pc |-> CASE scenario.command = "pin" -> "pin" [] OTHER -> "tasks",
     tasks |-> None,      \* the CLI's task digest
     kind |-> None,       \* kind of the artifact
     index |-> None,      \* digest of its index
     contract |-> None,   \* the composed contract
     todo |-> <<>>,       \* entries a scan or copy has still to visit
     first |-> None,      \* the initial scan, [dir, entries]
     second |-> None,     \* the final one
     copied |-> <<>>,     \* the private copy, [path -> content]
     moment |-> None,     \* history: the live files when copying began
     prepared |-> <<>>,   \* the tasks both arms get
     base |-> <<>>,       \* the base arm's generations
     weights |-> None,    \* the model the SFT arm was loaded from
     sft |-> <<>>,        \* the SFT arm's generations
     written |-> FALSE,   \* the contract is on disk and is validated now
     accepted |-> FALSE]  \* a contract was composed or validated

\* The destination when nobody has made it, and when somebody else has.
Free == [kind |-> "free"]
Taken == [kind |-> "taken"]

NewRescorer == [pc |-> "idle", version |-> None, base |-> <<>>, sft |-> <<>>, count |-> 0]

Init ==
    /\ scenario \in Scenarios
    /\ artifact = [files |-> scenario.files, dir |-> 0,
                   stamps |-> [path \in DOMAIN scenario.files |-> 0]]
    /\ split = scenario.split
    /\ run = NewRun
    /\ dest = Free
    /\ rescorer = NewRescorer
    /\ posts = <<>>
    /\ edits = 0

Fails == run' = [run EXCEPT !.pc = "failed"]

\* files with one more, or another, content at a path.
Put(path, content, files) ==
    [p \in {path} \cup DOMAIN files |-> IF p = path THEN content ELSE files[p]]

others == <<scenario, artifact, split, rescorer, posts, edits>>

-----------------------------------------------------------------------------
(* The command's inputs (_cli_eval.py) *)

\* _base_arm: validate the manifest and digest its task ids.
ReadTasks ==
    /\ run.pc = "tasks"
    /\ IF split.valid
       THEN run' = [run EXCEPT !.tasks = TaskIds(split),
                               !.pc = IF scenario.command = "g0" THEN "compose" ELSE "index"]
       ELSE Fails
    /\ UNCHANGED <<others, dest>>

\* _infer_artifact_kind.
KindOf(files) ==
    CASE AdapterConfigPath \in DOMAIN files -> "peft_adapter"
      [] MergedConfigPath \in DOMAIN files /\ AdapterConfigPath \notin DOMAIN files -> "merged_model"
      [] OTHER -> None

\* _evaluation_arms: the kind and the digest of the index pin the artifact.
PinIndex ==
    /\ run.pc = "index"
    /\ IF IndexPath \in DOMAIN artifact.files /\ KindOf(artifact.files) # None
       THEN run' = [run EXCEPT !.kind = KindOf(artifact.files),
                               !.index = artifact.files[IndexPath], !.pc = "compose"]
       ELSE Fails
    /\ UNCHANGED <<others, dest>>

-----------------------------------------------------------------------------
(* Composing a contract (eval/contract.py, eval/experiment_contract.py) *)

ContractOf(snapshot) ==
    [manifest |-> snapshot, heldOut |-> snapshot.rows, tasks |-> TaskIds(snapshot),
     index |-> run.index, kind |-> run.kind, version |-> scenario.version,
     policy |-> scenario.policy]

\* A paired contract is bound to one snapshot of the manifest; it must lie
\* outside the artifact, which is verified next.
ComposePaired ==
    /\ run.pc = "compose" /\ scenario.command # "g0"
    /\ IF split.valid /\ ~scenario.inside
       THEN run' = [run EXCEPT !.contract = ContractOf(split), !.pc = "scan"] ELSE Fails
    /\ UNCHANGED <<others, dest>>

\* A base-only contract takes the task digest of its own snapshot, not the one
\* the command computed.
ComposeBaseOnly ==
    /\ run.pc = "compose" /\ scenario.command = "g0"
    /\ IF split.valid /\ scenario.policy \in {"reject", "mark_unsupported"}
       THEN run' = [run EXCEPT !.contract = ContractOf(split), !.accepted = TRUE, !.pc = "bind"]
       ELSE Fails
    /\ UNCHANGED <<others, dest>>

-----------------------------------------------------------------------------
(* The private, verified copy of the artifact (eval/_artifact_snapshot.py) *)

\* scan_bundle starts: the directory's identity and the names in it.
Scan ==
    /\ run.pc \in {"scan", "rescan"}
    /\ LET scan == [dir |-> artifact.dir, entries |-> <<>>]
           names == SetToSeq(DOMAIN artifact.files)
       IN  IF run.pc = "scan"
           THEN run' = [run EXCEPT !.first = scan, !.todo = names, !.pc = "scanning"]
           ELSE run' = [run EXCEPT !.second = scan, !.todo = names, !.pc = "rescanning"]
    /\ UNCHANGED <<others, dest>>

\* The next entry's identity; a vanished entry or one that is no regular file
\* fails the scan.
ScanEntry ==
    /\ run.pc \in {"scanning", "rescanning"}
    /\ run.todo # <<>>
    /\ LET path == Head(run.todo)
       IN  IF path \notin DOMAIN artifact.files \/ artifact.files[path] = Link THEN Fails
           ELSE LET Seen(scan) == [scan EXCEPT !.entries = Put(path, artifact.stamps[path], @)]
                IN  IF run.pc = "scanning"
                    THEN run' = [run EXCEPT !.first = Seen(@), !.todo = Tail(@)]
                    ELSE run' = [run EXCEPT !.second = Seen(@), !.todo = Tail(@)]
    /\ UNCHANGED <<others, dest>>

\* The live index still has the pinned digest.
IndexIsPinned ==
    IndexPath \in DOMAIN artifact.files /\ artifact.files[IndexPath] = run.index

\* _read_verified_index, and the index names every scanned file and no other.
ReadIndex ==
    /\ run.pc = "scanning" /\ run.todo = <<>>
    /\ IF IndexIsPinned /\ IndexHolds(run.index)
              /\ CompleteIndex(DOMAIN run.first.entries, run.index)
       THEN run' = [run EXCEPT !.pc = "recheck"]
       ELSE Fails
    /\ UNCHANGED <<others, dest>>

\* _copy_snapshot re-reads the index before it copies the indexed files.
RecheckIndex ==
    /\ run.pc = "recheck"
    /\ IF IndexIsPinned
       THEN run' = [run EXCEPT !.pc = "copying", !.copied = <<>>, !.moment = artifact.files,
                               !.todo = [k \in 1..Len(run.index.entries) |-> run.index.entries[k][1]]]
       ELSE Fails
    /\ UNCHANGED <<others, dest>>

\* _copy_indexed_file: the copied bytes have the recorded size and digest.
CopyFile ==
    /\ run.pc = "copying" /\ run.todo # <<>>
    /\ LET path == Head(run.todo)
       IN  IF /\ path \in DOMAIN artifact.files /\ artifact.files[path] # Link
              /\ artifact.files[path] = Recorded(run.index, path)
           THEN run' = [run EXCEPT !.copied = Put(path, artifact.files[path], @),
                                   !.todo = Tail(@)]
           ELSE Fails
    /\ UNCHANGED <<others, dest>>

\* ArtifactValidationContext: what the artifact must have been trained on.
Context == [kind |-> run.kind, base |-> scenario.base, revision |-> scenario.revision,
            manifest |-> run.contract.manifest, train |-> run.contract.manifest.train]

\* Mutation: the bundle is not scanned again.
SkipsRescan ==
    /\ run.pc = "copying" /\ run.todo = <<>>
    /\ IF LayoutHolds(run.copied, run.index.provenance, Context)
       THEN run' = [run EXCEPT !.pc = "rescanning", !.second = run.first] ELSE Fails
    /\ UNCHANGED <<others, dest>>

\* The layout is judged on the copy.
CheckLayout ==
    /\ run.pc = "copying" /\ run.todo = <<>>
    /\ IF LayoutHolds(run.copied, run.index.provenance, Context)
       THEN run' = [run EXCEPT !.pc = "rescan"] ELSE Fails
    /\ UNCHANGED <<others, dest>>

\* _require_bundle_unchanged: the second scan equals the first.  Then the pair
\* must be comparable: the arms refer to the contract's own tasks, by distinct
\* ids, and share every other pinned field by construction.
Conclude ==
    /\ run.pc = "rescanning" /\ run.todo = <<>>
    /\ IF /\ run.second = run.first
          /\ IsInjective(run.contract.tasks)
          /\ run.tasks = run.contract.tasks
       THEN IF scenario.command = "paired" /\ scenario.policy \notin {"reject", "mark_unsupported"}
            THEN Fails
            ELSE run' = [run EXCEPT !.accepted = TRUE,
                                    !.pc = CASE scenario.command = "paired" -> "bind"
                                             [] run.written -> "validated"
                                             [] OTHER -> "write"]
       ELSE Fails
    /\ UNCHANGED <<others, dest>>

-----------------------------------------------------------------------------
(* A written contract and its later validation *)

\* build_evaluation_contract publishes without replacing.
WriteContract ==
    /\ run.pc = "write"
    /\ IF dest = Free
       THEN /\ dest' = [contract |-> run.contract]
            /\ run' = [run EXCEPT !.pc = "validate", !.written = TRUE, !.accepted = FALSE]
       ELSE Fails /\ UNCHANGED dest
    /\ UNCHANGED others

\* validate_evaluation_contract: the manifest's bytes and its held-out part are
\* the contract's, then the artifact is verified again, against the contract.
ValidateContract ==
    /\ run.pc = "validate"
    /\ IF /\ split = dest.contract.manifest /\ split.valid
          /\ split.rows = dest.contract.heldOut
          /\ TaskIds(split) = dest.contract.tasks
       THEN run' = [run EXCEPT !.pc = "scan"] ELSE Fails
    /\ UNCHANGED <<others, dest>>

\* split_pin_from_manifest validates one reading of the manifest and digests
\* another.
PinSplits ==
    /\ run.pc = "pin"
    /\ IF split.valid
       THEN run' = [run EXCEPT !.contract = [rows |-> split.rows, train |-> split.train],
                               !.pc = "pinDigest"]
       ELSE Fails
    /\ UNCHANGED <<others, dest>>

PinDigest ==
    /\ run.pc = "pinDigest"
    /\ IF dest = Free
       THEN /\ dest' = [contract |-> [manifest |-> split, rows |-> run.contract.rows,
                                 train |-> run.contract.train]]
            /\ run' = [run EXCEPT !.pc = "checkPin"]
       ELSE Fails /\ UNCHANGED dest
    /\ UNCHANGED others

\* Mutation: the digest of the manifest is checked, not those of its splits.
ChecksManifestOnly ==
    /\ run.pc = "checkPin"
    /\ IF split = dest.contract.manifest /\ split.valid
       THEN run' = [run EXCEPT !.pc = "pinned"] ELSE Fails
    /\ UNCHANGED <<others, dest>>

\* validate_experiment_contract: manifest digest, split digests and counts.
CheckPin ==
    /\ run.pc = "checkPin"
    /\ IF /\ split = dest.contract.manifest /\ split.valid
          /\ split.rows = dest.contract.rows /\ split.train = dest.contract.train
       THEN run' = [run EXCEPT !.pc = "pinned"] ELSE Fails
    /\ UNCHANGED <<others, dest>>

-----------------------------------------------------------------------------
(* Generation (eval/harness.py, eval/generate.py) *)

\* bind_frozen_split: the digests are the contract's.
Bind ==
    /\ run.pc = "bind"
    /\ IF split.valid /\ split = run.contract.manifest /\ split.rows = run.contract.heldOut
       THEN run' = [run EXCEPT !.pc = "iterate"] ELSE Fails
    /\ UNCHANGED <<others, dest>>

\* prepare_tasks and apply_context_window for one row: a row without a
\* completion boundary stays, as an invalid task; a prompt that is too long is
\* unsupported.
Prepared(row) ==
    IF ~row.bounded
    THEN [task |-> row.id, prompt |-> Missing, expected |-> Missing, status |-> "invalid"]
    ELSE [task |-> row.id, prompt |-> row.prompt, expected |-> row.expected,
          status |-> IF row.long THEN "unsupported" ELSE "ok"]

TooLong(rows) == \E k \in 1..Len(rows) : rows[k].bounded /\ rows[k].long

\* iter_frozen_records validates the manifest of this moment and yields its
\* rows; of these only the ids are compared with the contract.
Iterate ==
    /\ run.pc = "iterate"
    /\ IF /\ split.valid /\ TaskIds(split) = run.contract.tasks
          /\ ~(scenario.policy = "reject" /\ TooLong(split.rows))
       THEN run' = [run EXCEPT !.pc = "base",
                               !.prepared = [k \in 1..Len(split.rows) |-> Prepared(split.rows[k])]]
       ELSE Fails
    /\ UNCHANGED <<others, dest>>

\* generate_completions: a ready task gets the model's answer, another its
\* status.
Generations(answers) ==
    [k \in 1..Len(run.prepared) |->
        LET task == run.prepared[k]
        IN  [task |-> task.task, prompt |-> task.prompt, expected |-> task.expected,
             status |-> task.status,
             completion |-> IF task.status = "ok" THEN answers[k] ELSE Missing]]

Answers == [1..Len(run.prepared) -> scenario.texts]

GenerateBase ==
    /\ run.pc = "base"
    /\ \E answers \in Answers :
          run' = [run EXCEPT !.base = Generations(answers),
                             !.pc = IF scenario.command = "g0" THEN "publish" ELSE "load"]
    /\ UNCHANGED <<others, dest>>

\* _artifact_root and load_arm_model: the index must be there; the weights are
\* those of the live directory.
LoadSft ==
    /\ run.pc = "load"
    /\ LET files == artifact.files
       IN  IF /\ IndexPath \in DOMAIN files
              /\ \A path \in DOMAIN files : ~IsUnsafe(path) /\ files[path] # Link
              /\ Loadable(files, run.kind)
           THEN run' = [run EXCEPT !.weights = ModelOf(files, run.kind), !.pc = "sft"]
           ELSE Fails
    /\ UNCHANGED <<others, dest>>

GenerateSft ==
    /\ run.pc = "sft"
    /\ \E answers \in Answers : run' = [run EXCEPT !.sft = Generations(answers), !.pc = "publish"]
    /\ UNCHANGED <<others, dest>>

-----------------------------------------------------------------------------
(* Publication (eval/bundle.py, eval/g0_bundle.py) *)

\* Both arms scored and compared, as the files of one staged bundle.
ArmBundle(generations, version) ==
    [generations |-> generations, metrics |-> MetricsOf(ScoresOf(generations, version), version)]

PairedBundle ==
    LET version == run.contract.version
        base == ScoresOf(run.base, version)
        sft == ScoresOf(run.sft, version)
        comparison == ComparisonOf(base, sft, version)
    IN  [contract |-> run.contract, comparison |-> comparison,
         regressions |-> RegressionRows(comparison.pairs, base, sft),
         base |-> ArmBundle(run.base, version), sft |-> ArmBundle(run.sft, version),
         original |-> [base |-> run.base, sft |-> run.sft], weights |-> run.weights]

BaseBundle == [contract |-> run.contract, base |-> ArmBundle(run.base, run.contract.version)]

\* Every generated task is one of the contract, in its order.
GenerationsHold ==
    /\ TasksOf(run.base) = run.contract.tasks
    /\ scenario.command = "paired" => TasksOf(run.sft) = run.contract.tasks

\* The destination is looked at before staging, and renamed to without
\* replacing.
Stage ==
    /\ run.pc = "publish"
    /\ IF GenerationsHold /\ dest = Free THEN run' = [run EXCEPT !.pc = "rename"] ELSE Fails
    /\ UNCHANGED <<others, dest>>

Rename ==
    /\ run.pc = "rename"
    /\ IF dest = Free
       THEN /\ dest' = IF scenario.command = "g0" THEN BaseBundle ELSE PairedBundle
            /\ run' = [run EXCEPT !.pc = "done"]
       ELSE Fails /\ UNCHANGED dest
    /\ UNCHANGED others

-----------------------------------------------------------------------------
(* Post-hoc scoring (eval/rescore.py) *)

IsPaired(d) == "comparison" \in DOMAIN d

unscored == <<scenario, artifact, split, run, dest, edits>>

\* Each generations file is read once.
ReadGenerations(version) ==
    /\ rescorer.pc = "idle" /\ rescorer.count < MaxRescores
    /\ IsPaired(dest)
    /\ rescorer' = [rescorer EXCEPT !.pc = "read", !.version = version,
                                    !.base = dest.base.generations, !.count = @ + 1]
    /\ UNCHANGED <<unscored, posts>>

ReadSecond ==
    /\ rescorer.pc = "read"
    /\ rescorer' = [rescorer EXCEPT !.pc = "score", !.sft = dest.sft.generations]
    /\ UNCHANGED <<unscored, posts>>

\* Mutation: the arms must have as many tasks as the contract.
CountsTasks(generations) == Len(generations) = Len(dest.contract.tasks)

\* _require_contract_tasks: the sorted task ids are the contract's.
CoversContract(generations) ==
    \A task \in ToSet(TasksOf(generations)) \cup ToSet(dest.contract.tasks) :
        Cardinality({k \in 1..Len(generations) : generations[k].task = task})
            = Cardinality({k \in 1..Len(dest.contract.tasks) : dest.contract.tasks[k] = task})

\* Score what was read and publish the comparison, never over an existing one.
Rescore ==
    /\ rescorer.pc = "score"
    /\ LET version == rescorer.version
           base == ScoresOf(rescorer.base, version)
           sft == ScoresOf(rescorer.sft, version)
       IN  posts' = IF /\ CoversContract(rescorer.base) /\ CoversContract(rescorer.sft)
                       /\ Comparable(base, sft, version) /\ version \notin DOMAIN posts
                    THEN Put(version,
                             [comparison |-> ComparisonOf(base, sft, version),
                              base |-> rescorer.base, sft |-> rescorer.sft,
                              metrics |-> [base |-> MetricsOf(base, version),
                                           sft |-> MetricsOf(sft, version)]], posts)
                    ELSE posts
    /\ rescorer' = [NewRescorer EXCEPT !.count = rescorer.count]
    /\ UNCHANGED unscored

-----------------------------------------------------------------------------
(* Everybody else *)

quiet == <<scenario, run, rescorer, posts>>

\* A training, an export or a cleanup writes or removes a file of the artifact.
EditArtifact ==
    /\ edits < MaxEdits
    /\ \E edit \in scenario.edits :
          LET path == edit[1]
              isNew == path \notin DOMAIN artifact.files
          IN  IF edit[2] = Removed
              THEN /\ ~isNew
                   /\ artifact' = [files |-> Restrict(artifact.files, DOMAIN artifact.files \ {path}),
                                   stamps |-> Restrict(artifact.stamps, DOMAIN artifact.files \ {path}),
                                   dir |-> edits + 1]
              ELSE artifact' = [files |-> Put(path, edit[2], artifact.files),
                                stamps |-> Put(path, edits + 1, artifact.stamps),
                                dir |-> IF isNew THEN edits + 1 ELSE artifact.dir]
    /\ edits' = edits + 1
    /\ UNCHANGED <<quiet, split, dest>>

\* The frozen split is replaced by another under the same path.
ReplaceSplit ==
    /\ edits < MaxEdits
    /\ \E snapshot \in scenario.splits : split # snapshot /\ split' = snapshot
    /\ edits' = edits + 1
    /\ UNCHANGED <<quiet, artifact, dest>>

\* Another process makes the output directory.
TakeDestination ==
    /\ scenario.taken /\ dest = Free
    /\ dest' = Taken
    /\ UNCHANGED <<quiet, artifact, split, edits>>

\* The published generations are edited: a line dropped, doubled or moved.
EditBundle ==
    /\ scenario.tampering /\ IsPaired(dest) /\ edits < MaxEdits
    /\ \E arm \in Arms :
          LET lines == dest[arm].generations
          IN  /\ lines # <<>>
              /\ \E edited \in {Tail(lines), lines \o <<Head(lines)>>,
                                [k \in 1..Len(lines) |-> Head(lines)], Reverse(lines)} :
                    dest' = [dest EXCEPT ![arm].generations = edited]
    /\ edits' = edits + 1
    /\ UNCHANGED <<quiet, artifact, split>>

-----------------------------------------------------------------------------
Snapshotting == Scan \/ ScanEntry \/ ReadIndex \/ RecheckIndex \/ CopyFile \/ CheckLayout
Contracting == ReadTasks \/ PinIndex \/ ComposePaired \/ ComposeBaseOnly \/ Conclude
                   \/ WriteContract
                   \/ ValidateContract \/ PinSplits \/ PinDigest \/ CheckPin
Evaluating == Bind \/ Iterate \/ GenerateBase \/ LoadSft \/ GenerateSft \/ Stage \/ Rename
Rescoring == (\E version \in Versions : ReadGenerations(version)) \/ ReadSecond \/ Rescore
Editing == EditArtifact \/ ReplaceSplit \/ TakeDestination \/ EditBundle

Next == Snapshotting \/ Contracting \/ Evaluating \/ Rescoring \/ Editing

Spec == Init /\ [][Next]_vars

-----------------------------------------------------------------------------
(* Properties *)

\* An artifact is accepted only if, at one moment of the validation, the live
\* directory held exactly the pinned index and the files it names, with the
\* contents it names: whatever is rewritten, added or removed while the bundle
\* is scanned and copied, the validation did not piece together two states of it
\* (verified_artifact_snapshot).
AcceptedArtifactWasWhole ==
    run.accepted /\ run.copied # <<>> =>
        /\ run.moment = Put(IndexPath, run.index, run.copied)
        /\ \A path \in DOMAIN run.copied : Recorded(run.index, path) = run.copied[path]
        /\ run.index.provenance.manifest = run.contract.manifest

\* An accepted bundle loads as the model its configuration calls for: following
\* the bundle's own files, every tensor is found where the loader looks, in the
\* configured shape, and nowhere else (_require_artifact_layout).
AcceptedArtifactLoads ==
    run.accepted /\ run.copied # <<>> =>
        IF run.kind = "peft_adapter"
        THEN LET config == run.copied[AdapterConfigPath]
                 model == ModelOf(run.copied, run.kind)
             IN  SameSchema(model, config.tensors, FALSE) \/ SameSchema(model, config.embedded, FALSE)
        ELSE LET expected == ExpectedMerged(run.copied[MergedConfigPath])
             IN  \A tensor \in DOMAIN expected :
                    LET found == Holding(run.copied, run.kind, tensor)
                    IN  /\ Cardinality(found) = 1
                        /\ found = {path \in DOMAIN run.copied :
                                      IsSafetensors(path) /\ tensor \in DOMAIN run.copied[path].tensors}
                        /\ Loaded(run.copied, run.kind, tensor).shape = expected[tensor].shape

\* A comparison, pre-registered or post hoc, tells the difference between the
\* arms: over the tasks valid in both, the delta is improved minus regressed out
\* of all of them, and the conclusion has the sign of what happened; a
\* regression row exists exactly for a task the base solved and SFT did not.
TellsTheDifference(c) ==
    LET valid == c.improved + c.regressed + c.tied
    IN  /\ c.tasks = valid + c.invalid
        /\ c.delta = (IF valid = 0 THEN Missing ELSE <<c.improved - c.regressed, valid>>)
        /\ c.conclusion = "improved" => c.delta[1] > 0
        /\ c.conclusion = "regressed" => c.delta[1] < 0
        /\ c.conclusion = "null" => c.delta[1] = 0
        /\ c.conclusion = "mixed" => c.improved > 0 /\ c.regressed > 0
        /\ (c.conclusion = "inconclusive") = (valid = 0)

ComparisonIsTrue ==
    IsPaired(dest) =>
        /\ TellsTheDifference(dest.comparison)
        /\ \A version \in DOMAIN posts : TellsTheDifference(posts[version].comparison)
        /\ {row.task : row \in dest.regressions}
             = {task \in ToSet(dest.contract.tasks) :
                  \E k \in 1..Len(dest.comparison.pairs) :
                     /\ dest.comparison.pairs[k].task = task
                     /\ dest.comparison.pairs[k].base = "correct"
                     /\ dest.comparison.pairs[k].sft = "incorrect"}

\* Under exact-match-v2 a reply and the same reply wrapped in a fence longer than
\* any in it get one verdict, up to leading blank lines, whatever chatter follows;
\* and what v1 accepts v2 accepts, unless the reference is an empty block
\* (extract_fenced_code's documented contract).
Wrapped(text, chatter) ==
    <<OpeningFence>> \o text \o <<LongFence>> \o chatter

FormattingDoesNotMatter ==
    \A k \in 1..Len(run.base) :
        LET g == run.base[k]
            plain == [g EXCEPT !.completion = WithoutLeadingBlanks(@)]
        IN  ~Unscorable(g) =>
              /\ g.completion # <<>> /\ ~Opens(Head(plain.completion \o g.completion)) =>
                    \A chatter \in {<<>>, g.expected} :
                       Verdict([g EXCEPT !.completion = Wrapped(@, chatter)], "exact-match-v2")
                           = Verdict(plain, "exact-match-v2")
              /\ Verdict(g, "exact-match-v1") = "correct" =>
                    Verdict(g, "exact-match-v2") = "correct" \/ FencedCode(g.expected) = <<>>

\* A post-hoc comparison covers the contract's tasks, each once in both arms,
\* however the published lines were dropped, doubled or moved meanwhile; and
\* where it scored the original lines with the contract's scorer it repeats the
\* published comparison (rescore_paired_bundle).
RescoreCoversContract ==
    \A version \in DOMAIN posts :
        LET post == posts[version]
        IN  /\ Len(post.comparison.pairs) = Len(dest.contract.tasks)
            /\ {post.comparison.pairs[k].task : k \in 1..Len(post.comparison.pairs)}
                  = ToSet(dest.contract.tasks)
            /\ /\ version = dest.contract.version
               /\ post.base = dest.original.base /\ post.sft = dest.original.sft
               => post.comparison = dest.comparison

\* An experiment contract that validates pins the splits of the one manifest it
\* names, although the pin was taken from two readings of it.
ValidatedPinIsOneManifest ==
    run.pc = "pinned" =>
        /\ dest.contract.rows = dest.contract.manifest.rows
        /\ dest.contract.train = dest.contract.manifest.train

\* What docs/frozen_split_and_eval_contracts.md says of a published bundle: its
\* SFT arm is the artifact the contract names, its tasks the frozen held-out
\* rows.
EvaluatedAsContracted ==
    IsPaired(dest) =>
        dest.weights = ModelOf([path \in Indexed(dest.contract.index) |->
                                   Recorded(dest.contract.index, path)], dest.contract.kind)
=============================================================================
