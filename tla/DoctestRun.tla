------------------------------ MODULE DoctestRun ------------------------------
(***************************************************************************)
(* The doctest-v1 scorer: one candidate module scored against the examples *)
(* of a reference module.  The parent (score_doctest, run_doctests) starts *)
(* a worker process, waits for it until a deadline, and reads the result   *)
(* file; the worker fences itself in, opens that file, runs the candidate, *)
(* checks that the harness is intact and writes the result.                *)
(*                                                                         *)
(* Parent and worker are interleaved: the deadline may pass, and the kill  *)
(* may land, between any two steps of the worker.  The candidate is        *)
(* arbitrary code: it may raise, hang, kill its process, rebind the        *)
(* harness and make any call; which calls go through is decided by the     *)
(* fences the worker has put up so far.  Frames, the garbage collector and *)
(* leftover threads, which the code excludes, cannot be used against it.   *)
(*                                                                         *)
(* Source: eval/_doctest_runner.py, eval/_doctest_worker.py, eval/score.py *)
(***************************************************************************)
EXTENDS Integers, Sequences, FiniteSets

CONSTANTS
  Pairs,        \* (source, want) pairs of examples
  References,   \* reference modules, see Reference
  MaxExamples,  \* bound: examples doctest discovers in a candidate
  MaxFaults     \* bound: failures of the operating system, Ctrl-C

\* A reference: can its examples be read, and how often does it have each.
Reference == [usable : BOOLEAN, wants : [Pairs -> Nat]]

ASSUME ReferencesAssumption == References \subseteq Reference
ASSUME BoundsAssumption == MaxExamples \in Nat /\ MaxFaults \in Nat

VARIABLES
  reference,  \* the reference module
  parent,     \* where score_doctest is
  outcome,    \* the DoctestOutcome
  verdict,    \* the ExampleScore's verdict
  worker,     \* where the worker process is
  modules,    \* sys.modules of the worker, as far as it concerns fork_exec
  holders,    \* modules whose namespace still holds the real fork_exec
  fences,     \* what the worker has put out of the candidate's reach
  rebound,    \* has the candidate rebound a name of the harness
  tests,      \* examples doctest has found and not run yet
  ran,        \* _RecordingRunner: examples it has started, with their fate
  result,     \* the result the worker is about to publish
  file,       \* result.json, how much of it is written
  reach,      \* history: what calls of the candidate have brought about
  faults      \* bound used so far

scoring == <<parent, outcome, verdict>>
sandbox == <<modules, holders, fences>>
running == <<rebound, tests, ran, result>>
vars == <<reference, scoring, worker, sandbox, running, file, reach, faults>>

-----------------------------------------------------------------------------
(* Outcomes and verdicts.                                                  *)

Examples == [pair : Pairs, ok : BOOLEAN]
WorkerStatuses == {"ok", "syntax_error", "import_error", "malformed_doctest", "tampered"}
Outcome(status, examples) == [status |-> status, examples |-> examples]
NoOutcome == Outcome("none", <<>>)

Count(examples, p) == Cardinality({i \in DOMAIN examples : examples[i].pair = p})
Failed(examples) == {i \in DOMAIN examples : ~examples[i].ok}

DroppedEntirely(examples) == {p \in Pairs : Count(examples, p) = 0 /\ reference.wants[p] > 0}

\* wanted - Counter(outcome.examples), as the pairs with a positive count.
Dropped(examples) == {p \in Pairs : Count(examples, p) < reference.wants[p]}

ExecutedVerdict(o) ==
  IF \/ o.examples = <<>>
     \/ Dropped(o.examples) # {}
     \/ Failed(o.examples) # {}
  THEN "incorrect" ELSE "correct"

DoctestVerdict(o) ==
  CASE o.status = "worker_error" -> "invalid"
    [] o.status = "ok" -> ExecutedVerdict(o)
    [] OTHER -> "incorrect"

-----------------------------------------------------------------------------
(* The fences.  A call of the candidate either touches a file or uses a    *)
(* facility; it goes through unless a fence that is up denies it.          *)

\* The file a call names, resolved: in the sandbox or not, a descriptor, or an
\* object whose text cannot be trusted; and the directory it is relative to.
FileCalls ==
  [via : {"open"}, writes : BOOLEAN, path : {"inside", "outside", "descriptor", "opaque"},
   dirFd : {"none"}]
  \cup [via : {"os.open"}, writes : BOOLEAN, path : {"inside", "outside", "opaque"},
        dirFd : {"none", "sandbox", "elsewhere"}]
  \cup [via : {"path event"}, writes : {TRUE}, path : {"inside", "outside", "descriptor", "opaque"},
        dirFd : {"none", "sandbox", "elsewhere"}]
  \cup [via : {"mkfifo"}, writes : {TRUE}, path : {"inside", "outside"}, dirFd : {"none"}]

\* A module the candidate wants: denylisted, inside a package, under a name
\* that is not a plain string, or harmless; or a call that raises an event.
UseCalls ==
  [via : {"import", "import_module", "loader"}, module : {"denied", "pkg.denied", "opaque", "benign"}]
  \cup [via : {"cached fork_exec", "blocked event"}, module : {"denied"}]

LandsOutside(c) ==
  /\ c.writes
  /\ \/ c.dirFd = "elsewhere"
     \/ c.path \in {"outside", "opaque"}
     \/ c.via = "path event" /\ c.path = "descriptor"

PolicyAllows(path, allowDescriptor) ==
  path = "inside" \/ (allowDescriptor /\ path = "descriptor")

OpenDenial(c) == c.writes /\ ~PolicyAllows(c.path, TRUE)
PathEventDenial(c) == c.dirFd # "none" \/ ~PolicyAllows(c.path, FALSE)
AnyDirFdAllowed(c) == c.path = "inside"

DirFdWriteAllowed(c) == c.writes => c.dirFd = "sandbox" /\ c.path = "inside"
BlockedImportName(module) == module \in {"denied", "pkg.denied"}
ImportDenial(c) == c.module = "opaque" \/ BlockedImportName(c.module)
LoaderDenial(c) == c.module = "opaque" \/ BlockedImportName(c.module)

FileDenied(c) ==
  \/ "hook" \in fences /\ c.via \in {"open", "os.open"} /\ OpenDenial(c)
  \/ "hook" \in fences /\ c.via = "path event" /\ PathEventDenial(c)
  \/ "os.open" \in fences /\ c.via = "os.open" /\ c.dirFd # "none" /\ ~DirFdWriteAllowed(c)
  \/ "mkfifo" \in fences /\ c.via = "mkfifo"

\* importlib.import_module raises no import event: a denylisted name is
\* stopped by the None in sys.modules, a dotted one by the guarded loader.
UseDenied(c) ==
  \/ c.via = "import" /\ "hook" \in fences /\ ImportDenial(c)
  \/ c.via = "import_module" /\ c.module = "denied" /\ "sys.modules" \in fences
  \/ c.via \in {"loader", "import_module"} /\ "loaders" \in fences /\ LoaderDenial(c)
  \/ c.via = "cached fork_exec" /\ holders = {}
  \/ c.via = "blocked event" /\ "hook" \in fences

-----------------------------------------------------------------------------
\* The interpreter may or may not have imported asyncio, and with it
\* subprocess, before the worker's first statement.
Init ==
  /\ reference \in References
  /\ parent = "scoring" /\ outcome = NoOutcome /\ verdict = "none"
  /\ worker = "none"
  /\ modules \in {{}, {"_posixsubprocess", "subprocess", "asyncio"}}
  /\ holders = modules \ {"asyncio"}
  /\ fences = {}
  /\ rebound = FALSE /\ tests = <<>> /\ ran = <<>> /\ result = NoOutcome
  /\ file = "absent"
  /\ reach = {}
  /\ faults = 0

Fault == faults < MaxFaults /\ faults' = faults + 1

-----------------------------------------------------------------------------
(* The parent.                                                             *)

Return(o) ==
  /\ parent' = "returned"
  /\ outcome' = o
  /\ verdict' = DoctestVerdict(o)

\* reference_examples rejects the reference: nothing is run.
RejectReference ==
  /\ parent = "scoring"
  /\ ~reference.usable \/ \A p \in Pairs : reference.wants[p] = 0
  /\ parent' = "returned" /\ verdict' = "invalid"
  /\ UNCHANGED <<reference, outcome, worker, sandbox, running, file, reach, faults>>

ReferenceIsUsable == reference.usable /\ \E p \in Pairs : reference.wants[p] > 0

\* The completion does not encode to UTF-8.
RejectEncoding ==
  /\ parent = "scoring" /\ ReferenceIsUsable
  /\ Return(Outcome("syntax_error", <<>>))
  /\ UNCHANGED <<reference, worker, sandbox, running, file, reach, faults>>

Launch ==
  /\ parent = "scoring" /\ ReferenceIsUsable
  /\ parent' = "waiting" /\ worker' = "start"
  /\ UNCHANGED <<reference, outcome, verdict, sandbox, running, file, reach, faults>>

WorkerGone == worker \in {"exited", "killed"}

EmptyMeansNotStarted ==
  CASE file \in {"absent", "empty"} -> Outcome("worker_error", <<>>)
    [] file = "partial" -> Outcome("crashed", <<>>)
    [] file = "whole" -> result

\* Popen.communicate returned: what the file says counts, if it is all there.
ReadResult ==
  CASE file = "absent" -> Outcome("worker_error", <<>>)
    [] file \in {"empty", "partial"} -> Outcome("crashed", <<>>)
    [] file = "whole" -> result

Collect ==
  /\ parent = "waiting" /\ worker = "exited"
  /\ Return(ReadResult)
  /\ UNCHANGED <<reference, worker, sandbox, running, file, reach, faults>>

DeadlineOfStartedWorker ==
  /\ parent = "waiting" /\ file # "absent"
  /\ parent' = "killing"
  /\ UNCHANGED <<reference, outcome, verdict, worker, sandbox, running, file, reach, faults>>

\* TimeoutExpired: the deadline has passed, whatever the worker is doing, and
\* it goes on until the signal arrives.
Timeout ==
  /\ parent = "waiting"
  /\ parent' = "killing"
  /\ UNCHANGED <<reference, outcome, verdict, worker, sandbox, running, file, reach, faults>>

KillNobody ==
  /\ parent = "killing"
  /\ Return(Outcome("timeout", <<>>))
  /\ UNCHANGED <<reference, worker, sandbox, running, file, reach, faults>>

\* _kill, and run_doctests returns without looking at the file.
Kill ==
  /\ parent = "killing"
  /\ worker' = IF worker = "exited" THEN worker ELSE "killed"
  /\ Return(Outcome("timeout", <<>>))
  /\ UNCHANGED <<reference, sandbox, running, file, reach, faults>>

\* Ctrl-C in the parent only: the worker leads a session of its own.
Interrupt ==
  /\ parent \in {"waiting", "killing"}
  /\ Fault
  /\ parent' = "raised"
  /\ UNCHANGED <<reference, outcome, verdict, worker, sandbox, running, file, reach>>

-----------------------------------------------------------------------------
(* The worker, up to the candidate.                                        *)

At(from, to) ==
  /\ worker = from
  /\ worker' = to
  /\ UNCHANGED <<reference, scoring>>

ReadSource ==
  /\ At("start", "revoke")
  /\ UNCHANGED <<sandbox, running, file, reach, faults>>

\* Every module still in sys.modules that refers to fork_exec gets the stub,
\* as long as _posixsubprocess is there to say what fork_exec is.
RevokeForkExec ==
  /\ At("revoke", "loaders")
  /\ holders' = IF "_posixsubprocess" \in modules THEN holders \ modules ELSE holders
  /\ UNCHANGED <<modules, fences, running, file, reach, faults>>

FenceExtensionLoaders ==
  /\ At("loaders", "os")
  /\ fences' = fences \cup {"loaders"}
  /\ UNCHANGED <<modules, holders, running, file, reach, faults>>

FenceOs ==
  /\ At("os", "purge")
  /\ fences' = fences \cup {"mkfifo", "os.open"}
  /\ UNCHANGED <<modules, holders, running, file, reach, faults>>

\* asyncio stays, and so does what it refers to.
PurgeModules ==
  /\ At("purge", "open")
  /\ modules' = modules \ {"_posixsubprocess", "subprocess"}
  /\ fences' = fences \cup {"sys.modules"}
  /\ UNCHANGED <<holders, running, file, reach, faults>>

\* _Harness: the encoder is bound, then the file opened, then the snapshot.
OpenResult ==
  /\ At("open", "compile")
  /\ file' = "empty"
  /\ UNCHANGED <<sandbox, running, reach, faults>>

\* Anything the operating system refuses up to here ends the worker.
SetupFails ==
  /\ worker \in {"start", "revoke", "loaders", "os", "purge", "open"}
  /\ Fault
  /\ worker' = "exited"
  /\ UNCHANGED <<reference, scoring, sandbox, running, file, reach>>

-----------------------------------------------------------------------------
(* The worker, with the candidate.                                         *)

Finish(status, examples) == result' = Outcome(status, examples)

\* A candidate that does not compile is never checked for tampering.
CompileFails ==
  /\ At("compile", "publish")
  /\ Finish("syntax_error", <<>>)
  /\ UNCHANGED <<sandbox, rebound, tests, ran, file, reach, faults>>

Compile ==
  /\ At("compile", "load")
  /\ fences' = fences \cup {"hook"}
  /\ UNCHANGED <<modules, holders, running, file, reach, faults>>

Load ==
  /\ At("load", "find")
  /\ UNCHANGED <<sandbox, running, file, reach, faults>>

\* exec raised, SystemExit and KeyboardInterrupt included.
LoadRaises ==
  /\ At("load", "check")
  /\ Finish("import_error", <<>>)
  /\ UNCHANGED <<sandbox, rebound, tests, ran, file, reach, faults>>

\* DocTestFinder.find; skipped examples are not in tests, they are never run.
FindTests ==
  /\ At("find", "test")
  /\ \E found \in UNION {[1 .. n -> Pairs] : n \in 0 .. MaxExamples} : tests' = found
  /\ UNCHANGED <<sandbox, rebound, ran, result, file, reach, faults>>

MalformedDoctest ==
  /\ At("find", "check")
  /\ Finish("malformed_doctest", <<>>)
  /\ UNCHANGED <<sandbox, rebound, tests, ran, file, reach, faults>>

\* report_start, then report_failure or report_unexpected_exception or nothing.
RunExample ==
  /\ At("test", "test")
  /\ tests # <<>>
  /\ \E ok \in BOOLEAN : ran' = Append(ran, [pair |-> Head(tests), ok |-> ok])
  /\ tests' = Tail(tests)
  /\ UNCHANGED <<sandbox, rebound, result, file, reach, faults>>

ExamplesDone ==
  /\ At("test", "check")
  /\ tests = <<>>
  /\ Finish("ok", ran)
  /\ UNCHANGED <<sandbox, rebound, tests, ran, file, reach, faults>>

CandidateRuns == worker \in {"load", "test"}

\* A call of the candidate, refused with PermissionError or ImportError.
Call ==
  /\ CandidateRuns
  /\ \/ \E c \in FileCalls :
          reach' = reach \cup {IF FileDenied(c) THEN "denied"
                               ELSE IF LandsOutside(c) THEN "outside" ELSE "inside"}
     \/ \E c \in UseCalls :
          reach' = reach \cup {IF UseDenied(c) THEN "denied"
                               ELSE IF c.module = "benign" THEN "inside" ELSE "outside"}
  /\ UNCHANGED <<reference, scoring, worker, sandbox, running, file, faults>>

Rebind ==
  /\ CandidateRuns /\ ~rebound
  /\ rebound' = TRUE
  /\ UNCHANGED <<reference, scoring, worker, sandbox, tests, ran, result, file, reach, faults>>

\* os._exit, a crash of the interpreter, the CPU or memory limit, or a
\* KeyboardInterrupt that an example raises and doctest passes on.
Die ==
  /\ worker \in {"compile", "load", "find", "test"}
  /\ worker' = "exited"
  /\ UNCHANGED <<reference, scoring, sandbox, running, file, reach, faults>>

CheckHarness ==
  /\ At("check", "publish")
  /\ result' = IF rebound THEN Outcome("tampered", <<>>) ELSE result
  /\ UNCHANGED <<sandbox, rebound, tests, ran, file, reach, faults>>

\* os.write may write less than it is given.
Publish ==
  /\ \/ At("publish", "publish") /\ file = "empty" /\ file' = "partial"
     \/ At("publish", "returned") /\ file' = "whole"
  /\ UNCHANGED <<sandbox, running, reach, faults>>

PublishFails ==
  /\ At("publish", "exited")
  /\ Fault
  /\ UNCHANGED <<sandbox, running, file, reach>>

\* The interpreter shuts down, once the threads the candidate left are over.
Exit ==
  /\ At("returned", "exited")
  /\ UNCHANGED <<sandbox, running, file, reach, faults>>

-----------------------------------------------------------------------------
Parent == RejectReference \/ RejectEncoding \/ Launch \/ Collect \/ Timeout \/ Kill

Setup == ReadSource \/ RevokeForkExec \/ FenceExtensionLoaders \/ FenceOs \/ PurgeModules
           \/ OpenResult \/ SetupFails

Worker == \/ CompileFails \/ Compile \/ Load \/ LoadRaises \/ FindTests \/ MalformedDoctest
          \/ RunExample \/ ExamplesDone \/ Call \/ Rebind \/ Die
          \/ CheckHarness \/ Publish \/ PublishFails \/ Exit

Next == Parent \/ Interrupt \/ Setup \/ Worker

Spec == Init /\ [][Next]_vars

\* Clocks advance and the parent is scheduled; the worker may hang anywhere.
FairSpec == Spec /\ WF_vars(Parent)

-----------------------------------------------------------------------------
\* A completion is correct only if the worker itself ended in time with all
\* its examples passed, every example of the reference among them as often as
\* the reference has it, and the harness untouched (_doctest_verdict,
\* _check_harness, _read_result): no partial, late or tampered result passes.
VerdictIsEarned ==
  verdict = "correct" =>
    /\ worker = "exited" /\ file = "whole" /\ ~rebound /\ tests = <<>>
    /\ Failed(ran) = {}
    /\ \A p \in Pairs : Count(ran, p) >= reference.wants[p]

\* invalid, which leaves the task out of the accuracy, is nothing a candidate
\* can bring about: it has not run (docs/frozen_split_and_eval_contracts.md,
\* "Scorers"; the result file is opened before the candidate is executed).
InvalidIsNotTheCandidates ==
  verdict = "invalid" =>
    /\ worker \in {"none", "exited"}
    /\ "hook" \notin fences /\ ran = <<>> /\ reach = {}

\* Whatever the candidate calls, nothing is written outside its directory and
\* no denylisted facility is reached, although audit events miss cached
\* modules, dir_fd, and loaders (_remove_unaudited_facilities, _denial).
CandidateStaysInside == "outside" \notin reach

\* When a score is returned, the process it is about is gone and the score is
\* final: no worker goes on, in particular none that missed its deadline
\* (_kill before run_doctests returns).
WorkerNeverOutlivesItsScore ==
  [][parent = "returned" => UNCHANGED vars]_vars

\* The promise doctest-v1 makes of incorrect: the candidate has run, or
\* did not parse (_doctest_runner.py, "timeout and crashed (the worker
\* started ...) and worker_error (it never started ...)").
IncorrectIsTheCandidates ==
  verdict = "incorrect" => file # "absent" \/ outcome.status = "syntax_error"

\* A score is always returned, even for a candidate that never ends
\* (process.communicate with a timeout).
ScoreIsReturned == <>(parent \in {"returned", "raised"})
=============================================================================
