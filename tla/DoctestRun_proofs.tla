--------------------------- MODULE DoctestRun_proofs ---------------------------
(***************************************************************************)
(* The safety of the doctest-v1 scorer for any reference, any number of     *)
(* examples and any number of faults.                                       *)
(*                                                                          *)
(* None of the properties is inductive: that a verdict was earned depends   *)
(* on how far the worker had come when its result was written, and that     *)
(* the candidate stays inside on which fences are up where it runs.         *)
(* WorkerInv, FenceInv, ResultInv and VerdictInv say this for each location *)
(* of the worker.                                                           *)
(***************************************************************************)
EXTENDS DoctestRun, FiniteSetTheorems, TLAPS

Setting == {"none", "start", "revoke", "loaders", "os", "purge", "open"}
Running == {"compile", "load", "find", "test", "check", "publish", "returned"}
Gone == {"exited", "killed"}

\* The candidate has not been given a chance.
NotRun == "hook" \notin fences /\ ran = <<>> /\ reach = {}

\* Where parent and worker can be at the same time, and how far the file is.
WorkerInv ==
  /\ parent \in {"scoring", "waiting", "killing", "returned", "raised"}
  /\ worker \in Setting \cup Running \cup Gone
  /\ parent = "scoring" => worker = "none"
  /\ parent = "returned" => worker \in {"none"} \cup Gone
  /\ worker \in Setting => file = "absent"
  /\ worker \in Running => file # "absent"
  /\ file = "whole" => worker \in {"returned"} \cup Gone
  /\ file \in {"absent", "empty", "partial", "whole"}
  /\ file = "absent" => NotRun

\* Which fences are up where.
FenceInv ==
  /\ worker \in {"none", "start", "revoke"} =>
       /\ modules \in {{}, {"_posixsubprocess", "subprocess", "asyncio"}}
       /\ holders = modules \ {"asyncio"}
  /\ worker \in {"loaders", "os", "purge", "open"} \cup Running => holders = {}
  /\ worker \in {"os", "purge", "open"} \cup Running => "loaders" \in fences
  /\ worker \in {"purge", "open"} \cup Running => {"mkfifo", "os.open"} \subseteq fences
  /\ worker \in {"open"} \cup Running => "sys.modules" \in fences
  /\ worker \in {"load", "find", "test"} => "hook" \in fences
  /\ "outside" \notin reach

\* What the result stands for once the examples are over.
ResultInv ==
  /\ tests \in Seq(Pairs) /\ ran \in Seq(Examples)
  /\ worker \in {"check", "publish", "returned"} \/ file = "whole" =>
       /\ result.status \in WorkerStatuses
       /\ result.status = "ok" => result.examples = ran /\ tests = <<>>
  /\ worker \in {"publish", "returned"} \/ file = "whole" =>
       (result.status = "ok" => ~rebound)

Earned ==
  /\ worker = "exited" /\ file = "whole" /\ ~rebound /\ tests = <<>>
  /\ Failed(ran) = {}
  /\ \A p \in Pairs : Count(ran, p) >= reference.wants[p]

VerdictInv ==
  /\ reference \in Reference
  /\ verdict # "none" => parent = "returned"
  /\ verdict = "correct" => Earned
  /\ verdict = "invalid" => worker \in {"none", "exited"} /\ NotRun

ScoreInv == WorkerInv /\ FenceInv /\ ResultInv /\ VerdictInv

-----------------------------------------------------------------------------
(* Initially *)

LEMMA ScoreInit ==
  Init => ScoreInv
<1> SUFFICES ASSUME Init PROVE ScoreInv
  OBVIOUS
<1>1. WorkerInv
  BY DEF Init, WorkerInv, Setting, Running, Gone, NotRun
<1>2. FenceInv
  BY DEF Init, FenceInv, Running
<1>3. ResultInv
  BY DEF Init, ResultInv
<1>4. VerdictInv
  BY ReferencesAssumption DEF Init, VerdictInv
<1> QED
  BY <1>1, <1>2, <1>3, <1>4 DEF ScoreInv

-----------------------------------------------------------------------------
(* Locations and fences *)

LEMMA WorkerStep ==
  ASSUME ScoreInv, Next
  PROVE  WorkerInv'
<1> USE DEF ScoreInv, WorkerInv, Setting, Running, Gone, NotRun
<1>1. CASE RejectReference \/ RejectEncoding \/ Launch \/ Collect \/ Timeout
  BY <1>1 DEF RejectReference, RejectEncoding, Launch, Collect, Timeout, Return, sandbox, running
<1>2. CASE Kill \/ Interrupt
  BY <1>2 DEF Kill, Interrupt, Fault, Return, sandbox, running
<1>3. CASE Setup
  <2>1. CASE ReadSource \/ RevokeForkExec \/ FenceExtensionLoaders
    BY <2>1 DEF ReadSource, RevokeForkExec, FenceExtensionLoaders, At, sandbox, running, scoring
  <2>2. CASE FenceOs \/ PurgeModules \/ OpenResult \/ SetupFails
    BY <2>2 DEF FenceOs, PurgeModules, OpenResult, SetupFails, Fault, At, sandbox, running, scoring
  <2> QED
    BY <1>3, <2>1, <2>2 DEF Setup
<1>4. CASE Worker
  <2>1. CASE CompileFails \/ Compile \/ Load \/ LoadRaises \/ FindTests \/ MalformedDoctest
    BY <2>1 DEF CompileFails, Compile, Load, LoadRaises, FindTests, MalformedDoctest, At,
                sandbox, running, scoring
  <2>2. CASE RunExample \/ ExamplesDone \/ Call \/ Rebind \/ Die
    BY <2>2 DEF RunExample, ExamplesDone, Call, Rebind, Die, CandidateRuns, At,
                sandbox, running, scoring
  <2>3. CASE CheckHarness \/ Publish \/ PublishFails \/ Exit
    BY <2>3 DEF CheckHarness, Publish, PublishFails, Exit, At, Fault, sandbox, running, scoring
  <2> QED
    BY <1>4, <2>1, <2>2, <2>3 DEF Worker
<1> QED
  BY <1>1, <1>2, <1>3, <1>4 DEF Next, Parent

\* With every fence up, a call that would leave the sandbox is refused.
LEMMA CallsAreFenced ==
  ASSUME FenceInv, CandidateRuns
  PROVE  /\ \A c \in FileCalls : LandsOutside(c) => FileDenied(c)
         /\ \A c \in UseCalls : c.module # "benign" => UseDenied(c)
<1>1. /\ {"loaders", "mkfifo", "os.open", "sys.modules", "hook"} \subseteq fences
      /\ holders = {}
  BY DEF FenceInv, CandidateRuns, Running
<1>2. ASSUME NEW c \in FileCalls, LandsOutside(c) PROVE FileDenied(c)
  BY <1>1, <1>2 DEF FileCalls, LandsOutside, FileDenied, OpenDenial, PathEventDenial,
                    DirFdWriteAllowed, PolicyAllows
<1>3. ASSUME NEW c \in UseCalls, c.module # "benign" PROVE UseDenied(c)
  BY <1>1, <1>3 DEF UseCalls, UseDenied, ImportDenial, LoaderDenial, BlockedImportName
<1> QED
  BY <1>2, <1>3

LEMMA FenceStep ==
  ASSUME ScoreInv, Next
  PROVE  FenceInv'
<1> USE DEF ScoreInv, WorkerInv, FenceInv, Setting, Running, Gone
<1>1. CASE Parent \/ Interrupt
  BY <1>1 DEF Parent, Interrupt, RejectReference, RejectEncoding, Launch, Collect, Timeout, Kill,
              Return, Fault, sandbox, running
<1>2. CASE Setup
  BY <1>2 DEF Setup, ReadSource, RevokeForkExec, FenceExtensionLoaders, FenceOs, PurgeModules,
              OpenResult, SetupFails, Fault, At, sandbox, running, scoring
<1>3. CASE Call
  <2>1. "outside" \notin reach'
    BY <1>3, CallsAreFenced DEF Call
  <2> QED
    BY <1>3, <2>1 DEF Call, sandbox
<1>4. CASE Worker /\ ~Call
  <2>1. CASE CompileFails \/ Compile \/ Load \/ LoadRaises \/ FindTests \/ MalformedDoctest
    BY <2>1 DEF CompileFails, Compile, Load, LoadRaises, FindTests, MalformedDoctest, At, sandbox
  <2>2. CASE RunExample \/ ExamplesDone \/ Rebind \/ Die
    BY <2>2 DEF RunExample, ExamplesDone, Rebind, Die, CandidateRuns, At, sandbox
  <2>3. CASE CheckHarness \/ Publish \/ PublishFails \/ Exit
    BY <2>3 DEF CheckHarness, Publish, PublishFails, Exit, At, sandbox
  <2> QED
    BY <1>4, <2>1, <2>2, <2>3 DEF Worker
<1> QED
  BY <1>1, <1>2, <1>3, <1>4 DEF Next

-----------------------------------------------------------------------------
(* Results and verdicts *)

LEMMA ResultStep ==
  ASSUME ScoreInv, Next
  PROVE  ResultInv'
<1> USE DEF ScoreInv, WorkerInv, ResultInv, Setting, Running, Gone
<1>1. CASE Parent \/ Interrupt
  BY <1>1 DEF Parent, Interrupt, RejectReference, RejectEncoding, Launch, Collect, Timeout, Kill,
              Return, Fault, running
<1>2. CASE Setup
  BY <1>2 DEF Setup, ReadSource, RevokeForkExec, FenceExtensionLoaders, FenceOs, PurgeModules,
              OpenResult, SetupFails, Fault, At, running, scoring
<1>3. CASE CompileFails \/ LoadRaises \/ MalformedDoctest \/ ExamplesDone
  BY <1>3 DEF CompileFails, LoadRaises, MalformedDoctest, ExamplesDone, Finish, Outcome, At,
              WorkerStatuses
<1>4. CASE Compile \/ Load \/ Call \/ Rebind \/ Die \/ Publish \/ PublishFails \/ Exit
  BY <1>4 DEF Compile, Load, Call, Rebind, Die, CandidateRuns, Publish, PublishFails, Exit, At, running
<1>5. CASE FindTests
  <2>1. tests' \in Seq(Pairs)
    BY <1>5, BoundsAssumption DEF FindTests
  <2> QED
    BY <1>5, <2>1 DEF FindTests, At
<1>6. CASE RunExample
  <2>1. tests' \in Seq(Pairs) /\ Head(tests) \in Pairs
    BY <1>6 DEF RunExample
  <2>2. ran' \in Seq(Examples)
    BY <1>6, <2>1 DEF RunExample, Examples
  <2> QED
    BY <1>6, <2>1, <2>2 DEF RunExample, At
<1>7. CASE CheckHarness
  BY <1>7 DEF CheckHarness, Outcome, At, WorkerStatuses
<1> QED
  BY <1>1, <1>2, <1>3, <1>4, <1>5, <1>6, <1>7 DEF Next, Worker

\* How often an example was run is a number.
LEMMA CountType ==
  ASSUME NEW examples \in Seq(Examples), NEW p
  PROVE  Count(examples, p) \in Nat
<1>1. IsFiniteSet(1 .. Len(examples))
  BY FS_Interval
<1>2. IsFiniteSet({i \in DOMAIN examples : examples[i].pair = p})
  BY <1>1, FS_Subset
<1> QED
  BY <1>2, FS_CardinalityType DEF Count

\* "correct" is the verdict of no outcome but one with all examples passed and
\* none of the reference's missing.
LEMMA CorrectOutcome ==
  ASSUME NEW o, DoctestVerdict(o) = "correct"
  PROVE  o.status = "ok" /\ Dropped(o.examples) = {} /\ Failed(o.examples) = {}
BY DEF DoctestVerdict, ExecutedVerdict

\* "invalid" is the verdict of no outcome but one without a worker.
LEMMA InvalidOutcome ==
  ASSUME NEW o, DoctestVerdict(o) = "invalid"
  PROVE  o.status = "worker_error"
BY DEF DoctestVerdict, ExecutedVerdict

\* What the file says is believed only if the worker has ended with it.
LEMMA CollectStep ==
  ASSUME ScoreInv, Collect
  PROVE  VerdictInv'
<1>1. /\ worker = "exited" /\ worker' = worker /\ file' = file /\ reference' = reference
      /\ rebound' = rebound /\ tests' = tests /\ ran' = ran /\ reach' = reach /\ fences' = fences
      /\ parent' = "returned" /\ verdict' = DoctestVerdict(ReadResult)
  BY DEF Collect, Return, sandbox, running
<1>2. ASSUME DoctestVerdict(ReadResult) = "correct" PROVE Earned
  <2>1. /\ ReadResult.status = "ok" /\ Dropped(ReadResult.examples) = {}
        /\ Failed(ReadResult.examples) = {}
    BY <1>2, CorrectOutcome
  <2>2. file = "whole" /\ ReadResult = result
    <3>1. file \in {"absent", "empty", "partial", "whole"}
      BY DEF ScoreInv, WorkerInv
    <3> QED
      BY <2>1, <3>1 DEF ReadResult, Outcome
  <2>3. ran = result.examples /\ tests = <<>> /\ ~rebound /\ ran \in Seq(Examples)
    BY <2>1, <2>2 DEF ScoreInv, ResultInv
  <2>4. ASSUME NEW p \in Pairs PROVE Count(ran, p) >= reference.wants[p]
    <3>1. Count(ran, p) \in Nat /\ reference.wants[p] \in Nat
      BY <2>3, CountType DEF ScoreInv, VerdictInv, Reference
    <3>2. ~(Count(ran, p) < reference.wants[p])
      BY <2>1, <2>2, <2>3 DEF Dropped
    <3> QED
      BY <3>1, <3>2
  <2> QED
    BY <1>1, <2>1, <2>2, <2>3, <2>4 DEF Earned
<1>3. ASSUME DoctestVerdict(ReadResult) = "invalid" PROVE NotRun
  <2>1. ReadResult.status = "worker_error"
    BY <1>3, InvalidOutcome
  <2>2. file = "absent"
    <3>1. file = "whole" => result.status # "worker_error"
      BY DEF ScoreInv, ResultInv, WorkerStatuses
    <3>2. file \in {"absent", "empty", "partial", "whole"}
      BY DEF ScoreInv, WorkerInv
    <3> QED
      BY <2>1, <3>1, <3>2 DEF ReadResult, Outcome
  <2> QED
    BY <2>2 DEF ScoreInv, WorkerInv
<1>4. verdict' = "correct" => Earned'
  BY <1>1, <1>2 DEF Earned, Failed, Count
<1>5. verdict' = "invalid" => NotRun'
  BY <1>1, <1>3 DEF NotRun
<1> QED
  BY <1>1, <1>4, <1>5 DEF ScoreInv, VerdictInv

LEMMA VerdictStep ==
  ASSUME ScoreInv, Next
  PROVE  VerdictInv'
<1>1. CASE Collect
  BY <1>1, CollectStep
<1>2. CASE RejectReference \/ RejectEncoding \/ Kill
  <2>1. CASE RejectReference
    BY <2>1 DEF RejectReference, ScoreInv, WorkerInv, VerdictInv, Setting, NotRun, sandbox, running
  <2>2. CASE RejectEncoding
    <3>1. verdict' = "incorrect"
      BY <2>2 DEF RejectEncoding, Return, DoctestVerdict, Outcome
    <3> QED
      BY <2>2, <3>1 DEF RejectEncoding, Return, ScoreInv, VerdictInv
  <2>3. CASE Kill
    <3>1. verdict' = "incorrect"
      BY <2>3 DEF Kill, Return, DoctestVerdict, Outcome
    <3> QED
      BY <2>3, <3>1 DEF Kill, Return, ScoreInv, VerdictInv
  <2> QED
    BY <1>2, <2>1, <2>2, <2>3
\* Nobody else gives a verdict, and while there is none nothing is to be shown.
<1>3. CASE Launch \/ Timeout \/ Interrupt \/ Setup \/ Worker
  <2>1. parent # "returned" /\ verdict' = verdict /\ reference' = reference
    <3>1. CASE Launch \/ Timeout \/ Interrupt
      BY <3>1 DEF Launch, Timeout, Interrupt
    <3>2. CASE Setup
      BY <3>2 DEF Setup, ReadSource, RevokeForkExec, FenceExtensionLoaders, FenceOs, PurgeModules,
                  OpenResult, SetupFails, At, scoring, ScoreInv, WorkerInv, Gone
    <3>3. CASE Worker
      BY <3>3 DEF Worker, CompileFails, Compile, Load, LoadRaises, FindTests, MalformedDoctest,
                  RunExample, ExamplesDone, Call, Rebind, Die, CheckHarness, Publish, PublishFails,
                  Exit, CandidateRuns, At, scoring, ScoreInv, WorkerInv, Gone
    <3> QED
      BY <1>3, <3>1, <3>2, <3>3
  <2> QED
    BY <2>1 DEF ScoreInv, VerdictInv
<1> QED
  BY <1>1, <1>2, <1>3 DEF Next, Parent

LEMMA ScoreStep ==
  ScoreInv /\ [Next]_vars => ScoreInv'
<1> SUFFICES ASSUME ScoreInv, [Next]_vars PROVE ScoreInv'
  OBVIOUS
<1>1. CASE Next
  BY <1>1, WorkerStep, FenceStep, ResultStep, VerdictStep DEF ScoreInv
<1>2. CASE UNCHANGED vars
  BY <1>2 DEF vars, scoring, sandbox, running, ScoreInv, WorkerInv, FenceInv, ResultInv, VerdictInv,
              NotRun, Earned, Failed, Count
<1> QED
  BY <1>1, <1>2

LEMMA ScoreInvariant == Spec => []ScoreInv
BY ScoreInit, ScoreStep, PTL DEF Spec

-----------------------------------------------------------------------------
(* The theorems *)

\* A completion is called correct only if the worker ended in time with all
\* its examples passed, none of the reference's missing and the harness intact
\* (_doctest_verdict, _read_result).
THEOREM CorrectIsEarned == Spec => []VerdictIsEarned
<1>1. ScoreInv => VerdictIsEarned
  BY DEF ScoreInv, VerdictInv, Earned, VerdictIsEarned
<1> QED
  BY ScoreInvariant, <1>1, PTL

\* No candidate can make its task invalid: invalid is given only when it has
\* not run (_run_worker, the missing result file).
THEOREM InvalidWithoutCandidate == Spec => []InvalidIsNotTheCandidates
<1>1. ScoreInv => InvalidIsNotTheCandidates
  BY DEF ScoreInv, VerdictInv, NotRun, InvalidIsNotTheCandidates
<1> QED
  BY ScoreInvariant, <1>1, PTL

\* Whatever the candidate calls wherever it runs, it stays in its directory and
\* away from what is denied to it (_denial, _remove_unaudited_facilities).
THEOREM CandidateIsFenced == Spec => []CandidateStaysInside
<1>1. ScoreInv => CandidateStaysInside
  BY DEF ScoreInv, FenceInv, CandidateStaysInside
<1> QED
  BY ScoreInvariant, <1>1, PTL

\* Once a score is returned nothing moves any more: the worker it is about has
\* ended or been killed (_kill, subprocess.Popen.__exit__).
THEOREM ScoreIsFinal == Spec => WorkerNeverOutlivesItsScore
<1>1. ScoreInv /\ [Next]_vars => [parent = "returned" => UNCHANGED vars]_vars
  <2> SUFFICES ASSUME ScoreInv, Next, parent = "returned" PROVE FALSE
    OBVIOUS
  <2>1. worker \in {"none", "exited", "killed"}
    BY DEF ScoreInv, WorkerInv, Gone
  <2>2. CASE Parent \/ Interrupt
    BY <2>2 DEF Parent, Interrupt, RejectReference, RejectEncoding, Launch, Collect, Timeout, Kill
  <2>3. CASE Setup
    BY <2>1, <2>3 DEF Setup, ReadSource, RevokeForkExec, FenceExtensionLoaders, FenceOs,
                      PurgeModules, OpenResult, SetupFails, At
  <2>4. CASE Worker
    BY <2>1, <2>4 DEF Worker, CompileFails, Compile, Load, LoadRaises, FindTests, MalformedDoctest,
                      RunExample, ExamplesDone, Call, Rebind, Die, CheckHarness, Publish,
                      PublishFails, Exit, CandidateRuns, At
  <2> QED
    BY <2>2, <2>3, <2>4 DEF Next
<1> QED
  BY ScoreInvariant, <1>1, PTL DEF Spec, WorkerNeverOutlivesItsScore
=============================================================================
