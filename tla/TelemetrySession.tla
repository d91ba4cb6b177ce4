--------------------------- MODULE TelemetrySession ---------------------------
(***************************************************************************)
(* The telemetry of one train-qlora run: TelemetrySession, its             *)
(* TrainingCorrelationCallback and the bounded profiler window, driven by  *)
(* the Transformers training loop and by run_training's except and finally *)
(* clauses.                                                                *)
(*                                                                         *)
(* pc walks through the run; stack holds the return addresses of the       *)
(* procedures several callers share (_stop_profiler, finalize,             *)
(* write_profile_summary and close), because the hard cases are a second   *)
(* call while, or after, a first one was cut short.  Every file the        *)
(* session writes may be there already, left by an earlier run of the same *)
(* name; every write and every profiler call may fail; a training step may *)
(* raise, and Ctrl-C may arrive between any two statements.                *)
(*                                                                         *)
(* Source: telemetry/session.py, callback.py, window.py, markers.py,       *)
(* train/trainer.py (run_training).                                        *)
(***************************************************************************)
EXTENDS Integers, Sequences

CONSTANTS
  MaxSteps,      \* the step training ends at
  SaveSteps,     \* training.save_steps
  ResumeSteps,   \* steps training may start from, 0 for a fresh start
  Configs,       \* telemetry configurations
  MaxErrors,     \* bound: writes and profiler calls that fail
  MaxInterrupts  \* bound: Ctrl-C

\* A configured session: is a window requested and for which steps, is the
\* torch backend usable, are markers wanted, is this process rank 0.
Config == [enabled : BOOLEAN, start : Nat \ {0}, end : Nat \ {0},
           torch : BOOLEAN, markers : BOOLEAN, primary : BOOLEAN]

ASSUME StepsAssumption == /\ {MaxSteps, SaveSteps} \subseteq Nat \ {0}
                          /\ ResumeSteps \subseteq 0 .. MaxSteps
ASSUME ConfigsAssumption == Configs \subseteq {c \in Config : c.start <= c.end}
ASSUME BoundsAssumption == MaxErrors \in Nat /\ MaxInterrupts \in Nat

VARIABLES
  markers,     \* agoge-markers.jsonl, line by line
  request,     \* profile-window-request.json
  summary,     \* profile-window.json
  config,      \* the resolved telemetry configuration
  session,     \* fields of TelemetrySession
  callback,    \* fields of TrainingCorrelationCallback
  pending,     \* TelemetrySession._pending_summary
  lastNs,      \* MarkerWriter._last_monotonic_ns
  published,   \* MarkerWriter.published
  manifest,    \* the telemetry entry of manifest.json
  step,        \* TrainerState.global_step
  pc, stack,   \* where the process is, and where it returns to
  outcome,     \* how run_training ends
  trained,     \* history: steps this run has completed, for on_step_end to see
  errors,      \* bounds used so far
  interrupts

files == <<markers, request, summary>>
memory == <<config, session, callback, pending, lastNs, published, manifest, step>>
control == <<pc, stack, outcome>>
bounds == <<errors, interrupts>>
vars == <<files, memory, control, trained, bounds>>

Steps == 1 .. MaxSteps

-----------------------------------------------------------------------------
\* A marker; ref says whether it carries profile_window_ref.  "torn" is the
\* beginning of a line whose write failed, "garbage" a line that starts so.
Events == {"run_start", "model_load", "train_start", "step_begin", "step_end",
           "checkpoint_complete", "profile_window_start", "profile_window_end",
           "train_end", "run_failed", "old", "torn", "garbage"}
Marker == [event : Events, step : 0 .. MaxSteps, ref : BOOLEAN, ns : Nat]

OldMarker == [event |-> "old", step |-> 0, ref |-> FALSE, ns |-> 0]
TornMarker == [OldMarker EXCEPT !.event = "torn"]

\* What write_profile_summary is given; 0 stands for None.
Summary == [state : {"absent", "old", "torn", "new"}, startNs : Nat, endNs : Nat,
            actual : 0 .. MaxSteps, complete : BOOLEAN]
NoSummary == [state |-> "absent", startNs |-> 0, endNs |-> 0, actual |-> 0,
              complete |-> FALSE]

\* close() without a window that was started.
NotReached == [NoSummary EXCEPT !.state = "new"]

NoManifest == [taken |-> FALSE, markers |-> FALSE, request |-> FALSE, summary |-> FALSE]

Procedures == {"finalize", "stop", "collect", "window_end", "final_summary",
               "write", "close", "closing"}
Locations == Procedures \cup
  {"open", "reset", "request", "run_start", "load", "attach", "train_begin", "step",
   "window_start", "launch", "step_begin", "compute", "step_end", "log", "save",
   "train_end", "train_ended", "manifest", "finish", "failure", "run_failed", "ended"}

\* The run directory may hold the files of an earlier run of the same name.
Init ==
  /\ \E reused \in BOOLEAN :
       /\ markers = IF reused THEN <<OldMarker>> ELSE <<>>
       /\ request = IF reused THEN "old" ELSE "absent"
  /\ summary \in {NoSummary, [NoSummary EXCEPT !.state = "old"]}
  /\ config \in Configs
  /\ session = [storage |-> FALSE, emit |-> FALSE, requested |-> FALSE,
                written |-> FALSE, closed |-> FALSE, attached |-> FALSE]
  /\ callback = [started |-> FALSE, profiler |-> FALSE, startNs |-> 0, endNs |-> 0,
                 actual |-> 0, complete |-> FALSE, last |-> 0, finalized |-> FALSE]
  /\ pending = NoSummary
  /\ lastNs = 0
  /\ published = FALSE
  /\ manifest = NoManifest
  /\ step = 0
  /\ pc = "open" /\ stack = <<>>
  /\ outcome = "running"
  /\ trained = {}
  /\ errors = 0 /\ interrupts = 0

-----------------------------------------------------------------------------
(* Control, stamps and markers.                                            *)

Goto(location) == pc' = location /\ UNCHANGED <<stack, outcome>>

Call(procedure, returnTo) ==
  pc' = procedure /\ stack' = <<returnTo>> \o stack /\ UNCHANGED outcome

Return == pc' = Head(stack) /\ stack' = Tail(stack) /\ UNCHANGED outcome

Fails == errors < MaxErrors /\ errors' = errors + 1

\* _next_monotonic: later than every stamp before, even if the clock stalls.
Stamp == lastNs' = lastNs + 1

\* An append after a torn line continues that line.
AfterTorn == markers # <<>> /\ markers[Len(markers)].event = "torn"

AppendLine(line) ==
  IF AfterTorn
  THEN [markers EXCEPT ![Len(markers)].event =
          IF line = TornMarker THEN "torn" ELSE "garbage"]
  ELSE Append(markers, line)

\* TelemetrySession.emit and MarkerWriter.emit: a write that fails, with or
\* without a part of the line in the file, is logged and forgotten.
Emit(event, at, ref) ==
  IF ~session.emit THEN UNCHANGED <<markers, published, lastNs, errors>>
  ELSE /\ Stamp
       /\ \/ /\ markers' = AppendLine([event |-> event, step |-> at, ref |-> ref,
                                    ns |-> lastNs + 1])
             /\ published' = TRUE
             /\ UNCHANGED errors
          \/ /\ Fails
             /\ markers' \in {markers, AppendLine(TornMarker)}
             /\ UNCHANGED published

-----------------------------------------------------------------------------
(* open_training_session: nothing it fails at stops the run.               *)

PrepareDirectory ==
  /\ pc = "open"
  /\ \E there \in BOOLEAN :
       /\ IF there THEN UNCHANGED errors ELSE Fails
       /\ session' = [session EXCEPT
                        !.storage = there,
                        !.emit = config.markers /\ config.primary /\ there]
  /\ Goto("reset")
  /\ UNCHANGED <<files, config, callback, pending, lastNs, published, manifest, step,
                 trained, interrupts>>

\* A reset that fails turns markers off: appending would mix two runs.
ResetMarkers ==
  /\ pc = "reset"
  /\ IF ~session.emit THEN UNCHANGED <<markers, session, errors>>
     ELSE \/ markers' = <<>> /\ UNCHANGED <<session, errors>>
          \/ /\ Fails
             /\ markers' \in {markers, <<>>}
             /\ session' = [session EXCEPT !.emit = FALSE]
  /\ Goto("request")
  /\ UNCHANGED <<request, summary, config, callback, pending, lastNs, published,
                 manifest, step, trained, interrupts>>

WriteRequest ==
  /\ pc = "request"
  /\ IF ~(config.primary /\ session.storage)
     THEN UNCHANGED <<request, session, lastNs, errors>>
     ELSE /\ Stamp
          /\ \/ /\ request' = "new"
                /\ session' = [session EXCEPT !.requested = TRUE]
                /\ UNCHANGED errors
             \/ Fails /\ request' \in {request, "torn"} /\ UNCHANGED session
  /\ Goto("run_start")
  /\ UNCHANGED <<markers, summary, config, callback, pending, published, manifest,
                 step, trained, interrupts>>

RunStart ==
  /\ pc = "run_start"
  /\ Emit("run_start", 0, FALSE)
  /\ Goto("load")
  /\ UNCHANGED <<request, summary, config, session, callback, pending, manifest, step,
                 trained, interrupts>>

-----------------------------------------------------------------------------
(* _execute_training and the training loop's callbacks.                    *)

LoadModel ==
  /\ pc = "load"
  /\ Emit("model_load", 0, FALSE)
  /\ Goto("attach")
  /\ UNCHANGED <<request, summary, config, session, callback, pending, manifest, step,
                 trained, interrupts>>

\* Dataset, resume point and trainer; then attach_telemetry.
Attach ==
  /\ pc = "attach"
  /\ step' \in ResumeSteps
  /\ session' = [session EXCEPT !.attached = TRUE]
  /\ Goto("train_begin")
  /\ UNCHANGED <<files, config, callback, pending, lastNs, published, manifest, trained, bounds>>

OnTrainBegin ==
  /\ pc = "train_begin"
  /\ Emit("train_start", step, FALSE)
  /\ Goto("step")
  /\ UNCHANGED <<request, summary, config, session, callback, pending, manifest, step,
                 trained, interrupts>>

\* window_covers_step and upcoming_step_starts_window.
Covers(s) == config.enabled /\ config.start <= s /\ s <= config.end
StartsWindow(upcoming) == config.enabled /\ upcoming = config.start

\* on_step_begin; _start_profiler runs once.
OnStepBegin ==
  /\ pc = "step" /\ step < MaxSteps
  /\ IF StartsWindow(step + 1) /\ ~callback.started
     THEN /\ Stamp
          /\ callback' = [callback EXCEPT !.started = TRUE, !.startNs = lastNs + 1]
          /\ Goto("window_start")
     ELSE Goto("step_begin") /\ UNCHANGED <<lastNs, callback>>
  /\ UNCHANGED <<files, config, session, pending, published, manifest, step, trained, bounds>>

WindowStart ==
  /\ pc = "window_start"
  /\ Emit("profile_window_start", config.start, TRUE)
  /\ Goto("launch")
  /\ UNCHANGED <<request, summary, config, session, callback, pending, manifest, step,
                 trained, interrupts>>

\* _torch_backend_ready and _launch_torch_profiler.
LaunchProfiler ==
  /\ pc = "launch"
  /\ IF ~(config.primary /\ config.torch) THEN UNCHANGED <<callback, errors>>
     ELSE \/ callback' = [callback EXCEPT !.profiler = TRUE] /\ UNCHANGED errors
          \/ Fails /\ UNCHANGED callback
  /\ Goto("step_begin")
  /\ UNCHANGED <<files, config, session, pending, lastNs, published, manifest, step,
                 trained, interrupts>>

RefersToCoveredStep(s) == Covers(s)

\* _training_window_reference, and the same test in _emit_step_begin.
RefersToWindow(s) == callback.started /\ Covers(s)

StepBegin ==
  /\ pc = "step_begin"
  /\ Emit("step_begin", step + 1, RefersToWindow(step + 1))
  /\ Goto("compute")
  /\ UNCHANGED <<request, summary, config, session, callback, pending, manifest, step,
                 trained, interrupts>>

Compute ==
  /\ pc = "compute"
  /\ step' = step + 1
  /\ Goto("step_end")
  /\ UNCHANGED <<files, config, session, callback, pending, lastNs, published, manifest,
                 trained, bounds>>

\* _maybe_stop_window
EndsWindow == callback.started /\ step = config.end

\* on_step_end: advance the profiler, which may fail and is then gone, and
\* stop the window at its end step, started or not by torch.
OnStepEnd ==
  /\ pc = "step_end"
  /\ \E alive \in BOOLEAN :
       /\ IF alive \/ ~callback.profiler THEN alive /\ UNCHANGED errors ELSE Fails
       /\ callback' = [callback EXCEPT !.last = step, !.profiler = @ /\ alive]
  /\ trained' = trained \cup {step}
  /\ IF EndsWindow THEN Call("stop", "log") ELSE Goto("log")
  /\ UNCHANGED <<files, config, session, pending, lastNs, published, manifest, step, interrupts>>

\* on_log, for the loss of the step.
OnLog ==
  /\ pc = "log"
  /\ Emit("step_end", step, RefersToWindow(step))
  /\ Goto("save")
  /\ UNCHANGED <<request, summary, config, session, callback, pending, manifest, step,
                 trained, interrupts>>

\* on_save, at the steps Transformers saves at.
OnSave ==
  /\ pc = "save"
  /\ IF step % SaveSteps = 0 THEN Emit("checkpoint_complete", step, FALSE)
                             ELSE UNCHANGED <<markers, published, lastNs, errors>>
  /\ Goto("step")
  /\ UNCHANGED <<request, summary, config, session, callback, pending, manifest, step,
                 trained, interrupts>>

\* on_train_end: finalize, emit train_end, close.
OnTrainEnd ==
  /\ pc = "step" /\ step = MaxSteps
  /\ callback' = [callback EXCEPT !.last = step]
  /\ Call("finalize", "train_ended")
  /\ UNCHANGED <<files, config, session, pending, lastNs, published, manifest, step,
                 trained, bounds>>

TrainEnded ==
  /\ pc = "train_ended"
  /\ Emit("train_end", step, FALSE)
  /\ Call("close", "manifest")
  /\ UNCHANGED <<request, summary, config, session, callback, pending, manifest, step,
                 trained, interrupts>>

PublishedIfOnDisk == summary.state # "absent" /\ config.enabled

\* _published_summary_path
PublishedSummary == config.enabled /\ session.written /\ summary.state # "absent"

\* manifest_entry, evaluated before _finalize_training_run saves the adapter.
ManifestEntry ==
  /\ pc = "manifest"
  /\ manifest' = [taken |-> TRUE, markers |-> session.emit /\ published,
                  request |-> session.requested, summary |-> PublishedSummary]
  /\ Goto("finish")
  /\ UNCHANGED <<files, config, session, callback, pending, lastNs, published, step,
                 trained, bounds>>

\* _finalize_training_run returns; then run_training's finally clause.
Finish ==
  /\ pc = "finish"
  /\ outcome' = "completed"
  /\ pc' = "close" /\ stack' = <<"ended">>
  /\ UNCHANGED <<files, memory, trained, bounds>>

-----------------------------------------------------------------------------
(* _stop_profiler.                                                         *)

WindowIsOpen == callback.started /\ callback.endNs = 0

\* The end of the window is stamped before the profiler is stopped.
StopProfiler ==
  /\ pc = "stop"
  /\ IF WindowIsOpen
     THEN /\ Stamp
          /\ callback' = [callback EXCEPT !.endNs = lastNs + 1]
          /\ pc' = "collect" /\ UNCHANGED <<stack, outcome>>
     ELSE Return /\ UNCHANGED <<lastNs, callback>>
  /\ UNCHANGED <<files, config, session, pending, published, manifest, step, trained, bounds>>

\* The caller's actual_step and complete: finalize knows the last completed
\* step only, on_step_end is at the end step.
ActualStep == IF callback.last < config.start THEN 0 ELSE callback.last
CompleteAnyway == callback.started
IsComplete == ActualStep # 0 /\ ActualStep >= config.end

\* _collect_summary stops the profiler whether or not that fails.
CollectSummary ==
  /\ pc = "collect"
  /\ callback' = [callback EXCEPT !.profiler = FALSE, !.actual = ActualStep,
                                  !.complete = IsComplete]
  /\ Goto("window_end")
  /\ UNCHANGED <<files, config, session, pending, lastNs, published, manifest, step,
                 trained, bounds>>

\* Without a completed step of the window there is no end to mark.
WindowEnd ==
  /\ pc = "window_end"
  /\ IF callback.actual # 0
     THEN Emit("profile_window_end", callback.actual, TRUE)
     ELSE UNCHANGED <<markers, published, lastNs, errors>>
  /\ Return
  /\ UNCHANGED <<request, summary, config, session, callback, pending, manifest, step,
                 trained, interrupts>>

-----------------------------------------------------------------------------
(* finalize and write_profile_summary.                                     *)

Finalize ==
  /\ pc = "finalize"
  /\ IF callback.finalized THEN Return /\ UNCHANGED callback
     ELSE /\ callback' = [callback EXCEPT !.finalized = TRUE]
          /\ Call("stop", "final_summary")
  /\ UNCHANGED <<files, config, session, pending, lastNs, published, manifest, step,
                 trained, bounds>>

\* _can_write_summary
CanWriteSummary == ~session.written /\ config.enabled /\ config.primary

FinalSummary ==
  /\ pc = "final_summary"
  /\ IF callback.endNs # 0 /\ CanWriteSummary
     THEN /\ pending' = [state |-> "new", startNs |-> callback.startNs,
                         endNs |-> callback.endNs, actual |-> callback.actual,
                         complete |-> callback.complete]
          /\ Goto("write")
     ELSE Return /\ UNCHANGED pending
  /\ UNCHANGED <<files, config, session, callback, lastNs, published, manifest, step,
                 trained, bounds>>

WriteSummary ==
  /\ pc = "write"
  /\ Stamp
  /\ summary' = pending
  /\ session' = [session EXCEPT !.written = TRUE]
  /\ pending' = NoSummary
  /\ Return
  /\ UNCHANGED <<markers, request, config, callback, published, manifest, step, trained, bounds>>

WriteSummaryFails ==
  /\ pc = "write"
  /\ Fails
  /\ Stamp
  /\ summary' \in {summary, [NoSummary EXCEPT !.state = "torn"]}
  /\ Return
  /\ UNCHANGED <<markers, request, config, session, callback, pending, published,
                 manifest, step, trained, interrupts>>

-----------------------------------------------------------------------------
(* close.                                                                  *)

CloseSession ==
  /\ pc = "close"
  /\ IF session.closed THEN Return
     ELSE IF session.attached THEN Call("finalize", "closing") ELSE Goto("closing")
  /\ UNCHANGED <<files, memory, trained, bounds>>

\* What close writes: the summary finalize could not write, or that there was
\* nothing to write.
LastSummary == IF pending # NoSummary THEN pending ELSE NotReached

Closing ==
  /\ pc = "closing"
  /\ session' = [session EXCEPT !.closed = TRUE]
  /\ IF CanWriteSummary
     THEN pending' = LastSummary /\ Goto("write")
     ELSE Return /\ UNCHANGED pending
  /\ UNCHANGED <<files, config, callback, lastNs, published, manifest, step, trained, bounds>>

-----------------------------------------------------------------------------
(* run_training's except and finally clauses.                              *)

Raising == {"load", "attach", "train_begin", "step", "compute", "save", "finish"}

\* Loading, the next batch, a training step, a checkpoint save or the final
\* save raises.
TrainingFails ==
  /\ pc \in Raising
  /\ outcome' = "failed"
  /\ pc' = "failure" /\ stack' = <<>>
  /\ UNCHANGED <<files, memory, trained, bounds>>

\* record_failure
RecordFailure ==
  /\ pc = "failure"
  /\ IF session.attached THEN Call("finalize", "run_failed") ELSE Goto("run_failed")
  /\ UNCHANGED <<files, memory, trained, bounds>>

RunFailed ==
  /\ pc = "run_failed"
  /\ Emit("run_failed", callback.last, FALSE)
  /\ pc' = "close" /\ stack' = <<"ended">> /\ UNCHANGED outcome
  /\ UNCHANGED <<request, summary, config, session, callback, pending, manifest, step,
                 trained, interrupts>>

InFinally == outcome \in {"completed", "interrupted"} \/ (stack # <<>> /\ stack[Len(stack)] = "ended")
BeforeTry == {"open", "reset", "request", "run_start"}

\* KeyboardInterrupt: the finally clause runs, record_failure does not; one
\* that arrives before the try statement or in the finally clause ends the run.
Interrupt ==
  /\ pc # "ended"
  /\ interrupts < MaxInterrupts
  /\ interrupts' = interrupts + 1
  /\ outcome' = "interrupted"
  /\ IF InFinally \/ pc \in BeforeTry THEN pc' = "ended" /\ stack' = <<>>
                                      ELSE pc' = "close" /\ stack' = <<"ended">>
  /\ UNCHANGED <<files, memory, trained, errors>>

-----------------------------------------------------------------------------
Open == PrepareDirectory \/ ResetMarkers \/ WriteRequest \/ RunStart

TrainingLoop == \/ LoadModel \/ Attach \/ OnTrainBegin \/ OnStepBegin \/ WindowStart \/ LaunchProfiler
                \/ StepBegin \/ Compute \/ OnStepEnd \/ OnLog \/ OnSave
                \/ OnTrainEnd \/ TrainEnded \/ ManifestEntry \/ Finish

Close == \/ StopProfiler \/ CollectSummary \/ WindowEnd \/ Finalize \/ FinalSummary
         \/ WriteSummary \/ WriteSummaryFails \/ CloseSession \/ Closing

Next == Open \/ TrainingLoop \/ Close \/ TrainingFails \/ RecordFailure \/ RunFailed
          \/ Interrupt

Spec == Init /\ [][Next]_vars

-----------------------------------------------------------------------------
(* Safety.                                                                 *)

Whole == {i \in 1 .. Len(markers) : markers[i].event \notin {"old", "torn", "garbage"}}

\* The stamp of a moment between the two the window starts and ends at.
InWindow(ns) == /\ callback.started /\ callback.startNs < ns
                /\ callback.endNs = 0 \/ ns < callback.endNs

\* Markers lie in the order of their stamps.  The beginning of a step refers to
\* the window exactly when it lies inside it, the end of the step exactly when
\* its beginning does, and no other marker refers to a window before its start:
\* also if training resumed inside the requested range, so that the window never
\* opened, or if the run failed before it did (_emit_step_begin,
\* _training_window_reference, on_step_end before on_log).
WindowRefsAreHonest ==
  /\ \A i, j \in Whole : i < j => markers[i].ns < markers[j].ns
  /\ \A i \in Whole : markers[i].ref => callback.started /\ callback.startNs < markers[i].ns
  /\ \A i \in Whole : markers[i].event = "step_begin" => (markers[i].ref <=> InWindow(markers[i].ns))
  /\ \A i, j \in Whole :
       /\ markers[i].event = "step_begin" /\ markers[j].event = "step_end"
       /\ markers[i].step = markers[j].step
       => (markers[i].ref <=> markers[j].ref)

Captured == {s \in trained : callback.started /\ Covers(s)}

\* A summary never claims more than happened: complete means that every
\* requested step was trained inside the window, the last step it names is one
\* of them, and it has both ends of the interval or neither.
ClaimsNoMore ==
  /\ summary.complete => config.start .. config.end \subseteq Captured
  /\ summary.actual \in Captured \cup {0}
  /\ (summary.startNs = 0) = (summary.endNs = 0)
  /\ summary.startNs # 0 => summary.startNs < summary.endNs

\* Nor less: it names the last captured step, is complete if all were, and a
\* window that ended in failure is not one whose start was never reached.
ClaimsNoLess ==
  /\ summary.actual \in Captured \cup {0}
  /\ \A s \in Captured : s <= summary.actual
  /\ summary.startNs = callback.startNs
  /\ summary.complete = (config.start .. config.end \subseteq Captured)

\* The summary on disk says what happened, whatever failed and wherever the run
\* resumed: it never claims more and, unless the run was interrupted from the
\* keyboard, no less; and one write that fails never costs the summary of a
\* window that was opened (_stop_profiler, finalize, close with _pending_summary).
SummaryIsTrue ==
  /\ summary.state = "new" => ClaimsNoMore
  /\ pc = "ended" /\ outcome # "interrupted" =>
       /\ summary.state = "new" => ClaimsNoLess
       /\ callback.started /\ config.primary /\ errors <= 1 =>
            summary.state = "new" /\ summary.startNs = callback.startNs

\* manifest.json points at files this run has written, and never at those of an
\* earlier run of the same name: the marker file holds none of its lines, and
\* one at least that was written to its end, if only behind the beginning of
\* one that was not (docs/contracts/f0_correlation_markers.md, "Artifacts";
\* manifest_entry).
ManifestIsOfThisSession ==
  manifest.taken =>
    /\ manifest.markers =>
         /\ \E i \in 1 .. Len(markers) : markers[i].event \notin {"old", "torn"}
         /\ \A i \in 1 .. Len(markers) : markers[i].event # "old"
    /\ manifest.request => request = "new"
    /\ manifest.summary => summary.state = "new"

=============================================================================
