------------------------ MODULE TelemetrySession_proofs ------------------------
(***************************************************************************)
(* What the telemetry of a training run says is true, for every number of  *)
(* steps, window, resume step and any number of failing writes and Ctrl-C: *)
(* its markers lie inside the window they refer to, its manifest names     *)
(* files of this run only, and its summary claims neither more nor less    *)
(* than was captured.                                                      *)
(*                                                                         *)
(* The invariants are stated bottom up: types and control (where a         *)
(* procedure may return to), stamps and the window, what the session       *)
(* believes of its files, which steps were trained, and what was collected *)
(* and written of them.                                                    *)
(***************************************************************************)
EXTENDS TelemetrySession, SequenceTheorems, TLAPS

-----------------------------------------------------------------------------
(* Types and control.                                                      *)

SessionType == [storage : BOOLEAN, emit : BOOLEAN, requested : BOOLEAN,
                written : BOOLEAN, closed : BOOLEAN, attached : BOOLEAN]

CallbackType == [started : BOOLEAN, profiler : BOOLEAN, startNs : Nat, endNs : Nat,
                 actual : 0 .. MaxSteps, complete : BOOLEAN, last : 0 .. MaxSteps,
                 finalized : BOOLEAN]

ManifestType == [taken : BOOLEAN, markers : BOOLEAN, request : BOOLEAN, summary : BOOLEAN]

Outcomes == {"running", "completed", "failed", "interrupted"}

\* The return addresses under each procedure.
CloseStacks == {<<"manifest">>, <<"ended">>}
FinalizeStacks == {<<"train_ended">>, <<"run_failed">>} \cup {<<"closing">> \o s : s \in CloseStacks}
StopStacks == {<<"log">>} \cup {<<"final_summary">> \o s : s \in FinalizeStacks}

\* Those of them run_training's finally clause is under.
FinallyStacks == {<<"ended">>, <<"closing">> \o <<"ended">>,
                  <<"final_summary">> \o (<<"closing">> \o <<"ended">>)}

Stopping == {"stop", "collect", "window_end"}

\* Before the first step, and from the first step to the last.
Preparing == {"open", "reset", "request", "run_start", "load", "attach", "train_begin"}
Starting == {"window_start", "launch", "step_begin", "compute"}
Looping == Starting \cup {"step", "step_end", "log", "save"}

ControlInv ==
  /\ pc \in Locations
  /\ pc \notin Procedures => stack = <<>>
  /\ pc \in {"close", "closing"} => stack \in CloseStacks
  /\ pc \in {"finalize", "final_summary"} => stack \in FinalizeStacks
  /\ pc = "write" => stack \in CloseStacks \cup FinalizeStacks
  /\ pc \in Stopping => stack \in StopStacks

\* A Ctrl-C leads to the finally clause and out of it.
OutcomeInv ==
  /\ outcome \in Outcomes
  /\ outcome = "interrupted" => pc = "ended" \/ stack \in FinallyStacks

TypeInv ==
  /\ markers \in Seq(Marker)
  /\ request \in {"absent", "old", "torn", "new"}
  /\ summary \in Summary
  /\ config \in Configs
  /\ session \in SessionType
  /\ callback \in CallbackType
  /\ pending \in Summary
  /\ lastNs \in Nat
  /\ published \in BOOLEAN
  /\ manifest \in ManifestType
  /\ step \in 0 .. MaxSteps
  /\ trained \subseteq Steps
  /\ errors \in Nat

\* The step that begins is one of training's, and the one the window starts at
\* when it starts.
StepInv ==
  /\ pc \in Starting => step < MaxSteps
  /\ pc = "step_end" => 0 < step
  /\ pc = "window_start" => config.enabled /\ config.start = step + 1

-----------------------------------------------------------------------------
(* Markers.                                                                *)

\* Every stamp taken so far was the latest when it was taken.
StampInv ==
  /\ \A i \in Whole : markers[i].ns <= lastNs
  /\ \A i, j \in Whole : i < j => markers[i].ns < markers[j].ns
  /\ callback.startNs <= lastNs /\ callback.endNs <= lastNs

\* A window is opened once, in the loop, and closed once, at its end step or
\* after the loop.
WindowInv ==
  /\ callback.started = (callback.startNs # 0)
  /\ callback.endNs # 0 => callback.started /\ callback.startNs < callback.endNs
  /\ callback.started => config.enabled /\ session.attached
  /\ pc \in Preparing => ~callback.started
  /\ pc \in Looping \cup {"train_begin"} => session.attached
  /\ pc \in Starting \cup {"step", "log", "save"} /\ callback.started =>
       IF callback.endNs = 0 THEN step < config.end ELSE config.end <= step
  /\ pc = "step_end" /\ callback.started =>
       IF callback.endNs = 0 THEN step <= config.end ELSE config.end < step
  /\ pc \in Stopping /\ stack = <<"log">> => callback.started /\ step = config.end
  /\ pc \in {"collect", "window_end"} => callback.endNs # 0
  /\ pc \in {"window_start", "launch"} => callback.started

StepEvents == {"step_begin", "step_end"}

\* In the loop the step after this one has no marker, but while it is computed.
Unmarked == \/ pc \in Looping \ {"compute"}
            \/ pc \in Stopping /\ stack = <<"log">>

\* A step's markers are written once it has begun, in the order of the steps,
\* and the window is opened at the beginning of its first step.
PlaceInv ==
  /\ callback.started => config.start <= step + 1
  /\ \A i \in Whole : markers[i].event \in StepEvents =>
       /\ pc \notin Preparing
       /\ markers[i].step <= step + 1
       /\ Unmarked => markers[i].step <= step

\* Whether a step's markers refer to the window depends on the step only, and
\* for its beginning that is whether it lies in the window.
RefHolds(i) ==
  /\ markers[i].ref => callback.started /\ callback.startNs < markers[i].ns
  /\ markers[i].event \in StepEvents => (markers[i].ref <=> RefersToWindow(markers[i].step))
  /\ markers[i].event = "step_begin" => (markers[i].ref <=> InWindow(markers[i].ns))

RefInv == \A i \in Whole : RefHolds(i)

-----------------------------------------------------------------------------
(* The manifest.                                                           *)

\* What the session believes of its files is so.
OwnInv ==
  /\ session.emit /\ pc \notin {"open", "reset", "ended"} =>
       \A i \in 1 .. Len(markers) : markers[i].event # "old"
  /\ published => /\ pc \notin {"open", "reset"}
                  /\ \E i \in 1 .. Len(markers) : markers[i].event \notin {"old", "torn"}
  /\ session.requested => request = "new" /\ pc \notin {"open", "reset", "request"}
  /\ pending = NoSummary \/ pending.state = "new"
  /\ pc = "write" => pending.state = "new" /\ ~session.written
  /\ session.written = (summary.state = "new")

ManifestInv ==
  /\ manifest.taken => pc \notin {"open", "reset", "request"}
  /\ manifest.taken /\ manifest.markers =>
       /\ \E i \in 1 .. Len(markers) : markers[i].event \notin {"old", "torn"}
       /\ \A i \in 1 .. Len(markers) : markers[i].event # "old"
  /\ manifest.taken /\ manifest.request => request = "new"
  /\ manifest.taken /\ manifest.summary => summary.state = "new" /\ session.written

-----------------------------------------------------------------------------
(* The summary.                                                            *)

\* Steps are completed one after the other, and the callback knows the last.
TrainedInv ==
  /\ \A s \in trained : s <= callback.last
  /\ callback.last <= step
  /\ pc \in Preparing => callback.last = 0
  /\ callback.started => config.start .. callback.last \subseteq trained
  /\ pc \in Starting \cup {"step", "log", "save"} /\ callback.started =>
       config.start .. step \subseteq trained
  /\ pc = "step_end" /\ callback.started => config.start .. (step - 1) \subseteq trained
  /\ pc = "step_end" => callback.last < step
  /\ callback.started /\ callback.endNs = 0 => callback.last <= config.end
  /\ pc \in Stopping /\ stack = <<"log">> => callback.last = step
  /\ pc = "collect" => callback.last <= config.end

\* What _stop_profiler has collected of the window it has closed.
CollectedInv ==
  /\ callback.actual # 0 => callback.started /\ callback.actual \in Captured
  /\ callback.complete => config.start .. config.end \subseteq Captured
  /\ callback.started /\ callback.endNs = 0 => callback.actual = 0 /\ ~callback.complete
  /\ callback.endNs # 0 /\ pc # "collect" /\ outcome # "interrupted" =>
       /\ \A s \in Captured : s <= callback.actual
       /\ callback.complete = (config.start .. config.end \subseteq Captured)
\* The summary of the callback's window.
SummaryOfWindow ==
  [state |-> "new", startNs |-> callback.startNs, endNs |-> callback.endNs,
   actual |-> callback.actual, complete |-> callback.complete]

\* What was given to write_profile_summary is true of what was given.
TrueSummary(s) ==
  /\ s.complete => config.start .. config.end \subseteq Captured
  /\ s.actual \in Captured \cup {0}
  /\ (s.startNs = 0) = (s.endNs = 0)
  /\ s.startNs # 0 => s.startNs < s.endNs

WrittenInv ==
  /\ pending # NoSummary => TrueSummary(pending)
  /\ summary.state = "new" => TrueSummary(summary)

\* A session that training is attached to is finalized once, after the loop.
Ending == {"close", "closing", "write", "final_summary", "finalize", "train_ended",
           "run_failed", "manifest", "finish", "failure", "ended"} \cup Stopping

FinalizedInv ==
  /\ callback.finalized => pc \in Ending /\ session.attached
  /\ session.attached => pc \notin Preparing \/ pc = "train_begin"
  /\ pc = "finalize" => session.attached
  /\ pc = "final_summary" => callback.finalized
  /\ pc \in Stopping => callback.finalized = (stack # <<"log">>)
  /\ pc \in {"closing", "train_ended", "run_failed", "manifest", "finish", "write"}
       /\ session.attached => callback.finalized
  /\ pc = "write" /\ stack \in CloseStacks => session.closed
  /\ session.closed => /\ session.attached => callback.finalized
                       /\ pc \in Ending \ (Stopping \cup {"final_summary"})

\* Nothing more will be collected for the summary.
Concluded == /\ callback.finalized \/ ~session.attached
             /\ pc \in Ending \ (Stopping \cup {"final_summary"})

Expected(s) == s = IF callback.started THEN SummaryOfWindow ELSE NotReached

\* Without a Ctrl-C, the window is closed, its summary is kept until it is
\* written, and a write that is tried twice fails twice.
SettledInv ==
  outcome # "interrupted" =>
    /\ pending # NoSummary => Concluded /\ Expected(pending)
    /\ summary.state = "new" => Concluded /\ Expected(summary)
    /\ callback.finalized /\ pc \notin Stopping /\ callback.started => callback.endNs # 0
    /\ callback.finalized /\ Concluded /\ callback.started /\ config.primary /\ ~session.written =>
         /\ pending = SummaryOfWindow
         /\ IF pc = "write" THEN session.closed => errors >= 1
            ELSE errors >= 1 /\ (session.closed => errors >= 2)
    /\ pc = "ended" => session.closed

-----------------------------------------------------------------------------
(* Calls and returns.                                                      *)

\* What is pushed is popped.
LEMMA Pushed ==
  ASSUME NEW a \in Locations, NEW s \in Seq(Locations)
  PROVE  /\ <<a>> \o s \in Seq(Locations)
         /\ <<a>> \o s # <<>> /\ <<a>> \o <<>> = <<a>>
         /\ Head(<<a>> \o s) = a /\ Tail(<<a>> \o s) = s
         /\ s # <<>> => \A b \in Locations : <<a>> \o s # <<b>>
<1> DEFINE t == <<a>> \o s
<1>1. t \in Seq(Locations) /\ Len(t) = Len(s) + 1 /\ Len(s) \in Nat
  OBVIOUS
<1>2. t[1] = a /\ \A i \in 1 .. Len(s) : t[i + 1] = s[i]
  OBVIOUS
<1>3. Tail(t) \in Seq(Locations) /\ Len(Tail(t)) = Len(s)
  BY <1>1
<1>4. \A i \in 1 .. Len(s) : Tail(t)[i] = s[i]
  BY <1>1, <1>2, <1>3
<1>5. Tail(t) = s
  BY <1>3, <1>4, SeqEqual
<1>6. s # <<>> => Len(s) # 0
  BY EmptySeq
<1>7. t # <<>> /\ <<a>> \o <<>> = <<a>> /\ Head(t) = a
  BY <1>1, <1>2
<1>8. ASSUME s # <<>>, NEW b \in Locations PROVE t # <<b>>
  <2> HIDE DEF t
  <2>1. Len(t) > 1
    BY <1>1, <1>6, <1>8
  <2>2. Len(t) # 1
    BY <1>1, <2>1
  <2>3. Len(<<b>>) = 1
    OBVIOUS
  <2>4. CASE t = <<b>>
    BY <2>2, <2>3, <2>4
  <2> QED
    BY <2>4
<1> QED
  BY <1>1, <1>5, <1>7, <1>8

LEMMA Stacks ==
  /\ CloseStacks \subseteq Seq(Locations) \ {<<>>}
  /\ FinalizeStacks \subseteq Seq(Locations) \ {<<>>}
  /\ StopStacks \subseteq Seq(Locations) \ {<<>>}
  /\ \A a \in Locations : /\ <<a>> \in Seq(Locations) /\ <<a>> # <<>>
                          /\ Head(<<a>>) = a /\ Tail(<<a>>) = <<>>
<1>1. \A a \in Locations : /\ <<a>> \in Seq(Locations) /\ <<a>> # <<>>
                           /\ Head(<<a>>) = a /\ Tail(<<a>>) = <<>>
  OBVIOUS
<1>2. {"manifest", "ended", "train_ended", "run_failed", "closing", "log", "final_summary"}
         \subseteq Locations
  BY DEF Locations, Procedures
<1>3. CloseStacks \subseteq Seq(Locations) \ {<<>>}
  BY <1>1, <1>2 DEF CloseStacks
<1>4. FinalizeStacks \subseteq Seq(Locations) \ {<<>>}
  <2>1. \A s \in CloseStacks : <<"closing">> \o s \in Seq(Locations) \ {<<>>}
    BY <1>2, <1>3, Pushed
  <2> QED
    BY <1>1, <1>2, <2>1, Zenon DEF FinalizeStacks
<1>5. StopStacks \subseteq Seq(Locations) \ {<<>>}
  <2>1. \A s \in FinalizeStacks : <<"final_summary">> \o s \in Seq(Locations) \ {<<>>}
    BY <1>2, <1>4, Pushed
  <2> QED
    BY <1>1, <1>2, <2>1, Zenon DEF StopStacks
<1> QED
  BY <1>1, <1>3, <1>4, <1>5

LEMMA Names ==
  {"manifest", "ended", "train_ended", "run_failed", "closing", "log", "final_summary"}
     \subseteq Locations
BY DEF Locations, Procedures

LEMMA StopReturns ==
  ASSUME stack \in StopStacks, Return
  PROVE  \/ stack = <<"log">> /\ pc' = "log" /\ stack' = <<>>
         \/ stack # <<"log">> /\ pc' = "final_summary" /\ stack' \in FinalizeStacks
<1>1. CASE stack = <<"log">>
  BY <1>1, Stacks, Names DEF Return
<1>2. CASE stack # <<"log">>
  <2>1. PICK s \in FinalizeStacks : stack = <<"final_summary">> \o s
    BY <1>2 DEF StopStacks
  <2>2. Head(stack) = "final_summary" /\ Tail(stack) = s
    BY <2>1, Stacks, Names, Pushed
  <2> QED
    BY <1>2, <2>2 DEF Return
<1> QED
  BY <1>1, <1>2

LEMMA FinalizeReturns ==
  ASSUME stack \in FinalizeStacks, Return
  PROVE  \/ pc' \in {"train_ended", "run_failed"} /\ stack' = <<>>
         \/ pc' = "closing" /\ stack' \in CloseStacks
<1>1. CASE stack \in {<<"train_ended">>, <<"run_failed">>}
  BY <1>1, Stacks, Names DEF Return
<1>2. ASSUME NEW s \in CloseStacks, stack = <<"closing">> \o s
      PROVE  pc' = "closing" /\ stack' \in CloseStacks
  <2>1. Head(stack) = "closing" /\ Tail(stack) = s
    BY <1>2, Stacks, Names, Pushed
  <2> QED
    BY <1>2, <2>1 DEF Return
<1> QED
  BY <1>1, <1>2 DEF FinalizeStacks

LEMMA CloseReturns ==
  ASSUME stack \in CloseStacks, Return
  PROVE  pc' \in {"manifest", "ended"} /\ stack' = <<>>
BY Stacks, Names DEF CloseStacks, Return

LEMMA Calls ==
  /\ <<"log">> \o <<>> \in StopStacks
  /\ \A s \in FinalizeStacks : <<"final_summary">> \o s \in StopStacks \ {<<"log">>}
  /\ <<"train_ended">> \o <<>> \in FinalizeStacks
  /\ <<"run_failed">> \o <<>> \in FinalizeStacks
  /\ \A s \in CloseStacks : <<"closing">> \o s \in FinalizeStacks
  /\ <<"manifest">> \o <<>> \in CloseStacks /\ <<"ended">> \in CloseStacks
<1>1. \A a \in Locations : <<a>> \o <<>> = <<a>>
  OBVIOUS
<1>2. \A s \in FinalizeStacks : <<"final_summary">> \o s \in StopStacks \ {<<"log">>}
  BY Stacks, Names, Pushed DEF StopStacks
<1> QED
  BY <1>1, <1>2, Names DEF CloseStacks, FinalizeStacks, StopStacks

\* What is under the finally clause stays under it until the run has ended.
LEMMA FinallyReturns ==
  ASSUME stack \in FinallyStacks, Return
  PROVE  pc' = "ended" \/ stack' \in FinallyStacks
<1>1. <<"ended">> \in CloseStacks /\ <<"closing">> \o <<"ended">> \in FinalizeStacks
  BY Calls
<1>2. CASE stack = <<"ended">>
  BY <1>2, Stacks, Names DEF Return
<1>3. CASE stack = <<"closing">> \o <<"ended">>
  <2>1. Tail(stack) = <<"ended">>
    BY <1>1, <1>3, Stacks, Names, Pushed
  <2> QED
    BY <2>1 DEF Return, FinallyStacks
<1>4. CASE stack = <<"final_summary">> \o (<<"closing">> \o <<"ended">>)
  <2>1. Tail(stack) = <<"closing">> \o <<"ended">>
    BY <1>1, <1>4, Stacks, Names, Pushed
  <2> QED
    BY <2>1 DEF Return, FinallyStacks
<1> QED
  BY <1>2, <1>3, <1>4 DEF FinallyStacks

LEMMA FinallyCalls ==
  /\ <<"closing">> \o <<"ended">> \in FinallyStacks
  /\ <<"final_summary">> \o (<<"closing">> \o <<"ended">>) \in FinallyStacks
  /\ <<>> \notin FinallyStacks
  /\ FinallyStacks \cap CloseStacks = {<<"ended">>}
  /\ FinallyStacks \cap FinalizeStacks = {<<"closing">> \o <<"ended">>}
  /\ <<"log">> \notin FinallyStacks
<1>1. <<"ended">> \in CloseStacks /\ <<"closing">> \o <<"ended">> \in FinalizeStacks
  BY Calls
<1>2. /\ Head(<<"ended">>) = "ended" /\ Head(<<"closing">> \o <<"ended">>) = "closing"
      /\ Head(<<"final_summary">> \o (<<"closing">> \o <<"ended">>)) = "final_summary"
  BY <1>1, Stacks, Names, Pushed
<1>3. \A s \in CloseStacks : Head(s) \in {"manifest", "ended"}
  BY Stacks, Names DEF CloseStacks
<1>4. \A s \in FinalizeStacks : Head(s) \in {"train_ended", "run_failed", "closing"}
  BY Stacks, Names, Pushed DEF FinalizeStacks
<1>5. Head(<<"log">>) = "log"
  BY Stacks, Names
<1>6. <<>> \notin FinallyStacks
  BY <1>1, Stacks, Names, Pushed DEF FinallyStacks
<1> QED
  BY <1>1, <1>2, <1>3, <1>4, <1>5, <1>6 DEF FinallyStacks

-----------------------------------------------------------------------------
(* Appending to the marker file.                                           *)

\* An append adds a line, or continues a torn one into garbage.
AppendEffect(new, line) ==
  /\ new \in Seq(Marker) /\ Len(new) \in {Len(markers), Len(markers) + 1}
  /\ Len(new) \in 1 .. Len(new)
  /\ \A i \in 1 .. Len(new) :
       \/ i \in 1 .. Len(markers) /\ new[i] = markers[i]
       \/ ~AfterTorn /\ i = Len(markers) + 1 /\ new[i] = line
       \/ AfterTorn /\ i = Len(markers) /\ new[i].event \in {"torn", "garbage"}
  /\ \A i \in 1 .. Len(markers) : new[i] = markers[i] \/ markers[i].event = "torn"
  /\ line # TornMarker => new[Len(new)].event \in {"garbage", line.event}

LEMMA Appended ==
  ASSUME markers \in Seq(Marker), NEW line \in Marker
  PROVE  AppendEffect(AppendLine(line), line)
<1> USE DEF AppendEffect
<1> DEFINE new == AppendLine(line)
           n == Len(markers)
           event == IF line = TornMarker THEN "torn" ELSE "garbage"
           last == [markers[n] EXCEPT !.event = event]
<1>1. n \in Nat
  OBVIOUS
<1>2. CASE ~AfterTorn
  <2>1. new = Append(markers, line)
    BY <1>2 DEF AppendLine
  <2>2. new \in Seq(Marker) /\ Len(new) = n + 1 /\ new[n + 1] = line
        /\ \A i \in 1 .. n : new[i] = markers[i]
    BY <2>1, AppendProperties
  <2> QED
    BY <1>1, <1>2, <2>2
<1>3. CASE AfterTorn
  <2>1. n \in 1 .. n /\ markers[n] \in Marker /\ markers[n].event = "torn"
    BY <1>1, <1>3, EmptySeq DEF AfterTorn
  <2>2. last \in Marker /\ last.event = event
    BY <2>1 DEF Marker, Events
  <2>3. new = [markers EXCEPT ![n] = last]
    BY <1>3 DEF AppendLine
  <2>4. new \in Seq(Marker) /\ Len(new) = n /\ new[n] = last
        /\ \A i \in 1 .. n : i # n => new[i] = markers[i]
    <3> HIDE DEF new, last, n
    <3>1. markers \in Seq(Marker) /\ n = Len(markers)
      BY DEF n
    <3>2. /\ [markers EXCEPT ![n] = last] \in Seq(Marker)
          /\ Len([markers EXCEPT ![n] = last]) = Len(markers)
      BY <2>1, <2>2, <3>1, ExceptSeq
    <3>3. DOMAIN markers = 1 .. n
      BY <3>1
    <3> QED
      BY <2>1, <2>3, <3>1, <3>2, <3>3
  <2> QED
    BY <1>1, <1>3, <2>1, <2>2, <2>4
<1> QED
  BY <1>2, <1>3

\* What an Emit does to the marker file, whether it succeeds or not.
EmitEffect(event, at, ref) ==
  /\ markers' \in Seq(Marker) /\ published' \in BOOLEAN
  /\ lastNs' \in Nat /\ lastNs <= lastNs'
  /\ errors' \in Nat /\ errors <= errors'
  /\ \A i \in Whole' :
       \/ i \in Whole /\ markers'[i] = markers[i]
       \/ /\ i = Len(markers) + 1 /\ lastNs' = lastNs + 1
          /\ markers'[i].event = event /\ markers'[i].step = at
          /\ markers'[i].ref = ref /\ markers'[i].ns = lastNs + 1
  /\ \A i \in 1 .. Len(markers') :
       markers'[i].event = "old" => i \in 1 .. Len(markers) /\ markers[i].event = "old"
  /\ \A i \in 1 .. Len(markers) :
       markers[i].event \notin {"old", "torn"} =>
         i \in 1 .. Len(markers') /\ markers'[i].event \notin {"old", "torn"}
  /\ published' => \/ published
                   \/ \E i \in 1 .. Len(markers') : markers'[i].event \notin {"old", "torn"}

LEMMA Emitted ==
  ASSUME TypeInv, NEW event \in Events \ {"old", "torn", "garbage"}, NEW at \in 0 .. MaxSteps,
         NEW ref \in BOOLEAN, Emit(event, at, ref)
  PROVE  EmitEffect(event, at, ref)
<1> DEFINE line == [event |-> event, step |-> at, ref |-> ref, ns |-> lastNs + 1]
<1>0. /\ markers \in Seq(Marker) /\ lastNs \in Nat /\ errors \in Nat /\ published \in BOOLEAN
      /\ Len(markers) \in Nat
  BY DEF TypeInv
<1>1. line \in Marker /\ TornMarker \in Marker /\ line # TornMarker /\ line.event = event
  <2>1. 0 \in 0 .. MaxSteps /\ lastNs + 1 \in Nat
    BY <1>0, StepsAssumption
  <2>2. line \in Marker /\ line.event = event
    BY <2>1 DEF Marker
  <2>3. OldMarker \in Marker
    BY <2>1 DEF Marker, Events, OldMarker
  <2>4. TornMarker \in Marker /\ TornMarker.event = "torn"
    BY <2>3 DEF Marker, Events, TornMarker
  <2> QED
    BY <2>2, <2>4
<1>6. line.event = event /\ line.step = at /\ line.ref = ref /\ line.ns = lastNs + 1
  OBVIOUS
<1>7. Emit(event, at, ref) =
        IF ~session.emit THEN UNCHANGED <<markers, published, lastNs, errors>>
        ELSE /\ lastNs' = lastNs + 1
             /\ \/ markers' = AppendLine(line) /\ published' = TRUE /\ UNCHANGED errors
                \/ /\ Fails
                   /\ markers' \in {markers, AppendLine(TornMarker)}
                   /\ UNCHANGED published
  BY DEF Emit, Stamp
<1> HIDE DEF line
<1>2. CASE UNCHANGED <<markers, published, lastNs, errors>>
  BY <1>0, <1>2 DEF EmitEffect, Whole
<1>3. CASE /\ lastNs' = lastNs + 1 /\ markers' = AppendLine(line) /\ published' = TRUE
           /\ UNCHANGED errors
  <2>1. AppendEffect(markers', line)
    BY <1>0, <1>1, <1>3, Appended
  <2>3. \A i \in Whole' :
         \/ i \in Whole /\ markers'[i] = markers[i]
         \/ /\ i = Len(markers) + 1 /\ lastNs' = lastNs + 1
            /\ markers'[i].event = event /\ markers'[i].step = at
            /\ markers'[i].ref = ref /\ markers'[i].ns = lastNs + 1
    BY <1>0, <1>3, <1>6, <2>1 DEF Whole, AppendEffect
  <2> QED
    BY <1>0, <1>1, <1>3, <1>6, <2>1, <2>3 DEF EmitEffect, Events, AppendEffect
<1>4. CASE /\ lastNs' = lastNs + 1 /\ Fails /\ markers' = AppendLine(TornMarker)
           /\ UNCHANGED published
  <2>1. AppendEffect(markers', TornMarker)
    BY <1>0, <1>1, <1>4, Appended
  <2>2. TornMarker.event = "torn"
    BY DEF TornMarker, OldMarker
  <2>3. \A i \in Whole' : i \in Whole /\ markers'[i] = markers[i]
    BY <1>0, <2>1, <2>2 DEF Whole, AppendEffect
  <2> QED
    BY <1>0, <1>4, <2>1, <2>2, <2>3 DEF EmitEffect, Fails, AppendEffect
<1>5. CASE /\ lastNs' = lastNs + 1 /\ Fails /\ UNCHANGED <<markers, published>>
  BY <1>0, <1>5 DEF EmitEffect, Whole, Fails
<1> QED
  BY <1>2, <1>3, <1>4, <1>5, <1>7

-----------------------------------------------------------------------------
(* Control.                                                                *)

\* Where the process can be, and under which callers.
LEMMA ControlStep ==
  ControlInv /\ [Next]_vars => ControlInv'
<1> SUFFICES ASSUME ControlInv, [Next]_vars PROVE ControlInv'
  OBVIOUS
<1> USE DEF ControlInv, Goto, Call, Stopping, Procedures, Locations
<1>1. CASE PrepareDirectory
  BY <1>1, Calls DEF PrepareDirectory
<1>2. CASE ResetMarkers
  BY <1>2, Calls DEF ResetMarkers
<1>3. CASE WriteRequest
  BY <1>3, Calls DEF WriteRequest
<1>4. CASE RunStart
  BY <1>4, Calls DEF RunStart
<1>5. CASE LoadModel
  BY <1>5, Calls DEF LoadModel
<1>6. CASE Attach
  BY <1>6, Calls DEF Attach
<1>7. CASE OnTrainBegin
  BY <1>7, Calls DEF OnTrainBegin
<1>8. CASE OnStepBegin
  BY <1>8, Calls DEF OnStepBegin
<1>9. CASE WindowStart
  BY <1>9, Calls DEF WindowStart
<1>10. CASE LaunchProfiler
  BY <1>10, Calls DEF LaunchProfiler
<1>11. CASE StepBegin
  BY <1>11, Calls DEF StepBegin
<1>12. CASE Compute
  BY <1>12, Calls DEF Compute
<1>13. CASE OnStepEnd
  BY <1>13, Calls DEF OnStepEnd
<1>14. CASE OnLog
  BY <1>14, Calls DEF OnLog
<1>15. CASE OnSave
  BY <1>15, Calls DEF OnSave
<1>16. CASE OnTrainEnd
  BY <1>16, Calls DEF OnTrainEnd
<1>17. CASE TrainEnded
  BY <1>17, Calls DEF TrainEnded
<1>18. CASE ManifestEntry
  BY <1>18, Calls DEF ManifestEntry
<1>19. CASE Finish
  BY <1>19, Calls DEF Finish
<1>20. CASE StopProfiler
  BY <1>20, StopReturns, Calls DEF StopProfiler
<1>21. CASE CollectSummary
  BY <1>21, Calls DEF CollectSummary
<1>22. CASE WindowEnd
  BY <1>22, StopReturns, Calls DEF WindowEnd
<1>23. CASE Finalize
  BY <1>23, FinalizeReturns, Calls DEF Finalize
<1>24. CASE FinalSummary
  BY <1>24, FinalizeReturns, Calls DEF FinalSummary
<1>25. CASE WriteSummary
  BY <1>25, FinalizeReturns, CloseReturns DEF WriteSummary
<1>26. CASE WriteSummaryFails
  BY <1>26, FinalizeReturns, CloseReturns DEF WriteSummaryFails
<1>27. CASE CloseSession
  BY <1>27, CloseReturns, Calls DEF CloseSession
<1>28. CASE Closing
  BY <1>28, FinalizeReturns, CloseReturns DEF Closing
<1>29. CASE TrainingFails
  BY <1>29, Calls DEF TrainingFails
<1>30. CASE RecordFailure
  BY <1>30, Calls DEF RecordFailure
<1>31. CASE RunFailed
  BY <1>31, Calls DEF RunFailed
<1>32. CASE Interrupt
  BY <1>32, Calls DEF Interrupt
<1>33. CASE UNCHANGED vars
  BY <1>33 DEF vars, control
<1> QED
  BY <1>1, <1>2, <1>3, <1>4, <1>5, <1>6, <1>7, <1>8, <1>9, <1>10, <1>11, <1>12, <1>13, <1>14, <1>15, <1>16, <1>17, <1>18, <1>19, <1>20, <1>21, <1>22, <1>23, <1>24, <1>25, <1>26, <1>27, <1>28, <1>29, <1>30, <1>31, <1>32, <1>33
     DEF Next, Open, TrainingLoop, Close

\* A Ctrl-C is not forgotten, and leads out of the run.
LEMMA FinallyPushed ==
  ASSUME stack \in FinallyStacks
  PROVE  /\ pc \in {"close", "closing"} /\ ControlInv => <<"closing">> \o stack \in FinallyStacks
         /\ pc = "finalize" /\ ControlInv => <<"final_summary">> \o stack \in FinallyStacks
BY FinallyCalls DEF ControlInv

LEMMA OutcomeStep ==
  ControlInv /\ OutcomeInv /\ [Next]_vars => OutcomeInv'
<1> SUFFICES ASSUME ControlInv, OutcomeInv, [Next]_vars PROVE OutcomeInv'
  OBVIOUS
<1> USE DEF ControlInv, OutcomeInv, Outcomes, Goto, Stopping, Procedures, Locations, Raising
<1>0. <<"ended">> \in FinallyStacks /\ <<>> \notin FinallyStacks /\ <<"log">> \notin FinallyStacks
  BY FinallyCalls DEF FinallyStacks
<1>a. Return => outcome' = outcome
  BY DEF Return
<1>1. CASE PrepareDirectory
  BY <1>1, <1>0 DEF PrepareDirectory
<1>2. CASE ResetMarkers
  BY <1>2, <1>0 DEF ResetMarkers
<1>3. CASE WriteRequest
  BY <1>3, <1>0 DEF WriteRequest
<1>4. CASE RunStart
  BY <1>4, <1>0 DEF RunStart
<1>5. CASE LoadModel
  BY <1>5, <1>0 DEF LoadModel
<1>6. CASE Attach
  BY <1>6, <1>0 DEF Attach
<1>7. CASE OnTrainBegin
  BY <1>7, <1>0 DEF OnTrainBegin
<1>8. CASE OnStepBegin
  BY <1>8, <1>0 DEF OnStepBegin
<1>9. CASE WindowStart
  BY <1>9, <1>0 DEF WindowStart
<1>10. CASE LaunchProfiler
  BY <1>10, <1>0 DEF LaunchProfiler
<1>11. CASE StepBegin
  BY <1>11, <1>0 DEF StepBegin
<1>12. CASE Compute
  BY <1>12, <1>0 DEF Compute
<1>13. CASE OnStepEnd
  BY <1>13, <1>0 DEF OnStepEnd, Call
<1>14. CASE OnLog
  BY <1>14, <1>0 DEF OnLog
<1>15. CASE OnSave
  BY <1>15, <1>0 DEF OnSave
<1>16. CASE OnTrainEnd
  BY <1>16, <1>0 DEF OnTrainEnd, Call
<1>17. CASE TrainEnded
  BY <1>17, <1>0 DEF TrainEnded, Call
<1>18. CASE ManifestEntry
  BY <1>18, <1>0 DEF ManifestEntry
<1>19. CASE Finish
  BY <1>19, <1>0 DEF Finish
<1>20. CASE StopProfiler
  BY <1>20, <1>0, <1>a, FinallyReturns, FinallyPushed DEF StopProfiler, Call
<1>21. CASE CollectSummary
  BY <1>21, <1>0 DEF CollectSummary
<1>22. CASE WindowEnd
  BY <1>22, <1>0, <1>a, FinallyReturns, FinallyPushed DEF WindowEnd, Call
<1>23. CASE Finalize
  BY <1>23, <1>0, <1>a, FinallyReturns, FinallyPushed DEF Finalize, Call
<1>24. CASE FinalSummary
  BY <1>24, <1>0, <1>a, FinallyReturns, FinallyPushed DEF FinalSummary, Call
<1>25. CASE WriteSummary
  BY <1>25, <1>0, <1>a, FinallyReturns, FinallyPushed DEF WriteSummary, Call
<1>26. CASE WriteSummaryFails
  BY <1>26, <1>0, <1>a, FinallyReturns, FinallyPushed DEF WriteSummaryFails, Call
<1>27. CASE CloseSession
  BY <1>27, <1>0, <1>a, FinallyReturns, FinallyPushed DEF CloseSession, Call
<1>28. CASE Closing
  BY <1>28, <1>0, <1>a, FinallyReturns, FinallyPushed DEF Closing, Call
<1>29. CASE TrainingFails
  BY <1>29, <1>0 DEF TrainingFails
<1>30. CASE RecordFailure
  BY <1>30, <1>0 DEF RecordFailure, Call
<1>31. CASE RunFailed
  BY <1>31, <1>0 DEF RunFailed
<1>32. CASE Interrupt
  BY <1>32, <1>0 DEF Interrupt
<1>33. CASE UNCHANGED vars
  BY <1>33 DEF vars, control
<1> QED
  BY <1>1, <1>2, <1>3, <1>4, <1>5, <1>6, <1>7, <1>8, <1>9, <1>10, <1>11, <1>12, <1>13,
     <1>14, <1>15, <1>16, <1>17, <1>18, <1>19, <1>20, <1>21, <1>22, <1>23, <1>24, <1>25,
     <1>26, <1>27, <1>28, <1>29, <1>30, <1>31, <1>32, <1>33
     DEF Next, Open, TrainingLoop, Close

LEMMA Silent ==
  ASSUME TypeInv, UNCHANGED <<markers, published, lastNs, errors>>, NEW event, NEW at, NEW ref
  PROVE  EmitEffect(event, at, ref)
BY DEF TypeInv, EmitEffect, Whole

\* The markers of a run, by the step that emits them.
LEMMA EmitSteps ==
  ASSUME TypeInv, StepInv
  PROVE  /\ RunStart => EmitEffect("run_start", 0, FALSE)
         /\ LoadModel => EmitEffect("model_load", 0, FALSE)
         /\ OnTrainBegin => EmitEffect("train_start", step, FALSE)
         /\ WindowStart => EmitEffect("profile_window_start", config.start, TRUE)
         /\ StepBegin => EmitEffect("step_begin", step + 1, RefersToWindow(step + 1))
         /\ OnLog => EmitEffect("step_end", step, RefersToWindow(step))
         /\ OnSave => EmitEffect("checkpoint_complete", step, FALSE)
         /\ TrainEnded => EmitEffect("train_end", step, FALSE)
         /\ WindowEnd => EmitEffect("profile_window_end", callback.actual, TRUE)
         /\ RunFailed => EmitEffect("run_failed", callback.last, FALSE)
<1> USE DEF Events
<1>0. /\ MaxSteps \in Nat /\ step \in 0 .. MaxSteps /\ 0 \in 0 .. MaxSteps
      /\ callback.actual \in 0 .. MaxSteps /\ callback.last \in 0 .. MaxSteps
      /\ callback.started \in BOOLEAN
  BY StepsAssumption DEF TypeInv, CallbackType
<1>1. RunStart => EmitEffect("run_start", 0, FALSE)
  BY <1>0, Emitted DEF RunStart
<1>2. LoadModel => EmitEffect("model_load", 0, FALSE)
  BY <1>0, Emitted DEF LoadModel
<1>3. OnTrainBegin => EmitEffect("train_start", step, FALSE)
  BY <1>0, Emitted DEF OnTrainBegin
<1>4. WindowStart => EmitEffect("profile_window_start", config.start, TRUE)
  <2>1. WindowStart => config.start \in 0 .. MaxSteps
    BY <1>0 DEF WindowStart, StepInv, Starting
  <2> QED
    BY <2>1, Emitted DEF WindowStart
<1>5. StepBegin => EmitEffect("step_begin", step + 1, RefersToWindow(step + 1))
  <2>1. RefersToWindow(step + 1) \in BOOLEAN
    BY DEF RefersToWindow
  <2>2. StepBegin => step + 1 \in 0 .. MaxSteps
    BY <1>0 DEF StepBegin, StepInv, Starting
  <2> QED
    BY <2>1, <2>2, Emitted DEF StepBegin
<1>6. OnLog => EmitEffect("step_end", step, RefersToWindow(step))
  <2>1. RefersToWindow(step) \in BOOLEAN
    BY DEF RefersToWindow
  <2> QED
    BY <1>0, <2>1, Emitted DEF OnLog
<1>7. OnSave => EmitEffect("checkpoint_complete", step, FALSE)
  BY <1>0, Emitted, Silent DEF OnSave
<1>8. TrainEnded => EmitEffect("train_end", step, FALSE)
  BY <1>0, Emitted DEF TrainEnded
<1>9. WindowEnd => EmitEffect("profile_window_end", callback.actual, TRUE)
  BY <1>0, Emitted, Silent DEF WindowEnd
<1>10. RunFailed => EmitEffect("run_failed", callback.last, FALSE)
  BY <1>0, Emitted DEF RunFailed
<1> QED
  BY <1>1, <1>2, <1>3, <1>4, <1>5, <1>6, <1>7, <1>8, <1>9, <1>10

-----------------------------------------------------------------------------
(* Types.                                                                  *)

LEMMA TypeStep ==
  TypeInv /\ StepInv /\ [Next]_vars => TypeInv'
<1> SUFFICES ASSUME TypeInv, StepInv, [Next]_vars PROVE TypeInv'
  OBVIOUS
<1>0. /\ markers \in Seq(Marker) /\ request \in {"absent", "old", "torn", "new"}
      /\ summary \in Summary /\ config \in Configs /\ session \in SessionType
      /\ callback \in CallbackType /\ pending \in Summary /\ lastNs \in Nat
      /\ published \in BOOLEAN /\ manifest \in ManifestType /\ step \in 0 .. MaxSteps
      /\ trained \subseteq Steps /\ errors \in Nat
  BY DEF TypeInv
<1>c. /\ config \in Config /\ config.start <= config.end
      /\ MaxSteps \in Nat /\ ResumeSteps \subseteq 0 .. MaxSteps
  BY <1>0, ConfigsAssumption, StepsAssumption
<1>1. CASE PrepareDirectory
  <2>1. session' \in SessionType
    BY <1>1, <1>0, <1>c DEF PrepareDirectory, SessionType
  <2>2. errors' \in Nat
    BY <1>1, <1>0, <1>c DEF PrepareDirectory, Fails
  <2>3. UNCHANGED <<markers, request, summary, config, callback, pending, lastNs, published, manifest, step, trained>>
    BY <1>1 DEF PrepareDirectory, files, memory, bounds
  <2> QED
    BY <1>0, <2>1, <2>2, <2>3 DEF TypeInv
<1>2. CASE ResetMarkers
  <2>1. session' \in SessionType
    BY <1>2, <1>0, <1>c DEF ResetMarkers, SessionType
  <2>2. markers' \in Seq(Marker)
    BY <1>2, <1>0, EmptySeq DEF ResetMarkers
  <2>3. errors' \in Nat
    BY <1>2, <1>0, <1>c DEF ResetMarkers, Fails
  <2>4. UNCHANGED <<request, summary, config, callback, pending, lastNs, published, manifest, step, trained>>
    BY <1>2 DEF ResetMarkers, files, memory, bounds
  <2> QED
    BY <1>0, <2>1, <2>2, <2>3, <2>4 DEF TypeInv
<1>3. CASE WriteRequest
  <2>1. session' \in SessionType
    BY <1>3, <1>0, <1>c DEF WriteRequest, SessionType
  <2>2. request' \in {"absent", "old", "torn", "new"}
    BY <1>3, <1>0, <1>c DEF WriteRequest
  <2>3. lastNs' \in Nat
    BY <1>3, <1>0, <1>c DEF WriteRequest, Stamp
  <2>4. errors' \in Nat
    BY <1>3, <1>0, <1>c DEF WriteRequest, Fails
  <2>5. UNCHANGED <<markers, summary, config, callback, pending, published, manifest, step, trained>>
    BY <1>3 DEF WriteRequest, files, memory, bounds
  <2> QED
    BY <1>0, <2>1, <2>2, <2>3, <2>4, <2>5 DEF TypeInv
<1>4. CASE RunStart
  <2>1. /\ markers' \in Seq(Marker) /\ published' \in BOOLEAN
        /\ lastNs' \in Nat /\ errors' \in Nat
    BY <1>4, EmitSteps DEF EmitEffect
  <2>2. UNCHANGED <<request, summary, config, session, callback, pending, manifest, step, trained>>
    BY <1>4 DEF RunStart
  <2> QED
    BY <1>0, <2>1, <2>2 DEF TypeInv
<1>5. CASE LoadModel
  <2>1. /\ markers' \in Seq(Marker) /\ published' \in BOOLEAN
        /\ lastNs' \in Nat /\ errors' \in Nat
    BY <1>5, EmitSteps DEF EmitEffect
  <2>2. UNCHANGED <<request, summary, config, session, callback, pending, manifest, step, trained>>
    BY <1>5 DEF LoadModel
  <2> QED
    BY <1>0, <2>1, <2>2 DEF TypeInv
<1>6. CASE Attach
  <2>1. session' \in SessionType
    BY <1>6, <1>0, <1>c DEF Attach, SessionType
  <2>2. step' \in 0 .. MaxSteps
    BY <1>6, <1>0, <1>c DEF Attach
  <2>3. UNCHANGED <<markers, request, summary, config, callback, pending, lastNs, published, manifest, trained, errors>>
    BY <1>6 DEF Attach, files, memory, bounds
  <2> QED
    BY <1>0, <2>1, <2>2, <2>3 DEF TypeInv
<1>7. CASE OnTrainBegin
  <2>1. /\ markers' \in Seq(Marker) /\ published' \in BOOLEAN
        /\ lastNs' \in Nat /\ errors' \in Nat
    BY <1>7, EmitSteps DEF EmitEffect
  <2>2. UNCHANGED <<request, summary, config, session, callback, pending, manifest, step, trained>>
    BY <1>7 DEF OnTrainBegin
  <2> QED
    BY <1>0, <2>1, <2>2 DEF TypeInv
<1>8. CASE OnStepBegin
  <2>1. lastNs' \in Nat
    BY <1>8, <1>0, <1>c DEF OnStepBegin, Stamp, Stamp
  <2>2. callback' \in CallbackType
    <3>1. CASE callback' = callback
      BY <1>0, <3>1
    <3>a. lastNs + 1 \in Nat
      BY <1>0
    <3>2. CASE callback' = [callback EXCEPT !.started = TRUE, !.startNs = lastNs + 1]
      BY <1>0, <3>a, <3>2 DEF CallbackType
    <3> QED
      BY <1>8, <3>1, <3>2 DEF OnStepBegin
  <2>3. UNCHANGED <<markers, request, summary, config, session, pending, published, manifest, step, trained, errors>>
    BY <1>8 DEF OnStepBegin, files, memory, bounds
  <2> QED
    BY <1>0, <2>1, <2>2, <2>3 DEF TypeInv
<1>9. CASE WindowStart
  <2>1. /\ markers' \in Seq(Marker) /\ published' \in BOOLEAN
        /\ lastNs' \in Nat /\ errors' \in Nat
    BY <1>9, EmitSteps DEF EmitEffect
  <2>2. UNCHANGED <<request, summary, config, session, callback, pending, manifest, step, trained>>
    BY <1>9 DEF WindowStart
  <2> QED
    BY <1>0, <2>1, <2>2 DEF TypeInv
<1>10. CASE LaunchProfiler
  <2>1. callback' \in CallbackType
    BY <1>10, <1>0, <1>c DEF LaunchProfiler, CallbackType
  <2>2. errors' \in Nat
    BY <1>10, <1>0, <1>c DEF LaunchProfiler, Fails
  <2>3. UNCHANGED <<markers, request, summary, config, session, pending, lastNs, published, manifest, step, trained>>
    BY <1>10 DEF LaunchProfiler, files, memory, bounds
  <2> QED
    BY <1>0, <2>1, <2>2, <2>3 DEF TypeInv
<1>11. CASE StepBegin
  <2>1. /\ markers' \in Seq(Marker) /\ published' \in BOOLEAN
        /\ lastNs' \in Nat /\ errors' \in Nat
    BY <1>11, EmitSteps DEF EmitEffect
  <2>2. UNCHANGED <<request, summary, config, session, callback, pending, manifest, step, trained>>
    BY <1>11 DEF StepBegin
  <2> QED
    BY <1>0, <2>1, <2>2 DEF TypeInv
<1>12. CASE Compute
  <2>1. step' \in 0 .. MaxSteps
    BY <1>12, <1>0, <1>c DEF Compute, StepInv, Starting
  <2>2. UNCHANGED <<markers, request, summary, config, session, callback, pending, lastNs, published, manifest, trained, errors>>
    BY <1>12 DEF Compute, files, memory, bounds
  <2> QED
    BY <1>0, <2>1, <2>2 DEF TypeInv
<1>13. CASE OnStepEnd
  <2>1. callback' \in CallbackType
    BY <1>13, <1>0, <1>c DEF OnStepEnd, CallbackType, StepInv
  <2>2. errors' \in Nat
    BY <1>13, <1>0, <1>c DEF OnStepEnd, Fails, StepInv
  <2>3. trained' \in SUBSET Steps
    BY <1>13, <1>0, <1>c DEF OnStepEnd, Steps, Starting, StepInv
  <2>4. UNCHANGED <<markers, request, summary, config, session, pending, lastNs, published, manifest, step>>
    BY <1>13 DEF OnStepEnd, files, memory, bounds
  <2> QED
    BY <1>0, <2>1, <2>2, <2>3, <2>4 DEF TypeInv
<1>14. CASE OnLog
  <2>1. /\ markers' \in Seq(Marker) /\ published' \in BOOLEAN
        /\ lastNs' \in Nat /\ errors' \in Nat
    BY <1>14, EmitSteps DEF EmitEffect
  <2>2. UNCHANGED <<request, summary, config, session, callback, pending, manifest, step, trained>>
    BY <1>14 DEF OnLog
  <2> QED
    BY <1>0, <2>1, <2>2 DEF TypeInv
<1>15. CASE OnSave
  <2>1. /\ markers' \in Seq(Marker) /\ published' \in BOOLEAN
        /\ lastNs' \in Nat /\ errors' \in Nat
    BY <1>15, EmitSteps DEF EmitEffect
  <2>2. UNCHANGED <<request, summary, config, session, callback, pending, manifest, step, trained>>
    BY <1>15 DEF OnSave
  <2> QED
    BY <1>0, <2>1, <2>2 DEF TypeInv
<1>16. CASE OnTrainEnd
  <2>1. callback' \in CallbackType
    BY <1>16, <1>0, <1>c DEF OnTrainEnd, CallbackType
  <2>2. UNCHANGED <<markers, request, summary, config, session, pending, lastNs, published, manifest, step, trained, errors>>
    BY <1>16 DEF OnTrainEnd, files, memory, bounds
  <2> QED
    BY <1>0, <2>1, <2>2 DEF TypeInv
<1>17. CASE TrainEnded
  <2>1. /\ markers' \in Seq(Marker) /\ published' \in BOOLEAN
        /\ lastNs' \in Nat /\ errors' \in Nat
    BY <1>17, EmitSteps DEF EmitEffect
  <2>2. UNCHANGED <<request, summary, config, session, callback, pending, manifest, step, trained>>
    BY <1>17 DEF TrainEnded
  <2> QED
    BY <1>0, <2>1, <2>2 DEF TypeInv
<1>18. CASE ManifestEntry
  <2>1. manifest' \in ManifestType
    <3>1. session.emit \in BOOLEAN /\ session.requested \in BOOLEAN /\ session.written \in BOOLEAN
      BY <1>0 DEF SessionType
    <3>2. PublishedSummary \in BOOLEAN /\ (session.emit /\ published) \in BOOLEAN
      BY DEF PublishedSummary
    <3> QED
      BY <1>18, <3>1, <3>2 DEF ManifestEntry, ManifestType
  <2>2. UNCHANGED <<markers, request, summary, config, session, callback, pending, lastNs, published, step, trained, errors>>
    BY <1>18 DEF ManifestEntry, files, memory, bounds
  <2> QED
    BY <1>0, <2>1, <2>2 DEF TypeInv
<1>19. CASE Finish
  BY <1>19, <1>0 DEF Finish, files, memory, bounds, TypeInv
<1>20. CASE StopProfiler
  <2>1. lastNs' \in Nat
    BY <1>20, <1>0, <1>c DEF StopProfiler, Stamp, Stamp
  <2>2. callback' \in CallbackType
    BY <1>20, <1>0, <1>c DEF StopProfiler, CallbackType, Stamp
  <2>3. UNCHANGED <<markers, request, summary, config, session, pending, published, manifest, step, trained, errors>>
    BY <1>20 DEF StopProfiler, files, memory, bounds
  <2> QED
    BY <1>0, <2>1, <2>2, <2>3 DEF TypeInv
<1>21. CASE CollectSummary
  <2>1. callback' \in CallbackType
    <3>1. ActualStep \in 0 .. MaxSteps /\ IsComplete \in BOOLEAN
      BY <1>0, <1>c DEF ActualStep, IsComplete, CallbackType
    <3> QED
      BY <1>21, <1>0, <3>1 DEF CollectSummary, CallbackType
  <2>2. UNCHANGED <<markers, request, summary, config, session, pending, lastNs, published, manifest, step, trained, errors>>
    BY <1>21 DEF CollectSummary, files, memory, bounds
  <2> QED
    BY <1>0, <2>1, <2>2 DEF TypeInv
<1>22. CASE WindowEnd
  <2>1. /\ markers' \in Seq(Marker) /\ published' \in BOOLEAN
        /\ lastNs' \in Nat /\ errors' \in Nat
    BY <1>22, EmitSteps DEF EmitEffect
  <2>2. UNCHANGED <<request, summary, config, session, callback, pending, manifest, step, trained>>
    BY <1>22 DEF WindowEnd
  <2> QED
    BY <1>0, <2>1, <2>2 DEF TypeInv
<1>23. CASE Finalize
  <2>1. callback' \in CallbackType
    BY <1>23, <1>0, <1>c DEF Finalize, CallbackType
  <2>2. UNCHANGED <<markers, request, summary, config, session, pending, lastNs, published, manifest, step, trained, errors>>
    BY <1>23 DEF Finalize, files, memory, bounds
  <2> QED
    BY <1>0, <2>1, <2>2 DEF TypeInv
<1>24. CASE FinalSummary
  <2>1. pending' \in Summary
    BY <1>24, <1>0, <1>c DEF FinalSummary, Summary, NoSummary, LastSummary, NotReached, CallbackType
  <2>2. UNCHANGED <<markers, request, summary, config, session, callback, lastNs, published, manifest, step, trained, errors>>
    BY <1>24 DEF FinalSummary, files, memory, bounds
  <2> QED
    BY <1>0, <2>1, <2>2 DEF TypeInv
<1>25. CASE WriteSummary
  <2>1. lastNs' \in Nat
    BY <1>25, <1>0, <1>c DEF WriteSummary, Stamp
  <2>2. summary' \in Summary
    BY <1>25, <1>0, <1>c DEF WriteSummary, Summary, NoSummary
  <2>3. session' \in SessionType
    BY <1>25, <1>0, <1>c DEF WriteSummary, SessionType
  <2>4. pending' \in Summary
    BY <1>25, <1>0, <1>c DEF WriteSummary, Summary, NoSummary, LastSummary, NotReached, CallbackType
  <2>5. UNCHANGED <<markers, request, config, callback, published, manifest, step, trained, errors>>
    BY <1>25 DEF WriteSummary, files, memory, bounds
  <2> QED
    BY <1>0, <2>1, <2>2, <2>3, <2>4, <2>5 DEF TypeInv
<1>26. CASE WriteSummaryFails
  <2>1. lastNs' \in Nat
    BY <1>26, <1>0, <1>c DEF WriteSummaryFails, Stamp
  <2>2. summary' \in Summary
    <3>1. NoSummary \in Summary
      BY <1>c DEF NoSummary, Summary
    <3>2. [NoSummary EXCEPT !.state = "torn"] \in Summary
      BY <3>1 DEF Summary
    <3> QED
      BY <1>26, <1>0, <3>2 DEF WriteSummaryFails
  <2>3. errors' \in Nat
    BY <1>26, <1>0, <1>c DEF WriteSummaryFails, Fails
  <2>4. UNCHANGED <<markers, request, config, session, callback, pending, published, manifest, step, trained>>
    BY <1>26 DEF WriteSummaryFails, files, memory, bounds
  <2> QED
    BY <1>0, <2>1, <2>2, <2>3, <2>4 DEF TypeInv
<1>27. CASE CloseSession
  BY <1>27, <1>0 DEF CloseSession, files, memory, bounds, TypeInv
<1>28. CASE Closing
  <2>1. session' \in SessionType
    BY <1>28, <1>0, <1>c DEF Closing, SessionType
  <2>2. pending' \in Summary
    <3>1. NoSummary \in Summary
      BY <1>c DEF NoSummary, Summary
    <3>2. NotReached \in Summary
      BY <3>1 DEF Summary, NotReached
    <3> QED
      BY <1>28, <1>0, <3>2 DEF Closing, LastSummary
  <2>3. UNCHANGED <<markers, request, summary, config, callback, lastNs, published, manifest, step, trained, errors>>
    BY <1>28 DEF Closing, files, memory, bounds
  <2> QED
    BY <1>0, <2>1, <2>2, <2>3 DEF TypeInv
<1>29. CASE TrainingFails
  BY <1>29, <1>0 DEF TrainingFails, files, memory, bounds, TypeInv
<1>30. CASE RecordFailure
  BY <1>30, <1>0 DEF RecordFailure, files, memory, bounds, TypeInv
<1>31. CASE RunFailed
  <2>1. /\ markers' \in Seq(Marker) /\ published' \in BOOLEAN
        /\ lastNs' \in Nat /\ errors' \in Nat
    BY <1>31, EmitSteps DEF EmitEffect
  <2>2. UNCHANGED <<request, summary, config, session, callback, pending, manifest, step, trained>>
    BY <1>31 DEF RunFailed
  <2> QED
    BY <1>0, <2>1, <2>2 DEF TypeInv
<1>32. CASE Interrupt
  BY <1>32, <1>0 DEF Interrupt, files, memory, bounds, TypeInv
<1>33. CASE UNCHANGED vars
  BY <1>33 DEF vars, files, memory, bounds, TypeInv
<1> QED
  BY <1>1, <1>2, <1>3, <1>4, <1>5, <1>6, <1>7, <1>8, <1>9, <1>10, <1>11, <1>12, <1>13,
     <1>14, <1>15, <1>16, <1>17, <1>18, <1>19, <1>20, <1>21, <1>22, <1>23, <1>24, <1>25,
     <1>26, <1>27, <1>28, <1>29, <1>30, <1>31, <1>32, <1>33
     DEF Next, Open, TrainingLoop, Close

\* The steps that begin are those of training.
LEMMA StepStep ==
  TypeInv /\ ControlInv /\ StepInv /\ [Next]_vars => StepInv'
<1> SUFFICES ASSUME TypeInv, ControlInv, StepInv, [Next]_vars PROVE StepInv'
  OBVIOUS
<1> USE DEF StepInv, Starting, files, memory
<1>0. step \in 0 .. MaxSteps /\ MaxSteps \in Nat
  BY StepsAssumption DEF TypeInv
<1>1. CASE PrepareDirectory
  BY <1>1 DEF PrepareDirectory, Goto, Call
<1>2. CASE ResetMarkers
  BY <1>2 DEF ResetMarkers, Goto, Call
<1>3. CASE WriteRequest
  BY <1>3 DEF WriteRequest, Goto, Call
<1>4. CASE RunStart
  BY <1>4 DEF RunStart, Goto, Call
<1>5. CASE LoadModel
  BY <1>5 DEF LoadModel, Goto, Call
<1>6. CASE Attach
  BY <1>6 DEF Attach, Goto, Call
<1>7. CASE OnTrainBegin
  BY <1>7 DEF OnTrainBegin, Goto, Call
<1>8. CASE OnStepBegin
  BY <1>8, <1>0 DEF OnStepBegin, Goto, StartsWindow
<1>9. CASE WindowStart
  BY <1>9 DEF WindowStart, Goto, Call
<1>10. CASE LaunchProfiler
  BY <1>10 DEF LaunchProfiler, Goto, Call
<1>11. CASE StepBegin
  BY <1>11 DEF StepBegin, Goto, Call
<1>12. CASE Compute
  BY <1>12, <1>0 DEF Compute, Goto
<1>13. CASE OnStepEnd
  BY <1>13 DEF OnStepEnd, Goto, Call
<1>14. CASE OnLog
  BY <1>14 DEF OnLog, Goto, Call
<1>15. CASE OnSave
  BY <1>15 DEF OnSave, Goto, Call
<1>16. CASE OnTrainEnd
  BY <1>16 DEF OnTrainEnd, Goto, Call
<1>17. CASE TrainEnded
  BY <1>17 DEF TrainEnded, Goto, Call
<1>18. CASE ManifestEntry
  BY <1>18 DEF ManifestEntry, Goto, Call
<1>19. CASE Finish
  BY <1>19 DEF Finish, Goto, Call
<1>20. CASE StopProfiler
  BY <1>20, StopReturns DEF StopProfiler, Goto, Call, ControlInv, Stopping
<1>21. CASE CollectSummary
  BY <1>21 DEF CollectSummary, Goto, Call
<1>22. CASE WindowEnd
  BY <1>22, StopReturns DEF WindowEnd, Goto, Call, ControlInv, Stopping
<1>23. CASE Finalize
  BY <1>23, FinalizeReturns DEF Finalize, Goto, Call, ControlInv, Stopping
<1>24. CASE FinalSummary
  BY <1>24, FinalizeReturns DEF FinalSummary, Goto, Call, ControlInv, Stopping
<1>25. CASE WriteSummary
  BY <1>25, FinalizeReturns, CloseReturns DEF WriteSummary, Goto, ControlInv
<1>26. CASE WriteSummaryFails
  BY <1>26, FinalizeReturns, CloseReturns DEF WriteSummaryFails, Goto, ControlInv
<1>27. CASE CloseSession
  BY <1>27, CloseReturns DEF CloseSession, Goto, Call, ControlInv, Stopping
<1>28. CASE Closing
  BY <1>28, FinalizeReturns, CloseReturns DEF Closing, Goto, ControlInv
<1>29. CASE TrainingFails
  BY <1>29 DEF TrainingFails, Goto, Call
<1>30. CASE RecordFailure
  BY <1>30 DEF RecordFailure, Goto, Call
<1>31. CASE RunFailed
  BY <1>31 DEF RunFailed, Goto, Call
<1>32. CASE Interrupt
  BY <1>32 DEF Interrupt, Goto, Call
<1>33. CASE UNCHANGED vars
  BY <1>33 DEF vars, control
<1> QED
  BY <1>1, <1>2, <1>3, <1>4, <1>5, <1>6, <1>7, <1>8, <1>9, <1>10, <1>11, <1>12, <1>13,
     <1>14, <1>15, <1>16, <1>17, <1>18, <1>19, <1>20, <1>21, <1>22, <1>23, <1>24, <1>25,
     <1>26, <1>27, <1>28, <1>29, <1>30, <1>31, <1>32, <1>33
     DEF Next, Open, TrainingLoop, Close

-----------------------------------------------------------------------------
(* Stamps and the window.                                                  *)

\* The numbers the stamps are compared as.
LEMMA Numbers ==
  ASSUME TypeInv
  PROVE  /\ lastNs \in Nat /\ markers \in Seq(Marker) /\ Len(markers) \in Nat
         /\ callback \in CallbackType /\ callback.startNs \in Nat /\ callback.endNs \in Nat
         /\ callback.last \in 0 .. MaxSteps
         /\ step \in 0 .. MaxSteps /\ MaxSteps \in Nat
         /\ config.start \in Nat \ {0} /\ config.end \in Nat /\ config.start <= config.end
         /\ \A i \in Whole : /\ i \in Nat /\ i <= Len(markers)
                             /\ markers[i].ns \in Nat /\ markers[i].step \in Nat
<1>1. config \in Config /\ config.start <= config.end
  BY ConfigsAssumption DEF TypeInv
<1>2. markers \in Seq(Marker) /\ Len(markers) \in Nat
  BY DEF TypeInv
<1>3. \A i \in Whole : i \in Nat /\ i <= Len(markers) /\ markers[i] \in Marker
  BY <1>2 DEF Whole
<1> QED
  BY <1>1, <1>2, <1>3, StepsAssumption DEF TypeInv, Config, Marker, CallbackType

LEMMA StampEmits ==
  ASSUME TypeInv, StampInv, NEW event, NEW at, NEW ref, EmitEffect(event, at, ref), UNCHANGED callback
  PROVE  StampInv'
<1>0. /\ lastNs \in Nat /\ lastNs' \in Nat /\ lastNs <= lastNs' /\ Len(markers) \in Nat
      /\ callback.startNs \in Nat /\ callback.endNs \in Nat
      /\ \A i \in Whole : i \in Nat /\ i <= Len(markers) /\ markers[i].ns \in Nat
  BY Numbers DEF EmitEffect
<1>1. \A i \in Whole' :
         \/ i \in Whole /\ markers'[i] = markers[i]
         \/ i = Len(markers) + 1 /\ lastNs' = lastNs + 1 /\ markers'[i].ns = lastNs + 1
  BY DEF EmitEffect
<1>2. \A i \in Whole' : markers'[i].ns <= lastNs'
  BY <1>0, <1>1 DEF StampInv
<1>3. ASSUME NEW i \in Whole', NEW j \in Whole', i < j PROVE markers'[i].ns < markers'[j].ns
  <2>1. i \in Whole /\ markers'[i] = markers[i]
    BY <1>0, <1>1, <1>3
  <2> QED
    BY <1>0, <1>1, <1>3, <2>1 DEF StampInv
<1>4. callback'.startNs <= lastNs' /\ callback'.endNs <= lastNs'
  BY <1>0 DEF StampInv
<1> QED
  BY <1>2, <1>3, <1>4 DEF StampInv

\* A stamp is later than every stamp before it.
LEMMA StampStep ==
  TypeInv /\ StepInv /\ StampInv /\ [Next]_vars => StampInv'
<1> SUFFICES ASSUME TypeInv, StepInv, StampInv, [Next]_vars PROVE StampInv'
  OBVIOUS
<1>0. /\ lastNs \in Nat /\ callback \in CallbackType
      /\ callback.startNs \in Nat /\ callback.endNs \in Nat
      /\ \A i \in Whole : markers[i].ns \in Nat
  BY Numbers
<1>1. CASE PrepareDirectory
  BY <1>1 DEF PrepareDirectory, StampInv, Whole, files, memory
<1>2. CASE ResetMarkers
  <2>1. UNCHANGED <<callback, lastNs>> /\ (markers' = markers \/ markers' = <<>>)
    BY <1>2 DEF ResetMarkers
  <2>2. Whole' = Whole \/ Whole' = {}
    BY <2>1 DEF Whole
  <2> QED
    BY <2>1, <2>2 DEF StampInv, Whole
<1>3. CASE WriteRequest
  <2>1. UNCHANGED <<markers, Whole, callback>> /\ lastNs' \in {lastNs, lastNs + 1}
    BY <1>3, <1>0 DEF WriteRequest, Stamp, Whole
  <2> QED
    BY <1>0, <2>1 DEF StampInv, CallbackType
<1>4. CASE RunStart
  <2>1. EmitEffect("run_start", 0, FALSE) /\ UNCHANGED callback
    BY <1>4, EmitSteps DEF RunStart
  <2> QED
    BY <2>1, StampEmits
<1>5. CASE LoadModel
  <2>1. EmitEffect("model_load", 0, FALSE) /\ UNCHANGED callback
    BY <1>5, EmitSteps DEF LoadModel
  <2> QED
    BY <2>1, StampEmits
<1>6. CASE Attach
  BY <1>6 DEF Attach, StampInv, Whole, files, memory
<1>7. CASE OnTrainBegin
  <2>1. EmitEffect("train_start", step, FALSE) /\ UNCHANGED callback
    BY <1>7, EmitSteps DEF OnTrainBegin
  <2> QED
    BY <2>1, StampEmits
<1>8. CASE OnStepBegin
  <2>1. UNCHANGED <<markers, Whole>> /\ lastNs <= lastNs'
    BY <1>8, <1>0 DEF OnStepBegin, Stamp, files, Whole
  <2>2. /\ callback'.startNs \in {callback.startNs, lastNs'}
        /\ callback'.endNs \in {callback.endNs, lastNs'} /\ lastNs' \in Nat
    <3>1. lastNs' \in Nat
      BY <1>8, <1>0 DEF OnStepBegin, Stamp
    <3>2. \/ callback' = callback
          \/ callback' = [callback EXCEPT !.started = TRUE, !.startNs = lastNs']
      BY <1>8 DEF OnStepBegin, Stamp
    <3>3. CASE callback' = callback
      BY <3>1, <3>3
    <3>4. CASE callback' = [callback EXCEPT !.started = TRUE, !.startNs = lastNs']
      BY <1>0, <3>1, <3>4 DEF CallbackType
    <3> QED
      BY <3>2, <3>3, <3>4
  <2> QED
    BY <1>0, <2>1, <2>2 DEF StampInv
<1>9. CASE WindowStart
  <2>1. EmitEffect("profile_window_start", config.start, TRUE) /\ UNCHANGED callback
    BY <1>9, EmitSteps DEF WindowStart
  <2> QED
    BY <2>1, StampEmits
<1>10. CASE LaunchProfiler
  <2>1. UNCHANGED <<markers, Whole, lastNs>>
    BY <1>10 DEF LaunchProfiler, files, Whole
  <2>2. callback'.startNs = callback.startNs /\ callback'.endNs = callback.endNs
    BY <1>10, <1>0 DEF LaunchProfiler, CallbackType
  <2> QED
    BY <2>1, <2>2 DEF StampInv
<1>11. CASE StepBegin
  <2>1. EmitEffect("step_begin", step + 1, RefersToWindow(step + 1)) /\ UNCHANGED callback
    BY <1>11, EmitSteps DEF StepBegin
  <2> QED
    BY <2>1, StampEmits
<1>12. CASE Compute
  BY <1>12 DEF Compute, StampInv, Whole, files, memory
<1>13. CASE OnStepEnd
  <2>1. UNCHANGED <<markers, Whole, lastNs>>
    BY <1>13 DEF OnStepEnd, files, Whole
  <2>2. callback'.startNs = callback.startNs /\ callback'.endNs = callback.endNs
    BY <1>13, <1>0 DEF OnStepEnd, CallbackType
  <2> QED
    BY <2>1, <2>2 DEF StampInv
<1>14. CASE OnLog
  <2>1. EmitEffect("step_end", step, RefersToWindow(step)) /\ UNCHANGED callback
    BY <1>14, EmitSteps DEF OnLog
  <2> QED
    BY <2>1, StampEmits
<1>15. CASE OnSave
  <2>1. EmitEffect("checkpoint_complete", step, FALSE) /\ UNCHANGED callback
    BY <1>15, EmitSteps DEF OnSave
  <2> QED
    BY <2>1, StampEmits
<1>16. CASE OnTrainEnd
  <2>1. UNCHANGED <<markers, Whole, lastNs>>
    BY <1>16 DEF OnTrainEnd, files, Whole
  <2>2. callback'.startNs = callback.startNs /\ callback'.endNs = callback.endNs
    BY <1>16, <1>0 DEF OnTrainEnd, CallbackType
  <2> QED
    BY <2>1, <2>2 DEF StampInv
<1>17. CASE TrainEnded
  <2>1. EmitEffect("train_end", step, FALSE) /\ UNCHANGED callback
    BY <1>17, EmitSteps DEF TrainEnded
  <2> QED
    BY <2>1, StampEmits
<1>18. CASE ManifestEntry
  BY <1>18 DEF ManifestEntry, StampInv, Whole, files, memory
<1>19. CASE Finish
  BY <1>19 DEF Finish, StampInv, Whole, files, memory
<1>20. CASE StopProfiler
  <2>1. UNCHANGED <<markers, Whole>> /\ lastNs <= lastNs'
    BY <1>20, <1>0 DEF StopProfiler, Stamp, files, Whole
  <2>2. /\ callback'.startNs \in {callback.startNs, lastNs'}
        /\ callback'.endNs \in {callback.endNs, lastNs'} /\ lastNs' \in Nat
    <3>1. lastNs' \in Nat
      BY <1>20, <1>0 DEF StopProfiler, Stamp
    <3>2. \/ callback' = callback
          \/ callback' = [callback EXCEPT !.endNs = lastNs']
      BY <1>20 DEF StopProfiler, Stamp
    <3>3. CASE callback' = callback
      BY <3>1, <3>3
    <3>4. CASE callback' = [callback EXCEPT !.endNs = lastNs']
      BY <1>0, <3>1, <3>4 DEF CallbackType
    <3> QED
      BY <3>2, <3>3, <3>4
  <2> QED
    BY <1>0, <2>1, <2>2 DEF StampInv
<1>21. CASE CollectSummary
  <2>1. UNCHANGED <<markers, Whole, lastNs>>
    BY <1>21 DEF CollectSummary, files, Whole
  <2>2. callback'.startNs = callback.startNs /\ callback'.endNs = callback.endNs
    BY <1>21, <1>0 DEF CollectSummary, CallbackType
  <2> QED
    BY <2>1, <2>2 DEF StampInv
<1>22. CASE WindowEnd
  <2>1. EmitEffect("profile_window_end", callback.actual, TRUE) /\ UNCHANGED callback
    BY <1>22, EmitSteps DEF WindowEnd
  <2> QED
    BY <2>1, StampEmits
<1>23. CASE Finalize
  <2>1. UNCHANGED <<markers, Whole, lastNs>>
    BY <1>23 DEF Finalize, files, Whole
  <2>2. callback'.startNs = callback.startNs /\ callback'.endNs = callback.endNs
    BY <1>23, <1>0 DEF Finalize, CallbackType
  <2> QED
    BY <2>1, <2>2 DEF StampInv
<1>24. CASE FinalSummary
  BY <1>24 DEF FinalSummary, StampInv, Whole, files, memory
<1>25. CASE WriteSummary
  <2>1. UNCHANGED <<markers, Whole, callback>> /\ lastNs' \in {lastNs, lastNs + 1}
    BY <1>25, <1>0 DEF WriteSummary, Stamp, Whole
  <2> QED
    BY <1>0, <2>1 DEF StampInv, CallbackType
<1>26. CASE WriteSummaryFails
  <2>1. UNCHANGED <<markers, Whole, callback>> /\ lastNs' \in {lastNs, lastNs + 1}
    BY <1>26, <1>0 DEF WriteSummaryFails, Stamp, Whole
  <2> QED
    BY <1>0, <2>1 DEF StampInv, CallbackType
<1>27. CASE CloseSession
  BY <1>27 DEF CloseSession, StampInv, Whole, files, memory
<1>28. CASE Closing
  BY <1>28 DEF Closing, StampInv, Whole, files, memory
<1>29. CASE TrainingFails
  BY <1>29 DEF TrainingFails, StampInv, Whole, files, memory
<1>30. CASE RecordFailure
  BY <1>30 DEF RecordFailure, StampInv, Whole, files, memory
<1>31. CASE RunFailed
  <2>1. EmitEffect("run_failed", callback.last, FALSE) /\ UNCHANGED callback
    BY <1>31, EmitSteps DEF RunFailed
  <2> QED
    BY <2>1, StampEmits
<1>32. CASE Interrupt
  BY <1>32 DEF Interrupt, StampInv, Whole, files, memory
<1>33. CASE UNCHANGED vars
  BY <1>33 DEF vars, files, memory, StampInv, Whole
<1> QED
  BY <1>1, <1>2, <1>3, <1>4, <1>5, <1>6, <1>7, <1>8, <1>9, <1>10, <1>11, <1>12, <1>13,
     <1>14, <1>15, <1>16, <1>17, <1>18, <1>19, <1>20, <1>21, <1>22, <1>23, <1>24, <1>25,
     <1>26, <1>27, <1>28, <1>29, <1>30, <1>31, <1>32, <1>33
     DEF Next, Open, TrainingLoop, Close

\* The callers of a procedure, once it is called.
LEMMA Pushes ==
  /\ <<"log">> \o <<>> = <<"log">>
  /\ \A s : s \in FinalizeStacks => <<"final_summary">> \o s # <<"log">>
  /\ \A s : s \in FinalizeStacks => s # <<"log">>
  /\ \A s : s \in CloseStacks => s # <<"log">>
<1>1. \A s \in FinalizeStacks : Head(s) \in {"train_ended", "run_failed", "closing"}
  BY Stacks, Names, Pushed DEF FinalizeStacks
<1>2. \A s \in CloseStacks : Head(s) \in {"manifest", "ended"}
  BY Stacks, Names DEF CloseStacks
<1>3. Head(<<"log">>) = "log"
  OBVIOUS
<1> QED
  BY <1>1, <1>2, <1>3, Calls

\* The window is opened and closed where it should be.
LEMMA WindowStep ==
  TypeInv /\ ControlInv /\ StepInv /\ StampInv /\ WindowInv /\ [Next]_vars => WindowInv'
<1> SUFFICES ASSUME TypeInv, ControlInv, StepInv, StampInv, WindowInv, [Next]_vars PROVE WindowInv'
  OBVIOUS
<1> USE DEF WindowInv, Preparing, Looping, Starting, Stopping, Goto
<1>0. /\ callback \in CallbackType /\ callback.startNs \in Nat /\ callback.endNs \in Nat
      /\ lastNs \in Nat /\ step \in Nat /\ MaxSteps \in Nat /\ step <= MaxSteps
      /\ config.start \in Nat \ {0} /\ config.end \in Nat /\ config.start <= config.end
      /\ callback.startNs <= lastNs /\ callback.endNs <= lastNs
  BY Numbers DEF StampInv
<1>a. /\ session \in SessionType
      /\ stack = <<"log">> => stack \in StopStacks /\ stack \notin FinalizeStacks
  BY Calls, FinallyCalls, Stacks, Names DEF TypeInv, StopStacks, CloseStacks, FinalizeStacks
<1>1. CASE PrepareDirectory
  BY <1>1, <1>a DEF PrepareDirectory, files, memory, SessionType
<1>2. CASE ResetMarkers
  BY <1>2, <1>a DEF ResetMarkers, files, memory, SessionType
<1>3. CASE WriteRequest
  BY <1>3, <1>a DEF WriteRequest, files, memory, SessionType
<1>4. CASE RunStart
  BY <1>4 DEF RunStart, files, memory
<1>5. CASE LoadModel
  BY <1>5 DEF LoadModel, files, memory
<1>6. CASE Attach
  BY <1>6, <1>a DEF Attach, files, memory, SessionType
<1>7. CASE OnTrainBegin
  BY <1>7 DEF OnTrainBegin, files, memory
<1>8. CASE OnStepBegin
  <2>1. CASE UNCHANGED <<callback, lastNs>> /\ Goto("step_begin")
    BY <1>8, <2>1, <1>0 DEF OnStepBegin, files
  <2>2. CASE /\ callback' = [callback EXCEPT !.started = TRUE, !.startNs = lastNs + 1]
             /\ StartsWindow(step + 1) /\ ~callback.started /\ Goto("window_start")
    <3>1. /\ callback'.started = TRUE /\ callback'.startNs = lastNs + 1
          /\ callback'.endNs = callback.endNs
          /\ lastNs + 1 \in Nat
      BY <2>2, <1>0 DEF CallbackType
    <3>2. callback.endNs = 0
      BY <1>8, <2>2, <1>0
    <3>3. config' = config /\ session' = session /\ step' = step /\ pc = "step"
      BY <1>8 DEF OnStepBegin
    <3>4. pc' = "window_start" /\ config.enabled /\ config.start = step + 1
      BY <2>2 DEF StartsWindow
    <3> QED
      <4>1. lastNs + 1 # 0 /\ step < config.end
        BY <3>4, <1>0
      <4>2. /\ callback'.started = (callback'.startNs # 0) /\ callback'.endNs = 0
            /\ config'.enabled /\ session'.attached /\ step' < config'.end
        BY <3>1, <3>2, <3>3, <3>4, <4>1
      <4> QED
        BY <3>1, <3>4, <4>2
  <2> QED
    BY <1>8, <2>1, <2>2 DEF OnStepBegin
<1>9. CASE WindowStart
  BY <1>9 DEF WindowStart, files, memory
<1>10. CASE LaunchProfiler
  <2>1. /\ callback'.started = callback.started /\ callback'.startNs = callback.startNs
        /\ callback'.endNs = callback.endNs
    BY <1>10, <1>0 DEF LaunchProfiler, CallbackType
  <2> QED
    BY <1>10, <1>0, <1>a, <2>1, Pushes DEF LaunchProfiler, ControlInv, files, EndsWindow
<1>11. CASE StepBegin
  BY <1>11 DEF StepBegin, files, memory
<1>12. CASE Compute
  BY <1>12, <1>0, <1>a DEF Compute, files, StepInv
<1>13. CASE OnStepEnd
  <2>1. /\ callback'.started = callback.started /\ callback'.startNs = callback.startNs
        /\ callback'.endNs = callback.endNs
    BY <1>13, <1>0 DEF OnStepEnd, CallbackType
  <2> QED
    BY <1>13, <1>0, <1>a, <2>1, Pushes DEF OnStepEnd, Call, ControlInv, files, EndsWindow
<1>14. CASE OnLog
  BY <1>14 DEF OnLog, files, memory
<1>15. CASE OnSave
  BY <1>15 DEF OnSave, files, memory
<1>16. CASE OnTrainEnd
  <2>1. /\ callback'.started = callback.started /\ callback'.startNs = callback.startNs
        /\ callback'.endNs = callback.endNs
    BY <1>16, <1>0 DEF OnTrainEnd, CallbackType
  <2> QED
    BY <1>16, <1>0, <1>a, <2>1, Pushes DEF OnTrainEnd, Call, ControlInv, files, EndsWindow
<1>17. CASE TrainEnded
  BY <1>17, <1>a, Pushes DEF TrainEnded, Call, ControlInv, files, memory
<1>18. CASE ManifestEntry
  BY <1>18 DEF ManifestEntry, files, memory
<1>19. CASE Finish
  BY <1>19 DEF Finish, files, memory
<1>20. CASE StopProfiler
  <2>1. CASE WindowIsOpen
    <3>1. callback' = [callback EXCEPT !.endNs = lastNs + 1] /\ lastNs + 1 \in Nat
      BY <1>20, <2>1, <1>0 DEF StopProfiler
    <3>2. /\ callback'.started = callback.started /\ callback'.startNs = callback.startNs
          /\ callback'.endNs = lastNs + 1
      BY <3>1, <1>0 DEF CallbackType
    <3> QED
      BY <1>20, <1>0, <2>1, <3>1, <3>2 DEF StopProfiler, WindowIsOpen
  <2>2. CASE ~WindowIsOpen
    BY <1>20, <1>0, <1>a, <2>2, StopReturns, Stacks DEF StopProfiler, WindowIsOpen, ControlInv, files
  <2> QED
    BY <2>1, <2>2
<1>21. CASE CollectSummary
  <2>1. /\ callback'.started = callback.started /\ callback'.startNs = callback.startNs
        /\ callback'.endNs = callback.endNs
    BY <1>21, <1>0 DEF CollectSummary, CallbackType
  <2> QED
    BY <1>21, <1>0, <1>a, <2>1, Pushes DEF CollectSummary, ControlInv, files, EndsWindow
<1>22. CASE WindowEnd
  BY <1>22, <1>0, <1>a, StopReturns, Stacks DEF WindowEnd, ControlInv
<1>23. CASE Finalize
  <2>1. /\ callback'.started = callback.started /\ callback'.startNs = callback.startNs
        /\ callback'.endNs = callback.endNs
    BY <1>23, <1>0 DEF Finalize, CallbackType
  <2> QED
    BY <1>23, <1>0, <1>a, <2>1, Pushes, FinalizeReturns DEF Finalize, Call, ControlInv, files, EndsWindow
<1>24. CASE FinalSummary
  BY <1>24, FinalizeReturns, Stacks DEF FinalSummary, Call, ControlInv, files, memory
<1>25. CASE WriteSummary
  BY <1>25, <1>a, FinalizeReturns, CloseReturns DEF WriteSummary, ControlInv, SessionType
<1>26. CASE WriteSummaryFails
  BY <1>26, FinalizeReturns, CloseReturns, Stacks DEF WriteSummaryFails, Call, ControlInv, files, memory
<1>27. CASE CloseSession
  BY <1>27, CloseReturns, Stacks DEF CloseSession, Call, ControlInv, files, memory
<1>28. CASE Closing
  BY <1>28, <1>a, FinalizeReturns, CloseReturns DEF Closing, ControlInv, SessionType
<1>29. CASE TrainingFails
  BY <1>29 DEF TrainingFails, files, memory
<1>30. CASE RecordFailure
  BY <1>30, <1>a, Pushes DEF RecordFailure, Call, ControlInv, files, memory
<1>31. CASE RunFailed
  BY <1>31 DEF RunFailed, files, memory
<1>32. CASE Interrupt
  BY <1>32 DEF Interrupt, files, memory
<1>33. CASE UNCHANGED vars
  BY <1>33 DEF vars, files, memory, control
<1> QED
  BY <1>1, <1>2, <1>3, <1>4, <1>5, <1>6, <1>7, <1>8, <1>9, <1>10, <1>11, <1>12, <1>13,
     <1>14, <1>15, <1>16, <1>17, <1>18, <1>19, <1>20, <1>21, <1>22, <1>23, <1>24, <1>25,
     <1>26, <1>27, <1>28, <1>29, <1>30, <1>31, <1>32, <1>33
     DEF Next, Open, TrainingLoop, Close

\* What a step does to the markers of training's steps: a step gets one when it
\* begins and one when its loss is logged.
MarkerFlow ==
  \A i \in Whole' :
    \/ i \in Whole /\ markers'[i] = markers[i]
    \/ markers'[i].event \notin StepEvents
    \/ /\ markers'[i].step = step + 1 /\ pc' = "compute" /\ step' = step
    \/ /\ markers'[i].step = step /\ pc' = "save" /\ step' = step

\* How training goes from step to step, and where the window is opened.
StepFlow ==
  /\ config' = config
  /\ \/ step' = step
     \/ step' = step + 1 /\ pc = "compute"
     \/ pc \in Preparing /\ pc' \in Preparing
  /\ pc' \in Preparing => pc \in Preparing
  /\ Unmarked' => \/ Unmarked \/ pc \in Preparing
                  \/ pc = "compute" /\ step' = step + 1
  /\ callback'.started =>
       \/ callback.started
       \/ config.start = step + 1 /\ step' = step

LEMMA Flows ==
  ASSUME TypeInv, ControlInv, StepInv, [Next]_vars
  PROVE  MarkerFlow /\ StepFlow
<1> USE DEF StepFlow, Unmarked, Preparing, Looping, Starting, Stopping, StepEvents, Goto
<1>0. callback \in CallbackType
  BY Numbers
<1>m. markers' \in {markers, <<>>} => MarkerFlow
  BY DEF MarkerFlow, Whole
<1>1. CASE PrepareDirectory
  BY <1>1, <1>m DEF PrepareDirectory, ControlInv, Call, files, memory
<1>2. CASE ResetMarkers
  BY <1>2, <1>m DEF ResetMarkers, ControlInv, Call, files, memory
<1>3. CASE WriteRequest
  BY <1>3, <1>m DEF WriteRequest, ControlInv, Call, files, memory
<1>4. CASE RunStart
  <2>1. EmitEffect("run_start", 0, FALSE)
    BY <1>4, EmitSteps
  <2>2. MarkerFlow
    BY <1>4, <2>1 DEF RunStart, EmitEffect, MarkerFlow, Call
  <2> QED
    BY <1>4, <2>2 DEF RunStart, ControlInv, Call
<1>5. CASE LoadModel
  <2>1. EmitEffect("model_load", 0, FALSE)
    BY <1>5, EmitSteps
  <2>2. MarkerFlow
    BY <1>5, <2>1 DEF LoadModel, EmitEffect, MarkerFlow, Call
  <2> QED
    BY <1>5, <2>2 DEF LoadModel, ControlInv, Call
<1>6. CASE Attach
  BY <1>6, <1>m DEF Attach, ControlInv, Call, files, memory
<1>7. CASE OnTrainBegin
  <2>1. EmitEffect("train_start", step, FALSE)
    BY <1>7, EmitSteps
  <2>2. MarkerFlow
    BY <1>7, <2>1 DEF OnTrainBegin, EmitEffect, MarkerFlow, Call
  <2> QED
    BY <1>7, <2>2 DEF OnTrainBegin, ControlInv, Call
<1>8. CASE OnStepBegin
  <2>1. callback' = callback \/ config.start = step + 1
    BY <1>8 DEF OnStepBegin, StartsWindow
  <2>2. /\ pc = "step" /\ pc' \in {"window_start", "step_begin"}
        /\ UNCHANGED <<markers, config, step, stack>>
    BY <1>8 DEF OnStepBegin, files
  <2> QED
    BY <1>m, <2>1, <2>2
<1>9. CASE WindowStart
  <2>1. EmitEffect("profile_window_start", config.start, TRUE)
    BY <1>9, EmitSteps
  <2>2. MarkerFlow
    BY <1>9, <2>1 DEF WindowStart, EmitEffect, MarkerFlow, Call
  <2> QED
    BY <1>9, <2>2 DEF WindowStart, ControlInv, Call
<1>10. CASE LaunchProfiler
  <2>1. callback'.started = callback.started
    BY <1>10, <1>0 DEF LaunchProfiler, CallbackType
  <2> QED
    BY <1>10, <1>m, <2>1 DEF LaunchProfiler, ControlInv, Call, files, memory
<1>11. CASE StepBegin
  <2>1. EmitEffect("step_begin", step + 1, RefersToWindow(step + 1))
    BY <1>11, EmitSteps
  <2>2. MarkerFlow
    BY <1>11, <2>1 DEF StepBegin, EmitEffect, MarkerFlow, Call
  <2> QED
    BY <1>11, <2>2 DEF StepBegin, ControlInv, Call
<1>12. CASE Compute
  BY <1>12, <1>m DEF Compute, ControlInv, Call, files, memory
<1>13. CASE OnStepEnd
  <2>1. callback'.started = callback.started
    BY <1>13, <1>0 DEF OnStepEnd, CallbackType
  <2> QED
    BY <1>13, <1>m, <2>1 DEF OnStepEnd, ControlInv, Call, files, memory
<1>14. CASE OnLog
  <2>1. EmitEffect("step_end", step, RefersToWindow(step))
    BY <1>14, EmitSteps
  <2>2. MarkerFlow
    BY <1>14, <2>1 DEF OnLog, EmitEffect, MarkerFlow, Call
  <2> QED
    BY <1>14, <2>2 DEF OnLog, ControlInv, Call
<1>15. CASE OnSave
  <2>1. EmitEffect("checkpoint_complete", step, FALSE)
    BY <1>15, EmitSteps
  <2>2. MarkerFlow
    BY <1>15, <2>1 DEF OnSave, EmitEffect, MarkerFlow, Call
  <2> QED
    BY <1>15, <2>2 DEF OnSave, ControlInv, Call
<1>16. CASE OnTrainEnd
  <2>1. callback'.started = callback.started
    BY <1>16, <1>0 DEF OnTrainEnd, CallbackType
  <2> QED
    BY <1>16, <1>m, <2>1 DEF OnTrainEnd, ControlInv, Call, files, memory
<1>17. CASE TrainEnded
  <2>1. EmitEffect("train_end", step, FALSE)
    BY <1>17, EmitSteps
  <2>2. MarkerFlow
    BY <1>17, <2>1 DEF TrainEnded, EmitEffect, MarkerFlow, Call
  <2> QED
    BY <1>17, <2>2 DEF TrainEnded, ControlInv, Call
<1>18. CASE ManifestEntry
  BY <1>18, <1>m DEF ManifestEntry, ControlInv, Call, files, memory
<1>19. CASE Finish
  BY <1>19, <1>m DEF Finish, ControlInv, Call, files, memory
<1>20. CASE StopProfiler
  <2>1. callback'.started = callback.started
    BY <1>20, <1>0 DEF StopProfiler, CallbackType
  <2> QED
    BY <1>20, <1>m, <2>1, StopReturns DEF StopProfiler, ControlInv, Call, files, memory
<1>21. CASE CollectSummary
  <2>1. callback'.started = callback.started
    BY <1>21, <1>0 DEF CollectSummary, CallbackType
  <2> QED
    BY <1>21, <1>m, <2>1 DEF CollectSummary, ControlInv, Call, files, memory
<1>22. CASE WindowEnd
  <2>1. EmitEffect("profile_window_end", callback.actual, TRUE)
    BY <1>22, EmitSteps
  <2>2. MarkerFlow
    BY <1>22, <2>1 DEF WindowEnd, EmitEffect, MarkerFlow, Call
  <2> QED
    BY <1>22, <2>2, StopReturns, Pushes DEF WindowEnd, ControlInv, Call
<1>23. CASE Finalize
  <2>1. callback'.started = callback.started
    BY <1>23, <1>0 DEF Finalize, CallbackType
  <2> QED
    BY <1>23, <1>m, <2>1, FinalizeReturns, Pushes DEF Finalize, ControlInv, Call, files, memory
<1>24. CASE FinalSummary
  BY <1>24, <1>m, FinalizeReturns DEF FinalSummary, ControlInv, Call, files, memory
<1>25. CASE WriteSummary
  BY <1>25, <1>m, FinalizeReturns, CloseReturns DEF WriteSummary, ControlInv, Call, files, memory
<1>26. CASE WriteSummaryFails
  BY <1>26, <1>m, FinalizeReturns, CloseReturns DEF WriteSummaryFails, ControlInv, Call, files, memory
<1>27. CASE CloseSession
  BY <1>27, <1>m, CloseReturns DEF CloseSession, ControlInv, Call, files, memory
<1>28. CASE Closing
  BY <1>28, <1>m, FinalizeReturns, CloseReturns DEF Closing, ControlInv, Call, files, memory
<1>29. CASE TrainingFails
  BY <1>29, <1>m DEF TrainingFails, ControlInv, Call, files, memory
<1>30. CASE RecordFailure
  BY <1>30, <1>m DEF RecordFailure, ControlInv, Call, files, memory
<1>31. CASE RunFailed
  <2>1. EmitEffect("run_failed", callback.last, FALSE)
    BY <1>31, EmitSteps
  <2>2. MarkerFlow
    BY <1>31, <2>1 DEF RunFailed, EmitEffect, MarkerFlow, Call
  <2> QED
    BY <1>31, <2>2 DEF RunFailed, ControlInv, Call
<1>32. CASE Interrupt
  BY <1>32, <1>m DEF Interrupt, ControlInv, Call, files, memory
<1>33. CASE UNCHANGED vars
  BY <1>33, <1>m DEF vars, files, memory, control
<1> QED
  BY <1>1, <1>2, <1>3, <1>4, <1>5, <1>6, <1>7, <1>8, <1>9, <1>10, <1>11, <1>12, <1>13,
     <1>14, <1>15, <1>16, <1>17, <1>18, <1>19, <1>20, <1>21, <1>22, <1>23, <1>24, <1>25,
     <1>26, <1>27, <1>28, <1>29, <1>30, <1>31, <1>32, <1>33
     DEF Next, Open, TrainingLoop, Close

LEMMA PlaceStep ==
  TypeInv /\ ControlInv /\ StepInv /\ WindowInv /\ PlaceInv /\ [Next]_vars => PlaceInv'
<1> SUFFICES ASSUME TypeInv, ControlInv, StepInv, WindowInv, PlaceInv, [Next]_vars PROVE PlaceInv'
  OBVIOUS
<1>0. /\ step \in Nat /\ config.start \in Nat
      /\ \A i \in Whole : markers[i].step \in Nat
  BY Numbers
<1>1. MarkerFlow /\ StepFlow
  BY Flows
<1>2. callback'.started => config'.start <= step' + 1
  <2>1. callback.started => config.start <= step + 1 /\ pc \notin Preparing
    BY DEF PlaceInv, WindowInv
  <2> QED
    BY <1>0, <1>1, <2>1 DEF StepFlow
<1>3. ASSUME NEW i \in Whole', markers'[i].event \in StepEvents
      PROVE  /\ pc' \notin Preparing
             /\ markers'[i].step <= step' + 1
             /\ Unmarked' => markers'[i].step <= step'
  <2>1. CASE i \in Whole /\ markers'[i] = markers[i]
    BY <1>0, <1>1, <1>3, <2>1 DEF StepFlow, PlaceInv
  <2>2. CASE markers'[i].step = step + 1 /\ pc' = "compute" /\ step' = step
    BY <1>0, <2>2 DEF Unmarked, Preparing, Stopping
  <2>3. CASE markers'[i].step = step /\ pc' = "save" /\ step' = step
    BY <1>0, <2>3 DEF Preparing
  <2> QED
    BY <1>1, <1>3, <2>1, <2>2, <2>3 DEF MarkerFlow
<1> QED
  BY <1>2, <1>3 DEF PlaceInv

LEMMA RefEmits ==
  ASSUME TypeInv, StampInv, RefInv, NEW event, NEW at, NEW ref, EmitEffect(event, at, ref),
         UNCHANGED <<callback, config>>,
         ref => callback.started,
         event \in StepEvents => (ref <=> RefersToWindow(at)),
         event = "step_begin" => (ref <=> callback.started /\ callback.endNs = 0)
  PROVE  RefInv'
<1>0. /\ lastNs \in Nat /\ callback.startNs \in Nat /\ callback.startNs <= lastNs
      /\ callback.endNs \in Nat /\ callback.endNs <= lastNs
  BY Numbers DEF StampInv
<1>1. \A i \in Whole' :
         \/ i \in Whole /\ markers'[i] = markers[i]
         \/ /\ markers'[i].event = event /\ markers'[i].step = at
            /\ markers'[i].ref = ref /\ markers'[i].ns = lastNs + 1
  BY DEF EmitEffect
<1>2. InWindow(lastNs + 1) <=> callback.started /\ callback.endNs = 0
  BY <1>0 DEF InWindow
<1>3. callback.startNs < lastNs + 1
  BY <1>0
<1> SUFFICES ASSUME NEW i \in Whole'
             PROVE  RefHolds(i)'
  BY DEF RefInv
<1>4. CASE i \in Whole /\ markers'[i] = markers[i]
  BY <1>4 DEF RefInv, RefHolds, RefersToWindow, Covers, InWindow
<1>5. CASE /\ markers'[i].event = event /\ markers'[i].step = at
           /\ markers'[i].ref = ref /\ markers'[i].ns = lastNs + 1
  BY <1>2, <1>3, <1>5 DEF RefHolds, RefersToWindow, Covers, InWindow
<1> QED
  BY <1>1, <1>4, <1>5

\* Referring to the window is a matter of its stamps only.
LEMMA RefKept ==
  ASSUME RefInv, markers' \in {markers, <<>>}, config' = config,
         callback'.started = callback.started,
         callback'.startNs = callback.startNs, callback'.endNs = callback.endNs
  PROVE  RefInv'
<1>1. (Whole' = Whole /\ markers' = markers) \/ Whole' = {}
  BY DEF Whole
<1> QED
  BY <1>1 DEF RefInv, RefHolds, RefersToWindow, Covers, InWindow

\* A step refers to the window exactly when it begins in it, whatever comes next.
LEMMA RefStep ==
  TypeInv /\ StepInv /\ StampInv /\ WindowInv /\ PlaceInv /\ RefInv /\ [Next]_vars => RefInv'
<1> SUFFICES ASSUME TypeInv, StepInv, StampInv, WindowInv, PlaceInv, RefInv, [Next]_vars PROVE RefInv'
  OBVIOUS
<1>1. CASE PrepareDirectory
  BY <1>1, RefKept DEF PrepareDirectory, files, memory
<1>2. CASE ResetMarkers
  BY <1>2, RefKept DEF ResetMarkers, files, memory
<1>3. CASE WriteRequest
  BY <1>3, RefKept DEF WriteRequest, files, memory
<1>4. CASE RunStart
  <2>1. EmitEffect("run_start", 0, FALSE) /\ UNCHANGED <<callback, config>>
    BY <1>4, EmitSteps DEF RunStart
  <2> QED
    BY <2>1, RefEmits DEF StepEvents
<1>5. CASE LoadModel
  <2>1. EmitEffect("model_load", 0, FALSE) /\ UNCHANGED <<callback, config>>
    BY <1>5, EmitSteps DEF LoadModel
  <2> QED
    BY <2>1, RefEmits DEF StepEvents
<1>6. CASE Attach
  BY <1>6, RefKept DEF Attach, files, memory
<1>7. CASE OnTrainBegin
  <2>1. EmitEffect("train_start", step, FALSE) /\ UNCHANGED <<callback, config>>
    BY <1>7, EmitSteps DEF OnTrainBegin
  <2> QED
    BY <2>1, RefEmits DEF StepEvents
<1>8. CASE OnStepBegin
  <2>1. CASE callback' = callback
    BY <1>8, <2>1, RefKept DEF OnStepBegin, files
  \* The window opens after every step so far.
  <2>2. CASE /\ callback' = [callback EXCEPT !.started = TRUE, !.startNs = lastNs + 1]
             /\ StartsWindow(step + 1) /\ ~callback.started
    <3>1. /\ UNCHANGED <<markers, config>> /\ Whole' = Whole
          /\ config.start = step + 1 /\ pc = "step"
      BY <1>8, <2>2 DEF OnStepBegin, files, Whole, StartsWindow
    <3>2. callback'.startNs = lastNs + 1 /\ lastNs \in Nat /\ step \in Nat
      BY <2>2, Numbers DEF CallbackType
    <3>3. ASSUME NEW i \in Whole PROVE RefHolds(i)'
      <4>1. ~markers[i].ref
        BY <2>2 DEF RefInv, RefHolds
      <4>2. markers[i].ns \in Nat /\ markers[i].ns <= lastNs /\ markers[i].step \in Nat
        BY Numbers DEF StampInv
      <4>3. ~InWindow(markers[i].ns)'
        BY <3>1, <3>2, <4>2 DEF InWindow
      <4>4. markers[i].event \in StepEvents => ~RefersToWindow(markers[i].step)'
        BY <3>1, <3>2, <4>2 DEF PlaceInv, Unmarked, Looping, Starting, RefersToWindow, Covers
      <4> QED
        BY <3>1, <4>1, <4>3, <4>4 DEF RefHolds
    <3> QED
      BY <3>1, <3>3 DEF RefInv
  <2> QED
    BY <1>8, <2>1, <2>2 DEF OnStepBegin
<1>9. CASE WindowStart
  <2>1. EmitEffect("profile_window_start", config.start, TRUE) /\ UNCHANGED <<callback, config>>
    BY <1>9, EmitSteps DEF WindowStart
  <2>2. callback.started
    BY <1>9 DEF WindowStart, WindowInv
  <2> QED
    BY <2>1, <2>2, RefEmits DEF StepEvents
<1>10. CASE LaunchProfiler
  <2>1. /\ callback'.started = callback.started /\ callback'.startNs = callback.startNs
        /\ callback'.endNs = callback.endNs
    BY <1>10, Numbers DEF LaunchProfiler, CallbackType
  <2> QED
    BY <1>10, <2>1, RefKept DEF LaunchProfiler, files
<1>11. CASE StepBegin
  <2>1. EmitEffect("step_begin", step + 1, RefersToWindow(step + 1)) /\ UNCHANGED <<callback, config>>
    BY <1>11, EmitSteps DEF StepBegin
  <2>2. RefersToWindow(step + 1) <=> callback.started /\ callback.endNs = 0
    BY <1>11, Numbers DEF StepBegin, WindowInv, PlaceInv, Starting, RefersToWindow, Covers
  <2> QED
    BY <2>1, <2>2, RefEmits DEF StepEvents
<1>12. CASE Compute
  BY <1>12, RefKept DEF Compute, files, memory
<1>13. CASE OnStepEnd
  <2>1. /\ callback'.started = callback.started /\ callback'.startNs = callback.startNs
        /\ callback'.endNs = callback.endNs
    BY <1>13, Numbers DEF OnStepEnd, CallbackType
  <2> QED
    BY <1>13, <2>1, RefKept DEF OnStepEnd, files
<1>14. CASE OnLog
  <2>1. EmitEffect("step_end", step, RefersToWindow(step)) /\ UNCHANGED <<callback, config>>
    BY <1>14, EmitSteps DEF OnLog
  <2>2. RefersToWindow(step) => callback.started
    BY <1>14 DEF OnLog, RefersToWindow
  <2> QED
    BY <2>1, <2>2, RefEmits DEF StepEvents
<1>15. CASE OnSave
  <2>1. EmitEffect("checkpoint_complete", step, FALSE) /\ UNCHANGED <<callback, config>>
    BY <1>15, EmitSteps DEF OnSave
  <2> QED
    BY <2>1, RefEmits DEF StepEvents
<1>16. CASE OnTrainEnd
  <2>1. /\ callback'.started = callback.started /\ callback'.startNs = callback.startNs
        /\ callback'.endNs = callback.endNs
    BY <1>16, Numbers DEF OnTrainEnd, CallbackType
  <2> QED
    BY <1>16, <2>1, RefKept DEF OnTrainEnd, files
<1>17. CASE TrainEnded
  <2>1. EmitEffect("train_end", step, FALSE) /\ UNCHANGED <<callback, config>>
    BY <1>17, EmitSteps DEF TrainEnded
  <2> QED
    BY <2>1, RefEmits DEF StepEvents
<1>18. CASE ManifestEntry
  BY <1>18, RefKept DEF ManifestEntry, files, memory
<1>19. CASE Finish
  BY <1>19, RefKept DEF Finish, files, memory
<1>20. CASE StopProfiler
  <2>1. CASE callback' = callback
    BY <1>20, <2>1, RefKept DEF StopProfiler, files
  <2>2. CASE callback' = [callback EXCEPT !.endNs = lastNs + 1]
    <3>1. callback'.started = callback.started /\ callback'.startNs = callback.startNs
          /\ callback'.endNs = lastNs + 1 /\ lastNs \in Nat
      BY <2>2, Numbers DEF CallbackType
    <3>2. \A i \in Whole : markers[i].ns \in Nat /\ markers[i].ns < lastNs + 1
      BY <3>1, Numbers DEF StampInv
    <3> QED
      BY <1>20, <3>1, <3>2 DEF StopProfiler, WindowIsOpen, files, RefInv, RefHolds, Whole,
         RefersToWindow, Covers, InWindow
  <2> QED
    BY <1>20, <2>1, <2>2 DEF StopProfiler
<1>21. CASE CollectSummary
  <2>1. /\ callback'.started = callback.started /\ callback'.startNs = callback.startNs
        /\ callback'.endNs = callback.endNs
    BY <1>21, Numbers DEF CollectSummary, CallbackType
  <2> QED
    BY <1>21, <2>1, RefKept DEF CollectSummary, files
<1>22. CASE WindowEnd
  <2>1. EmitEffect("profile_window_end", callback.actual, TRUE) /\ UNCHANGED <<callback, config>>
    BY <1>22, EmitSteps DEF WindowEnd
  <2>2. callback.started
    BY <1>22 DEF WindowEnd, WindowInv
  <2> QED
    BY <2>1, <2>2, RefEmits DEF StepEvents
<1>23. CASE Finalize
  <2>1. /\ callback'.started = callback.started /\ callback'.startNs = callback.startNs
        /\ callback'.endNs = callback.endNs
    BY <1>23, Numbers DEF Finalize, CallbackType
  <2> QED
    BY <1>23, <2>1, RefKept DEF Finalize, files
<1>24. CASE FinalSummary
  BY <1>24, RefKept DEF FinalSummary, files, memory
<1>25. CASE WriteSummary
  BY <1>25, RefKept DEF WriteSummary, files, memory
<1>26. CASE WriteSummaryFails
  BY <1>26, RefKept DEF WriteSummaryFails, files, memory
<1>27. CASE CloseSession
  BY <1>27, RefKept DEF CloseSession, files, memory
<1>28. CASE Closing
  BY <1>28, RefKept DEF Closing, files, memory
<1>29. CASE TrainingFails
  BY <1>29, RefKept DEF TrainingFails, files, memory
<1>30. CASE RecordFailure
  BY <1>30, RefKept DEF RecordFailure, files, memory
<1>31. CASE RunFailed
  <2>1. EmitEffect("run_failed", callback.last, FALSE) /\ UNCHANGED <<callback, config>>
    BY <1>31, EmitSteps DEF RunFailed
  <2> QED
    BY <2>1, RefEmits DEF StepEvents
<1>32. CASE Interrupt
  BY <1>32, RefKept DEF Interrupt, files, memory
<1>33. CASE UNCHANGED vars
  BY <1>33, RefKept DEF vars, files, memory
<1> QED
  BY <1>1, <1>2, <1>3, <1>4, <1>5, <1>6, <1>7, <1>8, <1>9, <1>10, <1>11, <1>12, <1>13,
     <1>14, <1>15, <1>16, <1>17, <1>18, <1>19, <1>20, <1>21, <1>22, <1>23, <1>24, <1>25,
     <1>26, <1>27, <1>28, <1>29, <1>30, <1>31, <1>32, <1>33
     DEF Next, Open, TrainingLoop, Close

-----------------------------------------------------------------------------
(* The files of the session.                                               *)

LEMMA OwnEmits ==
  ASSUME TypeInv, OwnInv, NEW event, NEW at, NEW ref, EmitEffect(event, at, ref)
  PROVE  /\ (\A i \in 1 .. Len(markers) : markers[i].event # "old") =>
              \A i \in 1 .. Len(markers') : markers'[i].event # "old"
         /\ (\E i \in 1 .. Len(markers) : markers[i].event \notin {"old", "torn"}) =>
              \E i \in 1 .. Len(markers') : markers'[i].event \notin {"old", "torn"}
         /\ published' =>
              \E i \in 1 .. Len(markers') : markers'[i].event \notin {"old", "torn"}
BY DEF EmitEffect, OwnInv

\* What the session believes of its files stays so.
LEMMA OwnStep ==
  TypeInv /\ ControlInv /\ StepInv /\ OwnInv /\ [Next]_vars => OwnInv'
<1> SUFFICES ASSUME TypeInv, ControlInv, StepInv, OwnInv, [Next]_vars PROVE OwnInv'
  OBVIOUS
<1>0. session \in SessionType /\ pending \in Summary /\ summary \in Summary
  BY DEF TypeInv
<1>1. CASE PrepareDirectory
  BY <1>1, <1>0 DEF PrepareDirectory, Goto, OwnInv, files, memory, SessionType
<1>2. CASE ResetMarkers
  <2>1. CASE markers' = <<>>
    BY <1>2, <2>1, <1>0 DEF ResetMarkers, Goto, OwnInv, SessionType
  <2>2. CASE markers' = markers /\ ~session'.emit
    BY <1>2, <2>2, <1>0 DEF ResetMarkers, Goto, OwnInv, SessionType
  <2> QED
    BY <1>2, <2>1, <2>2, <1>0 DEF ResetMarkers, SessionType
<1>3. CASE WriteRequest
  BY <1>3, <1>0 DEF WriteRequest, Goto, OwnInv, files, memory, SessionType
<1>4. CASE RunStart
  <2>1. EmitEffect("run_start", 0, FALSE)
    BY <1>4, EmitSteps
  <2>2. UNCHANGED <<request, summary, session, pending>> /\ pc' \notin {"open", "reset", "request", "write"}
        /\ (pc' = "ended" \/ pc \notin {"open", "reset", "ended"}) /\ pc \notin {"open", "reset"}
    BY <1>4 DEF RunStart, Goto, Call, ControlInv, Stopping
  <2> QED
    BY <2>1, <2>2, OwnEmits DEF OwnInv
<1>5. CASE LoadModel
  <2>1. EmitEffect("model_load", 0, FALSE)
    BY <1>5, EmitSteps
  <2>2. UNCHANGED <<request, summary, session, pending>> /\ pc' \notin {"open", "reset", "request", "write"}
        /\ (pc' = "ended" \/ pc \notin {"open", "reset", "ended"}) /\ pc \notin {"open", "reset"}
    BY <1>5 DEF LoadModel, Goto, Call, ControlInv, Stopping
  <2> QED
    BY <2>1, <2>2, OwnEmits DEF OwnInv
<1>6. CASE Attach
  BY <1>6, <1>0 DEF Attach, Goto, OwnInv, files, memory, SessionType
<1>7. CASE OnTrainBegin
  <2>1. EmitEffect("train_start", step, FALSE)
    BY <1>7, EmitSteps
  <2>2. UNCHANGED <<request, summary, session, pending>> /\ pc' \notin {"open", "reset", "request", "write"}
        /\ (pc' = "ended" \/ pc \notin {"open", "reset", "ended"}) /\ pc \notin {"open", "reset"}
    BY <1>7 DEF OnTrainBegin, Goto, Call, ControlInv, Stopping
  <2> QED
    BY <2>1, <2>2, OwnEmits DEF OwnInv
<1>8. CASE OnStepBegin
  BY <1>8 DEF OnStepBegin, Goto, Call, ControlInv, Stopping, OwnInv, files, memory
<1>9. CASE WindowStart
  <2>1. EmitEffect("profile_window_start", config.start, TRUE)
    BY <1>9, EmitSteps
  <2>2. UNCHANGED <<request, summary, session, pending>> /\ pc' \notin {"open", "reset", "request", "write"}
        /\ (pc' = "ended" \/ pc \notin {"open", "reset", "ended"}) /\ pc \notin {"open", "reset"}
    BY <1>9 DEF WindowStart, Goto, Call, ControlInv, Stopping
  <2> QED
    BY <2>1, <2>2, OwnEmits DEF OwnInv
<1>10. CASE LaunchProfiler
  BY <1>10 DEF LaunchProfiler, Goto, Call, ControlInv, Stopping, OwnInv, files, memory
<1>11. CASE StepBegin
  <2>1. EmitEffect("step_begin", step + 1, RefersToWindow(step + 1))
    BY <1>11, EmitSteps
  <2>2. UNCHANGED <<request, summary, session, pending>> /\ pc' \notin {"open", "reset", "request", "write"}
        /\ (pc' = "ended" \/ pc \notin {"open", "reset", "ended"}) /\ pc \notin {"open", "reset"}
    BY <1>11 DEF StepBegin, Goto, Call, ControlInv, Stopping
  <2> QED
    BY <2>1, <2>2, OwnEmits DEF OwnInv
<1>12. CASE Compute
  BY <1>12 DEF Compute, Goto, Call, ControlInv, Stopping, OwnInv, files, memory
<1>13. CASE OnStepEnd
  BY <1>13 DEF OnStepEnd, Goto, Call, ControlInv, Stopping, OwnInv, files, memory
<1>14. CASE OnLog
  <2>1. EmitEffect("step_end", step, RefersToWindow(step))
    BY <1>14, EmitSteps
  <2>2. UNCHANGED <<request, summary, session, pending>> /\ pc' \notin {"open", "reset", "request", "write"}
        /\ (pc' = "ended" \/ pc \notin {"open", "reset", "ended"}) /\ pc \notin {"open", "reset"}
    BY <1>14 DEF OnLog, Goto, Call, ControlInv, Stopping
  <2> QED
    BY <2>1, <2>2, OwnEmits DEF OwnInv
<1>15. CASE OnSave
  <2>1. EmitEffect("checkpoint_complete", step, FALSE)
    BY <1>15, EmitSteps
  <2>2. UNCHANGED <<request, summary, session, pending>> /\ pc' \notin {"open", "reset", "request", "write"}
        /\ (pc' = "ended" \/ pc \notin {"open", "reset", "ended"}) /\ pc \notin {"open", "reset"}
    BY <1>15 DEF OnSave, Goto, Call, ControlInv, Stopping
  <2> QED
    BY <2>1, <2>2, OwnEmits DEF OwnInv
<1>16. CASE OnTrainEnd
  BY <1>16 DEF OnTrainEnd, Goto, Call, ControlInv, Stopping, OwnInv, files, memory
<1>17. CASE TrainEnded
  <2>1. EmitEffect("train_end", step, FALSE)
    BY <1>17, EmitSteps
  <2>2. UNCHANGED <<request, summary, session, pending>> /\ pc' \notin {"open", "reset", "request", "write"}
        /\ (pc' = "ended" \/ pc \notin {"open", "reset", "ended"}) /\ pc \notin {"open", "reset"}
    BY <1>17 DEF TrainEnded, Goto, Call, ControlInv, Stopping
  <2> QED
    BY <2>1, <2>2, OwnEmits DEF OwnInv
<1>18. CASE ManifestEntry
  BY <1>18 DEF ManifestEntry, Goto, Call, ControlInv, Stopping, OwnInv, files, memory
<1>19. CASE Finish
  BY <1>19 DEF Finish, Goto, Call, ControlInv, Stopping, OwnInv, files, memory
<1>20. CASE StopProfiler
  BY <1>20, StopReturns, Stacks DEF StopProfiler, Goto, Call, ControlInv, Stopping, OwnInv, files, memory
<1>21. CASE CollectSummary
  BY <1>21 DEF CollectSummary, Goto, Call, ControlInv, Stopping, OwnInv, files, memory
<1>22. CASE WindowEnd
  <2>1. EmitEffect("profile_window_end", callback.actual, TRUE)
    BY <1>22, EmitSteps
  <2>2. UNCHANGED <<request, summary, session, pending>> /\ pc' \notin {"open", "reset", "request", "write"}
        /\ (pc' = "ended" \/ pc \notin {"open", "reset", "ended"}) /\ pc \notin {"open", "reset"}
    BY <1>22, StopReturns, Stacks DEF WindowEnd, Goto, Call, ControlInv, Stopping
  <2> QED
    BY <2>1, <2>2, OwnEmits DEF OwnInv
<1>23. CASE Finalize
  BY <1>23, FinalizeReturns, Stacks DEF Finalize, Goto, Call, ControlInv, Stopping, OwnInv, files, memory
<1>24. CASE FinalSummary
  BY <1>24, <1>0, FinalizeReturns DEF FinalSummary, Goto, ControlInv, OwnInv, files, CanWriteSummary
<1>25. CASE WriteSummary
  BY <1>25, <1>0, FinalizeReturns, CloseReturns DEF WriteSummary, ControlInv, OwnInv, SessionType, NoSummary
<1>26. CASE WriteSummaryFails
  BY <1>26, <1>0, FinalizeReturns, CloseReturns DEF WriteSummaryFails, ControlInv, OwnInv, SessionType, NoSummary, Summary
<1>27. CASE CloseSession
  BY <1>27, CloseReturns, Stacks DEF CloseSession, Goto, Call, ControlInv, Stopping, OwnInv, files, memory
<1>28. CASE Closing
  <2>1. session' = [session EXCEPT !.closed = TRUE]
    BY <1>28 DEF Closing
  <2>2. /\ session'.emit = session.emit /\ session'.requested = session.requested
        /\ session'.written = session.written
    BY <1>0, <2>1 DEF SessionType
  <2>3. LastSummary.state = "new"
    BY DEF LastSummary, NotReached, NoSummary, OwnInv
  <2> QED
    BY <1>28, <2>2, <2>3, FinalizeReturns, CloseReturns DEF Closing, Goto, ControlInv, OwnInv, files, CanWriteSummary
<1>29. CASE TrainingFails
  BY <1>29 DEF TrainingFails, Raising, OwnInv, files, memory
<1>30. CASE RecordFailure
  BY <1>30 DEF RecordFailure, Goto, Call, ControlInv, Stopping, OwnInv, files, memory
<1>31. CASE RunFailed
  <2>1. EmitEffect("run_failed", callback.last, FALSE)
    BY <1>31, EmitSteps
  <2>2. UNCHANGED <<request, summary, session, pending>> /\ pc' \notin {"open", "reset", "request", "write"}
        /\ (pc' = "ended" \/ pc \notin {"open", "reset", "ended"}) /\ pc \notin {"open", "reset"}
    BY <1>31 DEF RunFailed, Goto, Call, ControlInv, Stopping
  <2> QED
    BY <2>1, <2>2, OwnEmits DEF OwnInv
<1>32. CASE Interrupt
  BY <1>32 DEF Interrupt, BeforeTry, OwnInv, files, memory
<1>33. CASE UNCHANGED vars
  BY <1>33 DEF vars, files, memory, control, OwnInv
<1> QED
  BY <1>1, <1>2, <1>3, <1>4, <1>5, <1>6, <1>7, <1>8, <1>9, <1>10, <1>11, <1>12, <1>13,
     <1>14, <1>15, <1>16, <1>17, <1>18, <1>19, <1>20, <1>21, <1>22, <1>23, <1>24, <1>25,
     <1>26, <1>27, <1>28, <1>29, <1>30, <1>31, <1>32, <1>33
     DEF Next, Open, TrainingLoop, Close

\* What the manifest points at stays the session's own.
LEMMA ManifestStep ==
  TypeInv /\ ControlInv /\ StepInv /\ OwnInv /\ ManifestInv /\ [Next]_vars => ManifestInv'
<1> SUFFICES ASSUME TypeInv, ControlInv, StepInv, OwnInv, ManifestInv, [Next]_vars PROVE ManifestInv'
  OBVIOUS
<1>0. session \in SessionType /\ pending \in Summary /\ summary \in Summary
  BY DEF TypeInv
<1>1. CASE PrepareDirectory
  BY <1>1 DEF PrepareDirectory, Goto, ManifestInv
<1>2. CASE ResetMarkers
  BY <1>2 DEF ResetMarkers, Goto, ManifestInv
<1>3. CASE WriteRequest
  BY <1>3 DEF WriteRequest, Goto, ManifestInv
<1>4. CASE RunStart
  <2>1. EmitEffect("run_start", 0, FALSE)
    BY <1>4, EmitSteps
  <2>2. UNCHANGED <<request, summary, session, manifest>>
        /\ (pc' \notin {"open", "reset", "request"} \/ pc' = pc)
    BY <1>4 DEF RunStart, Goto, Call, ControlInv, Stopping
  <2> QED
    BY <2>1, <2>2, OwnEmits DEF ManifestInv
<1>5. CASE LoadModel
  <2>1. EmitEffect("model_load", 0, FALSE)
    BY <1>5, EmitSteps
  <2>2. UNCHANGED <<request, summary, session, manifest>>
        /\ (pc' \notin {"open", "reset", "request"} \/ pc' = pc)
    BY <1>5 DEF LoadModel, Goto, Call, ControlInv, Stopping
  <2> QED
    BY <2>1, <2>2, OwnEmits DEF ManifestInv
<1>6. CASE Attach
  BY <1>6, <1>0 DEF Attach, Goto, ManifestInv, files, SessionType
<1>7. CASE OnTrainBegin
  <2>1. EmitEffect("train_start", step, FALSE)
    BY <1>7, EmitSteps
  <2>2. UNCHANGED <<request, summary, session, manifest>>
        /\ (pc' \notin {"open", "reset", "request"} \/ pc' = pc)
    BY <1>7 DEF OnTrainBegin, Goto, Call, ControlInv, Stopping
  <2> QED
    BY <2>1, <2>2, OwnEmits DEF ManifestInv
<1>8. CASE OnStepBegin
  BY <1>8 DEF OnStepBegin, Goto, Call, ControlInv, Stopping, ManifestInv, files, memory
<1>9. CASE WindowStart
  <2>1. EmitEffect("profile_window_start", config.start, TRUE)
    BY <1>9, EmitSteps
  <2>2. UNCHANGED <<request, summary, session, manifest>>
        /\ (pc' \notin {"open", "reset", "request"} \/ pc' = pc)
    BY <1>9 DEF WindowStart, Goto, Call, ControlInv, Stopping
  <2> QED
    BY <2>1, <2>2, OwnEmits DEF ManifestInv
<1>10. CASE LaunchProfiler
  BY <1>10 DEF LaunchProfiler, Goto, Call, ControlInv, Stopping, ManifestInv, files, memory
<1>11. CASE StepBegin
  <2>1. EmitEffect("step_begin", step + 1, RefersToWindow(step + 1))
    BY <1>11, EmitSteps
  <2>2. UNCHANGED <<request, summary, session, manifest>>
        /\ (pc' \notin {"open", "reset", "request"} \/ pc' = pc)
    BY <1>11 DEF StepBegin, Goto, Call, ControlInv, Stopping
  <2> QED
    BY <2>1, <2>2, OwnEmits DEF ManifestInv
<1>12. CASE Compute
  BY <1>12 DEF Compute, Goto, Call, ControlInv, Stopping, ManifestInv, files, memory
<1>13. CASE OnStepEnd
  BY <1>13 DEF OnStepEnd, Goto, Call, ControlInv, Stopping, ManifestInv, files, memory
<1>14. CASE OnLog
  <2>1. EmitEffect("step_end", step, RefersToWindow(step))
    BY <1>14, EmitSteps
  <2>2. UNCHANGED <<request, summary, session, manifest>>
        /\ (pc' \notin {"open", "reset", "request"} \/ pc' = pc)
    BY <1>14 DEF OnLog, Goto, Call, ControlInv, Stopping
  <2> QED
    BY <2>1, <2>2, OwnEmits DEF ManifestInv
<1>15. CASE OnSave
  <2>1. EmitEffect("checkpoint_complete", step, FALSE)
    BY <1>15, EmitSteps
  <2>2. UNCHANGED <<request, summary, session, manifest>>
        /\ (pc' \notin {"open", "reset", "request"} \/ pc' = pc)
    BY <1>15 DEF OnSave, Goto, Call, ControlInv, Stopping
  <2> QED
    BY <2>1, <2>2, OwnEmits DEF ManifestInv
<1>16. CASE OnTrainEnd
  BY <1>16 DEF OnTrainEnd, Goto, Call, ControlInv, Stopping, ManifestInv, files, memory
<1>17. CASE TrainEnded
  <2>1. EmitEffect("train_end", step, FALSE)
    BY <1>17, EmitSteps
  <2>2. UNCHANGED <<request, summary, session, manifest>>
        /\ (pc' \notin {"open", "reset", "request"} \/ pc' = pc)
    BY <1>17 DEF TrainEnded, Goto, Call, ControlInv, Stopping
  <2> QED
    BY <2>1, <2>2, OwnEmits DEF ManifestInv
<1>18. CASE ManifestEntry
  <2>1. session.emit /\ published =>
          /\ \E i \in 1 .. Len(markers) : markers[i].event \notin {"old", "torn"}
          /\ \A i \in 1 .. Len(markers) : markers[i].event # "old"
    BY <1>18 DEF ManifestEntry, OwnInv
  <2>2. manifest'.markers = (session.emit /\ published)
        /\ manifest'.request = session.requested /\ manifest'.summary = PublishedSummary
    BY <1>18 DEF ManifestEntry
  <2>3. UNCHANGED files /\ UNCHANGED session /\ pc' = "finish"
    BY <1>18 DEF ManifestEntry, Goto
  <2> QED
    BY <2>1, <2>2, <2>3 DEF ManifestInv, OwnInv, PublishedSummary, files
<1>19. CASE Finish
  BY <1>19 DEF Finish, Goto, Call, ControlInv, Stopping, ManifestInv, files, memory
<1>20. CASE StopProfiler
  BY <1>20, StopReturns, Stacks DEF StopProfiler, Goto, Call, ControlInv, Stopping, ManifestInv, files, memory
<1>21. CASE CollectSummary
  BY <1>21 DEF CollectSummary, Goto, Call, ControlInv, Stopping, ManifestInv, files, memory
<1>22. CASE WindowEnd
  <2>1. EmitEffect("profile_window_end", callback.actual, TRUE)
    BY <1>22, EmitSteps
  <2>2. UNCHANGED <<request, summary, session, manifest>>
        /\ (pc' \notin {"open", "reset", "request"} \/ pc' = pc)
    BY <1>22, StopReturns, Stacks DEF WindowEnd, Goto, Call, ControlInv, Stopping
  <2> QED
    BY <2>1, <2>2, OwnEmits DEF ManifestInv
<1>23. CASE Finalize
  BY <1>23, FinalizeReturns, Stacks DEF Finalize, Goto, Call, ControlInv, Stopping, ManifestInv, files, memory
<1>24. CASE FinalSummary
  BY <1>24, FinalizeReturns, Stacks DEF FinalSummary, Goto, Call, ControlInv, Stopping, ManifestInv, files, memory
<1>25. CASE WriteSummary
  BY <1>25, <1>0, FinalizeReturns, CloseReturns DEF WriteSummary, ControlInv, ManifestInv, SessionType, OwnInv
<1>26. CASE WriteSummaryFails
  BY <1>26, <1>0, FinalizeReturns, CloseReturns DEF WriteSummaryFails, ControlInv, ManifestInv, OwnInv
<1>27. CASE CloseSession
  BY <1>27, CloseReturns, Stacks DEF CloseSession, Goto, Call, ControlInv, Stopping, ManifestInv, files, memory
<1>28. CASE Closing
  BY <1>28, <1>0, FinalizeReturns, CloseReturns DEF Closing, Goto, ControlInv, ManifestInv, files, SessionType
<1>29. CASE TrainingFails
  BY <1>29 DEF TrainingFails, Goto, Call, ControlInv, Stopping, ManifestInv, files, memory
<1>30. CASE RecordFailure
  BY <1>30 DEF RecordFailure, Goto, Call, ControlInv, Stopping, ManifestInv, files, memory
<1>31. CASE RunFailed
  <2>1. EmitEffect("run_failed", callback.last, FALSE)
    BY <1>31, EmitSteps
  <2>2. UNCHANGED <<request, summary, session, manifest>>
        /\ (pc' \notin {"open", "reset", "request"} \/ pc' = pc)
    BY <1>31 DEF RunFailed, Goto, Call, ControlInv, Stopping
  <2> QED
    BY <2>1, <2>2, OwnEmits DEF ManifestInv
<1>32. CASE Interrupt
  BY <1>32 DEF Interrupt, Goto, Call, ControlInv, Stopping, ManifestInv, files, memory
<1>33. CASE UNCHANGED vars
  BY <1>33 DEF vars, files, memory, control, ManifestInv
<1> QED
  BY <1>1, <1>2, <1>3, <1>4, <1>5, <1>6, <1>7, <1>8, <1>9, <1>10, <1>11, <1>12, <1>13,
     <1>14, <1>15, <1>16, <1>17, <1>18, <1>19, <1>20, <1>21, <1>22, <1>23, <1>24, <1>25,
     <1>26, <1>27, <1>28, <1>29, <1>30, <1>31, <1>32, <1>33
     DEF Next, Open, TrainingLoop, Close

-----------------------------------------------------------------------------
(* The summary.                                                            *)

\* The callback knows the last step completed.
LEMMA TrainedStep ==
  TypeInv /\ ControlInv /\ StepInv /\ WindowInv /\ TrainedInv /\ [Next]_vars => TrainedInv'
<1> SUFFICES ASSUME TypeInv, ControlInv, StepInv, WindowInv, TrainedInv, [Next]_vars PROVE TrainedInv'
  OBVIOUS
<1> USE DEF TrainedInv, Preparing, Starting, Stopping, Goto
<1>0. /\ callback \in CallbackType /\ callback.last \in Nat
      /\ step \in Nat /\ MaxSteps \in Nat /\ step <= MaxSteps
      /\ config.start \in Nat \ {0} /\ config.end \in Nat /\ config.start <= config.end
      /\ trained \subseteq Nat
  BY Numbers DEF TypeInv, Steps
<1>1. CASE PrepareDirectory
  BY <1>1 DEF PrepareDirectory, files, memory
<1>2. CASE ResetMarkers
  BY <1>2 DEF ResetMarkers, files, memory
<1>3. CASE WriteRequest
  BY <1>3 DEF WriteRequest, files, memory
<1>4. CASE RunStart
  BY <1>4 DEF RunStart, files, memory
<1>5. CASE LoadModel
  BY <1>5 DEF LoadModel, files, memory
<1>6. CASE Attach
  BY <1>6, <1>0, StepsAssumption DEF Attach, files
<1>7. CASE OnTrainBegin
  BY <1>7 DEF OnTrainBegin, WindowInv
<1>8. CASE OnStepBegin
  <2>1. CASE UNCHANGED callback /\ Goto("step_begin")
    BY <1>8, <2>1, <1>0 DEF OnStepBegin, files
  <2>2. CASE /\ callback' = [callback EXCEPT !.started = TRUE, !.startNs = lastNs + 1]
             /\ StartsWindow(step + 1) /\ Goto("window_start")
    <3>1. callback'.last = callback.last /\ callback'.endNs = callback.endNs
      BY <2>2, <1>0 DEF CallbackType
    <3>2. /\ pc' = "window_start" /\ config.start = step + 1 /\ stack' = stack
          /\ UNCHANGED <<config, step, trained>>
      BY <1>8, <2>2 DEF StartsWindow, OnStepBegin
    <3>3. /\ config.start .. callback.last = {} /\ config.start .. step = {}
          /\ callback.last <= config.end
      BY <1>0, <3>2
    <3> QED
      BY <3>1, <3>2, <3>3
  <2> QED
    BY <1>8, <2>1, <2>2 DEF OnStepBegin
<1>9. CASE WindowStart
  BY <1>9 DEF WindowStart, files, memory
<1>10. CASE LaunchProfiler
  <2>1. /\ callback'.started = callback.started
        /\ callback'.endNs = callback.endNs
        /\ callback'.last = callback.last
    BY <1>10, <1>0 DEF LaunchProfiler, CallbackType
  <2> QED
    BY <1>10, <2>1, Pushes DEF LaunchProfiler, ControlInv, files
<1>11. CASE StepBegin
  BY <1>11 DEF StepBegin, files, memory
<1>12. CASE Compute
  <2>1. step' = step + 1 /\ pc' = "step_end" /\ UNCHANGED <<config, callback, trained, stack>> /\ pc = "compute"
    BY <1>12 DEF Compute
  <2>2. step' - 1 = step /\ callback.last < step'
    BY <1>0, <2>1
  <2> QED
    BY <1>0, <2>1, <2>2
<1>13. CASE OnStepEnd
  <2>1. callback'.started = callback.started /\ callback'.endNs = callback.endNs /\ callback'.last = step
    BY <1>13, <1>0 DEF OnStepEnd, CallbackType
  <2>2. /\ pc' = "log" \/ (pc' = "stop" /\ stack' = <<"log">>)
        /\ UNCHANGED <<config, step>> /\ trained' = trained \cup {step} /\ pc = "step_end"
    <3>1. stack = <<>> /\ pc = "step_end"
      BY <1>13 DEF OnStepEnd, ControlInv, Procedures
    <3>2. (Call("stop", "log") \/ Goto("log")) /\ trained' = trained \cup {step}
      BY <1>13, Zenon DEF OnStepEnd
    <3>3. pc' = "log" \/ (pc' = "stop" /\ stack' = <<"log">>)
      BY <3>1, <3>2, Pushes DEF Call
    <3>4. UNCHANGED <<config, step>>
      BY <1>13 DEF OnStepEnd
    <3> QED
      BY <3>1, <3>2, <3>3, <3>4
  <2>3. \A s \in trained' : s <= step
    BY <1>0, <2>2
  <2>4. callback.started => config.start .. step \subseteq trained'
    BY <1>0, <2>2
  <2>5. callback.started /\ callback.endNs = 0 => step <= config.end
    BY <2>2 DEF WindowInv
  <2> QED
    BY <1>0, <2>1, <2>2, <2>3, <2>4, <2>5
<1>14. CASE OnLog
  BY <1>14 DEF OnLog, files, memory
<1>15. CASE OnSave
  BY <1>15 DEF OnSave, files, memory
<1>16. CASE OnTrainEnd
  <2>1. callback'.started = callback.started /\ callback'.endNs = callback.endNs /\ callback'.last = step
    BY <1>16, <1>0 DEF OnTrainEnd, CallbackType
  <2> QED
    BY <1>16, <1>0, <2>1, Pushes DEF OnTrainEnd, Call, ControlInv, files, WindowInv
<1>17. CASE TrainEnded
  BY <1>17, Pushes DEF TrainEnded, Call, ControlInv, files, memory
<1>18. CASE ManifestEntry
  BY <1>18 DEF ManifestEntry, files, memory
<1>19. CASE Finish
  BY <1>19 DEF Finish, files, memory
<1>20. CASE StopProfiler
  <2>1. CASE WindowIsOpen
    <3>1. callback' = [callback EXCEPT !.endNs = lastNs + 1] /\ lastNs + 1 \in Nat /\ lastNs + 1 # 0
      BY <1>20, <2>1, Numbers DEF StopProfiler
    <3>2. /\ callback'.started = callback.started /\ callback'.last = callback.last
          /\ callback'.endNs # 0
      BY <3>1, <1>0 DEF CallbackType
    <3>3. pc' = "collect" /\ UNCHANGED <<stack, config, step, trained>> /\ pc = "stop"
      BY <1>20, <2>1 DEF StopProfiler
    <3>4. callback.last <= config.end
      BY <2>1 DEF WindowIsOpen
    <3> QED
      BY <3>2, <3>3, <3>4
  <2>2. CASE ~WindowIsOpen
    BY <1>20, <2>2, StopReturns, Pushes DEF StopProfiler, WindowInv, WindowIsOpen, ControlInv, files
  <2> QED
    BY <2>1, <2>2
<1>21. CASE CollectSummary
  <2>1. /\ callback'.started = callback.started
        /\ callback'.endNs = callback.endNs
        /\ callback'.last = callback.last
    BY <1>21, <1>0 DEF CollectSummary, CallbackType
  <2> QED
    BY <1>21, <2>1, Pushes DEF CollectSummary, ControlInv, files
<1>22. CASE WindowEnd
  BY <1>22, StopReturns, Pushes, <1>0 DEF WindowEnd, ControlInv, WindowInv
<1>23. CASE Finalize
  <2>1. /\ callback'.started = callback.started
        /\ callback'.endNs = callback.endNs
        /\ callback'.last = callback.last
    BY <1>23, <1>0 DEF Finalize, CallbackType
  <2> QED
    BY <1>23, <2>1, Pushes, FinalizeReturns DEF Finalize, Call, ControlInv, files
<1>24. CASE FinalSummary
  BY <1>24, FinalizeReturns, Stacks, Pushes DEF FinalSummary, Call, ControlInv, files, memory
<1>25. CASE WriteSummary
  BY <1>25, FinalizeReturns, CloseReturns, Stacks, Pushes DEF WriteSummary, Call, ControlInv, files, memory
<1>26. CASE WriteSummaryFails
  BY <1>26, FinalizeReturns, CloseReturns, Stacks, Pushes DEF WriteSummaryFails, Call, ControlInv, files, memory
<1>27. CASE CloseSession
  BY <1>27, CloseReturns, Stacks, Pushes DEF CloseSession, Call, ControlInv, files, memory
<1>28. CASE Closing
  BY <1>28, FinalizeReturns, CloseReturns, Stacks, Pushes DEF Closing, Call, ControlInv, files, memory
<1>29. CASE TrainingFails
  BY <1>29 DEF TrainingFails, files, memory
<1>30. CASE RecordFailure
  BY <1>30, Pushes DEF RecordFailure, Call, ControlInv, files, memory
<1>31. CASE RunFailed
  BY <1>31 DEF RunFailed, files, memory
<1>32. CASE Interrupt
  BY <1>32 DEF Interrupt, files, memory
<1>33. CASE UNCHANGED vars
  BY <1>33 DEF vars, files, memory, control
<1> QED
  BY <1>1, <1>2, <1>3, <1>4, <1>5, <1>6, <1>7, <1>8, <1>9, <1>10, <1>11, <1>12, <1>13,
     <1>14, <1>15, <1>16, <1>17, <1>18, <1>19, <1>20, <1>21, <1>22, <1>23, <1>24, <1>25,
     <1>26, <1>27, <1>28, <1>29, <1>30, <1>31, <1>32, <1>33
     DEF Next, Open, TrainingLoop, Close

\* The configuration stays, completed steps stay, and so does the window.
LEMMA Grows ==
  TypeInv /\ [Next]_vars => /\ UNCHANGED config /\ trained \subseteq trained'
                           /\ callback'.started \in {callback.started, TRUE}
<1> SUFFICES ASSUME TypeInv, [Next]_vars
             PROVE  /\ UNCHANGED config /\ trained \subseteq trained'
                    /\ callback'.started \in {callback.started, TRUE}
  OBVIOUS
<1>0. callback \in CallbackType
  BY DEF TypeInv
<1>1. CASE OnStepBegin
  BY <1>0, <1>1 DEF OnStepBegin, CallbackType
<1>2. CASE OnStepEnd
  BY <1>0, <1>2 DEF OnStepEnd, CallbackType
<1>3. CASE LaunchProfiler \/ OnTrainEnd \/ StopProfiler \/ CollectSummary \/ Finalize
  BY <1>0, <1>3 DEF LaunchProfiler, OnTrainEnd, StopProfiler, CollectSummary, Finalize, CallbackType
<1>4. CASE Open
  BY <1>4 DEF Open, PrepareDirectory, ResetMarkers, WriteRequest, RunStart
<1>5. CASE LoadModel \/ Attach \/ OnTrainBegin \/ WindowStart \/ StepBegin \/ Compute
  BY <1>5 DEF LoadModel, Attach, OnTrainBegin, WindowStart, StepBegin, Compute
<1>6. CASE OnLog \/ OnSave \/ TrainEnded \/ ManifestEntry \/ Finish
  BY <1>6 DEF OnLog, OnSave, TrainEnded, ManifestEntry, Finish, memory
<1>7. CASE WindowEnd \/ FinalSummary \/ WriteSummary \/ WriteSummaryFails \/ CloseSession \/ Closing
  BY <1>7 DEF WindowEnd, FinalSummary, WriteSummary, WriteSummaryFails, CloseSession, Closing, memory
<1>8. CASE TrainingFails \/ RecordFailure \/ RunFailed \/ Interrupt \/ UNCHANGED vars
  BY <1>8 DEF TrainingFails, RecordFailure, RunFailed, Interrupt, vars, memory
<1> QED
  BY <1>1, <1>2, <1>3, <1>4, <1>5, <1>6, <1>7, <1>8 DEF Next, TrainingLoop, Close

\* A step once captured stays captured.
LEMMA CapturedGrows ==
  TypeInv /\ [Next]_vars => Captured \subseteq Captured'
<1>1. UNCHANGED config /\ trained \subseteq trained' /\ callback'.started \in {callback.started, TRUE}
        => Captured \subseteq Captured'
  BY DEF Captured, Covers
<1> QED
  BY <1>1, Grows

LEMMA CollectedKept ==
  ASSUME CollectedInv, UNCHANGED <<config, trained>>, callback'.started = callback.started,
         callback'.endNs = callback.endNs, callback'.actual = callback.actual,
         callback'.complete = callback.complete,
         pc' # "collect" /\ outcome' # "interrupted" => pc # "collect" /\ outcome # "interrupted"
  PROVE  CollectedInv'
<1>1. Captured' = Captured
  BY DEF Captured, Covers
<1> QED
  BY <1>1 DEF CollectedInv

\* A summary is collected once its window is closed, and no step is captured after that.
LEMMA CollectedStep ==
  TypeInv /\ ControlInv /\ OutcomeInv /\ StepInv /\ WindowInv /\ TrainedInv /\ CollectedInv /\ [Next]_vars => CollectedInv'
<1> SUFFICES ASSUME TypeInv, ControlInv, OutcomeInv, StepInv, WindowInv, TrainedInv, CollectedInv, [Next]_vars PROVE CollectedInv'
  OBVIOUS
<1>0. /\ callback \in CallbackType /\ callback.last \in Nat
      /\ step \in Nat /\ MaxSteps \in Nat /\ step <= MaxSteps
      /\ config.start \in Nat \ {0} /\ config.end \in Nat /\ config.start <= config.end
      /\ trained \subseteq Nat
  BY Numbers DEF TypeInv, Steps
<1>1. CASE PrepareDirectory
  BY <1>1, CollectedKept DEF PrepareDirectory, Goto, files, memory
<1>2. CASE ResetMarkers
  BY <1>2, CollectedKept DEF ResetMarkers, Goto, files, memory
<1>3. CASE WriteRequest
  BY <1>3, CollectedKept DEF WriteRequest, Goto, files, memory
<1>4. CASE RunStart
  BY <1>4, CollectedKept DEF RunStart, Goto, files, memory
<1>5. CASE LoadModel
  BY <1>5, CollectedKept DEF LoadModel, Goto, files, memory
<1>6. CASE Attach
  BY <1>6, CollectedKept DEF Attach, Goto, files, memory
<1>7. CASE OnTrainBegin
  BY <1>7, CollectedKept DEF OnTrainBegin, Goto, files, memory
<1>8. CASE OnStepBegin
  <2>1. CASE UNCHANGED callback
    BY <1>8, <2>1, CollectedKept DEF OnStepBegin, Goto
  <2>2. CASE /\ callback' = [callback EXCEPT !.started = TRUE, !.startNs = lastNs + 1]
             /\ StartsWindow(step + 1) /\ ~callback.started
    <3>1. /\ callback'.endNs = callback.endNs /\ callback'.actual = callback.actual
          /\ callback'.complete = callback.complete
      BY <2>2, <1>0 DEF CallbackType
    <3>2. /\ callback.endNs = 0 /\ callback.actual = 0 /\ Captured = {}
      BY <2>2, <1>0 DEF WindowInv, CollectedInv, Captured
    <3>3. ~callback.complete
      <4>1. config.start \in config.start .. config.end
        BY <1>0
      <4> QED
        BY <4>1, <3>2 DEF CollectedInv
    <3> QED
      BY <3>1, <3>2, <3>3 DEF CollectedInv
  <2> QED
    BY <1>8, <2>1, <2>2 DEF OnStepBegin
<1>9. CASE WindowStart
  BY <1>9, CollectedKept DEF WindowStart, Goto, files, memory
<1>10. CASE LaunchProfiler
  <2>1. /\ callback'.started = callback.started /\ callback'.endNs = callback.endNs
        /\ callback'.actual = callback.actual /\ callback'.complete = callback.complete
    BY <1>10, <1>0 DEF LaunchProfiler, CallbackType
  <2> QED
    BY <1>10, <2>1, CollectedKept DEF LaunchProfiler, Goto, Call, Return, files
<1>11. CASE StepBegin
  BY <1>11, CollectedKept DEF StepBegin, Goto, files, memory
<1>12. CASE Compute
  BY <1>12, CollectedKept DEF Compute, Goto, files, memory
<1>13. CASE OnStepEnd
  <2>1. /\ callback'.started = callback.started /\ callback'.endNs = callback.endNs
        /\ callback'.actual = callback.actual /\ callback'.complete = callback.complete
    BY <1>13, <1>0 DEF OnStepEnd, CallbackType
  <2>2. UNCHANGED config /\ trained' = trained \cup {step} /\ pc = "step_end"
    BY <1>13, Zenon DEF OnStepEnd
  <2>3. Captured \subseteq Captured'
    BY CapturedGrows
  <2>4. callback.endNs # 0 => Captured' = Captured
    <3>1. callback.endNs # 0 => config.end < step
      BY <2>2, <1>0 DEF WindowInv
    <3>2. callback.endNs # 0 => ~Covers(step)
      BY <3>1, <1>0 DEF Covers
    <3> QED
      BY <2>1, <2>2, <3>2 DEF Captured, Covers
  <2>5. outcome' = outcome
    BY <1>13 DEF OnStepEnd, Goto, Call
  <2> QED
    BY <2>1, <2>2, <2>3, <2>4, <2>5 DEF CollectedInv
<1>14. CASE OnLog
  BY <1>14, CollectedKept DEF OnLog, Goto, files, memory
<1>15. CASE OnSave
  BY <1>15, CollectedKept DEF OnSave, Goto, files, memory
<1>16. CASE OnTrainEnd
  <2>1. /\ callback'.started = callback.started /\ callback'.endNs = callback.endNs
        /\ callback'.actual = callback.actual /\ callback'.complete = callback.complete
    BY <1>16, <1>0 DEF OnTrainEnd, CallbackType
  <2> QED
    BY <1>16, <2>1, CollectedKept DEF OnTrainEnd, Goto, Call, Return, files
<1>17. CASE TrainEnded
  BY <1>17, CollectedKept DEF TrainEnded, Goto, Call, Return, files, memory
<1>18. CASE ManifestEntry
  BY <1>18, CollectedKept DEF ManifestEntry, Goto, files, memory
<1>19. CASE Finish
  <2>1. stack = <<>> /\ outcome # "interrupted"
    BY <1>19, FinallyCalls DEF Finish, OutcomeInv, ControlInv, Procedures
  <2> QED
    BY <1>19, <2>1, CollectedKept DEF Finish, memory
<1>20. CASE StopProfiler
  <2>1. CASE WindowIsOpen
    <3>1. callback' = [callback EXCEPT !.endNs = lastNs + 1] /\ lastNs + 1 \in Nat /\ lastNs + 1 # 0
      BY <1>20, <2>1, Numbers DEF StopProfiler
    <3>2. /\ callback'.started = callback.started /\ callback'.actual = callback.actual
          /\ callback'.complete = callback.complete /\ callback'.endNs # 0
      BY <3>1, <1>0 DEF CallbackType
    <3>3. pc' = "collect" /\ UNCHANGED <<config, trained>>
      BY <1>20, <2>1 DEF StopProfiler
    <3>4. Captured' = Captured
      BY <3>2, <3>3 DEF Captured, Covers
    <3> QED
      BY <3>2, <3>3, <3>4 DEF CollectedInv
  <2>2. CASE ~WindowIsOpen
    BY <1>20, <2>2, CollectedKept DEF StopProfiler, Return
  <2> QED
    BY <2>1, <2>2
<1>21. CASE CollectSummary
  <2>1. /\ callback' = [callback EXCEPT !.profiler = FALSE, !.actual = ActualStep,
                                         !.complete = IsComplete]
        /\ UNCHANGED <<config, trained>> /\ pc = "collect"
    BY <1>21 DEF CollectSummary
  <2>2. /\ callback'.started = callback.started /\ callback'.actual = ActualStep
        /\ callback'.complete = IsComplete /\ callback'.endNs = callback.endNs
    BY <2>1, <1>0 DEF CallbackType
  <2>3. Captured' = Captured
    BY <2>1, <2>2 DEF Captured, Covers
  <2>4. /\ callback.started /\ callback.endNs # 0 /\ config.enabled
        /\ config.start .. callback.last \subseteq trained /\ callback.last <= config.end
        /\ \A s \in trained : s <= callback.last
    BY <2>1, <1>0 DEF WindowInv, TrainedInv
  <2>5. Captured = {s \in trained : config.start <= s /\ s <= config.end}
    BY <2>4 DEF Captured, Covers
  <2>6. ActualStep \in Nat /\ (ActualStep # 0 => ActualStep \in Captured)
    BY <1>0, <2>4, <2>5 DEF ActualStep
  <2>7. \A s \in Captured : s <= ActualStep
    BY <1>0, <2>4, <2>5 DEF ActualStep
  <2>8. IsComplete = (config.start .. config.end \subseteq Captured)
    <3>1. ASSUME IsComplete PROVE config.start .. config.end \subseteq Captured
      BY <1>0, <2>4, <2>5, <3>1 DEF ActualStep, IsComplete
    <3>2. ASSUME config.start .. config.end \subseteq Captured PROVE IsComplete
      <4>1. config.end \in Captured
        BY <1>0, <3>2
      <4>2. config.end = callback.last
        BY <1>0, <2>4, <2>5, <4>1
      <4> QED
        BY <1>0, <4>2 DEF ActualStep, IsComplete
    <3>3. IsComplete \in BOOLEAN
      BY DEF IsComplete
    <3> QED
      BY <3>1, <3>2, <3>3
  <2>9. UNCHANGED config /\ callback'.endNs # 0 /\ callback'.started
    BY <2>1, <2>2, <2>4
  <2>10. callback'.actual # 0 => callback'.actual \in Captured'
    BY <2>2, <2>3, <2>6
  <2>11. \A s \in Captured' : s <= callback'.actual
    BY <2>2, <2>3, <2>7
  <2>12. callback'.complete = (config'.start .. config'.end \subseteq Captured')
    BY <2>2, <2>3, <2>8, <2>9
  <2> QED
    BY <2>9, <2>10, <2>11, <2>12 DEF CollectedInv
<1>22. CASE WindowEnd
  BY <1>22, CollectedKept DEF WindowEnd, Return
<1>23. CASE Finalize
  <2>1. /\ callback'.started = callback.started /\ callback'.endNs = callback.endNs
        /\ callback'.actual = callback.actual /\ callback'.complete = callback.complete
    BY <1>23, <1>0 DEF Finalize, CallbackType
  <2> QED
    BY <1>23, <2>1, CollectedKept DEF Finalize, Goto, Call, Return, files
<1>24. CASE FinalSummary
  BY <1>24, CollectedKept DEF FinalSummary, Goto, Return, files, memory
<1>25. CASE WriteSummary
  BY <1>25, CollectedKept DEF WriteSummary, Goto, Return, files, memory
<1>26. CASE WriteSummaryFails
  BY <1>26, CollectedKept DEF WriteSummaryFails, Goto, Return, files, memory
<1>27. CASE CloseSession
  BY <1>27, CollectedKept DEF CloseSession, Goto, Call, Return, files, memory
<1>28. CASE Closing
  BY <1>28, CollectedKept DEF Closing, Goto, Return, files, memory
<1>29. CASE TrainingFails
  <2>1. stack = <<>> /\ outcome # "interrupted" /\ pc # "collect"
    BY <1>29, FinallyCalls DEF TrainingFails, Raising, OutcomeInv, ControlInv, Procedures
  <2> QED
    BY <1>29, <2>1, CollectedKept DEF TrainingFails, memory
<1>30. CASE RecordFailure
  BY <1>30, CollectedKept DEF RecordFailure, Goto, Call, Return, files, memory
<1>31. CASE RunFailed
  BY <1>31, CollectedKept DEF RunFailed, Goto, files, memory
<1>32. CASE Interrupt
  BY <1>32, CollectedKept DEF Interrupt, Goto, files, memory
<1>33. CASE UNCHANGED vars
  BY <1>33, CollectedKept DEF vars, memory, control
<1> QED
  BY <1>1, <1>2, <1>3, <1>4, <1>5, <1>6, <1>7, <1>8, <1>9, <1>10, <1>11, <1>12, <1>13,
     <1>14, <1>15, <1>16, <1>17, <1>18, <1>19, <1>20, <1>21, <1>22, <1>23, <1>24, <1>25,
     <1>26, <1>27, <1>28, <1>29, <1>30, <1>31, <1>32, <1>33
     DEF Next, Open, TrainingLoop, Close

\* Whatever is kept of a summary stays true of it.
LEMMA WrittenKept ==
  ASSUME WrittenInv, UNCHANGED config, Captured \subseteq Captured',
         pending' \in {pending, NoSummary},
         summary' \in {summary, pending, [NoSummary EXCEPT !.state = "torn"]},
         summary' = summary \/ pending # NoSummary \/ summary'.state # "new"
  PROVE  WrittenInv'
BY DEF WrittenInv, TrueSummary, NoSummary

\* What is written, or kept to be written, claims no more than happened.
LEMMA WrittenStep ==
  TypeInv /\ OwnInv /\ WindowInv /\ CollectedInv /\ WrittenInv /\ [Next]_vars => WrittenInv'
<1> SUFFICES ASSUME TypeInv, OwnInv, WindowInv, CollectedInv, WrittenInv, [Next]_vars PROVE WrittenInv'
  OBVIOUS
<1>0. UNCHANGED config /\ Captured \subseteq Captured'
  BY Grows, CapturedGrows
<1>1. CASE PrepareDirectory
  BY <1>1, <1>0, WrittenKept DEF PrepareDirectory, files, memory
<1>2. CASE ResetMarkers
  BY <1>2, <1>0, WrittenKept DEF ResetMarkers, files, memory
<1>3. CASE WriteRequest
  BY <1>3, <1>0, WrittenKept DEF WriteRequest, files, memory
<1>4. CASE RunStart
  BY <1>4, <1>0, WrittenKept DEF RunStart, files, memory
<1>5. CASE LoadModel
  BY <1>5, <1>0, WrittenKept DEF LoadModel, files, memory
<1>6. CASE Attach
  BY <1>6, <1>0, WrittenKept DEF Attach, files, memory
<1>7. CASE OnTrainBegin
  BY <1>7, <1>0, WrittenKept DEF OnTrainBegin, files, memory
<1>8. CASE OnStepBegin
  BY <1>8, <1>0, WrittenKept DEF OnStepBegin, files, memory
<1>9. CASE WindowStart
  BY <1>9, <1>0, WrittenKept DEF WindowStart, files, memory
<1>10. CASE LaunchProfiler
  BY <1>10, <1>0, WrittenKept DEF LaunchProfiler, files, memory
<1>11. CASE StepBegin
  BY <1>11, <1>0, WrittenKept DEF StepBegin, files, memory
<1>12. CASE Compute
  BY <1>12, <1>0, WrittenKept DEF Compute, files, memory
<1>13. CASE OnStepEnd
  BY <1>13, <1>0, WrittenKept DEF OnStepEnd, files, memory
<1>14. CASE OnLog
  BY <1>14, <1>0, WrittenKept DEF OnLog, files, memory
<1>15. CASE OnSave
  BY <1>15, <1>0, WrittenKept DEF OnSave, files, memory
<1>16. CASE OnTrainEnd
  BY <1>16, <1>0, WrittenKept DEF OnTrainEnd, files, memory
<1>17. CASE TrainEnded
  BY <1>17, <1>0, WrittenKept DEF TrainEnded, files, memory
<1>18. CASE ManifestEntry
  BY <1>18, <1>0, WrittenKept DEF ManifestEntry, files, memory
<1>19. CASE Finish
  BY <1>19, <1>0, WrittenKept DEF Finish, files, memory
<1>20. CASE StopProfiler
  BY <1>20, <1>0, WrittenKept DEF StopProfiler, files, memory
<1>21. CASE CollectSummary
  BY <1>21, <1>0, WrittenKept DEF CollectSummary, files, memory
<1>22. CASE WindowEnd
  BY <1>22, <1>0, WrittenKept DEF WindowEnd, files, memory
<1>23. CASE Finalize
  BY <1>23, <1>0, WrittenKept DEF Finalize, files, memory
<1>24. CASE FinalSummary
  <2>1. CASE UNCHANGED pending
    BY <1>24, <1>0, <2>1, WrittenKept DEF FinalSummary, files
  <2>2. CASE callback.endNs # 0 /\ pending' = SummaryOfWindow
    <3>1. TrueSummary(SummaryOfWindow)
      BY <2>2, Numbers DEF TrueSummary, SummaryOfWindow, WindowInv, CollectedInv
    <3>2. UNCHANGED <<summary, callback, trained>>
      BY <1>24 DEF FinalSummary, files
    <3> QED
      BY <1>0, <2>2, <3>1, <3>2 DEF WrittenInv, TrueSummary
  <2> QED
    BY <1>24, <2>1, <2>2 DEF FinalSummary, SummaryOfWindow
<1>25. CASE WriteSummary
  BY <1>25, <1>0, WrittenKept DEF WriteSummary, OwnInv, NoSummary
<1>26. CASE WriteSummaryFails
  <2>1. [NoSummary EXCEPT !.state = "torn"].state # "new"
    BY DEF NoSummary
  <2> QED
    BY <1>26, <1>0, <2>1, WrittenKept DEF WriteSummaryFails
<1>27. CASE CloseSession
  BY <1>27, <1>0, WrittenKept DEF CloseSession, files, memory
<1>28. CASE Closing
  <2>1. CASE UNCHANGED pending
    BY <1>28, <1>0, <2>1, WrittenKept DEF Closing, files
  <2>2. CASE pending' = LastSummary
    <3>1. TrueSummary(NotReached)
      BY DEF TrueSummary, NotReached, NoSummary
    <3>2. UNCHANGED summary
      BY <1>28 DEF Closing, files
    <3> QED
      BY <1>0, <2>2, <3>1, <3>2 DEF WrittenInv, TrueSummary, LastSummary
  <2> QED
    BY <1>28, <2>1, <2>2 DEF Closing
<1>29. CASE TrainingFails
  BY <1>29, <1>0, WrittenKept DEF TrainingFails, files, memory
<1>30. CASE RecordFailure
  BY <1>30, <1>0, WrittenKept DEF RecordFailure, files, memory
<1>31. CASE RunFailed
  BY <1>31, <1>0, WrittenKept DEF RunFailed, files, memory
<1>32. CASE Interrupt
  BY <1>32, <1>0, WrittenKept DEF Interrupt, files, memory
<1>33. CASE UNCHANGED vars
  BY <1>33, <1>0, WrittenKept DEF vars, files, memory, control
<1> QED
  BY <1>1, <1>2, <1>3, <1>4, <1>5, <1>6, <1>7, <1>8, <1>9, <1>10, <1>11, <1>12, <1>13,
     <1>14, <1>15, <1>16, <1>17, <1>18, <1>19, <1>20, <1>21, <1>22, <1>23, <1>24, <1>25,
     <1>26, <1>27, <1>28, <1>29, <1>30, <1>31, <1>32, <1>33
     DEF Next, Open, TrainingLoop, Close

\* finalize has run whenever it should have, and only then.
LEMMA FinalizedStep ==
  TypeInv /\ ControlInv /\ WindowInv /\ FinalizedInv /\ [Next]_vars => FinalizedInv'
<1> SUFFICES ASSUME TypeInv, ControlInv, WindowInv, FinalizedInv, [Next]_vars PROVE FinalizedInv'
  OBVIOUS
<1> USE DEF FinalizedInv, Preparing, Stopping, Ending, Goto
<1>0. callback \in CallbackType /\ session \in SessionType
  BY DEF TypeInv
<1>l. <<"log">> \in StopStacks /\ <<"log">> \notin CloseStacks
  BY Calls, Pushes
<1>1. CASE PrepareDirectory
  BY <1>1, <1>0 DEF PrepareDirectory, files, SessionType
<1>2. CASE ResetMarkers
  BY <1>2, <1>0 DEF ResetMarkers, files, SessionType
<1>3. CASE WriteRequest
  BY <1>3, <1>0 DEF WriteRequest, files, SessionType
<1>4. CASE RunStart
  BY <1>4 DEF RunStart, files, memory
<1>5. CASE LoadModel
  BY <1>5 DEF LoadModel, files, memory
<1>6. CASE Attach
  BY <1>6, <1>0 DEF Attach, files, SessionType
<1>7. CASE OnTrainBegin
  BY <1>7 DEF OnTrainBegin, files, memory
<1>8. CASE OnStepBegin
  <2>1. callback'.finalized = callback.finalized
    BY <1>8, <1>0 DEF OnStepBegin, CallbackType
  <2> QED
    BY <1>8, <2>1 DEF OnStepBegin, Call, ControlInv, Procedures, files
<1>9. CASE WindowStart
  BY <1>9 DEF WindowStart, files, memory
<1>10. CASE LaunchProfiler
  <2>1. callback'.finalized = callback.finalized
    BY <1>10, <1>0 DEF LaunchProfiler, CallbackType
  <2> QED
    BY <1>10, <2>1 DEF LaunchProfiler, Call, ControlInv, Procedures, files
<1>11. CASE StepBegin
  BY <1>11 DEF StepBegin, files, memory
<1>12. CASE Compute
  BY <1>12 DEF Compute, files, memory
<1>13. CASE OnStepEnd
  <2>1. callback'.finalized = callback.finalized
    BY <1>13, <1>0 DEF OnStepEnd, CallbackType
  <2>2. stack = <<>> /\ pc = "step_end" /\ UNCHANGED session
    BY <1>13 DEF OnStepEnd, ControlInv, Procedures
  <2>3. Call("stop", "log") \/ Goto("log")
    BY <1>13, Zenon DEF OnStepEnd
  <2>4. pc' = "log" \/ (pc' = "stop" /\ stack' = <<"log">>)
    BY <2>2, <2>3, Pushes DEF Call
  <2>5. callback'.finalized = FALSE
    BY <2>1, <2>2, <1>0 DEF CallbackType
  <2>6. ~session.closed
    BY <2>2
  <2> QED
    BY <2>1, <2>2, <2>4, <2>5, <2>6
<1>14. CASE OnLog
  BY <1>14 DEF OnLog, files, memory
<1>15. CASE OnSave
  BY <1>15 DEF OnSave, files, memory
<1>16. CASE OnTrainEnd
  <2>1. callback'.finalized = callback.finalized
    BY <1>16, <1>0 DEF OnTrainEnd, CallbackType
  <2>2. stack = <<>> /\ pc = "step" /\ UNCHANGED session /\ session.attached
    BY <1>16 DEF OnTrainEnd, ControlInv, Procedures, WindowInv, Looping
  <2>3. pc' = "finalize"
    BY <1>16 DEF OnTrainEnd, Call
  <2> QED
    BY <2>1, <2>2, <2>3
<1>17. CASE TrainEnded
  BY <1>17, Calls, Pushes DEF TrainEnded, Call, ControlInv, files, memory
<1>18. CASE ManifestEntry
  BY <1>18 DEF ManifestEntry, files, memory
<1>19. CASE Finish
  BY <1>19 DEF Finish, files, memory
<1>20. CASE StopProfiler
  <2>1. callback'.finalized = callback.finalized
    BY <1>20, <1>0 DEF StopProfiler, CallbackType
  <2> QED
    BY <1>20, <2>1, StopReturns, Pushes DEF StopProfiler, ControlInv, files
<1>21. CASE CollectSummary
  <2>1. callback'.finalized = callback.finalized
    BY <1>21, <1>0 DEF CollectSummary, CallbackType
  <2> QED
    BY <1>21, <2>1 DEF CollectSummary, Call, ControlInv, Procedures, files
<1>22. CASE WindowEnd
  BY <1>22, StopReturns, Stacks, Pushes DEF WindowEnd, Call, ControlInv, files, memory
<1>23. CASE Finalize
  <2>1. CASE callback.finalized
    BY <1>23, <2>1, FinalizeReturns, Pushes DEF Finalize, ControlInv, files
  <2>2. CASE ~callback.finalized
    <3>1. callback'.finalized = TRUE
      BY <1>23, <2>2, <1>0 DEF Finalize, CallbackType
    <3>2. pc' = "stop" /\ stack' # <<"log">> /\ UNCHANGED session /\ pc = "finalize"
      BY <1>23, <2>2, Pushes DEF Finalize, Call, ControlInv
    <3> QED
      BY <2>2, <3>1, <3>2
  <2> QED
    BY <2>1, <2>2
<1>24. CASE FinalSummary
  <2>1. stack \in FinalizeStacks /\ stack \notin CloseStacks
    <3>1. \A s \in FinalizeStacks : Head(s) \in {"train_ended", "run_failed", "closing"}
      BY Stacks, Names, Pushed DEF FinalizeStacks
    <3>2. \A s \in CloseStacks : Head(s) \in {"manifest", "ended"}
      BY Stacks, Names DEF CloseStacks
    <3> QED
      BY <1>24, <3>1, <3>2 DEF FinalSummary, ControlInv
  <2> QED
    BY <1>24, <2>1, FinalizeReturns DEF FinalSummary, files
<1>25. CASE WriteSummary
  <2>1. session'.closed = session.closed /\ session'.attached = session.attached
    BY <1>25, <1>0 DEF WriteSummary, SessionType
  <2> QED
    BY <1>25, <2>1, FinalizeReturns, CloseReturns, Pushes DEF WriteSummary, ControlInv
<1>26. CASE WriteSummaryFails
  BY <1>26, FinalizeReturns, CloseReturns, Stacks, Pushes DEF WriteSummaryFails, Call, ControlInv, files, memory
<1>27. CASE CloseSession
  BY <1>27, CloseReturns, Stacks, Pushes DEF CloseSession, Call, ControlInv, files, memory
<1>28. CASE Closing
  <2>1. session'.closed = TRUE /\ session'.attached = session.attached
    BY <1>28, <1>0 DEF Closing, SessionType
  <2> QED
    BY <1>28, <2>1, CloseReturns, Pushes DEF Closing, ControlInv, Return
<1>29. CASE TrainingFails
  BY <1>29 DEF TrainingFails, Raising, memory
<1>30. CASE RecordFailure
  BY <1>30, Calls, Pushes DEF RecordFailure, Call, ControlInv, files, memory
<1>31. CASE RunFailed
  BY <1>31 DEF RunFailed, files, memory
<1>32. CASE Interrupt
  BY <1>32 DEF Interrupt, files, memory
<1>33. CASE UNCHANGED vars
  BY <1>33 DEF vars, files, memory, control
<1> QED
  BY <1>1, <1>2, <1>3, <1>4, <1>5, <1>6, <1>7, <1>8, <1>9, <1>10, <1>11, <1>12, <1>13,
     <1>14, <1>15, <1>16, <1>17, <1>18, <1>19, <1>20, <1>21, <1>22, <1>23, <1>24, <1>25,
     <1>26, <1>27, <1>28, <1>29, <1>30, <1>31, <1>32, <1>33
     DEF Next, Open, TrainingLoop, Close

\* Only a Ctrl-C makes a run an interrupted one, and it stays one.
LEMMA Uninterrupted ==
  ControlInv /\ OutcomeInv /\ [Next]_vars /\ outcome' # "interrupted" => outcome # "interrupted"
<1> SUFFICES ASSUME ControlInv, OutcomeInv, [Next]_vars, outcome' # "interrupted"
             PROVE  outcome # "interrupted"
  OBVIOUS
<1> USE DEF Goto, Call, Return
<1>1. CASE Open
  BY <1>1 DEF Open, PrepareDirectory, ResetMarkers, WriteRequest, RunStart
<1>2. CASE LoadModel \/ Attach \/ OnTrainBegin \/ WindowStart \/ StepBegin \/ Compute
  BY <1>2 DEF LoadModel, Attach, OnTrainBegin, WindowStart, StepBegin, Compute
<1>3. CASE OnStepBegin \/ LaunchProfiler \/ OnStepEnd
  BY <1>3 DEF OnStepBegin, LaunchProfiler, OnStepEnd
<1>4. CASE OnLog \/ OnSave \/ OnTrainEnd \/ TrainEnded \/ ManifestEntry
  BY <1>4 DEF OnLog, OnSave, OnTrainEnd, TrainEnded, ManifestEntry
<1>5. CASE StopProfiler \/ CollectSummary \/ WindowEnd \/ Finalize \/ FinalSummary
  BY <1>5 DEF StopProfiler, CollectSummary, WindowEnd, Finalize, FinalSummary
<1>6. CASE WriteSummary \/ WriteSummaryFails \/ CloseSession \/ Closing
  BY <1>6 DEF WriteSummary, WriteSummaryFails, CloseSession, Closing
<1>7. CASE RecordFailure \/ RunFailed \/ UNCHANGED vars
  BY <1>7 DEF RecordFailure, RunFailed, vars, control
<1>8. CASE Finish \/ TrainingFails
  <2>1. stack = <<>> /\ pc # "ended"
    BY <1>8 DEF Finish, TrainingFails, Raising, ControlInv, Procedures
  <2> QED
    BY <2>1, FinallyCalls DEF OutcomeInv
<1>9. CASE Interrupt
  BY <1>9 DEF Interrupt
<1> QED
  BY <1>1, <1>2, <1>3, <1>4, <1>5, <1>6, <1>7, <1>8, <1>9 DEF Next, TrainingLoop, Close

\* Before the summary is due, and after.
LEMMA SettledBefore ==
  ASSUME SettledInv, outcome # "interrupted", ~Concluded, UNCHANGED <<pending, summary>>,
         pc' # "ended", ~(callback'.finalized /\ Concluded'),
         callback'.finalized /\ pc' \notin Stopping /\ callback'.started => callback'.endNs # 0
  PROVE  SettledInv'
BY DEF SettledInv

LEMMA SettledAfter ==
  ASSUME TypeInv, SettledInv, outcome # "interrupted", Concluded, Concluded',
         UNCHANGED <<callback, pending, summary, config>>, errors' \in Nat, errors <= errors',
         session'.written = session.written, session'.closed = session.closed,
         pc # "write", pc' # "write", pc' = "ended" => session.closed
  PROVE  SettledInv'
<1>0. errors \in Nat
  BY DEF TypeInv
<1>1. pc \notin Stopping /\ pc' \notin Stopping
  BY DEF Concluded
<1>2. /\ Expected(pending) => Expected(pending)'
      /\ Expected(summary) => Expected(summary)'
  BY DEF Expected, SummaryOfWindow
<1>3. SummaryOfWindow' = SummaryOfWindow
  BY DEF SummaryOfWindow
<1> QED
  BY <1>0, <1>1, <1>2, <1>3 DEF SettledInv

\* The summary of a window that was opened is kept until it is on disk.
LEMMA SettledStep ==
  TypeInv /\ ControlInv /\ OutcomeInv /\ StepInv /\ WindowInv /\ OwnInv /\ FinalizedInv /\ SettledInv /\ [Next]_vars => SettledInv'
<1> SUFFICES ASSUME TypeInv, ControlInv, OutcomeInv, StepInv, WindowInv, OwnInv, FinalizedInv, SettledInv, [Next]_vars PROVE SettledInv'
  OBVIOUS
<1> USE DEF Stopping, Ending, Goto
<1> SUFFICES ASSUME outcome' # "interrupted" PROVE SettledInv'
  BY DEF SettledInv
<1>0. /\ callback \in CallbackType /\ session \in SessionType /\ errors \in Nat
      /\ outcome # "interrupted"
  BY Uninterrupted DEF TypeInv
<1>1. CASE PrepareDirectory
  <2>1. /\ ~callback.finalized /\ ~Concluded /\ ~Concluded' /\ pc' # "ended"
        /\ UNCHANGED <<pending, summary, callback>>
    BY <1>1 DEF PrepareDirectory, Concluded, FinalizedInv, files
  <2> QED
    BY <1>0, <2>1, SettledBefore
<1>2. CASE ResetMarkers
  <2>1. /\ ~callback.finalized /\ ~Concluded /\ ~Concluded' /\ pc' # "ended"
        /\ UNCHANGED <<pending, summary, callback>>
    BY <1>2 DEF ResetMarkers, Concluded, FinalizedInv, files
  <2> QED
    BY <1>0, <2>1, SettledBefore
<1>3. CASE WriteRequest
  <2>1. /\ ~callback.finalized /\ ~Concluded /\ ~Concluded' /\ pc' # "ended"
        /\ UNCHANGED <<pending, summary, callback>>
    BY <1>3 DEF WriteRequest, Concluded, FinalizedInv, files
  <2> QED
    BY <1>0, <2>1, SettledBefore
<1>4. CASE RunStart
  <2>1. /\ ~callback.finalized /\ ~Concluded /\ ~Concluded' /\ pc' # "ended"
        /\ UNCHANGED <<pending, summary, callback>>
    BY <1>4 DEF RunStart, Concluded, FinalizedInv, files
  <2> QED
    BY <1>0, <2>1, SettledBefore
<1>5. CASE LoadModel
  <2>1. /\ ~callback.finalized /\ ~Concluded /\ ~Concluded' /\ pc' # "ended"
        /\ UNCHANGED <<pending, summary, callback>>
    BY <1>5 DEF LoadModel, Concluded, FinalizedInv, files
  <2> QED
    BY <1>0, <2>1, SettledBefore
<1>6. CASE Attach
  <2>1. /\ ~callback.finalized /\ ~Concluded /\ ~Concluded' /\ pc' # "ended"
        /\ UNCHANGED <<pending, summary, callback>>
    BY <1>6 DEF Attach, Concluded, FinalizedInv, files
  <2> QED
    BY <1>0, <2>1, SettledBefore
<1>7. CASE OnTrainBegin
  <2>1. /\ ~callback.finalized /\ ~Concluded /\ ~Concluded' /\ pc' # "ended"
        /\ UNCHANGED <<pending, summary, callback>>
    BY <1>7 DEF OnTrainBegin, Concluded, FinalizedInv, files
  <2> QED
    BY <1>0, <2>1, SettledBefore
<1>8. CASE OnStepBegin
  <2>1. /\ ~callback.finalized /\ ~Concluded /\ pc' # "ended" /\ UNCHANGED <<pending, summary>>
    BY <1>8 DEF OnStepBegin, Call, Concluded, FinalizedInv, files
  <2>2. callback'.finalized = callback.finalized
    BY <1>8, <1>0 DEF OnStepBegin, CallbackType
  <2> QED
    BY <1>0, <2>1, <2>2, SettledBefore
<1>9. CASE WindowStart
  <2>1. /\ ~callback.finalized /\ ~Concluded /\ ~Concluded' /\ pc' # "ended"
        /\ UNCHANGED <<pending, summary, callback>>
    BY <1>9 DEF WindowStart, Concluded, FinalizedInv, files
  <2> QED
    BY <1>0, <2>1, SettledBefore
<1>10. CASE LaunchProfiler
  <2>1. /\ ~callback.finalized /\ ~Concluded /\ pc' # "ended" /\ UNCHANGED <<pending, summary>>
    BY <1>10 DEF LaunchProfiler, Call, Concluded, FinalizedInv, files
  <2>2. callback'.finalized = callback.finalized
    BY <1>10, <1>0 DEF LaunchProfiler, CallbackType
  <2> QED
    BY <1>0, <2>1, <2>2, SettledBefore
<1>11. CASE StepBegin
  <2>1. /\ ~callback.finalized /\ ~Concluded /\ ~Concluded' /\ pc' # "ended"
        /\ UNCHANGED <<pending, summary, callback>>
    BY <1>11 DEF StepBegin, Concluded, FinalizedInv, files
  <2> QED
    BY <1>0, <2>1, SettledBefore
<1>12. CASE Compute
  <2>1. /\ ~callback.finalized /\ ~Concluded /\ ~Concluded' /\ pc' # "ended"
        /\ UNCHANGED <<pending, summary, callback>>
    BY <1>12 DEF Compute, Concluded, FinalizedInv, files
  <2> QED
    BY <1>0, <2>1, SettledBefore
<1>13. CASE OnStepEnd
  <2>1. /\ ~callback.finalized /\ ~Concluded /\ pc' # "ended" /\ UNCHANGED <<pending, summary>>
    BY <1>13 DEF OnStepEnd, Call, Concluded, FinalizedInv, files
  <2>2. callback'.finalized = callback.finalized
    BY <1>13, <1>0 DEF OnStepEnd, CallbackType
  <2> QED
    BY <1>0, <2>1, <2>2, SettledBefore
<1>14. CASE OnLog
  <2>1. /\ ~callback.finalized /\ ~Concluded /\ ~Concluded' /\ pc' # "ended"
        /\ UNCHANGED <<pending, summary, callback>>
    BY <1>14 DEF OnLog, Concluded, FinalizedInv, files
  <2> QED
    BY <1>0, <2>1, SettledBefore
<1>15. CASE OnSave
  <2>1. /\ ~callback.finalized /\ ~Concluded /\ ~Concluded' /\ pc' # "ended"
        /\ UNCHANGED <<pending, summary, callback>>
    BY <1>15 DEF OnSave, Concluded, FinalizedInv, files
  <2> QED
    BY <1>0, <2>1, SettledBefore
<1>16. CASE OnTrainEnd
  <2>1. /\ ~callback.finalized /\ ~Concluded /\ pc' # "ended" /\ UNCHANGED <<pending, summary>>
    BY <1>16 DEF OnTrainEnd, Call, Concluded, FinalizedInv, files
  <2>2. callback'.finalized = callback.finalized
    BY <1>16, <1>0 DEF OnTrainEnd, CallbackType
  <2> QED
    BY <1>0, <2>1, <2>2, SettledBefore
<1>17. CASE TrainEnded
  <2>1. errors' \in Nat /\ errors <= errors'
    BY <1>17, EmitSteps DEF EmitEffect
  <2>2. Concluded /\ Concluded' /\ pc \notin {"write"} /\ pc' = "close"
        /\ UNCHANGED <<callback, pending, summary, config, session>>
    BY <1>17 DEF TrainEnded, Call, Concluded, FinalizedInv
  <2> QED
    BY <1>0, <2>1, <2>2, SettledAfter
<1>18. CASE ManifestEntry
  <2>1. Concluded /\ Concluded' /\ pc # "write" /\ pc' \notin {"write", "ended"}
        /\ UNCHANGED <<callback, pending, summary, config, session, errors>>
    BY <1>18 DEF ManifestEntry, Concluded, FinalizedInv, files, memory, bounds
  <2> QED
    BY <1>0, <2>1, SettledAfter
<1>19. CASE Finish
  <2>1. Concluded /\ Concluded' /\ pc # "write" /\ pc' \notin {"write", "ended"}
        /\ UNCHANGED <<callback, pending, summary, config, session, errors>>
    BY <1>19 DEF Finish, Concluded, FinalizedInv, files, memory, bounds
  <2> QED
    BY <1>0, <2>1, SettledAfter
<1>20. CASE StopProfiler
  <2>1. ~Concluded /\ UNCHANGED <<pending, summary>>
    BY <1>20 DEF StopProfiler, Concluded, files
  <2>2. CASE WindowIsOpen
    BY <1>20, <1>0, <2>1, <2>2, SettledBefore DEF StopProfiler, Concluded
  <2>3. CASE ~WindowIsOpen
    <3>1. ~Concluded' /\ pc' # "ended" /\ UNCHANGED callback
      BY <1>20, <2>3, StopReturns DEF StopProfiler, Concluded, ControlInv
    <3> QED
      BY <1>0, <2>1, <2>3, <3>1, SettledBefore DEF WindowIsOpen
  <2> QED
    BY <2>2, <2>3
<1>21. CASE CollectSummary
  <2>1. ~Concluded /\ ~Concluded' /\ UNCHANGED <<pending, summary>> /\ pc' = "window_end"
    BY <1>21 DEF CollectSummary, Concluded, files
  <2> QED
    BY <1>0, <2>1, SettledBefore
<1>22. CASE WindowEnd
  <2>1. /\ ~Concluded /\ ~Concluded' /\ UNCHANGED <<pending, summary, callback>> /\ pc' # "ended"
        /\ pc = "window_end"
    BY <1>22, StopReturns DEF WindowEnd, Concluded, ControlInv
  <2> QED
    BY <1>0, <2>1, SettledBefore DEF WindowInv
<1>23. CASE Finalize
  <2>0. UNCHANGED <<pending, summary, config, session, errors>> /\ pc = "finalize"
    BY <1>23 DEF Finalize, files, bounds
  <2>1. CASE callback.finalized
    <3>1. Concluded /\ Concluded' /\ UNCHANGED callback /\ pc' \notin {"write", "ended"}
      BY <1>23, <2>0, <2>1, FinalizeReturns DEF Finalize, Concluded, ControlInv
    <3> QED
      BY <1>0, <2>0, <3>1, SettledAfter
  <2>2. CASE ~callback.finalized
    <3>1. ~Concluded /\ ~Concluded' /\ pc' = "stop"
      BY <1>23, <2>0, <2>2 DEF Finalize, Call, Concluded, FinalizedInv
    <3> QED
      BY <1>0, <2>0, <3>1, SettledBefore
  <2> QED
    BY <2>1, <2>2
<1>24. CASE FinalSummary
  <2>0. /\ pc = "final_summary" /\ UNCHANGED <<summary, config, session, errors, callback>>
        /\ ~Concluded /\ callback.finalized /\ session.attached
    BY <1>24 DEF FinalSummary, files, bounds, Concluded, FinalizedInv
  <2>1. pending = NoSummary /\ summary.state # "new" /\ (callback.started => callback.endNs # 0)
    BY <1>0, <2>0 DEF SettledInv
  <2>2. ~session.closed
    BY <2>0 DEF FinalizedInv
  <2>3. CASE callback.endNs # 0 /\ CanWriteSummary
    <3>1. pending' = SummaryOfWindow /\ pc' = "write"
      BY <1>24, <2>3 DEF FinalSummary, SummaryOfWindow
    <3>2. callback.started
      BY <2>3 DEF WindowInv
    <3>3. Concluded' /\ SummaryOfWindow' = SummaryOfWindow
      BY <2>0, <3>1 DEF Concluded, SummaryOfWindow
    <3> QED
      BY <2>0, <2>1, <2>2, <3>1, <3>2, <3>3 DEF SettledInv, Expected
  <2>4. CASE ~(callback.endNs # 0 /\ CanWriteSummary)
    <3>1. UNCHANGED pending /\ pc' \in {"train_ended", "run_failed", "closing"}
      BY <1>24, <2>4, FinalizeReturns DEF FinalSummary, ControlInv
    <3>2. ~(callback.started /\ config.primary /\ ~session.written)
      BY <2>1, <2>4 DEF CanWriteSummary, WindowInv
    <3> QED
      BY <2>0, <2>1, <3>1, <3>2 DEF SettledInv
  <2> QED
    BY <2>3, <2>4
<1>25. CASE WriteSummary
  <2>0. /\ pc = "write" /\ summary' = pending /\ pending' = NoSummary
        /\ UNCHANGED <<callback, config, errors>>
        /\ session' = [session EXCEPT !.written = TRUE]
    BY <1>25 DEF WriteSummary, bounds
  <2>1. /\ session'.written = TRUE /\ session'.closed = session.closed
        /\ session'.attached = session.attached
    BY <1>0, <2>0 DEF SessionType
  <2>2. Concluded /\ pending # NoSummary
    BY <2>0 DEF Concluded, FinalizedInv, OwnInv, NoSummary
  <2>3. /\ pc' \in {"train_ended", "run_failed", "closing", "manifest", "ended"}
        /\ pc' = "ended" => session.closed
    BY <1>25, FinalizeReturns, CloseReturns DEF WriteSummary, ControlInv, FinalizedInv
  <2>4. Concluded'
    BY <2>0, <2>1, <2>2, <2>3 DEF Concluded
  <2>5. Expected(pending) /\ SummaryOfWindow' = SummaryOfWindow
    BY <1>0, <2>0, <2>2 DEF SettledInv, SummaryOfWindow
  <2>6. Expected(summary)'
    BY <2>0, <2>5 DEF Expected
  <2> QED
    BY <1>0, <2>0, <2>1, <2>2, <2>3, <2>4, <2>6 DEF SettledInv
<1>26. CASE WriteSummaryFails
  <2>0. /\ pc = "write" /\ errors' = errors + 1
        /\ UNCHANGED <<callback, config, pending, session>>
        /\ (summary' = summary \/ summary'.state # "new")
    BY <1>26 DEF WriteSummaryFails, Fails, NoSummary
  <2>2. Concluded
    BY <2>0 DEF Concluded, FinalizedInv
  <2>3. /\ pc' \in {"train_ended", "run_failed", "closing", "manifest", "ended"}
        /\ pc' = "ended" => session.closed
    BY <1>26, FinalizeReturns, CloseReturns DEF WriteSummaryFails, ControlInv, FinalizedInv
  <2>4. Concluded' /\ SummaryOfWindow' = SummaryOfWindow
    BY <2>0, <2>2, <2>3 DEF Concluded, SummaryOfWindow
  <2>5. Expected(pending)' = Expected(pending)
    BY <2>0, <2>4 DEF Expected
  <2>6. summary'.state = "new" => Expected(summary)'
    BY <1>0, <2>0, <2>4 DEF Expected, SettledInv
  <2>7. errors + 1 >= 1 /\ (errors >= 1 => errors + 1 >= 2)
    BY <1>0
  <2> QED
    BY <1>0, <2>0, <2>2, <2>3, <2>4, <2>5, <2>6, <2>7 DEF SettledInv
<1>27. CASE CloseSession
  <2>0. pc = "close" /\ UNCHANGED <<callback, pending, summary, config, session, errors>>
    BY <1>27 DEF CloseSession, files, memory, bounds
  <2>1. /\ pc' \in {"manifest", "ended", "finalize", "closing"}
        /\ (pc' \in {"manifest", "ended"} => session.closed)
    BY <1>27, CloseReturns DEF CloseSession, Call, ControlInv
  <2>2. CASE Concluded
    <3>1. Concluded'
      BY <2>0, <2>1, <2>2 DEF Concluded
    <3> QED
      BY <1>0, <2>0, <2>1, <2>2, <3>1, SettledAfter
  <2>3. CASE ~Concluded
    <3>1. ~callback.finalized /\ ~session.closed
      BY <2>0, <2>3 DEF Concluded, FinalizedInv
    <3> QED
      BY <1>0, <2>0, <2>1, <2>3, <3>1, SettledBefore
  <2> QED
    BY <2>2, <2>3
<1>28. CASE Closing
  <2>0. /\ pc = "closing" /\ session' = [session EXCEPT !.closed = TRUE]
        /\ UNCHANGED <<callback, config, summary, errors>>
    BY <1>28 DEF Closing, files, bounds
  <2>1. /\ session'.written = session.written /\ session'.closed = TRUE
        /\ session'.attached = session.attached
    BY <1>0, <2>0 DEF SessionType
  <2>2. Concluded /\ SummaryOfWindow' = SummaryOfWindow /\ (callback.started => callback.finalized)
    BY <2>0 DEF Concluded, FinalizedInv, SummaryOfWindow, WindowInv
  <2>3. CASE CanWriteSummary
    <3>1. pending' = LastSummary /\ pc' = "write"
      BY <1>28, <2>3 DEF Closing
    <3>2. Concluded'
      BY <2>0, <2>1, <2>2, <3>1 DEF Concluded
    <3>3. callback.started => pending = SummaryOfWindow /\ errors >= 1
      BY <1>0, <2>0, <2>2, <2>3 DEF SettledInv, CanWriteSummary
    <3>4. SummaryOfWindow # NoSummary
      BY DEF SummaryOfWindow, NoSummary
    <3>5. Expected(pending)' /\ (callback.started => pending' = SummaryOfWindow)
      BY <1>0, <2>0, <2>2, <3>1, <3>3, <3>4 DEF Expected, LastSummary, SettledInv
    <3>6. summary'.state = "new" => Expected(summary)'
      BY <1>0, <2>0, <2>2 DEF Expected, SettledInv
    <3> QED
      BY <1>0, <2>0, <2>1, <2>2, <3>1, <3>2, <3>3, <3>5, <3>6 DEF SettledInv
  <2>4. CASE ~CanWriteSummary
    <3>1. UNCHANGED pending /\ pc' \in {"manifest", "ended"}
      BY <1>28, <2>4, CloseReturns DEF Closing, ControlInv
    <3>2. Concluded'
      BY <2>0, <2>1, <2>2, <3>1 DEF Concluded
    <3>3. ~(callback.started /\ config.primary /\ ~session.written)
      BY <2>4 DEF CanWriteSummary, WindowInv
    <3>4. /\ pending' # NoSummary => Expected(pending)'
          /\ summary'.state = "new" => Expected(summary)'
      BY <1>0, <2>0, <2>2, <3>1 DEF Expected, SettledInv
    <3> QED
      BY <1>0, <2>0, <2>1, <2>2, <3>1, <3>2, <3>3, <3>4 DEF SettledInv
  <2> QED
    BY <2>3, <2>4
<1>29. CASE TrainingFails
  <2>0. pc \in Raising /\ pc' = "failure"
        /\ UNCHANGED <<callback, pending, summary, config, session, errors>>
    BY <1>29 DEF TrainingFails, files, memory, bounds
  <2>1. CASE pc = "finish"
    <3>1. Concluded /\ Concluded'
      BY <2>0, <2>1 DEF Concluded, FinalizedInv
    <3> QED
      BY <1>0, <2>0, <2>1, <3>1, SettledAfter
  <2>2. CASE pc # "finish"
    <3>1. ~Concluded /\ ~callback.finalized
      BY <2>0, <2>2 DEF Concluded, FinalizedInv, Raising
    <3> QED
      BY <1>0, <2>0, <3>1, SettledBefore
  <2> QED
    BY <2>1, <2>2
<1>30. CASE RecordFailure
  <2>0. pc = "failure" /\ pc' \in {"finalize", "run_failed"} /\ (session.attached => pc' = "finalize")
        /\ UNCHANGED <<callback, pending, summary, config, session, errors>>
    BY <1>30 DEF RecordFailure, Call, files, memory, bounds
  <2>1. CASE Concluded
    <3>1. Concluded'
      BY <2>0, <2>1 DEF Concluded
    <3> QED
      BY <1>0, <2>0, <2>1, <3>1, SettledAfter
  <2>2. CASE ~Concluded
    <3>1. ~callback.finalized
      BY <2>0, <2>2 DEF Concluded
    <3> QED
      BY <1>0, <2>0, <2>2, <3>1, SettledBefore
  <2> QED
    BY <2>1, <2>2
<1>31. CASE RunFailed
  <2>1. errors' \in Nat /\ errors <= errors'
    BY <1>31, EmitSteps DEF EmitEffect
  <2>2. Concluded /\ Concluded' /\ pc \notin {"write"} /\ pc' = "close"
        /\ UNCHANGED <<callback, pending, summary, config, session>>
    BY <1>31 DEF RunFailed, Call, Concluded, FinalizedInv
  <2> QED
    BY <1>0, <2>1, <2>2, SettledAfter
<1>32. CASE Interrupt
  BY <1>32 DEF Interrupt
<1>33. CASE UNCHANGED vars
  BY <1>33 DEF vars, files, memory, control, bounds, SettledInv, Concluded, Expected, SummaryOfWindow
<1> QED
  BY <1>1, <1>2, <1>3, <1>4, <1>5, <1>6, <1>7, <1>8, <1>9, <1>10, <1>11, <1>12, <1>13,
     <1>14, <1>15, <1>16, <1>17, <1>18, <1>19, <1>20, <1>21, <1>22, <1>23, <1>24, <1>25,
     <1>26, <1>27, <1>28, <1>29, <1>30, <1>31, <1>32, <1>33
     DEF Next, Open, TrainingLoop, Close

-----------------------------------------------------------------------------
(* Every reachable state.                                                  *)

IInv == /\ TypeInv /\ ControlInv /\ OutcomeInv /\ StepInv /\ StampInv /\ WindowInv /\ PlaceInv
        /\ RefInv /\ OwnInv /\ ManifestInv /\ TrainedInv /\ CollectedInv /\ WrittenInv
        /\ FinalizedInv /\ SettledInv

LEMMA Initially ==
  Init => IInv
<1> SUFFICES ASSUME Init PROVE IInv
  OBVIOUS
<1> USE DEF Init
<1>0. 0 \in 0 .. MaxSteps /\ MaxSteps \in Nat
  BY StepsAssumption
<1>1. markers \in Seq(Marker) /\ Whole = {}
  <2>1. OldMarker \in Marker /\ OldMarker.event = "old"
    BY <1>0 DEF OldMarker, Marker, Events
  <2> QED
    BY <2>1, EmptySeq DEF Whole
<1>2. NoSummary \in Summary /\ summary \in Summary /\ summary.state # "new"
  <2>1. NoSummary \in Summary /\ NoSummary.state = "absent"
    BY <1>0 DEF NoSummary, Summary
  <2>2. /\ [NoSummary EXCEPT !.state = "old"] \in Summary
        /\ [NoSummary EXCEPT !.state = "old"].state = "old"
    BY <2>1 DEF Summary
  <2> QED
    BY <2>1, <2>2
<1>3. session \in SessionType /\ callback \in CallbackType /\ manifest \in ManifestType
  BY <1>0 DEF SessionType, CallbackType, ManifestType, NoManifest
<1>4. request \in {"absent", "old", "torn", "new"}
  OBVIOUS
<1>5. TypeInv
  BY <1>0, <1>1, <1>2, <1>3, <1>4 DEF TypeInv
<1>6. ControlInv /\ OutcomeInv
  BY DEF ControlInv, OutcomeInv, Outcomes, Locations, Procedures, Stopping
<1>7. StepInv /\ StampInv /\ PlaceInv /\ RefInv
  BY <1>1 DEF StepInv, Starting, StampInv, PlaceInv, RefInv
<1>8. WindowInv
  BY DEF WindowInv, Preparing, Looping, Starting, Stopping
<1>9. OwnInv /\ ManifestInv
  BY <1>2 DEF OwnInv, ManifestInv, NoManifest
<1>10. TrainedInv
  BY DEF TrainedInv, Preparing, Starting, Stopping
<1>11. CollectedInv /\ WrittenInv
  BY <1>2 DEF CollectedInv, WrittenInv
<1>12. FinalizedInv
  BY DEF FinalizedInv, Ending, Preparing, Stopping
<1>13. SettledInv
  BY <1>2 DEF SettledInv
<1> QED
  BY <1>5, <1>6, <1>7, <1>8, <1>9, <1>10, <1>11, <1>12, <1>13 DEF IInv

LEMMA Invariance ==
  Spec => []IInv
<1>1. IInv /\ [Next]_vars => IInv'
  BY TypeStep, ControlStep, OutcomeStep, StepStep, StampStep, WindowStep, PlaceStep, RefStep, OwnStep,
     ManifestStep, TrainedStep, CollectedStep, WrittenStep, FinalizedStep, SettledStep DEF IInv
<1> QED
  BY <1>1, Initially, PTL DEF Spec

\* Markers lie in the order of their stamps; the beginning of a step refers to
\* the profiler window exactly when it lies inside it, the end of a step exactly
\* when its beginning does, and nothing refers to a window before its start,
\* whatever fails and wherever training resumes (TelemetrySession.emit,
\* _next_monotonic, _emit_step_begin, _training_window_reference).
THEOREM ReferencesAreHonest ==
  Spec => []WindowRefsAreHonest
<1>1. IInv => WindowRefsAreHonest
  <2> SUFFICES ASSUME IInv PROVE WindowRefsAreHonest
    OBVIOUS
  <2>1. \A i \in Whole : RefHolds(i)
    BY DEF IInv, RefInv
  <2>2. ASSUME NEW i \in Whole, NEW j \in Whole, markers[i].event = "step_begin",
               markers[j].event = "step_end", markers[i].step = markers[j].step
        PROVE  markers[i].ref <=> markers[j].ref
    BY <2>1, <2>2 DEF RefHolds, StepEvents
  <2> QED
    BY <2>1, <2>2 DEF IInv, StampInv, RefHolds, WindowRefsAreHonest
<1> QED
  BY <1>1, Invariance, PTL

\* The telemetry entry of manifest.json names files this run has written, and
\* never those of an earlier run of the same name (manifest_entry,
\* MarkerWriter.reset and published, _published_summary_path).
THEOREM ManifestIsOwn ==
  Spec => []ManifestIsOfThisSession
<1>1. IInv => ManifestIsOfThisSession
  BY DEF IInv, ManifestIsOfThisSession, ManifestInv
<1> QED
  BY <1>1, Invariance, PTL

\* profile-window.json never claims more than was captured; once an
\* uninterrupted run has ended it claims no less, and one failing write does not
\* cost the summary of a window that was opened (_stop_profiler, finalize,
\* close with _pending_summary).
THEOREM SummariesAreTrue ==
  Spec => []SummaryIsTrue
<1>1. ASSUME IInv PROVE SummaryIsTrue
  <2> USE <1>1 DEF IInv
  <2>0. /\ callback.startNs \in Nat /\ errors \in Nat
        /\ config.start \in Nat /\ config.end \in Nat /\ config.start <= config.end
    BY Numbers DEF TypeInv
  <2>1. summary.state = "new" => ClaimsNoMore
    BY DEF WrittenInv, TrueSummary, ClaimsNoMore
  <2>2. ASSUME pc = "ended", outcome # "interrupted"
        PROVE  /\ session.closed /\ (session.attached => callback.finalized)
               /\ summary.state = "new" => Expected(summary)
               /\ callback.started => callback.finalized /\ callback.endNs # 0
               /\ Concluded
    BY <2>2 DEF SettledInv, FinalizedInv, WindowInv, Concluded, Ending, Stopping
  <2>3. ASSUME pc = "ended", outcome # "interrupted", summary.state = "new" PROVE ClaimsNoLess
    <3>1. CASE callback.started
      <4>1. /\ summary.actual = callback.actual /\ summary.complete = callback.complete
            /\ summary.startNs = callback.startNs
        BY <2>2, <2>3, <3>1 DEF Expected, SummaryOfWindow
      <4>2. /\ callback.actual \in Captured \cup {0}
            /\ \A s \in Captured : s <= callback.actual
            /\ callback.complete = (config.start .. config.end \subseteq Captured)
        BY <2>2, <2>3, <3>1 DEF CollectedInv
      <4> QED
        BY <4>1, <4>2 DEF ClaimsNoLess
    <3>2. CASE ~callback.started
      <4>1. summary.actual = 0 /\ summary.complete = FALSE /\ summary.startNs = 0
        BY <2>2, <2>3, <3>2 DEF Expected, NotReached, NoSummary
      <4>2. Captured = {} /\ callback.startNs = 0
        BY <2>0, <3>2 DEF Captured, WindowInv
      <4>3. config.start \in config.start .. config.end
        BY <2>0
      <4> QED
        BY <4>1, <4>2, <4>3 DEF ClaimsNoLess
    <3> QED
      BY <3>1, <3>2
  <2>4. ASSUME pc = "ended", outcome # "interrupted", callback.started, config.primary, errors <= 1
        PROVE  summary.state = "new" /\ summary.startNs = callback.startNs
    <3>1. session.written
      BY <2>0, <2>2, <2>4 DEF SettledInv
    <3>2. summary.state = "new"
      BY <3>1 DEF OwnInv
    <3> QED
      BY <2>2, <2>4, <3>2 DEF Expected, SummaryOfWindow
  <2> QED
    BY <2>1, <2>3, <2>4 DEF SummaryIsTrue
<1> QED
  BY <1>1, Invariance, PTL

=============================================================================
