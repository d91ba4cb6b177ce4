---------------------------- MODULE MCCleanupRun ----------------------------
(* Small instances of CleanupRun.                                          *)
EXTENDS CleanupRun

MCNames == {"checkpoint-2", "checkpoint-4", "checkpoint-6"}
MCStepOf == [n \in Names |-> CASE n = "checkpoint-2" -> 2
                               [] n = "checkpoint-4" -> 4
                               [] n = "checkpoint-6" -> 6]
MCRoot == "."
MCCleaners == {"op1", "op2"}

Two == [n \in Names |-> IF n = "checkpoint-6" THEN {"none"} ELSE {"dir"}]
Setting(cleaners, cleanups, crashes, errors) ==
  [cleaners |-> cleaners, keep |-> {0, 1}, force |-> {FALSE}, kinds |-> Two, weights |-> {"good"},
   concurrent |-> FALSE, cleanups |-> cleanups, crashes |-> crashes, errors |-> errors, edits |-> 1]

\* One operator, twice, with an edit between, a kill and a failing call.
Sealed == [Setting({"op1"}, 2, 1, 1) EXCEPT !.force = BOOLEAN]
\* Two operators at once.
Overlap == Setting(Cleaners, 2, 0, 1)
\* Every mixture of entries, one of which changes while it is cleaned.
Keep == [Setting({"op1"}, 1, 0, 0) EXCEPT !.keep = {0, 1, 2}, !.concurrent = TRUE,
           !.kinds = [n \in Names |-> {"none", "dir", "symlink", "mount"}],
           !.weights = {"good", "short", "absent"}]

MCSettings == {Sealed, Overlap, Keep}
=============================================================================
