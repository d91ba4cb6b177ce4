-------------------------- MODULE MCTelemetrySession --------------------------
(* A small instance of TelemetrySession.                                     *)
EXTENDS TelemetrySession

Window(start, end) ==
  [enabled |-> TRUE, start |-> start, end |-> end, torch |-> TRUE, markers |-> TRUE,
   primary |-> TRUE]

\* Windows of one step and of two, at either end of training and past it; no
\* window; no torch backend; no markers; a secondary rank.
MCConfigs ==
  {Window(1, 1), Window(1, 2), Window(2, 3), Window(3, 3),
   [Window(1, 1) EXCEPT !.enabled = FALSE],
   [Window(1, 1) EXCEPT !.torch = FALSE],
   [Window(1, 2) EXCEPT !.markers = FALSE],
   [Window(1, 2) EXCEPT !.primary = FALSE, !.markers = FALSE]}

MCResume == {0, 1, 2}
=============================================================================
