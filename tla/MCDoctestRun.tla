----------------------------- MODULE MCDoctestRun -----------------------------
(* A small instance of DoctestRun.                                           *)
EXTENDS DoctestRun

Wants(n, k) == [usable |-> TRUE, wants |-> [p \in Pairs |-> IF p = "p" THEN n ELSE k]]

\* One example, one twice, two; none; a reference that does not parse.
MCReferences ==
  {Wants(1, 0), Wants(2, 0), Wants(1, 1), Wants(0, 0), [Wants(1, 0) EXCEPT !.usable = FALSE]}
=============================================================================
