------------------------- MODULE AtomicPublication -------------------------
(***************************************************************************)
(* What the no-replace publication of a frozen output promises             *)
(* (_atomic_directory.rename_noreplace as split_materialize uses it): one  *)
(* cell, several publishers, and outsiders who may spoil the cell once it  *)
(* is filled but never fill or empty it.  A publisher fills an empty cell  *)
(* with the whole output of one input it was offered, or refuses; nobody   *)
(* publishes over anything.                                                *)
(***************************************************************************)
CONSTANTS
    Publishers,
    Empty,             \* nothing at the destination
    Acceptable(_),     \* whether an input has an output
    Output(_)          \* what an acceptable input gives

VARIABLES
    offered,   \* the inputs publishers may have read so far; it only grows
    cell,      \* the destination
    outcome    \* [Publishers -> {"pending", "published", "refused"}]

vars == <<offered, cell, outcome>>

Init ==
    /\ cell = Empty
    /\ outcome = [p \in Publishers |-> "pending"]

Offer ==
    /\ offered \subseteq offered'
    /\ UNCHANGED <<cell, outcome>>

Publish(p) ==
    /\ outcome[p] = "pending"
    /\ cell = Empty /\ cell' # Empty
    /\ \E input \in offered : Acceptable(input) /\ cell' = Output(input)
    /\ outcome' = [outcome EXCEPT ![p] = "published"]
    /\ UNCHANGED offered

Refuse(p) ==
    /\ outcome[p] = "pending"
    /\ outcome' = [outcome EXCEPT ![p] = "refused"]
    /\ UNCHANGED <<offered, cell>>

Spoil ==
    /\ cell # Empty
    /\ cell' # Empty
    /\ UNCHANGED <<offered, outcome>>

Next ==
    \/ Offer
    \/ Spoil
    \/ \E p \in Publishers : Publish(p) \/ Refuse(p)

Spec == Init /\ [][Next]_vars

-----------------------------------------------------------------------------
\* At most one publisher is told it published, and then the destination exists.
OneWinner ==
    /\ \A p, q \in Publishers :
          outcome[p] = "published" /\ outcome[q] = "published" => p = q
    /\ \A p \in Publishers : outcome[p] = "published" => cell # Empty
=============================================================================
