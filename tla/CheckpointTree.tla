--------------------------- MODULE CheckpointTree ---------------------------
(***************************************************************************)
(* What agoge-forger can tell about ONE checkpoint-N directory.            *)
(*                                                                         *)
(* A tree is described by the files the selection rules look at and by     *)
(* nothing else.  Three rules of increasing strictness coexist in the code *)
(* and different commands use different ones, which is where the           *)
(* interesting behaviour of the run directory comes from:                  *)
(*                                                                         *)
(*   IsValidCheckpoint   the files are there (run-status, cleanup, export) *)
(*   IncompleteReason    ... and they can be parsed (quarantine)           *)
(*   ResumeEquivalent    ... and every piece of trainer state is usable    *)
(*                                                                         *)
(* Source: train/checkpoints.py, train/resume_state.py.                    *)
(***************************************************************************)

\* Why a tree was moved to .agoge-quarantine, as written to
\* quarantine_reason.json; "none" is a tree that carries no such file.
GapReasons == {"missing_trainer_state", "missing_adapter_config",
               "missing_adapter_weights", "unsafe_weight_bins"}

ContentReasons == {"malformed_trainer_state", "short_write"}

CallerReasons == {"interrupted_save", "leftover_staging",
                  "non_equivalent_resume", "export_failure"}

Reasons == GapReasons \cup ContentReasons \cup CallerReasons

\* One directory.  state: trainer_state.json; config: adapter_config.json;
\* weights: adapter_model.safetensors; bin: a pickle weight file anywhere
\* below it; resume: sidecar, optimizer, scheduler and RNG files are all
\* usable; reason: the quarantine_reason.json it carries.
Tree == [state   : {"absent", "malformed", "ok"},
         config  : BOOLEAN,
         weights : {"absent", "short", "ok"},
         bin     : BOOLEAN,
         resume  : BOOLEAN,
         reason  : Reasons \cup {"none"}]

EmptyTree == [state |-> "absent", config |-> FALSE, weights |-> "absent",
              bin |-> FALSE, resume |-> FALSE, reason |-> "none"]

-----------------------------------------------------------------------------
(* The structural rules.  unsafe is allow_unsafe_serialization.            *)

HasAdapterWeights(t, unsafe) == t.weights # "absent" \/ (unsafe /\ t.bin)

IsAdapterArtifact(t, unsafe) ==
  /\ t.config
  /\ HasAdapterWeights(t, unsafe)
  /\ unsafe \/ ~t.bin

IsValidCheckpoint(t, unsafe) ==
  /\ t.state # "absent"
  /\ IsAdapterArtifact(t, unsafe)

-----------------------------------------------------------------------------
(* The quarantine rule: "none" is a tree that stays where it is.           *)

GapReason(t, unsafe) ==
  CASE t.state = "absent" -> "missing_trainer_state"
    [] t.state # "absent" /\ ~t.config -> "missing_adapter_config"
    [] t.state # "absent" /\ t.config /\ ~HasAdapterWeights(t, unsafe) ->
         "missing_adapter_weights"
    [] OTHER -> "unsafe_weight_bins"

UnreadableWeightReason(t, unsafe) ==
  IF t.weights = "short" THEN "short_write"
  ELSE IF t.weights = "ok" \/ (unsafe /\ t.bin) THEN "none"
  ELSE "missing_adapter_weights"

IncompleteReason(t, unsafe) ==
  IF ~IsValidCheckpoint(t, unsafe) THEN GapReason(t, unsafe)
  ELSE IF t.state = "malformed" THEN "malformed_trainer_state"
  ELSE UnreadableWeightReason(t, unsafe)

Complete(t, unsafe) == IncompleteReason(t, unsafe) = "none"

-----------------------------------------------------------------------------
(* The resume rule: inspect_resume_state(checkpoint).equivalent.           *)

AdapterWeightsUsable(t, unsafe) == t.weights = "ok" \/ (unsafe /\ t.bin)

ResumeEquivalent(t, unsafe) ==
  /\ t.state = "ok"
  /\ t.resume
  /\ AdapterWeightsUsable(t, unsafe)
=============================================================================
