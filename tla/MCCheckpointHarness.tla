-------------------------- MODULE MCCheckpointHarness --------------------------
(* Small instances of CheckpointHarness.                                      *)
EXTENDS CheckpointHarness

\* What Transformers, killed while it writes in place, or a hand that deleted
\* a file, can leave at checkpoint-N: a pickle beside the safetensors, which is
\* quarantined as incomplete and until then disqualifies the run root;
\* everything but the optimizer, which cannot be resumed from; a whole one.
Whole == [state |-> "ok", config |-> TRUE, weights |-> "ok", bin |-> FALSE,
          resume |-> TRUE, reason |-> "none"]
Pickled == [Whole EXCEPT !.bin = TRUE]
NoOptimizer == [Whole EXCEPT !.resume = FALSE]

MCForeignTrees == {Pickled, NoOptimizer}
MCResumeTrees == {NoOptimizer, Whole}

MCBothFlags == {TRUE, FALSE}
MCResume == {TRUE}
=============================================================================
