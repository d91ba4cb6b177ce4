----------------------------- MODULE MCTrainingRun -----------------------------
(* Small instances of TrainingRun.                                            *)
EXTENDS TrainingRun

MCResumeModes == {"fresh", "latest", "explicit"}
MCSafe == {TRUE, FALSE}
=============================================================================
