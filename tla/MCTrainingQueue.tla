-------------------------- MODULE MCTrainingQueue --------------------------
(* Small instances of TrainingQueue for TLC.  Workers are told apart, for   *)
(* liveness is checked.                                                     *)
EXTENDS TrainingQueue, TLC
=============================================================================
