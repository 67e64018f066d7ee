---------------------------- MODULE MCRetraining ----------------------------
(* Small instances of Retraining for TLC. *)
EXTENDS Retraining
=============================================================================
