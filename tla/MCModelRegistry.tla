-------------------------- MODULE MCModelRegistry --------------------------
(* Small instances of ModelRegistry for TLC. *)
EXTENDS ModelRegistry, TLC

Symmetry == Permutations(Versions) \cup Permutations(Requests)
=============================================================================
