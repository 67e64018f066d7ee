----------------------------- MODULE MCServing -----------------------------
(* Small instances of Serving for TLC. *)
EXTENDS Serving, TLC

CONSTANTS p1, p2

(* Two items with or without an exclusion that leaves the list short, and   *)
(* one item where no fallback is allowed.                                   *)
MCInputs ==
    {[top |-> 2, fallback |-> TRUE, exclude |-> {}],
     [top |-> 2, fallback |-> TRUE, exclude |-> {p1}],
     [top |-> 1, fallback |-> FALSE, exclude |-> {p1}]}

Symmetry == Permutations(Attempts) \cup Permutations(RequestIds)
=============================================================================
