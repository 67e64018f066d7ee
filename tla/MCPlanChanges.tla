--------------------------- MODULE MCPlanChanges ---------------------------
(* Small instances of PlanChanges for TLC. *)
EXTENDS PlanChanges, TLC

CONSTANT FirstPlan

(* Nothing distinguishes the plans at the start, so one of them stands for  *)
(* the plan every tenant registers with.                                    *)
MCInit == Init /\ \A t \in Tenants : subscription[t] = FirstPlan

MCSpec == MCInit /\ [][Next]_vars

Symmetry == Permutations(Operators) \cup Permutations(Clients) \cup Permutations(Ids)
=============================================================================
