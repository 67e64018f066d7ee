---------------------------- MODULE MCSessions ----------------------------
(* Small instances of Sessions for TLC. *)
EXTENDS Sessions, TLC

(* Every member starts as an administrator: what a developer may do is what *)
(* a demoted administrator may.                                             *)
MCInit == Init /\ Administrators = Users

MCSpec == MCInit /\ [][Next]_vars

MCChanges ==
    {[role |-> "tenant_developer", status |-> None]}
        \cup [role : {None}, status : {"active", "disabled"}]

Symmetry == Permutations(SessionIds) \cup Permutations(TokenIds)
                \cup Permutations(Requests) \cup Permutations(Users)
=============================================================================
