-------------------------- MODULE TrainingContract --------------------------
(***************************************************************************)
(* What the training queue promises a tenant, without workers, heartbeats  *)
(* or retries: a job is queued, runs, may go back to the queue, and ends   *)
(* once.  The promise is given under an assurance (the trainer's lock      *)
(* outlives its holder's work, and a commit is acknowledged); nothing is   *)
(* promised from the step on which the assurance is lost.                  *)
(***************************************************************************)
CONSTANTS Jobs, Owners, Nobody

VARIABLES
    status,    \* [Jobs -> status of the job]
    owner,     \* [Jobs -> its tenant]
    revoked,   \* [Jobs -> BOOLEAN]: the tenant cancelled it
    assured    \* the assurance still holds

vars == <<status, owner, revoked, assured>>

Open == {"queued", "running"}

Init ==
    /\ status = [j \in Jobs |-> "none"]
    /\ owner = [j \in Jobs |-> Nobody]
    /\ revoked = [j \in Jobs |-> FALSE]
    /\ assured = TRUE

(* A tenant may submit when no other job of its own is open.                *)
Submit(j) ==
    /\ status[j] = "none"
    /\ status'[j] = "queued"
    /\ owner'[j] \in Owners
    /\ ~revoked'[j]
    /\ \A i \in Jobs \ {j} : status'[i] \in Open => owner'[i] # owner'[j]

Same(j) == owner'[j] = owner[j] /\ revoked'[j] = revoked[j]

Stay(j) == status'[j] = status[j] /\ Same(j)

Start(j) == status[j] = "queued" /\ status'[j] = "running" /\ Same(j)

GiveBack(j) == status[j] = "running" /\ status'[j] = "queued" /\ Same(j)

Revoke(j) ==
    /\ owner'[j] = owner[j]
    /\ revoked'[j]
    /\ \/ status[j] = "queued" /\ status'[j] = "cancelled"
       \/ status[j] = "running" /\ status'[j] = "running"

(* A job whose cancellation was accepted does not succeed, and no job is    *)
(* cancelled that its tenant did not revoke.                                *)
End(j) ==
    /\ status[j] = "running"
    /\ Same(j)
    /\ \/ status'[j] = "failed"
       \/ status'[j] = "cancelled" /\ revoked[j]
       \/ status'[j] = "succeeded" /\ ~revoked[j]

JobStep(j) ==
    Submit(j) \/ Stay(j) \/ Start(j) \/ GiveBack(j) \/ Revoke(j) \/ End(j)

Next ==
    /\ assured' => assured
    /\ assured' => \A j \in Jobs : JobStep(j)

Spec == Init /\ [][Next]_vars
=============================================================================
