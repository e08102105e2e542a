---------------------------- MODULE JobLifecycle ----------------------------
(***************************************************************************)
(* What the service promises a client about a job: the lifecycle diagram   *)
(* of README.md ("queued, active, completed or failed", "jobs expire from  *)
(* Redis after 24 hours"), with nothing said of queues, workers, attempts  *)
(* or the calls a status change is made of.                                *)
(***************************************************************************)
CONSTANT Jobs

VARIABLE status     \* what GET /jobs/:id would answer for each job

Init == status = [j \in Jobs |-> "none"]

Become(j, from, to) ==
    /\ status[j] = from
    /\ status' = [status EXCEPT ![j] = to]

Create(j) == Become(j, "none", "queued")
Start(j) == Become(j, "queued", "active")
Settle(j) == Become(j, "active", "completed") \/ Become(j, "active", "failed")
Expire(j) == Become(j, "completed", "expired") \/ Become(j, "failed", "expired")

Next == \E j \in Jobs : Create(j) \/ Start(j) \/ Settle(j) \/ Expire(j)

Fairness ==
    \A j \in Jobs :
        /\ WF_status(Start(j))
        /\ WF_status(Settle(j))
        /\ WF_status(Expire(j))

Spec == Init /\ [][Next]_status /\ Fairness
=============================================================================
