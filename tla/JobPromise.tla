------------------------------ MODULE JobPromise ------------------------------
(***************************************************************************)
(* What the platform promises the owner of a background job, with no       *)
(* workers, leases, attempts, processes or transports in sight: a job is   *)
(* done at most once, being done is final, a stop request that was         *)
(* accepted is honoured, and only a person reopens a job that ended.       *)
(***************************************************************************)
CONSTANT Jobs

VARIABLES outcome, \* how the owner sees the job
          stop     \* the owner asked for it to stop and was told "accepted"

promise == <<outcome, stop>>

Outcomes == {"absent", "open", "done", "failed", "cancelled"}

Init ==
    /\ outcome = [j \in Jobs |-> "absent"]
    /\ stop = [j \in Jobs |-> FALSE]

Becomes(j, o) == outcome' = [outcome EXCEPT ![j] = o]

Submit(j) == outcome[j] = "absent" /\ Becomes(j, "open") /\ UNCHANGED stop

\* A stop request is accepted only while the job is open; the job may end at
\* once or later.
Ask(j) ==
    /\ outcome[j] = "open"
    /\ Becomes(j, "open") \/ Becomes(j, "cancelled")
    /\ stop' = [stop EXCEPT ![j] = TRUE]

Complete(j) == outcome[j] = "open" /\ ~stop[j] /\ Becomes(j, "done") /\ UNCHANGED stop

\* A job that was asked to stop ends cancelled, never failed.
GiveUp(j) ==
    /\ outcome[j] = "open"
    /\ Becomes(j, IF stop[j] THEN "cancelled" ELSE "failed")
    /\ UNCHANGED stop

Reopen(j) ==
    /\ outcome[j] \in {"failed", "cancelled"}
    /\ Becomes(j, "open")
    /\ stop' = [stop EXCEPT ![j] = FALSE]

Next == \E j \in Jobs : Submit(j) \/ Ask(j) \/ Complete(j) \/ GiveUp(j) \/ Reopen(j)

Spec == Init /\ [][Next]_promise
===============================================================================
