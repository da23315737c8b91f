----------------------------- MODULE LeaseQueue -----------------------------
(***************************************************************************)
(* What the media index queue promises, without its workers, leases and    *)
(* statements: a job waits, is taken at most MaxAttempts times, and ends   *)
(* done, failed or unsupported.  A result appears together with the step   *)
(* that makes its job done and in no other way; only a failed job comes    *)
(* back, and only because an administrator asked.                          *)
(***************************************************************************)
EXTENDS Naturals

CONSTANTS Jobs, MaxAttempts

VARIABLES
    status,   \* of each job: none, waiting, running, done, failed, unsupported
    tries,    \* how often the job has been taken since it was last queued
    results   \* the jobs whose result can be served

vars == <<status, tries, results>>

Init ==
    /\ status = [j \in Jobs |-> "none"]
    /\ tries = [j \in Jobs |-> 0]
    /\ results = {}

\* Jobs that do not exist yet start to wait.
Enqueue(js) ==
    /\ \A j \in js : status[j] = "none"
    /\ status' = [j \in Jobs |-> IF j \in js THEN "waiting" ELSE status[j]]
    /\ UNCHANGED <<tries, results>>

\* A waiting job is taken, or a running one whose owner is presumed lost.
Take(j) ==
    /\ status[j] \in {"waiting", "running"}
    /\ tries[j] < MaxAttempts
    /\ status' = [status EXCEPT ![j] = "running"]
    /\ tries' = [tries EXCEPT ![j] = @ + 1]
    /\ UNCHANGED results

Finish(j) ==
    /\ status[j] = "running"
    /\ status' = [status EXCEPT ![j] = "done"]
    /\ results' = results \cup {j}
    /\ UNCHANGED tries

\* The job goes back to the queue while it has attempts left.
GiveBack(j) ==
    /\ status[j] = "running"
    /\ tries[j] < MaxAttempts
    /\ status' = [status EXCEPT ![j] = "waiting"]
    /\ UNCHANGED <<tries, results>>

\* Running jobs are given up.
Bury(js, end) ==
    /\ \A j \in js : status[j] = "running"
    /\ status' = [j \in Jobs |-> IF j \in js THEN end ELSE status[j]]
    /\ UNCHANGED <<tries, results>>

Retry(js) ==
    /\ \A j \in js : status[j] = "failed"
    /\ status' = [j \in Jobs |-> IF j \in js THEN "waiting" ELSE status[j]]
    /\ tries' = [j \in Jobs |-> IF j \in js THEN 0 ELSE tries[j]]
    /\ UNCHANGED results

\* The file version is purged with its jobs and results.
Drop(js) ==
    /\ status' = [j \in Jobs |-> IF j \in js THEN "none" ELSE status[j]]
    /\ tries' = [j \in Jobs |-> IF j \in js THEN 0 ELSE tries[j]]
    /\ results' = results \ js

Next ==
    \/ \E j \in Jobs : Take(j) \/ Finish(j) \/ GiveBack(j)
    \/ \E js \in SUBSET Jobs :
         Enqueue(js) \/ Retry(js) \/ Drop(js)
           \/ \E end \in {"failed", "unsupported"} : Bury(js, end)

Spec == Init /\ [][Next]_vars
=============================================================================
