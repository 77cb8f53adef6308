------------------------------ MODULE JobLifecycle ------------------------------
(***************************************************************************)
(* What the queue promises about one job, whoever consumes it: it is       *)
(* delivered at most MaxAttempts times, each delivery ends in at most one  *)
(* verdict, and a retry is given only while attempts remain.  A delivery   *)
(* that never ends (its consumer is gone) leaves the job processing.       *)
(* A verdict of dead is final, and so is one of completed, unless the      *)
(* reply was lost: then whoever gave it is in doubt, and may overrule it   *)
(* once.                                                                   *)
(***************************************************************************)
EXTENDS Naturals

CONSTANTS Job, MaxAttempts

VARIABLES job,    \* status and number of deliveries of each job
          doubt   \* the jobs completed without their consumer knowing

vars == <<job, doubt>>

Init == job = [j \in Job |-> [status |-> "absent", attempts |-> 0]] /\ doubt = {}

Verdict(j, from, to) ==
    job[j].status = from /\ job' = [job EXCEPT ![j].status = to]

Submit(j) == Verdict(j, "absent", "pending") /\ UNCHANGED doubt

\* One claim delivers a batch.
Deliver(S) ==
    /\ \A j \in S : job[j].status = "pending" /\ job[j].attempts < MaxAttempts
    /\ job' = [j \in Job |-> IF j \in S
                             THEN [status |-> "processing", attempts |-> job[j].attempts + 1]
                             ELSE job[j]]
    /\ UNCHANGED doubt

Succeed(j) == Verdict(j, "processing", "completed") /\ doubt' \in {doubt, doubt \cup {j}}
Retry(j) ==
    job[j].attempts < MaxAttempts /\ Verdict(j, "processing", "pending") /\ UNCHANGED doubt
Bury(j) == Verdict(j, "processing", "dead") /\ UNCHANGED doubt

\* Whoever is in doubt takes the job for a failed one, or finds it gone.
Overrule(j) ==
    /\ j \in doubt /\ doubt' = doubt \ {j}
    /\ \/ job[j].attempts < MaxAttempts /\ Verdict(j, "completed", "pending")
       \/ Verdict(j, "completed", "dead")
       \/ UNCHANGED job

\* A crash ends its doubts, and a failing statement one of them.
Settle(S) == S \subseteq doubt /\ doubt' = doubt \ S /\ UNCHANGED job

\* Old completed jobs are forgotten in bulk.
Forget(S) ==
    /\ \A j \in S : job[j].status = "completed"
    /\ job' = [j \in Job |-> IF j \in S THEN [job[j] EXCEPT !.status = "gone"] ELSE job[j]]
    /\ UNCHANGED doubt

Next ==
    \/ \E j \in Job : Submit(j) \/ Succeed(j) \/ Retry(j) \/ Bury(j) \/ Overrule(j)
    \/ \E S \in SUBSET Job : Deliver(S) \/ Forget(S) \/ Settle(S)

Spec == Init /\ [][Next]_vars
===============================================================================
