----------------------------- MODULE MCQueueConsumer -----------------------------
\* Instances of QueueConsumer: every job is enqueued under the one dedup key
\* (AllKeyed), or under none (Keyless) in the runs where keys play no part.
EXTENDS QueueConsumer, TLC

CONSTANT k1
AllKeyed == [j \in Job |-> k1]
Keyless == [j \in Job |-> NoKey]

CONSTANT j3

\* BOUND: j3 is enqueued last, and only while one process runs, nothing has failed and every
\* job is on its first delivery, so that a full batch leaves a job behind; two processes,
\* retries and faults see two jobs.
ThirdJobBound ==
    row[j3].status # "absent" =>
        /\ faults = 0 /\ starts <= 1
        /\ \A j \in Job : row[j].attempts <= 1
                          /\ row[j].status \in {"pending", "processing", "completed"}

Symmetry == Permutations(Job \ {j3}) \cup Permutations(Consumer)
==================================================================================
