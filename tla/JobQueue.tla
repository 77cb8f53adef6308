-------------------------------- MODULE JobQueue --------------------------------
(***************************************************************************)
(* The job_queue table of packages/backend/libs/queue and the statements   *)
(* pgTransport runs on it, each in a transaction of its own.  One topic is *)
(* modelled: every statement names one, and rows of two topics never meet. *)
(*                                                                         *)
(* Time is abstracted to order.  A pending row becomes due when the clock  *)
(* passes its scheduled_for, so the order in which rows become due is the  *)
(* order of scheduled_for that a claim selects by: `ahead` keeps it, as    *)
(* the set of due rows in front of each.  Likewise a completed row may at  *)
(* any moment have outlived its TTL.                                       *)
(*                                                                         *)
(* A claim is the one statement whose locks matter: its subselect locks    *)
(* the rows it picks (ClaimSelect) until the transaction commits           *)
(* (ClaimCommit) or is rolled back (ClaimRollback), and another claim      *)
(* skips locked rows.                                                      *)
(*                                                                         *)
(* Updates are by id alone: complete, reschedule and dead-letter ask       *)
(* neither for the row's status nor for who holds it, and update nothing   *)
(* when the row has been reaped.                                           *)
(***************************************************************************)
EXTENDS Naturals, FiniteSets

CONSTANTS Job,       \* row ids
          Key,       \* dedup keys
          Consumer,  \* claiming processes (locked_by)
          NoKey,     \* the NULL dedup key
          Nobody,    \* the NULL locked_by
          Limit      \* the limits claims are made with (batch sizes)

ASSUME NullAssumption == NoKey \notin Key /\ Nobody \notin Consumer
ASSUME LimitAssumption == Limit \subseteq Nat

VARIABLES row,    \* the table
          due,    \* the pending rows whose scheduled_for has passed
          ahead,  \* the due rows scheduled before a due row
          locks   \* the rows each consumer's open claim has locked

vars == <<row, due, ahead, locks>>

\* job_status has a sixth value, 'failed', which no statement writes.  "absent"
\* is an id not yet inserted, "gone" one whose row was reaped.
Status == {"absent", "pending", "processing", "completed", "dead", "gone"}

Row == [status : Status, key : Key \cup {NoKey},
        attempts : Nat, lockedBy : Consumer \cup {Nobody}]

Absent == [status |-> "absent", key |-> NoKey, attempts |-> 0, lockedBy |-> Nobody]

Init ==
    /\ row = [j \in Job |-> Absent]
    /\ due = {}
    /\ ahead = [j \in Job |-> {}]
    /\ locks = [c \in Consumer |-> {}]

-----------------------------------------------------------------------------

Exists(j) == row[j].status \notin {"absent", "gone"}
Live(j) == row[j].status \in {"pending", "processing"}
Locked == UNION {locks[c] : c \in Consumer}

\* A row comes last in the poll order, and rows leave it.
EnterPoll(j) ==
    /\ due' = due \cup {j}
    /\ ahead' = [ahead EXCEPT ![j] = due]

LeavePoll(S) ==
    /\ due' = due \ S
    /\ ahead' = [j \in Job |-> IF j \in S THEN {} ELSE ahead[j] \ S]

\* idx_job_queue_dedup: a row may not become live under the key of another
\* live row.  Seeded fault: the index covers pending rows only.
KeyTakenByPending(k, j) ==
    k # NoKey /\ \E i \in Job \ {j} : row[i].status = "pending" /\ row[i].key = k

KeyTaken(k, j) ==
    k # NoKey /\ \E i \in Job \ {j} : Live(i) /\ row[i].key = k

-----------------------------------------------------------------------------
(* enqueue: INSERT ... ON CONFLICT DO NOTHING.  A taken key inserts no row. *)

Enqueue(j, k) ==
    /\ row[j].status = "absent"
    /\ ~KeyTaken(k, j)
    /\ row' = [row EXCEPT ![j] = [status |-> "pending", key |-> k,
                                  attempts |-> 0, lockedBy |-> Nobody]]
    /\ EnterPoll(j)
    /\ UNCHANGED locks

\* The clock passes a pending row's scheduled_for.
BecomesDue(j) ==
    /\ row[j].status = "pending"
    /\ j \notin due
    /\ EnterPoll(j)
    /\ UNCHANGED <<row, locks>>

-----------------------------------------------------------------------------
(* claim: UPDATE ... WHERE id IN (SELECT ... LIMIT n FOR UPDATE SKIP LOCKED) *)

\* Seeded fault: the subselect does not skip locked rows.
FirstDueLockedToo(n) == {j \in due : Cardinality(ahead[j]) < n}

\* Seeded fault: the limit counts the rows that are skipped.
FirstDueLimitedFirst(n) == {j \in due \ Locked : Cardinality(ahead[j]) < n}

FirstDue(n) ==
    LET free == due \ Locked
    IN {j \in free : Cardinality(ahead[j] \cap free) < n}

ClaimSelect(c, n) ==
    /\ locks[c] = {}
    /\ locks' = [locks EXCEPT ![c] = FirstDue(n)]
    /\ UNCHANGED <<row, due, ahead>>

ClaimCommit(c) ==
    /\ row' = [j \in Job |->
                 IF j \in locks[c]
                 THEN [row[j] EXCEPT !.status = "processing", !.attempts = @ + 1,
                                     !.lockedBy = c]
                 ELSE row[j]]
    /\ LeavePoll(locks[c])
    /\ locks' = [locks EXCEPT ![c] = {}]

ClaimRollback(c) ==
    /\ locks' = [locks EXCEPT ![c] = {}]
    /\ UNCHANGED <<row, due, ahead>>

-----------------------------------------------------------------------------
(* complete, reschedule, dead-letter: UPDATE ... WHERE id = ?               *)

SetStatus(j, s) ==
    row' = IF Exists(j)
           THEN [row EXCEPT ![j].status = s, ![j].lockedBy = Nobody]
           ELSE row

Complete(j) ==
    /\ SetStatus(j, "completed")
    /\ LeavePoll({j})
    /\ UNCHANGED locks

DeadLetter(j) ==
    /\ SetStatus(j, "dead")
    /\ LeavePoll({j})
    /\ UNCHANGED locks

\* Not due before its backoff has passed (BecomesDue).  When the row was no
\* longer live and its key has been taken since, the unique index rejects the
\* statement: it cannot commit.
Reschedule(j) ==
    /\ ~(Exists(j) /\ KeyTaken(row[j].key, j))
    /\ SetStatus(j, "pending")
    /\ LeavePoll({j})
    /\ UNCHANGED locks

\* reap: DELETE the completed rows older than the TTL, whichever they are.
Reap(S) ==
    /\ \A j \in S : row[j].status = "completed"
    /\ row' = [j \in Job |-> IF j \in S THEN [row[j] EXCEPT !.status = "gone"] ELSE row[j]]
    /\ UNCHANGED <<due, ahead, locks>>

-----------------------------------------------------------------------------
(* The table under callers that keep one rule only: a transaction does not  *)
(* update a row that another transaction has locked (it waits).             *)

Next ==
    \/ \E j \in Job, k \in Key \cup {NoKey} : Enqueue(j, k)
    \/ \E j \in Job : BecomesDue(j)
    \/ \E c \in Consumer, n \in Limit : ClaimSelect(c, n)
    \/ \E c \in Consumer : ClaimCommit(c) \/ ClaimRollback(c)
    \/ \E j \in Job \ Locked : Complete(j) \/ DeadLetter(j) \/ Reschedule(j)
    \/ \E S \in SUBSET (Job \ Locked) : Reap(S)

Spec == Init /\ [][Next]_vars

-----------------------------------------------------------------------------
(* Properties that hold whatever the callers do.                            *)

\* The variables have their types.
TypeOK ==
    /\ row \in [Job -> Row]
    /\ due \in SUBSET Job
    /\ ahead \in [Job -> SUBSET Job]
    /\ locks \in [Consumer -> SUBSET Job]

\* Deduplication: two live jobs never carry the same key.
DedupUnique ==
    \A i, j \in Job :
        i # j /\ Live(i) /\ Live(j) /\ row[i].key # NoKey => row[i].key # row[j].key

\* Only pending rows are due, and the poll order is a strict total order of
\* them, so "the oldest n" always names n rows.
PollOrder ==
    /\ \A j \in Job : ahead[j] # {} => j \in due
    /\ \A j \in due :
         /\ row[j].status = "pending"
         /\ ahead[j] \subseteq due
         /\ \A i \in due : i \in ahead[j] <=> (i # j /\ j \notin ahead[i])
         /\ \A i \in ahead[j] : ahead[i] \subseteq ahead[j]

\* SKIP LOCKED: two open claims never hold the same row, and a locked row is
\* still due, so committing the claim delivers it exactly once.
LocksDisjoint ==
    /\ \A c, d \in Consumer : c # d => locks[c] \cap locks[d] = {}
    /\ Locked \subseteq due

\* ORDER BY ... LIMIT n over the rows that no claim has locked: a claim would take n
\* of them, with each row those scheduled before it; it takes fewer only when it
\* takes all, which is what lets consume() sleep after a batch that is not full.
OldestFirst ==
    \A n \in Limit :
        LET free == due \ Locked
        IN /\ Cardinality(FirstDue(n)) <= n
           /\ FirstDue(n) = free \/ Cardinality(FirstDue(n)) = n
           /\ \A j \in FirstDue(n) : ahead[j] \cap free \subseteq FirstDue(n)

\* Together: claims that are open at once divide the front of the queue among them,
\* and no consumer is handed an empty batch while a free row is due.
ClaimsShareTheFront == LocksDisjoint /\ OldestFirst

\* attempts counts deliveries and is never reset: it grows by one when a row
\* is claimed and by nothing else.
AttemptsCountDeliveries ==
    [][ \A j \in Job : row'[j].attempts # row[j].attempts =>
            /\ row'[j].attempts = row[j].attempts + 1
            /\ row[j].status = "pending" /\ row'[j].status = "processing" ]_vars

\* A dead-lettered row is evidence: no statement deletes it.  (An update by id
\* may still revive it.)
DeadNotReaped ==
    [][ \A j \in Job : row[j].status # "completed" => row'[j].status # "gone"
                          \/ row[j].status = "gone" ]_vars
===============================================================================
