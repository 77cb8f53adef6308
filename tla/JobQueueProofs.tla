---------------------------- MODULE JobQueueProofs ----------------------------
(***************************************************************************)
(* The safety of the job table for every set of rows, keys and consumers.  *)
(* The four invariants are proved together: a committed claim keeps the    *)
(* deduplication only because the rows it locked are still pending, which  *)
(* is what the lock discipline and the poll order say between them.  That  *)
(* an id not yet inserted counts no delivery is needed only for the last   *)
(* but one theorem.                                                        *)
(***************************************************************************)
EXTENDS JobQueue, FiniteSetTheorems, TLAPS

AbsentUndelivered == \A j \in Job : row[j].status = "absent" => row[j].attempts = 0

IInv ==
    /\ TypeOK
    /\ PollOrder
    /\ LocksDisjoint
    /\ DedupUnique
    /\ AbsentUndelivered

-----------------------------------------------------------------------------
(* What a statement does to the poll order and to the keys.                 *)

\* Putting a row that is not due last in the poll order keeps it an order.
LEMMA EnterPollOrder ==
    ASSUME TypeOK, PollOrder, NEW j \in Job \ due, EnterPoll(j),
           row'[j].status = "pending",
           \A i \in due : row'[i].status = row[i].status
    PROVE  PollOrder' /\ due' \in SUBSET Job /\ ahead' \in [Job -> SUBSET Job]
<1>1. /\ due' = due \cup {j}
      /\ ahead'[j] = due
      /\ \A i \in due : ahead'[i] = ahead[i]
      /\ \A i \in Job : i # j => ahead'[i] = ahead[i]
  BY DEF EnterPoll, TypeOK
<1>2. due' \in SUBSET Job /\ ahead' \in [Job -> SUBSET Job]
  BY DEF EnterPoll, TypeOK
<1>3. ASSUME NEW k \in Job, ahead'[k] # {} PROVE k \in due'
  BY <1>1, <1>3 DEF PollOrder
<1>4. ASSUME NEW k \in due'
      PROVE  /\ row'[k].status = "pending"
             /\ ahead'[k] \subseteq due'
             /\ \A i \in due' : i \in ahead'[k] <=> (i # k /\ k \notin ahead'[i])
             /\ \A i \in ahead'[k] : ahead'[i] \subseteq ahead'[k]
  <2>1. CASE k = j
    BY <1>1, <2>1 DEF PollOrder
  <2>2. CASE k \in due
    BY <1>1, <2>2 DEF PollOrder
  <2>3. QED
    BY <1>1, <1>4, <2>1, <2>2
<1>5. QED
  BY <1>2, <1>3, <1>4 DEF PollOrder

\* Removing rows from the poll order keeps it an order.
LEMMA LeavePollOrder ==
    ASSUME TypeOK, PollOrder, NEW S \in SUBSET Job, LeavePoll(S),
           \A i \in due \ S : row'[i].status = row[i].status
    PROVE  PollOrder' /\ due' \in SUBSET Job /\ ahead' \in [Job -> SUBSET Job]
<1>1. /\ due' = due \ S
      /\ \A i \in Job : ahead'[i] = IF i \in S THEN {} ELSE ahead[i] \ S
  BY DEF LeavePoll
<1>2. due' \in SUBSET Job /\ ahead' \in [Job -> SUBSET Job]
  BY DEF LeavePoll, TypeOK
<1>3. ASSUME NEW k \in Job, ahead'[k] # {} PROVE k \in due'
  BY <1>1, <1>3 DEF PollOrder
<1>4. ASSUME NEW k \in due'
      PROVE  /\ row'[k].status = "pending"
             /\ ahead'[k] \subseteq due'
             /\ \A i \in due' : i \in ahead'[k] <=> (i # k /\ k \notin ahead'[i])
             /\ \A i \in ahead'[k] : ahead'[i] \subseteq ahead'[k]
  <2>1. k \in due /\ k \in Job /\ k \notin S /\ ahead'[k] = ahead[k] \ S
    BY <1>1, <1>4 DEF TypeOK
  <2>2. \A i \in due' : i \in due /\ i \in Job /\ i \notin S /\ ahead'[i] = ahead[i] \ S
    BY <1>1 DEF TypeOK
  <2>3. ahead'[k] \subseteq due'
    BY <1>1, <2>1 DEF PollOrder
  <2>4. QED
    BY <1>1, <2>1, <2>2, <2>3 DEF PollOrder
<1>5. QED
  BY <1>2, <1>3, <1>4 DEF PollOrder

\* A row that becomes live under a key nobody live holds breaks no key's
\* uniqueness, if no other row changes.
LEMMA BecomesLive ==
    ASSUME TypeOK, DedupUnique, NEW j \in Job, ~KeyTaken(row'[j].key, j),
           \A i \in Job : i # j => row'[i] = row[i]
    PROVE  DedupUnique'
<1> SUFFICES ASSUME NEW a \in Job, NEW b \in Job, a # b,
                    Live(a)', Live(b)', row'[a].key # NoKey
             PROVE  row'[a].key # row'[b].key
  BY DEF DedupUnique
<1>1. CASE a # j /\ b # j
  BY <1>1 DEF DedupUnique, Live
<1>2. CASE a = j
  BY <1>2 DEF KeyTaken, Live
<1>3. CASE b = j
  BY <1>3 DEF KeyTaken, Live
<1>4. QED
  BY <1>1, <1>2, <1>3

\* Rows may stop being live, or move between the two live states, at will.
LEMMA StaysDistinct ==
    ASSUME DedupUnique,
           \A i \in Job : row'[i].key = row[i].key,
           \A i \in Job : Live(i)' => Live(i)
    PROVE  DedupUnique'
  BY DEF DedupUnique

-----------------------------------------------------------------------------
(* The invariant, one lemma per statement.                                  *)

LEMMA InitInvariant == Init => IInv
<1> SUFFICES ASSUME Init PROVE IInv
  OBVIOUS
<1>1. TypeOK
  BY DEF Init, TypeOK, Row, Status, Absent
<1>2. PollOrder /\ LocksDisjoint
  BY DEF Init, PollOrder, LocksDisjoint, Locked
<1>3. DedupUnique /\ AbsentUndelivered
  BY DEF Init, DedupUnique, AbsentUndelivered, Live, Absent
<1>4. QED
  BY <1>1, <1>2, <1>3 DEF IInv

LEMMA EnqueueInvariant ==
    ASSUME IInv, NEW j \in Job, NEW k \in Key \cup {NoKey}, Enqueue(j, k)
    PROVE  IInv'
<1> USE DEF IInv
<1>1. /\ row'[j] = [status |-> "pending", key |-> k, attempts |-> 0, lockedBy |-> Nobody]
      /\ \A i \in Job : i # j => row'[i] = row[i]
  BY DEF Enqueue, TypeOK
<1>2. j \notin due
  BY DEF Enqueue, PollOrder
<1>3. PollOrder' /\ due' \in SUBSET Job /\ ahead' \in [Job -> SUBSET Job]
  BY <1>1, <1>2, EnterPollOrder DEF Enqueue, TypeOK
<1>4. TypeOK'
  BY <1>3 DEF Enqueue, TypeOK, Row, Status
<1>5. LocksDisjoint'
  BY DEF Enqueue, EnterPoll, LocksDisjoint, Locked
<1>6. DedupUnique'
  BY <1>1, BecomesLive DEF Enqueue
<1>7. AbsentUndelivered'
  BY <1>1 DEF AbsentUndelivered
<1>8. QED
  BY <1>3, <1>4, <1>5, <1>6, <1>7

LEMMA BecomesDueInvariant ==
    ASSUME IInv, NEW j \in Job, BecomesDue(j)
    PROVE  IInv'
<1> USE DEF IInv
<1>1. PollOrder' /\ due' \in SUBSET Job /\ ahead' \in [Job -> SUBSET Job]
  BY EnterPollOrder DEF BecomesDue
<1>2. TypeOK'
  BY <1>1 DEF BecomesDue, TypeOK
<1>3. LocksDisjoint'
  BY DEF BecomesDue, EnterPoll, LocksDisjoint, Locked
<1>4. DedupUnique' /\ AbsentUndelivered'
  BY DEF BecomesDue, DedupUnique, AbsentUndelivered, Live
<1>5. QED
  BY <1>1, <1>2, <1>3, <1>4

LEMMA ClaimSelectInvariant ==
    ASSUME IInv, NEW c \in Consumer, NEW n \in Limit, ClaimSelect(c, n)
    PROVE  IInv'
<1> USE DEF IInv
<1>1. FirstDue(n) \subseteq due /\ FirstDue(n) \cap Locked = {}
  BY DEF FirstDue
<1>2. /\ locks'[c] = FirstDue(n)
      /\ \A d \in Consumer : d # c => locks'[d] = locks[d]
  BY DEF ClaimSelect, TypeOK
<1>3. TypeOK'
  BY <1>1 DEF ClaimSelect, TypeOK
<1>4. LocksDisjoint'
  BY <1>1, <1>2 DEF ClaimSelect, LocksDisjoint, Locked
<1>5. PollOrder' /\ DedupUnique' /\ AbsentUndelivered'
  BY DEF ClaimSelect, PollOrder, DedupUnique, AbsentUndelivered, Live
<1>6. QED
  BY <1>3, <1>4, <1>5

LEMMA ClaimCommitInvariant ==
    ASSUME IInv, NEW c \in Consumer, ClaimCommit(c)
    PROVE  IInv'
<1> USE DEF IInv
<1>1. locks[c] \subseteq due /\ locks[c] \in SUBSET Job
  BY DEF LocksDisjoint, Locked, TypeOK
<1>2. ASSUME NEW j \in Job
      PROVE  IF j \in locks[c]
             THEN /\ row'[j] \in Row
                  /\ row'[j].status = "processing"
                  /\ row'[j].key = row[j].key
                  /\ row'[j].attempts = row[j].attempts + 1
             ELSE row'[j] = row[j]
  <2>1. row[j] \in Row
    BY DEF TypeOK
  <2>2. CASE j \in locks[c]
    <3>1. row'[j] = [row[j] EXCEPT !.status = "processing", !.attempts = @ + 1,
                                   !.lockedBy = c]
      BY <2>2 DEF ClaimCommit
    <3>2. /\ row'[j].status = "processing"
          /\ row'[j].key = row[j].key
          /\ row'[j].attempts = row[j].attempts + 1
      BY <2>1, <3>1 DEF Row
    <3>3. row[j].attempts + 1 \in Nat
      BY <2>1 DEF Row
    <3>4. "processing" \in Status
      BY DEF Status
    <3>5. row'[j] \in Row
      BY <2>1, <3>1, <3>3, <3>4 DEF Row
    <3>6. QED
      BY <2>2, <3>2, <3>5
  <2>3. CASE j \notin locks[c]
    BY <2>3 DEF ClaimCommit
  <2>4. QED
    BY <2>2, <2>3
<1>3. PollOrder' /\ due' \in SUBSET Job /\ ahead' \in [Job -> SUBSET Job]
  <2>1. \A i \in due \ locks[c] : row'[i].status = row[i].status
    BY <1>2 DEF TypeOK
  <2>2. QED
    BY <1>1, <2>1, LeavePollOrder DEF ClaimCommit
<1>4. TypeOK'
  <2>1. ASSUME NEW j \in Job PROVE row'[j] \in Row
    BY <1>2 DEF TypeOK
  <2>2. row' \in [Job -> Row]
    BY <2>1 DEF ClaimCommit
  <2>3. QED
    BY <1>3, <2>2 DEF ClaimCommit, TypeOK
<1>5. LocksDisjoint'
  <2>1. /\ locks'[c] = {}
        /\ \A d \in Consumer : d # c => locks'[d] = locks[d]
        /\ due' = due \ locks[c]
    BY DEF ClaimCommit, LeavePoll, TypeOK
  <2>2. QED
    BY <2>1 DEF LocksDisjoint, Locked
<1>6. DedupUnique'
  <2>1. \A j \in Job : row'[j].key = row[j].key
    BY <1>2
  <2>2. \A j \in locks[c] : Live(j)
    BY <1>1 DEF PollOrder, Live
  <2>3. \A j \in Job : Live(j)' => Live(j)
    BY <1>2, <2>2 DEF Live
  <2>4. QED
    BY <2>1, <2>3, StaysDistinct
<1>7. AbsentUndelivered'
  BY <1>2 DEF AbsentUndelivered
<1>8. QED
  BY <1>3, <1>4, <1>5, <1>6, <1>7

LEMMA ClaimRollbackInvariant ==
    ASSUME IInv, NEW c \in Consumer, ClaimRollback(c)
    PROVE  IInv'
<1> USE DEF IInv
<1>1. /\ locks'[c] = {}
      /\ \A d \in Consumer : d # c => locks'[d] = locks[d]
  BY DEF ClaimRollback, TypeOK
<1>2. LocksDisjoint'
  BY <1>1 DEF ClaimRollback, LocksDisjoint, Locked
<1>3. TypeOK' /\ PollOrder' /\ DedupUnique' /\ AbsentUndelivered'
  BY DEF ClaimRollback, TypeOK, PollOrder, DedupUnique, AbsentUndelivered, Live
<1>4. QED
  BY <1>2, <1>3

\* The part that complete, dead-letter and reschedule share: the row leaves the
\* poll order with another status.
LEMMA SettledRow ==
    ASSUME IInv, NEW j \in Job \ Locked,
           NEW s \in {"pending", "completed", "dead"},
           SetStatus(j, s), LeavePoll({j}), UNCHANGED locks
    PROVE  /\ TypeOK' /\ PollOrder' /\ LocksDisjoint' /\ AbsentUndelivered'
           /\ \A i \in Job : i # j => row'[i] = row[i]
           /\ row'[j].key = row[j].key
           /\ IF Exists(j) THEN row'[j].status = s ELSE row' = row
<1> USE DEF IInv
<1>1. /\ \A i \in Job : i # j => row'[i] = row[i]
      /\ row'[j].key = row[j].key
      /\ IF Exists(j) THEN row'[j].status = s ELSE row' = row
  BY DEF SetStatus, TypeOK, Row
<1>2. PollOrder' /\ due' \in SUBSET Job /\ ahead' \in [Job -> SUBSET Job]
  BY <1>1, LeavePollOrder DEF TypeOK
<1>3. TypeOK'
  BY <1>2 DEF SetStatus, TypeOK, Row, Status
<1>4. LocksDisjoint'
  BY DEF LeavePoll, LocksDisjoint, Locked
<1>5. AbsentUndelivered'
  BY <1>1 DEF AbsentUndelivered
<1>6. QED
  BY <1>1, <1>2, <1>3, <1>4, <1>5

LEMMA VerdictInvariant ==
    ASSUME IInv, NEW j \in Job \ Locked,
           Complete(j) \/ DeadLetter(j) \/ Reschedule(j)
    PROVE  IInv'
<1> USE DEF IInv
<1>1. CASE Complete(j) \/ DeadLetter(j)
  <2>1. PICK s \in {"completed", "dead"} :
            SetStatus(j, s) /\ LeavePoll({j}) /\ UNCHANGED locks
    BY <1>1 DEF Complete, DeadLetter
  <2>2. /\ TypeOK' /\ PollOrder' /\ LocksDisjoint' /\ AbsentUndelivered'
        /\ \A i \in Job : i # j => row'[i] = row[i]
        /\ row'[j].key = row[j].key
        /\ IF Exists(j) THEN row'[j].status = s ELSE row' = row
    BY <2>1, SettledRow
  <2>3. DedupUnique'
    BY <2>2, StaysDistinct DEF Live
  <2>4. QED
    BY <2>2, <2>3
<1>2. CASE Reschedule(j)
  <2>1. /\ TypeOK' /\ PollOrder' /\ LocksDisjoint' /\ AbsentUndelivered'
        /\ \A i \in Job : i # j => row'[i] = row[i]
        /\ row'[j].key = row[j].key
        /\ IF Exists(j) THEN row'[j].status = "pending" ELSE row' = row
    BY <1>2, SettledRow DEF Reschedule
  <2>2. DedupUnique'
    <3>1. CASE Exists(j)
      BY <1>2, <2>1, <3>1, BecomesLive DEF Reschedule
    <3>2. CASE ~Exists(j)
      BY <2>1, <3>2 DEF DedupUnique, Live
    <3>3. QED
      BY <3>1, <3>2
  <2>3. QED
    BY <2>1, <2>2
<1>3. QED
  BY <1>1, <1>2

LEMMA ReapInvariant ==
    ASSUME IInv, NEW S \in SUBSET (Job \ Locked), Reap(S)
    PROVE  IInv'
<1> USE DEF IInv
<1>1. \A j \in Job : row'[j] = IF j \in S THEN [row[j] EXCEPT !.status = "gone"] ELSE row[j]
  BY DEF Reap
<1>2. \A j \in due : row'[j] = row[j]
  BY <1>1 DEF Reap, PollOrder, TypeOK
<1>3. TypeOK'
  BY DEF Reap, TypeOK, Row, Status
<1>4. PollOrder' /\ LocksDisjoint' /\ AbsentUndelivered'
  <2>1. UNCHANGED <<due, ahead, locks>>
    BY DEF Reap
  <2>2. PollOrder'
    BY <1>2, <2>1 DEF PollOrder
  <2>3. LocksDisjoint'
    BY <2>1 DEF LocksDisjoint, Locked
  <2>4. AbsentUndelivered'
    BY <1>1 DEF AbsentUndelivered, TypeOK, Row
  <2>5. QED
    BY <2>2, <2>3, <2>4
<1>5. DedupUnique'
  BY <1>1, StaysDistinct DEF Live, TypeOK, Row
<1>6. QED
  BY <1>3, <1>4, <1>5

LEMMA NextInvariant == IInv /\ [Next]_vars => IInv'
<1> SUFFICES ASSUME IInv, [Next]_vars PROVE IInv'
  OBVIOUS
<1>1. ASSUME NEW j \in Job, NEW k \in Key \cup {NoKey}, Enqueue(j, k) PROVE IInv'
  BY <1>1, EnqueueInvariant
<1>2. ASSUME NEW j \in Job, BecomesDue(j) PROVE IInv'
  BY <1>2, BecomesDueInvariant
<1>3. ASSUME NEW c \in Consumer, NEW n \in Limit, ClaimSelect(c, n)
      PROVE  IInv'
  BY <1>3, ClaimSelectInvariant
<1>4. ASSUME NEW c \in Consumer, ClaimCommit(c) \/ ClaimRollback(c) PROVE IInv'
  BY <1>4, ClaimCommitInvariant, ClaimRollbackInvariant
<1>5. ASSUME NEW j \in Job \ Locked, Complete(j) \/ DeadLetter(j) \/ Reschedule(j)
      PROVE  IInv'
  BY <1>5, VerdictInvariant
<1>6. ASSUME NEW S \in SUBSET (Job \ Locked), Reap(S) PROVE IInv'
  BY <1>6, ReapInvariant
<1>7. CASE UNCHANGED vars
  BY <1>7 DEF vars, IInv, TypeOK, PollOrder, LocksDisjoint, Locked, DedupUnique, Live,
              AbsentUndelivered
<1>8. QED
  BY <1>1, <1>2, <1>3, <1>4, <1>5, <1>6, <1>7 DEF Next

LEMMA Invariant == Spec => []IInv
  BY InitInvariant, NextInvariant, PTL DEF Spec

-----------------------------------------------------------------------------
(* What a claim selects.                                                    *)

\* Rows become due one at a time, so the front of the queue is finite.
FiniteDue == IsFiniteSet(due)

LEMMA DueFinite == Spec => []FiniteDue
<1>1. Init => FiniteDue
  BY FS_EmptySet DEF Init, FiniteDue
<1>2. ASSUME FiniteDue, [Next]_vars PROVE FiniteDue'
  <2> USE DEF FiniteDue
  <2>1. (\E j \in Job : due' = due \cup {j}) \/ due' \subseteq due
    BY <1>2 DEF Next, vars, Enqueue, BecomesDue, EnterPoll, LeavePoll, ClaimSelect, ClaimCommit,
                ClaimRollback, Complete, DeadLetter, Reschedule, Reap
  <2>2. ASSUME NEW j \in Job, due' = due \cup {j} PROVE FiniteDue'
    BY <1>2, <2>2, FS_AddElement
  <2>3. ASSUME due' \subseteq due PROVE FiniteDue'
    BY <1>2, <2>3, FS_Subset
  <2>4. QED
    BY <2>1, <2>2, <2>3
<1>3. QED
  BY <1>1, <1>2, PTL DEF Spec

\* The place of a row among the free ones.  The places are 0, 1, 2, ..., one row each:
\* of two rows one is ahead of the other, with all that is ahead of it, so they have
\* different places, and as many rows as places leave none of these empty.
Place(free) == [j \in free |-> Cardinality(ahead[j] \cap free)]

LEMMA PlacesAreNumbers ==
    ASSUME PollOrder, IsFiniteSet(due), NEW free \in SUBSET due
    PROVE  /\ IsFiniteSet(free) /\ Cardinality(free) \in Nat
           /\ Place(free) \in Injection(free, 0..(Cardinality(free) - 1))
           /\ Place(free) \in Surjection(free, 0..(Cardinality(free) - 1))
           /\ \A i, j \in free : i \in ahead[j] => Place(free)[i] < Place(free)[j]
<1> DEFINE N == Cardinality(free)
           before(j) == ahead[j] \cap free
           place == Place(free)
<1>1. IsFiniteSet(free) /\ N \in Nat
  BY FS_Subset, FS_CardinalityType
<1>2. ASSUME NEW j \in free
      PROVE  /\ before(j) \subseteq free /\ j \notin before(j)
             /\ IsFiniteSet(before(j)) /\ Cardinality(before(j)) \in 0..(N - 1)
  <2>1. before(j) \subseteq free /\ j \notin before(j)
    BY DEF PollOrder
  <2>2. /\ IsFiniteSet(before(j)) /\ Cardinality(before(j)) <= N
        /\ N = Cardinality(before(j)) => free = before(j)
    BY <1>1, <2>1, FS_Subset
  <2>3. Cardinality(before(j)) \in Nat
    BY <2>2, FS_CardinalityType
  <2>4. N # Cardinality(before(j))
    BY <2>1, <2>2
  <2>5. QED
    BY <1>1, <2>1, <2>2, <2>3, <2>4
<1>3. place \in [free -> 0..(N - 1)]
  BY <1>2 DEF Place
<1>4. ASSUME NEW i \in free, NEW j \in free, i \in ahead[j] PROVE place[i] < place[j]
  <2>1. before(i) \subseteq before(j) /\ i \in before(j) /\ i \notin before(i)
    BY <1>2, <1>4 DEF PollOrder
  <2>2. /\ Cardinality(before(i)) <= Cardinality(before(j))
        /\ Cardinality(before(j)) = Cardinality(before(i)) => before(j) = before(i)
    BY <1>2, <2>1, FS_Subset
  <2>3. Cardinality(before(i)) # Cardinality(before(j))
    BY <2>1, <2>2
  <2>4. Cardinality(before(i)) \in Int /\ Cardinality(before(j)) \in Int
    <3>1. Cardinality(before(i)) \in 0..(N - 1) /\ Cardinality(before(j)) \in 0..(N - 1)
      BY <1>2
    <3>2. 0..(N - 1) \subseteq Int
      BY <1>1
    <3>3. QED
      BY <3>1, <3>2
  <2>5. place[i] = Cardinality(before(i)) /\ place[j] = Cardinality(before(j))
    BY DEF Place
  <2>6. QED
    BY <2>2, <2>3, <2>4, <2>5
<1>5. ASSUME NEW i \in free, NEW j \in free, i # j PROVE place[i] # place[j]
  <2>1. i \in ahead[j] \/ j \in ahead[i]
    BY <1>5 DEF PollOrder
  <2>2. place[i] \in Int /\ place[j] \in Int
    BY <1>3
  <2>3. QED
    BY <1>4, <2>1, <2>2
<1>6. place \in Injection(free, 0..(N - 1))
  BY <1>3, <1>5 DEF Injection, IsInjective
<1>7. IsFiniteSet(0..(N - 1)) /\ Cardinality(0..(N - 1)) = N
  <2>1. 0 \in Int /\ N - 1 \in Int
    BY <1>1
  <2>2. QED
    BY <1>1, <2>1, FS_Interval
<1>8. place \in Surjection(free, 0..(N - 1))
  BY <1>6, <1>7, FS_Injection
<1>9. QED
  BY <1>1, <1>4, <1>6, <1>8

LEMMA FirstDueIsTheFront ==
    ASSUME PollOrder, IsFiniteSet(due), NEW n \in Nat
    PROVE  LET free == due \ Locked
           IN /\ Cardinality(FirstDue(n)) <= n
              /\ FirstDue(n) = free \/ Cardinality(FirstDue(n)) = n
              /\ \A j \in FirstDue(n) : ahead[j] \cap free \subseteq FirstDue(n)
<1> DEFINE free == due \ Locked
           first == FirstDue(n)
<1>1. PICK place : place = Place(free)
  OBVIOUS
<1>2. PICK N \in Nat : N = Cardinality(free)
  BY PlacesAreNumbers
<1>3. /\ IsFiniteSet(free)
      /\ place \in Injection(free, 0..(N - 1)) /\ place \in Surjection(free, 0..(N - 1))
      /\ \A i, j \in free : i \in ahead[j] => place[i] < place[j]
  BY <1>1, <1>2, PlacesAreNumbers
<1>4. /\ place \in [free -> 0..(N - 1)]
      /\ \A i, j \in free : place[i] = place[j] => i = j
      /\ \A k \in 0..(N - 1) : \E j \in free : place[j] = k
  BY <1>3 DEF Injection, IsInjective, Surjection
<1>5. first = {j \in free : place[j] < n}
  BY <1>1 DEF FirstDue, Place
<1>6. IsFiniteSet(0..(n - 1)) /\ Cardinality(0..(n - 1)) = n
  <2>1. 0 \in Int /\ n - 1 \in Int
    OBVIOUS
  <2>2. QED
    BY <2>1, FS_Interval
<1>7. PICK short : short = [j \in first |-> place[j]]
  OBVIOUS
<1>8. short \in Injection(first, 0..(n - 1))
  BY <1>4, <1>5, <1>7 DEF Injection, IsInjective
<1>9. /\ Cardinality(first) <= n
      /\ Cardinality(first) = n <=> short \in Surjection(first, 0..(n - 1))
  BY <1>6, <1>8, FS_Injection
<1>10. ASSUME first # free PROVE Cardinality(first) = n
  <2>1. PICK j \in free : place[j] >= n
    BY <1>4, <1>5, <1>10
  <2>2. n < N
    BY <1>4, <2>1
  <2>3. ASSUME NEW k \in 0..(n - 1) PROVE \E i \in first : short[i] = k
    <3>1. k \in 0..(N - 1)
      BY <2>2
    <3>2. PICK i \in free : place[i] = k
      BY <1>4, <3>1
    <3>3. QED
      BY <1>5, <1>7, <3>2
  <2>4. short \in Surjection(first, 0..(n - 1))
    BY <1>8, <2>3 DEF Surjection, Injection
  <2>5. QED
    BY <1>9, <2>4
<1>11. ASSUME NEW j \in first, NEW i \in ahead[j] \cap free PROVE i \in first
  <2>1. place[i] < place[j] /\ place[i] \in Int /\ place[j] \in Int /\ place[j] < n
    BY <1>3, <1>4, <1>5
  <2>2. QED
    BY <1>5, <2>1
<1>12. QED
  BY <1>9, <1>10, <1>11

-----------------------------------------------------------------------------
(* The results.                                                             *)

\* The table's columns keep their types under every statement.
THEOREM QueueTypes == Spec => []TypeOK
  BY Invariant, PTL DEF IInv

\* Two live jobs never carry the same dedup key, through enqueue, claim and a
\* reschedule of a row that was no longer live.
THEOREM QueueDedupUnique == Spec => []DedupUnique
  BY Invariant, PTL DEF IInv

\* The rows a claim can select are pending and strictly ordered by the time
\* they were scheduled for, so ORDER BY ... LIMIT n names n rows.
THEOREM QueuePollOrder == Spec => []PollOrder
  BY Invariant, PTL DEF IInv

\* FOR UPDATE SKIP LOCKED: no two open claims hold the same row, and what they
\* hold is still pending, whatever the number of consumers.
THEOREM QueueLocksDisjoint == Spec => []LocksDisjoint
  BY Invariant, PTL DEF IInv

\* A claim takes the oldest rows that no open claim has, exactly as many as its limit
\* or else all there are, for any number of rows: the claims divide the front of the
\* queue, and a batch that is not full means that nothing free is due.
THEOREM QueueClaimsShareTheFront == Spec => []ClaimsShareTheFront
<1>1. ASSUME IInv, FiniteDue PROVE ClaimsShareTheFront
  <2>1. PollOrder /\ LocksDisjoint
    BY <1>1 DEF IInv
  <2>2. \A n \in Limit : n \in Nat
    BY LimitAssumption
  <2>3. OldestFirst
    BY <1>1, <2>1, <2>2, FirstDueIsTheFront DEF OldestFirst, FiniteDue
  <2>4. QED
    BY <2>1, <2>3 DEF ClaimsShareTheFront
<1>2. QED
  BY <1>1, Invariant, DueFinite, PTL

\* attempts grows by one when a pending row is claimed and never otherwise: no
\* statement refunds, resets or double-counts a delivery.
THEOREM QueueAttemptsCount == Spec => AttemptsCountDeliveries
<1> DEFINE Counts == \A j \in Job : row'[j].attempts # row[j].attempts =>
                        /\ row'[j].attempts = row[j].attempts + 1
                        /\ row[j].status = "pending" /\ row'[j].status = "processing"
<1>1. ASSUME IInv, Next PROVE Counts
  <2> USE <1>1 DEF IInv
  <2>1. ASSUME NEW j \in Job, NEW k \in Key \cup {NoKey}, Enqueue(j, k) PROVE Counts
    BY <2>1 DEF Enqueue, AbsentUndelivered, TypeOK
  <2>2. ASSUME NEW c \in Consumer, ClaimCommit(c) PROVE Counts
    <3>1. ASSUME NEW j \in locks[c] PROVE row[j].status = "pending"
      BY <3>1 DEF LocksDisjoint, Locked, PollOrder
    <3>2. ASSUME NEW j \in Job
          PROVE  IF j \in locks[c]
                 THEN /\ row'[j].attempts = row[j].attempts + 1
                      /\ row'[j].status = "processing"
                 ELSE row'[j] = row[j]
      <4>1. row[j] \in Row
        BY DEF TypeOK
      <4>2. QED
        BY <2>2, <4>1 DEF ClaimCommit, Row
    <3>3. QED
      BY <3>1, <3>2
  <2>3. ASSUME NEW j \in Job, Complete(j) \/ DeadLetter(j) \/ Reschedule(j) PROVE Counts
    BY <2>3 DEF Complete, DeadLetter, Reschedule, SetStatus, TypeOK, Row
  <2>4. ASSUME NEW S \in SUBSET (Job \ Locked), Reap(S) PROVE Counts
    BY <2>4 DEF Reap, TypeOK, Row
  <2>5. CASE UNCHANGED row
    BY <2>5
  <2>6. QED
    BY <2>1, <2>2, <2>3, <2>4, <2>5 DEF Next, BecomesDue, ClaimSelect, ClaimRollback
<1>2. IInv /\ [Next]_vars => [Counts]_vars
  BY <1>1
<1>3. QED
  BY <1>2, Invariant, PTL DEF Spec, AttemptsCountDeliveries

\* Only a completed row is ever deleted: a dead-lettered, pending or claimed one
\* stays in the table.
THEOREM QueueDeadNotReaped == Spec => DeadNotReaped
<1> DEFINE Kept == \A j \in Job : row[j].status # "completed" => row'[j].status # "gone"
                                                  \/ row[j].status = "gone"
<1>1. ASSUME IInv, Next PROVE Kept
  <2> USE <1>1 DEF IInv
  <2>1. ASSUME NEW j \in Job, NEW k \in Key \cup {NoKey}, Enqueue(j, k) PROVE Kept
    BY <2>1 DEF Enqueue, TypeOK
  <2>2. ASSUME NEW c \in Consumer, ClaimCommit(c) PROVE Kept
    BY <2>2 DEF ClaimCommit, TypeOK, Row
  <2>3. ASSUME NEW j \in Job, Complete(j) \/ DeadLetter(j) \/ Reschedule(j) PROVE Kept
    BY <2>3 DEF Complete, DeadLetter, Reschedule, SetStatus, TypeOK, Row
  <2>4. ASSUME NEW S \in SUBSET (Job \ Locked), Reap(S) PROVE Kept
    BY <2>4 DEF Reap
  <2>5. CASE UNCHANGED row
    BY <2>5
  <2>6. QED
    BY <2>1, <2>2, <2>3, <2>4, <2>5 DEF Next, BecomesDue, ClaimSelect, ClaimRollback
<1>2. IInv /\ [Next]_vars => [Kept]_vars
  BY <1>1
<1>3. QED
  BY <1>2, Invariant, PTL DEF Spec, DeadNotReaped
===============================================================================
