------------------------- MODULE ConcurrencyPoolProofs -------------------------
(***************************************************************************)
(* The safety of the concurrency pool for every set of thunks and every    *)
(* size.  The inductive invariant is the conjunction of the pool's         *)
(* invariants: none of Bounded, WorkConserving and NoLostWakeup survives a *)
(* hand-over of a slot without OnePlace (the thunk handed the slot must    *)
(* not hold one already) and without the others.                           *)
(***************************************************************************)
EXTENDS ConcurrencyPool, FiniteSetTheorems, SequenceTheorems, TLAPS

IInv ==
    /\ TypeOK
    /\ IsFiniteSet(running)
    /\ OnePlace
    /\ Bounded
    /\ WorkConserving
    /\ NoLostWakeup

-----------------------------------------------------------------------------
(* What parking a thunk and handing on a slot do to the queue.              *)

\* A sequence without repetitions stays one when a new element is appended.
LEMMA AppendDistinct ==
    ASSUME NEW S, NEW q \in Seq(S), NEW e \in S,
           \A i, j \in DOMAIN q : q[i] = q[j] => i = j,
           e \notin {q[i] : i \in DOMAIN q}
    PROVE  LET r == Append(q, e)
           IN /\ r \in Seq(S)
              /\ r # <<>>
              /\ Len(r) = Len(q) + 1
              /\ {r[i] : i \in DOMAIN r} = {q[i] : i \in DOMAIN q} \cup {e}
              /\ \A i, j \in DOMAIN r : r[i] = r[j] => i = j
<1> DEFINE r == Append(q, e)
<1>1. /\ r \in Seq(S)
      /\ r # <<>>
      /\ Len(r) = Len(q) + 1
      /\ \A i \in 1..Len(q) : r[i] = q[i]
      /\ r[Len(q) + 1] = e
  BY AppendProperties
<1>2. /\ Len(q) \in Nat
      /\ DOMAIN q = 1..Len(q)
      /\ DOMAIN r = 1..(Len(q) + 1)
  BY <1>1, LenProperties
<1> HIDE DEF r
<1>3. {r[i] : i \in DOMAIN r} = {q[i] : i \in DOMAIN q} \cup {e}
  BY <1>1, <1>2
<1>4. \A i, j \in DOMAIN r : r[i] = r[j] => i = j
  BY <1>1, <1>2
<1>5. QED
  BY <1>1, <1>3, <1>4 DEF r

\* Taking the head of a sequence without repetitions removes that element.
LEMMA TailDistinct ==
    ASSUME NEW S, NEW q \in Seq(S), q # <<>>,
           \A i, j \in DOMAIN q : q[i] = q[j] => i = j
    PROVE  /\ Head(q) \in {q[i] : i \in DOMAIN q}
           /\ Head(q) \in S
           /\ Tail(q) \in Seq(S)
           /\ Len(Tail(q)) = Len(q) - 1
           /\ {Tail(q)[i] : i \in DOMAIN Tail(q)} = {q[i] : i \in DOMAIN q} \ {Head(q)}
           /\ \A i, j \in DOMAIN Tail(q) : Tail(q)[i] = Tail(q)[j] => i = j
<1> DEFINE r == Tail(q)
<1>1. /\ Head(q) \in S
      /\ r \in Seq(S)
      /\ Len(r) = Len(q) - 1
      /\ \A i \in 1..Len(r) : r[i] = q[i + 1]
  BY HeadTailProperties
<1>2. /\ Len(q) \in Nat \ {0}
      /\ DOMAIN q = 1..Len(q)
      /\ DOMAIN r = 1..(Len(q) - 1)
      /\ Head(q) = q[1]
  BY <1>1, LenProperties, EmptySeq
<1> HIDE DEF r
<1>3. Head(q) \in {q[i] : i \in DOMAIN q}
  BY <1>2
<1>4. {r[i] : i \in DOMAIN r} = {q[i] : i \in DOMAIN q} \ {Head(q)}
  <2>1. \A i \in DOMAIN r : i + 1 \in DOMAIN q /\ i + 1 # 1 /\ r[i] = q[i + 1]
    BY <1>1, <1>2
  <2>2. \A k \in DOMAIN q : k # 1 => k - 1 \in DOMAIN r /\ r[k - 1] = q[k]
    BY <1>1, <1>2
  <2>3. \A i \in DOMAIN r : r[i] # q[1]
    BY <2>1, <1>2
  <2>4. ASSUME NEW i \in DOMAIN r
        PROVE  r[i] \in {q[k] : k \in DOMAIN q} \ {Head(q)}
    BY <2>1, <2>3, <1>2
  <2>5. ASSUME NEW k \in DOMAIN q, q[k] # Head(q)
        PROVE  q[k] \in {r[i] : i \in DOMAIN r}
    BY <2>2, <2>5, <1>2
  <2>6. QED
    BY <2>4, <2>5
<1>5. ASSUME NEW i \in DOMAIN r, NEW j \in DOMAIN r, r[i] = r[j] PROVE i = j
  <2>1. /\ i + 1 \in DOMAIN q /\ r[i] = q[i + 1] /\ i \in Nat
        /\ j + 1 \in DOMAIN q /\ r[j] = q[j + 1] /\ j \in Nat
    BY <1>1, <1>2
  <2>2. i + 1 = j + 1
    BY <1>5, <2>1
  <2>3. QED
    BY <2>1, <2>2
<1>6. QED
  BY <1>1, <1>3, <1>4, <1>5 DEF r

-----------------------------------------------------------------------------
(* The invariant.                                                           *)

LEMMA InitInvariant == Init => IInv
<1> SUFFICES ASSUME Init PROVE IInv
  OBVIOUS
<1>1. TypeOK
  BY EmptySeq DEF Init, TypeOK
<1>2. IsFiniteSet(running) /\ Bounded
  BY FS_EmptySet, SizeAssumption DEF Init, Bounded
<1>3. OnePlace /\ WorkConserving /\ NoLostWakeup
  BY DEF Init, OnePlace, Queued, WorkConserving, NoLostWakeup
<1>4. QED
  BY <1>1, <1>2, <1>3 DEF IInv

LEMMA SubmitInvariant ==
    ASSUME IInv, NEW t \in Task, Submit(t)
    PROVE  IInv'
<1> USE SizeAssumption DEF IInv, Submit
<1>1. Len(queue) \in Nat
  BY LenProperties DEF TypeOK
<1>2. CASE Start(t)
  \* A free slot means an empty queue, by WorkConserving.
  <2>1. queue = <<>> /\ queue' = queue
    BY <1>2 DEF Start, SlotFree, WorkConserving, Bounded, TypeOK
  <2>2. TypeOK'
    BY <1>2 DEF Start, TypeOK
  <2>3. OnePlace'
    BY <2>1 DEF Start, OnePlace, Queued
  <2>4. IsFiniteSet(running)' /\ Bounded'
    BY <1>2, FS_AddElement DEF Start, SlotFree, Bounded, TypeOK
  <2>5. WorkConserving'
    BY <2>1 DEF WorkConserving
  <2>6. NoLostWakeup'
    BY <1>1, <1>2 DEF Start, NoLostWakeup, TypeOK
  <2>7. QED
    BY <2>2, <2>3, <2>4, <2>5, <2>6
<1>3. CASE Park(t)
  <2>1. /\ active = Size
        /\ queue' = Append(queue, t)
        /\ UNCHANGED <<active, running, capacityWaiters, idleWaiters>>
    BY <1>3 DEF Park, SlotFree, Bounded, TypeOK
  <2>2. /\ queue' \in Seq(Task)
        /\ Len(queue') = Len(queue) + 1
        /\ Queued' = Queued \cup {t}
        /\ \A i, j \in DOMAIN queue' : queue'[i] = queue'[j] => i = j
    BY <2>1, AppendDistinct DEF TypeOK, OnePlace, Queued
  <2>3. TypeOK'
    BY <2>1, <2>2 DEF TypeOK
  <2>4. OnePlace'
    BY <2>1, <2>2 DEF OnePlace
  <2>5. IsFiniteSet(running)' /\ Bounded'
    BY <2>1 DEF Bounded
  <2>6. WorkConserving' /\ NoLostWakeup'
    BY <1>1, <2>1, <2>2 DEF WorkConserving, NoLostWakeup, TypeOK
  <2>7. QED
    BY <2>3, <2>4, <2>5, <2>6
<1>4. QED
  BY <1>2, <1>3

LEMMA SettleInvariant ==
    ASSUME IInv, NEW t \in Task, Settle(t)
    PROVE  IInv'
<1> USE SizeAssumption DEF IInv, Settle
<1>1. Len(queue) \in Nat /\ active \in Nat
  BY LenProperties DEF TypeOK
<1>2. CASE Refill(t)
  <2> DEFINE h == Head(queue)
  <2>1. /\ queue # <<>>
        /\ running' = (running \ {t}) \cup {h}
        /\ queue' = Tail(queue)
        /\ active' = active
        /\ idleWaiters' = idleWaiters
    BY <1>2 DEF Refill
  <2>2. /\ h \in Queued
        /\ h \in Task
        /\ queue' \in Seq(Task)
        /\ Len(queue') = Len(queue) - 1
        /\ Queued' = Queued \ {h}
        /\ \A i, j \in DOMAIN queue' : queue'[i] = queue'[j] => i = j
    <3>1. queue \in Seq(Task) /\ \A i, j \in DOMAIN queue : queue[i] = queue[j] => i = j
      BY DEF TypeOK, OnePlace
    <3>2. /\ h \in Queued
          /\ h \in Task
          /\ Tail(queue) \in Seq(Task)
          /\ Len(Tail(queue)) = Len(queue) - 1
          /\ {Tail(queue)[i] : i \in DOMAIN Tail(queue)} = Queued \ {h}
          /\ \A i, j \in DOMAIN Tail(queue) : Tail(queue)[i] = Tail(queue)[j] => i = j
      BY <2>1, <3>1, TailDistinct, Zenon DEF Queued
    <3>3. QED
      BY <2>1, <3>2 DEF Queued
  <2> HIDE DEF h
  <2>3. TypeOK'
    BY <1>1, <2>1, <2>2 DEF TypeOK, SignalCapacity
  <2>4. OnePlace'
    BY <2>1, <2>2 DEF OnePlace
  <2>5. IsFiniteSet(running)' /\ Bounded'
    <3>1. IsFiniteSet(running \ {t}) /\ Cardinality(running \ {t}) = active - 1
      BY <1>1, FS_RemoveElement DEF Bounded
    <3>2. h \notin running \ {t}
      BY <2>2 DEF OnePlace
    <3>3. IsFiniteSet(running') /\ Cardinality(running') = (active - 1) + 1
      BY <2>1, <3>1, <3>2, FS_AddElement
    <3>4. QED
      BY <1>1, <2>1, <3>3 DEF Bounded
  <2>6. WorkConserving'
    BY <2>1 DEF WorkConserving
  <2>7. NoLostWakeup'
    <3>1. Len(queue') \in Nat /\ active = Size
      BY <1>1, <2>1, <2>2, LenProperties DEF WorkConserving
    <3>2. QED
      BY <1>1, <2>1, <3>1 DEF NoLostWakeup
  <2>8. QED
    BY <2>3, <2>4, <2>5, <2>6, <2>7
<1>3. CASE Release(t)
  <2>1. /\ queue = <<>>
        /\ queue' = queue
        /\ active' = active - 1
        /\ running' = running \ {t}
        /\ Len(queue) = 0
    BY <1>3 DEF Release
  <2>2. IsFiniteSet(running)' /\ Bounded' /\ active' \in Nat
    <3>1. IsFiniteSet(running \ {t}) /\ Cardinality(running \ {t}) = active - 1
      BY <1>1, FS_RemoveElement DEF Bounded
    <3>2. active - 1 \in Nat
      BY <3>1, FS_CardinalityType
    <3>3. QED
      BY <1>1, <2>1, <3>1, <3>2 DEF Bounded
  <2>3. TypeOK'
    BY <1>3, <2>1, <2>2 DEF TypeOK, Release, SignalIdle, SignalCapacity
  <2>4. OnePlace' /\ WorkConserving'
    BY <2>1 DEF OnePlace, Queued, WorkConserving
  <2>5. NoLostWakeup'
    BY <1>1, <1>3, <2>1, <2>2
       DEF NoLostWakeup, Release, SignalIdle, SignalCapacity, HasRoom, Drained
  <2>6. QED
    BY <2>2, <2>3, <2>4, <2>5
<1>4. QED
  BY <1>2, <1>3

LEMMA WaitInvariant ==
    ASSUME IInv, NEW w \in Waiter, WhenCapacityAvailable(w) \/ OnIdle(w)
    PROVE  IInv'
<1> USE SizeAssumption DEF IInv
<1>1. UNCHANGED <<active, running, queue>>
  BY DEF WhenCapacityAvailable, OnIdle
<1>2. TypeOK'
  BY DEF TypeOK, WhenCapacityAvailable, OnIdle
<1>3. (IsFiniteSet(running) /\ OnePlace /\ Bounded /\ WorkConserving)'
  BY <1>1 DEF OnePlace, Queued, Bounded, WorkConserving
<1>4. Len(queue) \in Nat /\ active \in Nat /\ (Len(queue) = 0 => queue = <<>>)
  BY LenProperties, EmptySeq DEF TypeOK
<1>5. NoLostWakeup'
  BY <1>1, <1>4 DEF NoLostWakeup, WhenCapacityAvailable, OnIdle, HasRoom, Drained
<1>6. QED
  BY <1>2, <1>3, <1>5

LEMMA NextInvariant == IInv /\ [Next]_vars => IInv'
<1> SUFFICES ASSUME IInv, [Next]_vars PROVE IInv'
  OBVIOUS
<1>1. CASE \E t \in Task : Submit(t)
  BY <1>1, SubmitInvariant
<1>2. CASE \E t \in Task : Settle(t)
  BY <1>2, SettleInvariant
<1>3. CASE \E w \in Waiter : WhenCapacityAvailable(w) \/ OnIdle(w)
  BY <1>3, WaitInvariant
<1>4. CASE UNCHANGED vars
  BY <1>4 DEF vars, IInv, TypeOK, OnePlace, Queued, Bounded, WorkConserving, NoLostWakeup
<1>5. QED
  BY <1>1, <1>2, <1>3, <1>4 DEF Next

LEMMA Invariant == Spec => []IInv
  BY InitInvariant, NextInvariant, PTL DEF Spec

-----------------------------------------------------------------------------
(* The results.                                                             *)

\* The pool's variables keep their types: in particular the counter, which
\* run() decrements without a test, never goes below zero.
THEOREM PoolTypes == Spec => []TypeOK
  BY Invariant, PTL DEF IInv

\* A thunk is never started twice, nor queued while it runs (submit, run).
THEOREM PoolOnePlace == Spec => []OnePlace
  BY Invariant, PTL DEF IInv

\* The counter equals the number of thunks in flight and never exceeds
\* config.size, whatever is submitted and in whatever order thunks settle.
THEOREM PoolBounded == Spec => []Bounded
  BY Invariant, PTL DEF IInv

\* The `finally` of run() never leaves a slot free beside queued work.
THEOREM PoolWorkConserving == Spec => []WorkConserving
  BY Invariant, PTL DEF IInv

\* A caller parked in whenCapacityAvailable() or onIdle() is never left parked
\* once its condition holds (signalCapacity, signalIdle).
THEOREM PoolNoLostWakeup == Spec => []NoLostWakeup
  BY Invariant, PTL DEF IInv

\* Thunks start in submission order: a thunk starts at once only past an empty
\* queue, and a freed slot goes to the queue's head.
THEOREM PoolFifo == Spec => Fifo
<1> DEFINE Ordered == \A t \in running' \ running :
                          \/ queue = <<>>
                          \/ t = Head(queue) /\ queue' = Tail(queue)
<1>1. ASSUME IInv, Next PROVE Ordered
  <2>1. CASE \E t \in Task : Submit(t)
    BY <1>1, <2>1, SizeAssumption
       DEF IInv, Submit, Start, Park, SlotFree, WorkConserving, Bounded, TypeOK
  <2>2. CASE \E t \in Task : Settle(t)
    BY <2>2 DEF Settle, Refill, Release
  <2>3. CASE \E w \in Waiter : WhenCapacityAvailable(w) \/ OnIdle(w)
    BY <2>3 DEF WhenCapacityAvailable, OnIdle
  <2>4. QED
    BY <1>1, <2>1, <2>2, <2>3 DEF Next
<1>2. IInv /\ [Next]_vars => [Ordered]_vars
  BY <1>1
<1>3. QED
  BY <1>2, Invariant, PTL DEF Spec, Fifo

\* onIdle() resolves only in a step that leaves the pool drained: the promise
\* is a true "nothing runs and nothing waits".
THEOREM PoolIdleMeansDrained == Spec => IdleMeansDrained
<1> DEFINE Truthful == idleWaiters' # {} \/ idleWaiters = {}
                           \/ (running' = {} /\ queue' = <<>>)
<1>1. ASSUME IInv, IInv', Next PROVE Truthful
  <2>1. CASE \E t \in Task : Submit(t)
    BY <2>1 DEF Submit
  <2>2. CASE \E t \in Task : Settle(t)
    <3>1. ASSUME active' = 0 PROVE running' = {}
      BY <1>1, <3>1, FS_EmptySet DEF IInv, Bounded
    <3>2. QED
      BY <2>2, <3>1 DEF Settle, Refill, Release, SignalIdle, Drained
  <2>3. CASE \E w \in Waiter : WhenCapacityAvailable(w) \/ OnIdle(w)
    BY <2>3 DEF WhenCapacityAvailable, OnIdle
  <2>4. QED
    BY <1>1, <2>1, <2>2, <2>3 DEF Next
<1>2. IInv /\ IInv' /\ [Next]_vars => [Truthful]_vars
  BY <1>1
<1>3. QED
  BY <1>2, Invariant, PTL DEF Spec, IdleMeansDrained
===============================================================================
