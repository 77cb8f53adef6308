---------------------------- MODULE ConcurrencyPool ----------------------------
(***************************************************************************)
(* The in-process concurrency pool of packages/shared/concurrency          *)
(* (pool.ts): a bound on the thunks in flight, a FIFO of the thunks        *)
(* submitted while every slot is taken, and two sets of parked callers.    *)
(*                                                                         *)
(* A Task is a thunk; it may be submitted again once it has settled.  A    *)
(* Waiter is one pending promise handed out by whenCapacityAvailable() or  *)
(* onIdle(); it leaves its set when the promise resolves.  Whether a thunk *)
(* resolves or rejects is not told apart here: run() frees the slot in a   *)
(* `finally`, so both take the same path.                                  *)
(***************************************************************************)
EXTENDS Naturals, Sequences, FiniteSets

CONSTANTS Task,    \* the thunks callers may submit
          Waiter,  \* the promises that may be parked on the pool
          Size     \* config.size

\* createConcurrencyPool throws a RangeError for any smaller size.
ASSUME SizeAssumption == Size \in Nat \ {0}

VARIABLES active,           \* the counter of held slots
          running,          \* the thunks that hold them
          queue,            \* thunks waiting for a slot, oldest first
          capacityWaiters,  \* parked in whenCapacityAvailable()
          idleWaiters       \* parked in onIdle()

vars == <<active, running, queue, capacityWaiters, idleWaiters>>

Queued == {queue[i] : i \in DOMAIN queue}

Init ==
    /\ active = 0
    /\ running = {}
    /\ queue = <<>>
    /\ capacityWaiters = {}
    /\ idleWaiters = {}

-----------------------------------------------------------------------------
(* Conditions the code evaluates on the counters.                           *)

\* Seeded fault: one thunk too many is admitted.
SlotFreeOffByOne == active <= Size
SlotFree == active < Size
HasRoom(a, q) == a + Len(q) < Size
Drained(a, q) == a = 0 /\ q = <<>>

-----------------------------------------------------------------------------
(* submit(): run at once in a free slot, else park behind the others.       *)

Start(t) ==
    /\ SlotFree
    /\ active' = active + 1
    /\ running' = running \cup {t}
    /\ UNCHANGED queue

Park(t) ==
    /\ ~SlotFree
    /\ queue' = Append(queue, t)
    /\ UNCHANGED <<active, running>>

Submit(t) ==
    /\ t \notin running \cup Queued
    /\ Start(t) \/ Park(t)
    /\ UNCHANGED <<capacityWaiters, idleWaiters>>

\* The `finally` of run(): give the slot back, then hand it to the oldest
\* queued thunk, or tell the idle waiters when nothing is left; the capacity
\* waiters are told last, on the counters that result.
\* (Seeded fault first: they are not told.)
SignalCapacityForgotten == UNCHANGED capacityWaiters

SignalCapacity ==
    capacityWaiters' = IF HasRoom(active', queue') THEN {} ELSE capacityWaiters

SignalIdle ==
    idleWaiters' = IF Drained(active', queue') THEN {} ELSE idleWaiters

\* Seeded fault: the freed slot goes to the newest thunk.
NewestFirst(t) ==
    LET last == Len(queue)
    IN /\ queue # <<>>
       /\ running' = (running \ {t}) \cup {queue[last]}
       /\ queue' = SubSeq(queue, 1, last - 1)
       /\ UNCHANGED <<active, idleWaiters>>

Refill(t) ==
    /\ queue # <<>>
    /\ running' = (running \ {t}) \cup {Head(queue)}
    /\ queue' = Tail(queue)
    /\ UNCHANGED <<active, idleWaiters>>

Release(t) ==
    /\ queue = <<>>
    /\ active' = active - 1
    /\ running' = running \ {t}
    /\ UNCHANGED queue
    /\ SignalIdle

Settle(t) ==
    /\ t \in running
    /\ Refill(t) \/ Release(t)
    /\ SignalCapacity

\* whenCapacityAvailable() and onIdle() park the caller only when the
\* condition does not hold already; otherwise they change nothing.
WhenCapacityAvailable(w) ==
    /\ w \notin capacityWaiters \cup idleWaiters
    /\ ~HasRoom(active, queue)
    /\ capacityWaiters' = capacityWaiters \cup {w}
    /\ UNCHANGED <<active, running, queue, idleWaiters>>

OnIdle(w) ==
    /\ w \notin capacityWaiters \cup idleWaiters
    /\ ~Drained(active, queue)
    /\ idleWaiters' = idleWaiters \cup {w}
    /\ UNCHANGED <<active, running, queue, capacityWaiters>>

Next ==
    \/ \E t \in Task : Submit(t)
    \/ \E t \in Task : Settle(t)
    \/ \E w \in Waiter : WhenCapacityAvailable(w)
    \/ \E w \in Waiter : OnIdle(w)

Spec == Init /\ [][Next]_vars

\* Every thunk's promise settles; nothing obliges callers to submit or wait.
FairSpec == Spec /\ \A t \in Task : WF_vars(Settle(t))

-----------------------------------------------------------------------------
(* Properties.                                                              *)

\* The variables have their types.
TypeOK ==
    /\ active \in Nat
    /\ running \in SUBSET Task
    /\ queue \in Seq(Task)
    /\ capacityWaiters \in SUBSET Waiter
    /\ idleWaiters \in SUBSET Waiter

\* No thunk is started twice: it is running or queued, never both, and queued
\* at most once.
OnePlace ==
    /\ Queued \cap running = {}
    /\ \A i, j \in DOMAIN queue : queue[i] = queue[j] => i = j

\* The pool's bound: the counter is exactly the number of thunks in flight,
\* through every hand-over of a slot, and it never exceeds config.size.
Bounded ==
    /\ active = Cardinality(running)
    /\ active <= Size

\* No slot stays free while work waits: a `finally` that freed its slot
\* without admitting the next thunk would strand it.
WorkConserving == queue # <<>> => active = Size

\* No lost wake-up: a caller is parked only while what it waits for is false.
NoLostWakeup ==
    /\ capacityWaiters # {} => active + Len(queue) >= Size
    /\ idleWaiters # {} => active + Len(queue) > 0

\* Thunks start in the order they were submitted: a submission that starts at
\* once never overtakes a parked one, and a freed slot goes to the oldest.
Fifo ==
    [][ \A t \in running' \ running :
            \/ queue = <<>>
            \/ t = Head(queue) /\ queue' = Tail(queue) ]_vars

\* onIdle() resolves only at an instant when no thunk runs or waits.
IdleMeansDrained ==
    [][ idleWaiters' # {} \/ idleWaiters = {}
            \/ (running' = {} /\ queue' = <<>>) ]_vars

\* A parked thunk is not starved by later submissions.
QueuedRuns == \A t \in Task : t \in Queued ~> t \in running
===============================================================================
