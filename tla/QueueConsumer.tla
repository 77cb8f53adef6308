------------------------------ MODULE QueueConsumer ------------------------------
(***************************************************************************)
(* consume() of packages/backend/libs/queue (client/consume.ts): processes *)
(* that claim jobs from one topic of the JobQueue table and stream them    *)
(* through a bounded pool, with start and stop, failing statements and     *)
(* crashes.                                                                *)
(*                                                                         *)
(* Each process runs one boundedConcurrencyPoolStream whose source is the  *)
(* generator claimedJobs().  Its microtasks are the subject of PoolStream; *)
(* here a stream keeps what BoundedStream promises (one item in hand,      *)
(* Concurrency in flight, nothing started after the consumer has left),    *)
(* and the steps are the points where a process awaits something.          *)
(***************************************************************************)
EXTENDS Naturals, FiniteSets

CONSTANTS
    Job, Key, Consumer, NoKey, Nobody,  \* see JobQueue
    NoJob,         \* no item in the producer's hand
    Concurrency,   \* config.concurrency: the pool size
    BatchSize,     \* config.batchSize: rows per claim
    MaxAttempts,   \* max_attempts of every row
    KeyOf,         \* the dedup key each job is enqueued under
    FaultKinds,    \* what may go wrong: a statement may "fail" (rolled back) or be
                   \* "lost" (committed, but the reply is an error), a process "crash"
    MaxFaults,     \* BOUND: faults in a behaviour
    MaxStarts      \* BOUND: starts of a process in a behaviour; after the last one
                   \* no process is stopped or crashed

ASSUME ConfigAssumption ==
    /\ Concurrency \in Nat \ {0} /\ BatchSize \in Nat \ {0} /\ MaxAttempts \in Nat \ {0}
    /\ NoJob \notin Job /\ NoKey \notin Key /\ Nobody \notin Consumer
    /\ KeyOf \in [Job -> Key \cup {NoKey}]
    /\ FaultKinds \subseteq {"fail", "lost", "crash"}
    /\ MaxFaults \in Nat /\ MaxStarts \in Nat

VARIABLES row, due, ahead, locks,  \* the table
          proc,                    \* the memory of each process
          faults, starts           \* counted for the bounds

queueVars == <<row, due, ahead, locks>>
vars == <<queueVars, proc, faults, starts>>

Q == INSTANCE JobQueue WITH Limit <- {BatchSize}

-----------------------------------------------------------------------------
(* A process.  life: "up" is the flag `running`.  gen: where claimedJobs()  *)
(* stands ("top" of its loop, "claiming", "yielding" the batch, "delay").   *)
(* producer: where the stream's producer stands.  work: what process() of   *)
(* each job in flight awaits, and with which `attempts` it was claimed.     *)

Process ==
    [life : {"down", "up", "stopping"},
     gen : {"top", "claiming", "yielding", "delay"},
     batch : SUBSET Job,            \* claimed, not yet yielded
     full : BOOLEAN,                \* claimed.length = batchSize
     producer : {"pulling", "gated", "draining", "done", "threw"},
     held : Job \cup {NoJob},       \* pulled, waiting for a slot
     work : [Job -> {"none", "handler", "completing", "rescheduling", "burying"}],
     attempts : [Job -> 0..MaxAttempts],
     failed : BOOLEAN,              \* the channel's failure
     left : BOOLEAN,                \* the stream's `cancelled`
     reaper : {"off", "armed", "reaping"}]

Down == [life |-> "down", gen |-> "top", batch |-> {}, full |-> FALSE,
         producer |-> "pulling", held |-> NoJob,
         work |-> [j \in Job |-> "none"], attempts |-> [j \in Job |-> 0],
         failed |-> FALSE, left |-> FALSE, reaper |-> "off"]

InFlight(c) == {j \in Job : proc[c].work[j] # "none"}
Holds(c) == proc[c].batch \cup InFlight(c) \cup ({proc[c].held} \ {NoJob})

\* Seeded fault: the stream is over when its source is.
SettledEarly(c) == proc[c].producer \in {"draining", "done", "threw"}

\* `consuming` has settled: it rejects when the channel failed.
Settled(c) ==
    /\ proc[c].producer \in {"done", "threw"}
    /\ proc[c].failed => proc[c].left

Init ==
    /\ Q!Init
    /\ proc = [c \in Consumer |-> Down]
    /\ faults = 0
    /\ starts = 0

-----------------------------------------------------------------------------
(* The program around the consumers.                                        *)

Enqueue(j) ==
    /\ Q!Enqueue(j, KeyOf[j])
    /\ UNCHANGED <<proc, faults, starts>>

BecomesDue(j) ==
    /\ Q!BecomesDue(j)
    /\ UNCHANGED <<proc, faults, starts>>

Start(c) ==
    /\ proc[c].life = "down" /\ starts < MaxStarts
    /\ proc' = [proc EXCEPT ![c].life = "up", ![c].reaper = "armed"]
    /\ starts' = starts + 1
    /\ UNCHANGED <<queueVars, faults>>

\* stop(): clear the flag, cut a poll delay short, clear the reap timer.
Stop(c) ==
    /\ proc[c].life = "up" /\ starts < MaxStarts
    /\ proc' = [proc EXCEPT
         ![c].life = "stopping",
         ![c].gen = IF @ = "delay" THEN "top" ELSE @,
         ![c].reaper = IF @ = "armed" THEN "off" ELSE @]
    /\ UNCHANGED <<queueVars, faults, starts>>

\* stop() returns or throws what `consuming` settled with, and the process ends.
StopReturns(c) ==
    /\ proc[c].life = "stopping" /\ Settled(c)
    /\ proc' = [proc EXCEPT ![c] = Down]
    /\ UNCHANGED <<queueVars, faults, starts>>

Fault(how) ==
    /\ how \in FaultKinds /\ faults < MaxFaults
    /\ faults' = faults + 1

StatementFaults == FaultKinds \ {"crash"}

\* The server rolls an open claim back when its connection goes.
Crash(c) ==
    /\ proc[c].life # "down" /\ starts < MaxStarts
    /\ proc' = [proc EXCEPT ![c] = Down]
    /\ Q!ClaimRollback(c)
    /\ Fault("crash")
    /\ UNCHANGED starts

-----------------------------------------------------------------------------
(* claimedJobs(): the source.                                               *)

\* Seeded fault: the loop does not look at `running`.
BeginClaimAlways(c) ==
    /\ proc[c].producer = "pulling" /\ proc[c].gen = "top"
    /\ Q!ClaimSelect(c, BatchSize)
    /\ proc' = [proc EXCEPT ![c].gen = "claiming"]
    /\ UNCHANGED <<faults, starts>>

BeginClaim(c) ==
    /\ proc[c].life = "up" /\ proc[c].producer = "pulling" /\ proc[c].gen = "top"
    /\ Q!ClaimSelect(c, BatchSize)
    /\ proc' = [proc EXCEPT ![c].gen = "claiming"]
    /\ UNCHANGED <<faults, starts>>

ClaimReturns(c) ==
    /\ proc[c].gen = "claiming"
    /\ Q!ClaimCommit(c)
    /\ LET claimed == locks[c]
       IN proc' = [proc EXCEPT
            ![c].gen = "yielding",
            ![c].batch = claimed,
            ![c].full = Cardinality(claimed) = BatchSize,
            ![c].attempts = [j \in Job |-> IF j \in claimed THEN row'[j].attempts ELSE @[j]]]
    /\ UNCHANGED <<faults, starts>>

\* A claim that throws ends the generator, so the source throws.
ClaimThrows(c, how) ==
    /\ proc[c].gen = "claiming"
    /\ IF how = "lost" THEN Q!ClaimCommit(c) ELSE Q!ClaimRollback(c)
    /\ proc' = [proc EXCEPT ![c].gen = "top", ![c].producer = "threw", ![c].failed = TRUE]
    /\ Fault(how)
    /\ UNCHANGED starts

\* The batch is exhausted: loop at once after a full one, sleep after another.
BatchEnds(c) ==
    /\ proc[c].producer = "pulling" /\ proc[c].gen = "yielding" /\ proc[c].batch = {}
    /\ proc' = [proc EXCEPT ![c].gen = IF proc[c].full THEN "top" ELSE "delay"]
    /\ UNCHANGED <<queueVars, faults, starts>>

DelayEnds(c) ==
    /\ proc[c].gen = "delay"
    /\ proc' = [proc EXCEPT ![c].gen = "top"]
    /\ UNCHANGED <<queueVars, faults, starts>>

\* `while (running)` is false: the source is done.
\* Seeded fault: the generator loops on the flag of the stream instead, and
\* drops what it has in its batch.
SourceEndsEarly(c) ==
    /\ proc[c].life = "stopping" /\ proc[c].producer = "pulling"
    /\ proc[c].gen \in {"top", "yielding"}
    /\ proc' = [proc EXCEPT ![c].producer = "draining", ![c].batch = {}]
    /\ UNCHANGED <<queueVars, faults, starts>>

SourceEnds(c) ==
    /\ proc[c].life = "stopping" /\ proc[c].producer = "pulling" /\ proc[c].gen = "top"
    /\ proc' = [proc EXCEPT ![c].producer = "draining"]
    /\ UNCHANGED <<queueVars, faults, starts>>

-----------------------------------------------------------------------------
(* The stream.                                                              *)

\* The producer receives a claimed job.  If the consumer has left, the loop
\* breaks: the job and the rest of the batch are dropped where they are.
Pull(c) ==
    /\ proc[c].producer = "pulling" /\ proc[c].gen = "yielding"
    /\ \E j \in proc[c].batch :
         proc' = IF proc[c].left
                 THEN [proc EXCEPT ![c].producer = "draining", ![c].batch = {}]
                 ELSE [proc EXCEPT ![c].producer = "gated", ![c].batch = @ \ {j},
                                   ![c].held = j]
    /\ UNCHANGED <<queueVars, faults, starts>>

\* Seeded fault: the slot that is waited for is freed when a handler has returned,
\* though its process() still awaits complete().
AdmitEarly(c) ==
    /\ proc[c].producer = "gated"
    /\ Cardinality({j \in InFlight(c) : proc[c].work[j] = "handler"}) < Concurrency
    /\ proc' = IF proc[c].left
               THEN [proc EXCEPT ![c].producer = "draining", ![c].batch = {},
                                 ![c].held = NoJob]
               ELSE [proc EXCEPT ![c].producer = "pulling", ![c].held = NoJob,
                                 ![c].work[proc[c].held] = "handler"]
    /\ UNCHANGED <<queueVars, faults, starts>>

Admit(c) ==
    /\ proc[c].producer = "gated"
    /\ Cardinality(InFlight(c)) < Concurrency
    /\ proc' = IF proc[c].left
               THEN [proc EXCEPT ![c].producer = "draining", ![c].batch = {},
                                 ![c].held = NoJob]
               ELSE [proc EXCEPT ![c].producer = "pulling", ![c].held = NoJob,
                                 ![c].work[proc[c].held] = "handler"]
    /\ UNCHANGED <<queueVars, faults, starts>>

\* The channel's consumer meets the failure and leaves; it then awaits the
\* producer, which is not told until it is handed its next job.
Leave(c) ==
    /\ proc[c].failed /\ ~proc[c].left
    /\ proc' = [proc EXCEPT ![c].left = TRUE]
    /\ UNCHANGED <<queueVars, faults, starts>>

Drained(c) ==
    /\ proc[c].producer = "draining" /\ InFlight(c) = {}
    /\ proc' = [proc EXCEPT ![c].producer = "done"]
    /\ UNCHANGED <<queueVars, faults, starts>>

-----------------------------------------------------------------------------
(* process(job).                                                            *)

\* The catch block: retry while attempts remain, unless the error is permanent.
\* Seeded fault: the last attempt is retried too.
CatchPastTheLast(c, j, permanent) ==
    IF ~permanent /\ proc[c].attempts[j] <= MaxAttempts THEN "rescheduling" ELSE "burying"

Catch(c, j, permanent) ==
    IF ~permanent /\ proc[c].attempts[j] < MaxAttempts THEN "rescheduling" ELSE "burying"

Await(c, j, what) == proc' = [proc EXCEPT ![c].work[j] = what]

\* process() rejects, and with it the stream.
Rejects(c, j) == proc' = [proc EXCEPT ![c].work[j] = "none", ![c].failed = TRUE]

HandlerReturns(c, j) ==
    /\ proc[c].work[j] = "handler"
    /\ Await(c, j, "completing")
    /\ UNCHANGED <<queueVars, faults, starts>>

HandlerThrows(c, j) ==
    /\ proc[c].work[j] = "handler"
    /\ \E permanent \in BOOLEAN : Await(c, j, Catch(c, j, permanent))
    /\ UNCHANGED <<queueVars, faults, starts>>

CompleteReturns(c, j) ==
    /\ proc[c].work[j] = "completing"
    /\ Q!Complete(j)
    /\ Await(c, j, "none")
    /\ UNCHANGED <<faults, starts>>

\* complete() is inside the try: its failure is handled as the handler's.
CompleteThrows(c, j, how) ==
    /\ proc[c].work[j] = "completing"
    /\ IF how = "lost" THEN Q!Complete(j) ELSE UNCHANGED queueVars
    /\ Await(c, j, Catch(c, j, FALSE))
    /\ Fault(how)
    /\ UNCHANGED starts

RescheduleReturns(c, j) ==
    /\ proc[c].work[j] = "rescheduling"
    /\ Q!Reschedule(j)
    /\ Await(c, j, "none")
    /\ UNCHANGED <<faults, starts>>

RescheduleThrows(c, j, how) ==
    /\ proc[c].work[j] = "rescheduling"
    /\ IF how = "lost" THEN Q!Reschedule(j) ELSE UNCHANGED queueVars
    /\ Rejects(c, j)
    /\ Fault(how)
    /\ UNCHANGED starts

\* The unique index rejects the statement: while the reply to complete() was
\* lost, another job was enqueued under the key.
RescheduleConflicts(c, j) ==
    /\ proc[c].work[j] = "rescheduling"
    /\ Q!Exists(j) /\ Q!KeyTaken(row[j].key, j)
    /\ Rejects(c, j)
    /\ UNCHANGED <<queueVars, faults, starts>>

DeadLetterReturns(c, j) ==
    /\ proc[c].work[j] = "burying"
    /\ Q!DeadLetter(j)
    /\ Await(c, j, "none")
    /\ UNCHANGED <<faults, starts>>

DeadLetterThrows(c, j, how) ==
    /\ proc[c].work[j] = "burying"
    /\ IF how = "lost" THEN Q!DeadLetter(j) ELSE UNCHANGED queueVars
    /\ Rejects(c, j)
    /\ Fault(how)
    /\ UNCHANGED starts

-----------------------------------------------------------------------------
(* The reaper.                                                              *)

ReapTimer(c) ==
    /\ proc[c].life = "up" /\ proc[c].reaper = "armed"
    /\ proc' = [proc EXCEPT ![c].reaper = "reaping"]
    /\ UNCHANGED <<queueVars, faults, starts>>

\* scheduleNextReap() in the `finally`, after a reap that deleted rows or threw.
Rearm(c) ==
    proc' = [proc EXCEPT ![c].reaper = IF proc[c].life = "up" THEN "armed" ELSE "off"]

ReapReturns(c) ==
    /\ proc[c].reaper = "reaping"
    /\ \E S \in SUBSET Job : Q!Reap(S)
    /\ Rearm(c)
    /\ UNCHANGED <<faults, starts>>

ReapThrows(c, how) ==
    /\ proc[c].reaper = "reaping"
    /\ \E S \in SUBSET Job : (how = "lost" \/ S = {}) /\ Q!Reap(S)
    /\ Rearm(c)
    /\ Fault(how)
    /\ UNCHANGED starts

-----------------------------------------------------------------------------

Source(c) ==
    \/ BeginClaim(c) \/ ClaimReturns(c) \/ BatchEnds(c) \/ DelayEnds(c) \/ SourceEnds(c)
    \/ \E how \in StatementFaults : ClaimThrows(c, how)

Stream(c) == Pull(c) \/ Admit(c) \/ Leave(c) \/ Drained(c)

Work(c, j) ==
    \/ HandlerReturns(c, j) \/ HandlerThrows(c, j)
    \/ CompleteReturns(c, j) \/ RescheduleReturns(c, j) \/ DeadLetterReturns(c, j)
    \/ RescheduleConflicts(c, j)
    \/ \E how \in StatementFaults :
         CompleteThrows(c, j, how) \/ RescheduleThrows(c, j, how) \/ DeadLetterThrows(c, j, how)

Reaper(c) ==
    \/ ReapTimer(c) \/ ReapReturns(c)
    \/ \E how \in StatementFaults : ReapThrows(c, how)

Next ==
    \/ \E j \in Job : Enqueue(j) \/ BecomesDue(j)
    \/ \E c \in Consumer : Start(c) \/ Stop(c) \/ StopReturns(c) \/ Crash(c)
    \/ \E c \in Consumer : Source(c) \/ Stream(c) \/ Reaper(c)
    \/ \E c \in Consumer, j \in Job : Work(c, j)

Spec == Init /\ [][Next]_vars

\* What the runtime and the database do by themselves: promises settle, timers
\* expire, handlers return or throw; a stopped or crashed process is started
\* again.  Nothing obliges anyone to enqueue, stop or crash.
Fairness ==
    /\ \A j \in Job : WF_vars(BecomesDue(j))
    /\ \A c \in Consumer :
         /\ WF_vars(Start(c)) /\ WF_vars(StopReturns(c))
         /\ WF_vars(Source(c)) /\ WF_vars(Stream(c))
         /\ \A j \in Job : WF_vars(Work(c, j))

FairSpec == Spec /\ Fairness

-----------------------------------------------------------------------------
(* Properties that hold.                                                    *)

\* The variables have their types.
TypeOK ==
    /\ Q!TypeOK
    /\ proc \in [Consumer -> Process]
    /\ faults \in 0..MaxFaults
    /\ starts \in 0..MaxStarts

\* A claimed job is in one process only, in one place of it, and cannot be
\* claimed again while it is there; the attempts count it was claimed with, on
\* which retry or dead-letter is decided later, is still the row's.  So it is
\* delivered at most max_attempts times, across processes, restarts and lost
\* replies: the statements themselves enforce no limit.
ExclusiveDelivery ==
    /\ TypeOK
    /\ \A j \in Job : row[j].attempts <= MaxAttempts
    /\ \A c, d \in Consumer : c # d => Holds(c) \cap Holds(d) = {}
    /\ \A c \in Consumer :
         /\ proc[c].held \notin proc[c].batch \cup InFlight(c)
         /\ proc[c].batch \cap InFlight(c) = {}
         /\ \A j \in Holds(c) :
              /\ row[j].status # "pending"
              /\ row[j].attempts = proc[c].attempts[j]

\* As long as nothing has failed or crashed no job is left processing with nobody
\* working on it, however often processes are stopped and started.  And whatever
\* fails elsewhere, a stream that settles without a failure of its own leaves no
\* claimed job in the memory of its process.
NoOrphan ==
    /\ faults = 0 =>
         \A j \in Job : row[j].status = "processing" => \E c \in Consumer : j \in Holds(c)
    /\ \A c \in Consumer : Settled(c) /\ ~proc[c].failed => Holds(c) = {}

\* A process claims ahead of its pool, but by one batch at most: it never works on more
\* than `concurrency` jobs, and what it keeps from every other process besides, waiting
\* in its memory or locked by its open claim, is never more than one batch.
Waiting(c) == (Holds(c) \ InFlight(c)) \cup locks[c]

OneBatchAhead ==
    \A c \in Consumer :
        Cardinality(InFlight(c)) <= Concurrency /\ Cardinality(Waiting(c)) <= BatchSize

\* Every job that is enqueued reaches a verdict, unless something fails or crashes.
Ended(j) == row[j].status \in {"completed", "dead", "gone"}
EveryJobEnds == \A j \in Job : row[j].status = "pending" ~> Ended(j) \/ faults > 0

\* stop() always resolves, also when the stream has failed.
StopEnds == \A c \in Consumer : proc[c].life = "stopping" ~> proc[c].life = "down"

\* The consumers implement the lifecycle each job is promised: whatever fails, a
\* verdict is overruled only by a process that has not heard of its own.
Unheard == {j \in Job : row[j].status # "processing" /\ \E c \in Consumer : j \in InFlight(c)}

Lifecycle ==
    INSTANCE JobLifecycle WITH
        job <- [j \in Job |-> [status |-> row[j].status, attempts |-> row[j].attempts]],
        doubt <- Unheard

ImplementsJobLifecycle == Lifecycle!Spec

\* A consumer implements RunnableApp: once stop() has been called it claims nothing more,
\* and stop() resolves with every job that was claimed handled, or rejects because the
\* stream has failed.  A claim that is under way is work in hand.
Apps ==
    [c \in Consumer |->
       [life |-> proc[c].life, busy |-> proc[c].gen = "claiming" \/ Holds(c) # {},
        broken |-> proc[c].failed]]

Contract == INSTANCE RunnableApp WITH App <- Consumer, app <- Apps, deaths <- faults

ImplementsRunnableApp == Contract!Spec

================================================================================
