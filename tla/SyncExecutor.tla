------------------------------ MODULE SyncExecutor ------------------------------
(***************************************************************************)
(* Sync jobs from the command line to their verdict: the skeleton that     *)
(* `syncs run` writes, the delivery by the queue to the sync-worker, the   *)
(* executor runSyncJob / runSyncTask, the event handler, and the event log *)
(* from which the status is derived (packages/backend/libs/sync,           *)
(* apps/sync/worker/sync-worker, apps/cli/src/syncs).                      *)
(*                                                                         *)
(* The queue is taken at the level of JobLifecycle: a job is in one        *)
(* process at a time, and is delivered again when complete() has failed.   *)
(* An adapter is any stream of started, auth, the messages in any order,   *)
(* then completed; or failed, a throw or no more, at any point before that.*)
(* That is more than adapters/src/types.ts promises of one, and what the   *)
(* catch of runSyncTask is for: the Gmail adapter throws at such points.   *)
(*                                                                         *)
(* All tasks are of one account, the case in which concurrent syncs meet.  *)
(***************************************************************************)
EXTENDS Naturals, Sequences, FiniteSets, FiniteSetsExt

CONSTANTS
    Job,              \* sync jobs
    Task, JobOf,      \* their tasks, and the job of each
    Message, NoMessage,
    TaskConcurrency,  \* tasks of a job driven at once
    MaxAttempts,      \* deliveries of a job
    FaultKinds,       \* how statements fail: "fail" (rolled back), "lost"
                      \* (committed, but the reply is an error)
    MaxFaults,        \* BOUND: failing statements in a behaviour
    CanCrash          \* whether the worker or the command line may die

ASSUME ConfigAssumption ==
    /\ JobOf \in [Task -> Job] /\ \A j \in Job : \E t \in Task : JobOf[t] = j
    /\ NoMessage \notin Message
    /\ TaskConcurrency \in Nat \ {0} /\ MaxAttempts \in Nat \ {0}
    /\ FaultKinds \subseteq {"fail", "lost"} /\ MaxFaults \in Nat /\ CanCrash \in BOOLEAN

VARIABLES table, noted, tx,  \* the message store (MessageStore)
          job,               \* each job in the command line and the queue
          log,               \* each task's events, oldest first, without the message events
          exec,              \* runSyncTask of each task
          faults             \* counted for the bound

Store == INSTANCE MessageStore WITH Writer <- Task

vars == <<table, noted, tx, job, log, exec, faults>>
storeVars == <<table, noted, tx>>

Tasks(j) == {t \in Task : JobOf[t] = j}

\* "skeleton": its rows are written, the enqueue is not.  "here": the command
\* line runs it itself.  "orphan": its process died.
JobState == [status : {"none", "skeleton", "here", "ran", "pending", "processing",
                       "completed", "dead", "orphan"},
             attempts : 0..MaxAttempts]

\* at: what runSyncTask awaits: a slot of the pool, the account, the adapter's
\* next event, the handling of `event`, the write of its own failed event.
\* terminal and result are its variable and the verdict it returns.
Event == {"none", "started", "auth", "message", "completed", "failed"}

Exec == [at : {"idle", "waiting", "loading", "pulling", "handling", "failing", "settled"},
         event : Event, last : Event, todo : SUBSET Message,
         result : {"none", "completed", "failed"}]

NoExec == [at |-> "idle", event |-> "none", last |-> "none", todo |-> {}, result |-> "none"]

Init ==
    /\ Store!Init
    /\ job = [j \in Job |-> [status |-> "none", attempts |-> 0]]
    /\ log = [t \in Task |-> <<>>]
    /\ exec = [t \in Task |-> NoExec]
    /\ faults = 0

Append1(t, event) == log' = [log EXCEPT ![t] = Append(@, event)]

Fault(how) == how \in FaultKinds /\ faults < MaxFaults /\ faults' = faults + 1

-----------------------------------------------------------------------------
(* What is derived from the log (persistence/views).                        *)

\* Where the completed and failed events are; the newest one tells the status.
\* Seeded fault: the first.
Terminals(t) == {i \in DOMAIN log[t] : log[t][i] \in {"completed", "failed"}}

FirstTerminal(t) == IF Terminals(t) = {} THEN "running" ELSE log[t][Min(Terminals(t))]

TaskStatus(t) == IF Terminals(t) = {} THEN "running" ELSE log[t][Max(Terminals(t))]

JobStatus(j) ==
    LET statuses == {TaskStatus(t) : t \in Tasks(j)}
    IN CASE statuses = {"completed"} -> "completed"
         [] {"completed", "failed"} \subseteq statuses -> "partial"
         [] "failed" \in statuses -> "failed"
         [] OTHER -> "running"

-----------------------------------------------------------------------------
(* The command line: the skeleton in one transaction, the job in another.   *)

CreateSyncJob(j) ==
    /\ job[j].status = "none"
    /\ job' = [job EXCEPT ![j].status = "skeleton"]
    /\ log' = [t \in Task |-> IF t \in Tasks(j) THEN <<"enqueued">> ELSE log[t]]
    /\ UNCHANGED <<storeVars, exec, faults>>

EnqueueSync(j) ==
    /\ job[j].status = "skeleton"
    /\ job' = [job EXCEPT ![j].status = "pending"]
    /\ UNCHANGED <<storeVars, log, exec, faults>>

\* runSyncJob begins: every task is parked in the pool.
Begins(j, status) ==
    /\ job' = [job EXCEPT ![j].status = status,
                          ![j].attempts = IF status = "here" THEN @ ELSE @ + 1]
    /\ exec' = [t \in Task |-> IF t \in Tasks(j) THEN [NoExec EXCEPT !.at = "waiting"]
                                                 ELSE exec[t]]
    /\ UNCHANGED <<storeVars, log, faults>>

RunHere(j) == job[j].status = "skeleton" /\ Begins(j, "here")

Deliver(j) == job[j].status = "pending" /\ Begins(j, "processing")

\* The process that has the job dies; the server rolls its transactions back.
Dies(j) ==
    /\ CanCrash /\ job[j].status \in {"skeleton", "here", "processing"}
    /\ job' = [job EXCEPT ![j].status = "orphan"]
    /\ exec' = [t \in Task |-> IF t \in Tasks(j) THEN NoExec ELSE exec[t]]
    /\ Store!Rollback(Tasks(j))
    /\ UNCHANGED <<log, faults>>

-----------------------------------------------------------------------------
(* runSyncTask.                                                             *)

Goes(t, at) == exec' = [exec EXCEPT ![t].at = at]

Settles(t, result) == exec' = [exec EXCEPT ![t].at = "settled", ![t].result = result]

StartTask(t) ==
    /\ exec[t].at = "waiting"
    /\ Cardinality({u \in Tasks(JobOf[t]) : exec[u].at \notin {"waiting", "settled"}})
         < TaskConcurrency
    /\ Goes(t, "loading")
    /\ UNCHANGED <<storeVars, job, log, faults>>

AccountLoaded(t) ==
    /\ exec[t].at = "loading"
    /\ Goes(t, "pulling")
    /\ UNCHANGED <<storeVars, job, log, faults>>

\* Not found, without credentials, or not to be decrypted.
AccountUnusable(t) ==
    /\ exec[t].at = "loading"
    /\ Goes(t, "failing")
    /\ UNCHANGED <<storeVars, job, log, faults>>

\* The adapter yields an event, and the handler begins to write it.
Yields(t, event) ==
    /\ exec[t].at = "pulling"
    /\ CASE event = "started"   -> exec[t].last = "none"
         [] event = "auth"      -> exec[t].last = "started"
         [] event = "completed" -> exec[t].last = "auth" /\ exec[t].todo = {}
         [] event = "failed"    -> exec[t].last \in {"started", "auth"}
    /\ exec' = [exec EXCEPT ![t].at = "handling", ![t].event = event]
    /\ UNCHANGED <<storeVars, job, log, faults>>

YieldsMessage(t, m) ==
    /\ exec[t].at = "pulling" /\ exec[t].last = "auth" /\ m \in exec[t].todo
    /\ Store!Begin(t, m)
    /\ exec' = [exec EXCEPT ![t].at = "handling", ![t].event = "message",
                            ![t].todo = @ \ {m}]
    /\ UNCHANGED <<job, log, faults>>

\* handle() returns: the executor notes what the event says, and asks for the next.
Handled(t) ==
    exec' = [exec EXCEPT ![t].at = "pulling", ![t].event = "none",
               ![t].last = IF exec[t].event = "message" THEN @ ELSE exec[t].event,
               ![t].todo = IF exec[t].event = "auth" THEN Message ELSE @]

EventWritten(t) ==
    /\ exec[t].at = "handling" /\ exec[t].event # "message"
    /\ Append1(t, exec[t].event)
    /\ Handled(t)
    /\ UNCHANGED <<storeVars, job, faults>>

EventThrows(t, how) ==
    /\ exec[t].at = "handling" /\ exec[t].event # "message"
    /\ IF how = "lost" THEN Append1(t, exec[t].event) ELSE UNCHANGED log
    /\ Goes(t, "failing")
    /\ Fault(how)
    /\ UNCHANGED <<storeVars, job>>

MessageStatement(t) ==
    /\ Store!CoreInserts(t) \/ Store!CoreSkips(t) \/ Store!InsertChildren(t)
    /\ UNCHANGED <<job, log, exec, faults>>

MessageWritten(t) ==
    /\ Store!Commit(t)
    /\ Handled(t)
    /\ UNCHANGED <<job, log, faults>>

\* Seeded faults: a message that cannot be stored is passed over, or tried again
\* in the same snapshot.
MessageRetried(t) == Store!SnapshotIsStale(t) /\ UNCHANGED vars

MessageSkipped(t) ==
    /\ Store!CoreFindsNothing(t)
    /\ Handled(t)
    /\ UNCHANGED <<job, log, faults>>

MessageNotFound(t) ==
    /\ Store!CoreFindsNothing(t)
    /\ Goes(t, "failing")
    /\ UNCHANGED <<job, log, faults>>

MessageThrows(t, how) ==
    /\ exec[t].at = "handling" /\ exec[t].event = "message"
    /\ IF how = "lost" THEN Store!Commit(t) ELSE Store!Rollback({t})
    /\ Goes(t, "failing")
    /\ Fault(how)
    /\ UNCHANGED <<job, log>>

\* The adapter throws, or ends without a terminal event.
AdapterThrows(t) ==
    /\ exec[t].at = "pulling" /\ exec[t].last \notin {"completed", "failed"}
    /\ Goes(t, "failing")
    /\ UNCHANGED <<storeVars, job, log, faults>>

StreamEnds(t) ==
    /\ exec[t].at = "pulling" /\ exec[t].last \in {"completed", "failed"}
    /\ Settles(t, exec[t].last)
    /\ UNCHANGED <<storeVars, job, log, faults>>

\* The catch block: the failed event is best effort.  Seeded fault: a task whose
\* completed event was yielded returns completed.
FailureUnwrittenKeepsEvent(t, how) ==
    /\ exec[t].at = "failing"
    /\ IF how = "lost" THEN Append1(t, "failed") ELSE UNCHANGED log
    /\ Settles(t, IF exec[t].event = "completed" THEN "completed" ELSE "failed")
    /\ Fault(how)
    /\ UNCHANGED <<storeVars, job>>

FailureWritten(t) ==
    /\ exec[t].at = "failing"
    /\ Append1(t, "failed")
    /\ Settles(t, "failed")
    /\ UNCHANGED <<storeVars, job, faults>>

FailureUnwritten(t, how) ==
    /\ exec[t].at = "failing"
    /\ IF how = "lost" THEN Append1(t, "failed") ELSE UNCHANGED log
    /\ Settles(t, "failed")
    /\ Fault(how)
    /\ UNCHANGED <<storeVars, job>>

-----------------------------------------------------------------------------
(* runSyncJob has returned: its result is printed by the command line, and  *)
(* dropped by the worker's handler, whose job the queue then completes.     *)

\* Seeded fault: the first verdict settles the job.
AnySettled(j) == \E t \in Tasks(j) : exec[t].at = "settled"

AllSettled(j) == \A t \in Tasks(j) : exec[t].at = "settled"

\* The rollup of runSyncJob.
Result(j) ==
    IF \A t \in Tasks(j) : exec[t].result = "completed" THEN "completed" ELSE "failed"

Ends(j, status) ==
    /\ job' = [job EXCEPT ![j].status = status]
    /\ UNCHANGED <<storeVars, log, exec>>

RanHere(j) ==
    /\ job[j].status = "here" /\ AllSettled(j)
    /\ Ends(j, "ran")
    /\ UNCHANGED faults

Completes(j) ==
    /\ job[j].status = "processing" /\ AllSettled(j)
    /\ Ends(j, "completed")
    /\ UNCHANGED faults

\* complete() fails, and the queue delivers again while attempts remain.
CompleteThrows(j, how) ==
    /\ job[j].status = "processing" /\ AllSettled(j)
    /\ Ends(j, IF job[j].attempts < MaxAttempts THEN "pending" ELSE "dead")
    /\ Fault(how)

-----------------------------------------------------------------------------

TaskStep(t) ==
    \/ StartTask(t) \/ AccountLoaded(t) \/ AccountUnusable(t)
    \/ \E event \in {"started", "auth", "completed", "failed"} : Yields(t, event)
    \/ \E m \in Message : YieldsMessage(t, m)
    \/ EventWritten(t) \/ MessageStatement(t) \/ MessageWritten(t) \/ MessageNotFound(t)
    \/ AdapterThrows(t) \/ StreamEnds(t) \/ FailureWritten(t)
    \/ \E how \in FaultKinds :
         EventThrows(t, how) \/ MessageThrows(t, how) \/ FailureUnwritten(t, how)

JobStep(j) ==
    \/ Deliver(j) \/ RanHere(j) \/ Completes(j)
    \/ \E how \in FaultKinds : CompleteThrows(j, how)

Next ==
    \/ \E j \in Job : CreateSyncJob(j) \/ EnqueueSync(j) \/ RunHere(j) \/ Dies(j)
    \/ \E j \in Job : JobStep(j)
    \/ \E t \in Task : TaskStep(t)

Spec == Init /\ [][Next]_vars

\* Queue, adapters and database answer; nobody is obliged to ask for a sync.
Fairness ==
    /\ \A j \in Job : WF_vars(JobStep(j))
    /\ \A t \in Task : WF_vars(TaskStep(t))

FairSpec == Spec /\ Fairness

-----------------------------------------------------------------------------
(* Properties.                                                              *)

\* The variables have their types.
TypeOK ==
    /\ Store!TypeOK
    /\ job \in [Job -> JobState]
    /\ log \in [Task -> Seq(Event \cup {"enqueued"})]
    /\ exec \in [Task -> Exec]
    /\ faults \in 0..MaxFaults

\* What the jobs table holds of a job: no row before the enqueue has committed, or when
\* the command line runs it, and a row that stays processing when its worker has died.
QueueStatus(j) ==
    CASE job[j].status \in {"none", "skeleton", "here", "ran"} -> "absent"
      [] job[j].status = "orphan" -> IF job[j].attempts > 0 THEN "processing" ELSE "absent"
      [] OTHER -> job[j].status

QueueJobs == [j \in Job |-> [status |-> QueueStatus(j), attempts |-> job[j].attempts]]

Queue == INSTANCE JobLifecycle WITH job <- QueueJobs, doubt <- {}

\* Sync jobs take of the queue what the consumer is shown to give: deliveries while
\* attempts remain, one verdict each.
ImplementsJobLifecycle == Queue!Spec

\* A message is stored whole and once.  Its raw row has its whole graph, whatever fails
\* and whoever dies, because a later sync will not repair it; and two syncs that meet at
\* one message never both store it.
StoredWholeOnce == Store!RawHasGraph /\ Store!StoredOnce

\* A task whose derived status is completed has stored every message of its
\* listing, and its log says so: no failure on the way is passed over.
CompletedMeansStored ==
    \A t \in Task : TaskStatus(t) = "completed" =>
        \A m \in Message : <<t, m>> \in noted /\ m \in table.raw

\* The verdict the executor returns and the status the log derives agree, through
\* redeliveries too: a completed task is never shown as failed, a failed one is
\* shown as failed unless a statement failed, and shown as completed only when
\* two did.  (The variables having their types.)
VerdictLogged ==
    /\ TypeOK
    /\ \A t \in Task : exec[t].at = "settled" =>
         /\ exec[t].result = "completed" => TaskStatus(t) = "completed"
         /\ exec[t].result = "failed" /\ TaskStatus(t) # "failed" => faults > 0
         /\ exec[t].result = "failed" /\ TaskStatus(t) = "completed" => faults > 1

\* The same of the job: its rolled-up result is completed only if the status
\* folded from its tasks' logs is, and a job that the queue calls completed has a
\* verdict for every task, however its siblings ended, unless a statement failed.
RollupAgrees ==
    \A j \in Job :
        /\ AllSettled(j) /\ Result(j) = "completed" => JobStatus(j) = "completed"
        /\ job[j].status = "completed" /\ faults = 0 =>
             /\ \A t \in Tasks(j) : TaskStatus(t) # "running"
             /\ Result(j) = "failed" => JobStatus(j) \in {"partial", "failed"}

\* Every run of a job ends: no task waits for ever for a slot of the pool, for
\* its adapter, or for the row another sync has open.
RunsEnd ==
    \A j \in Job : job[j].status \in {"here", "processing"}
                     ~> job[j].status \notin {"here", "processing"}

-----------------------------------------------------------------------------
(* What a comment says of the program, and the code does not do.            *)

\* persist-message.ts: "ins_raw is empty exactly on the conflict path, where the
\* select-back finds the existing row".
SelectBackFinds == Store!SelectBackFinds
================================================================================
