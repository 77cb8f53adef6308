--------------------------- MODULE SyncExecutorProofs ---------------------------
(***************************************************************************)
(* The executor uses the message store as the store's specification lets   *)
(* its callers: every step of it is a step of the store or leaves the      *)
(* store alone.  What is proved of the store therefore holds of any number *)
(* of jobs and tasks, however they fail, die or are delivered again.       *)
(*                                                                         *)
(* On top of it stands what the executor tells: the status folded from the *)
(* log says completed only of a task that has stored its listing, and it   *)
(* differs from the verdict of the executor only where a statement failed. *)
(***************************************************************************)
EXTENDS SyncExecutor, TLAPS

-----------------------------------------------------------------------------
(* The store.  That a row is stored with its whole graph needs no more than *)
(* the commit being one step; that it is stored once needs to know who has  *)
(* a row open.  Its writers are the tasks, of which there may be any set.   *)

\* Who has inserted a row has a transaction with a message in it.
OpenInserts ==
    \A w \in Task :
        /\ tx[w].at # "idle" => tx[w].msg \in Message
        /\ tx[w].new => tx[w].at \in {"children", "commit"}

StoreInv == Store!TypeOK /\ Store!RawHasGraph /\ OpenInserts /\ Store!StoredOnce

LEMMA StoreInit == Store!Init => StoreInv
<1> SUFFICES ASSUME Store!Init PROVE StoreInv
  OBVIOUS
<1>1. Store!TypeOK /\ Store!RawHasGraph
  BY DEF Store!Init, Store!TypeOK, Store!Tx, Store!NoTx, Store!RawHasGraph
<1>2. OpenInserts /\ Store!StoredOnce
  BY DEF Store!Init, Store!NoTx, OpenInserts, Store!StoredOnce
<1>3. QED
  BY <1>1, <1>2 DEF StoreInv

\* A step that leaves the table alone and in which the writers either keep what
\* they have open or let go of it.
LEMMA NothingOpens ==
    ASSUME StoreInv, Store!TypeOK', OpenInserts', table' = table,
           \A w \in Task : tx'[w].new =>
               tx[w].new /\ tx'[w].msg = tx[w].msg
    PROVE  StoreInv'
<1>1. Store!RawHasGraph'
  BY DEF StoreInv, Store!RawHasGraph
<1>2. Store!StoredOnce'
  <2> SUFFICES ASSUME NEW w \in Task, tx'[w].new
               PROVE  (tx[w].msg \notin table.raw /\ ~Store!Pending(w, tx[w].msg))'
    BY DEF Store!StoredOnce
  <2>1. tx[w].new /\ tx'[w].msg = tx[w].msg
    OBVIOUS
  <2>2. tx[w].msg \notin table.raw /\ ~Store!Pending(w, tx[w].msg)
    BY <2>1 DEF StoreInv, Store!StoredOnce
  <2>3. \A v \in Task : tx'[v].new => tx[v].at \in {"children", "commit"}
    BY DEF StoreInv, OpenInserts
  <2>4. QED
    BY <2>1, <2>2, <2>3 DEF Store!Pending
<1>3. QED
  BY <1>1, <1>2 DEF StoreInv

LEMMA BeginKeeps ==
    ASSUME StoreInv, NEW w \in Task, NEW m \in Message, Store!Begin(w, m)
    PROVE  StoreInv'
<1>1. Store!TypeOK'
  BY DEF StoreInv, Store!TypeOK, Store!Tx, Store!Begin
<1>2. OpenInserts'
  BY DEF StoreInv, Store!TypeOK, OpenInserts, Store!Begin
<1>3. \A v \in Task : tx'[v].new => tx[v].new /\ tx'[v].msg = tx[v].msg
  BY DEF StoreInv, Store!TypeOK, Store!Begin
<1>4. QED
  BY <1>1, <1>2, <1>3, NothingOpens DEF Store!Begin

LEMMA CoreInsertsKeeps ==
    ASSUME StoreInv, NEW w \in Task, Store!CoreInserts(w)
    PROVE  StoreInv'
<1> DEFINE inserted == [tx[w] EXCEPT !.at = "children", !.new = TRUE]
<1>0. /\ tx' = [tx EXCEPT ![w] = inserted] /\ inserted \in Store!Tx
      /\ table' = table /\ noted' = noted
  BY DEF StoreInv, Store!TypeOK, Store!Tx, Store!CoreInserts
<1>1. Store!TypeOK' /\ Store!RawHasGraph'
  BY <1>0 DEF StoreInv, Store!TypeOK, Store!RawHasGraph
<1>2. OpenInserts'
  BY DEF StoreInv, Store!TypeOK, Store!Tx, OpenInserts, Store!CoreInserts, Store!AtCore
<1>3. /\ tx'[w].msg = tx[w].msg /\ tx'[w].new
      /\ \A v \in Task \ {w} : tx'[v] = tx[v]
      /\ table' = table
  BY DEF StoreInv, Store!TypeOK, Store!Tx, Store!CoreInserts
<1>4. tx[w].msg \notin table.raw /\ ~Store!Pending(w, tx[w].msg)
  BY DEF Store!CoreInserts, Store!AtCore
<1>5. Store!StoredOnce'
  <2> SUFFICES ASSUME NEW v \in Task, tx'[v].new
               PROVE  (tx[v].msg \notin table.raw /\ ~Store!Pending(v, tx[v].msg))'
    BY DEF Store!StoredOnce
  <2>1. CASE v = w
    BY <1>3, <1>4, <2>1 DEF Store!Pending
  <2>2. CASE v # w
    <3>1. tx[v].new /\ tx[v].at \in {"children", "commit"} /\ tx'[v] = tx[v]
      BY <1>3, <2>2 DEF StoreInv, OpenInserts
    <3>2. tx[v].msg \notin table.raw /\ ~Store!Pending(v, tx[v].msg)
      BY <3>1 DEF StoreInv, Store!StoredOnce
    <3>3. tx[v].msg # tx[w].msg
      BY <1>4, <2>2, <3>1 DEF Store!Pending
    <3>4. QED
      BY <1>3, <3>1, <3>2, <3>3 DEF Store!Pending
  <2>3. QED
    BY <2>1, <2>2
<1>6. QED
  BY <1>1, <1>2, <1>5 DEF StoreInv

LEMMA CommitKeeps ==
    ASSUME StoreInv, NEW w \in Task, Store!Commit(w)
    PROVE  StoreInv'
<1> DEFINE stored == IF tx[w].new THEN {tx[w].msg} ELSE {}
<1>1. /\ tx'[w] = Store!NoTx
      /\ \A v \in Task \ {w} : tx'[v] = tx[v]
      /\ table' = [raw |-> table.raw \cup stored, message |-> table.message \cup stored,
                   children |-> table.children \cup stored]
      /\ tx[w].at = "commit" /\ tx[w].msg \in Message
  BY DEF StoreInv, Store!TypeOK, OpenInserts, Store!Commit
<1>2. Store!TypeOK'
  BY <1>1 DEF StoreInv, Store!TypeOK, Store!Tx, Store!NoTx, Store!Commit
<1>3. Store!RawHasGraph'
  BY <1>1 DEF StoreInv, Store!RawHasGraph
<1>4. OpenInserts'
  BY <1>1 DEF StoreInv, OpenInserts, Store!NoTx
<1>5. Store!StoredOnce'
  <2> SUFFICES ASSUME NEW v \in Task, tx'[v].new
               PROVE  (tx[v].msg \notin table.raw /\ ~Store!Pending(v, tx[v].msg))'
    BY DEF Store!StoredOnce
  <2>1. v # w /\ tx'[v] = tx[v]
    BY <1>1 DEF Store!NoTx
  <2>2. tx[v].msg \notin table.raw /\ ~Store!Pending(v, tx[v].msg)
    BY <2>1 DEF StoreInv, Store!StoredOnce
  <2>3. tx[w].new => tx[w].msg # tx[v].msg
    BY <1>1, <2>1, <2>2 DEF Store!Pending
  <2>4. QED
    BY <1>1, <2>1, <2>2, <2>3 DEF Store!Pending, Store!NoTx
<1>6. QED
  BY <1>2, <1>3, <1>4, <1>5 DEF StoreInv

LEMMA StoreKeeps == StoreInv /\ [Store!Next]_storeVars => StoreInv'
<1> SUFFICES ASSUME StoreInv, [Store!Next]_storeVars PROVE StoreInv'
  OBVIOUS
<1>1. ASSUME NEW w \in Task, NEW m \in Message, Store!Begin(w, m) PROVE StoreInv'
  BY <1>1, BeginKeeps
<1>2. ASSUME NEW w \in Task, Store!CoreInserts(w) PROVE StoreInv'
  BY <1>2, CoreInsertsKeeps
<1>3. ASSUME NEW w \in Task, Store!CoreSkips(w) \/ Store!InsertChildren(w) PROVE StoreInv'
  <2>1. Store!TypeOK'
    BY <1>3 DEF StoreInv, Store!TypeOK, Store!Tx, Store!CoreSkips, Store!InsertChildren
  <2>2. OpenInserts'
    BY <1>3 DEF StoreInv, Store!TypeOK, Store!Tx, OpenInserts, Store!CoreSkips,
                Store!InsertChildren, Store!AtCore
  <2>3. \A v \in Task : tx'[v].new => tx[v].new /\ tx'[v].msg = tx[v].msg
    BY <1>3 DEF StoreInv, Store!TypeOK, Store!Tx, Store!CoreSkips, Store!InsertChildren
  <2>4. QED
    BY <1>3, <2>1, <2>2, <2>3, NothingOpens DEF Store!CoreSkips, Store!InsertChildren
<1>4. ASSUME NEW w \in Task, Store!CoreFindsNothing(w) PROVE StoreInv'
  <2>1. Store!TypeOK'
    BY <1>4 DEF StoreInv, Store!TypeOK, Store!Tx, Store!NoTx, Store!CoreFindsNothing
  <2>2. OpenInserts'
    BY <1>4 DEF StoreInv, Store!TypeOK, OpenInserts, Store!NoTx, Store!CoreFindsNothing
  <2>3. \A v \in Task : tx'[v].new => tx[v].new /\ tx'[v].msg = tx[v].msg
    BY <1>4 DEF StoreInv, Store!TypeOK, Store!NoTx, Store!CoreFindsNothing
  <2>4. QED
    BY <1>4, <2>1, <2>2, <2>3, NothingOpens DEF Store!CoreFindsNothing
<1>5. ASSUME NEW w \in Task, Store!Commit(w) PROVE StoreInv'
  BY <1>5, CommitKeeps
<1>6. ASSUME NEW W \in SUBSET Task, Store!Rollback(W) PROVE StoreInv'
  <2>1. Store!TypeOK'
    BY <1>6 DEF StoreInv, Store!TypeOK, Store!Tx, Store!NoTx, Store!Rollback
  <2>2. OpenInserts'
    BY <1>6 DEF StoreInv, OpenInserts, Store!NoTx, Store!Rollback
  <2>3. \A v \in Task : tx'[v].new => tx[v].new /\ tx'[v].msg = tx[v].msg
    BY <1>6 DEF Store!NoTx, Store!Rollback
  <2>4. QED
    BY <1>6, <2>1, <2>2, <2>3, NothingOpens DEF Store!Rollback
<1>7. CASE UNCHANGED storeVars
  BY <1>7 DEF storeVars, StoreInv, Store!TypeOK, Store!RawHasGraph, OpenInserts,
              Store!StoredOnce, Store!Pending
<1>8. QED
  BY <1>1, <1>2, <1>3, <1>4, <1>5, <1>6, <1>7 DEF Store!Next

LEMMA StoreInvariant == Store!Spec => []StoreInv
<1>1. Store!Init => StoreInv
  BY StoreInit
<1>2. StoreInv /\ [Store!Next]_<<table, noted, tx>> => StoreInv'
  BY StoreKeeps DEF storeVars
<1>3. QED
  BY <1>1, <1>2, PTL DEF Store!Spec

-----------------------------------------------------------------------------

\* The store's variables have their types.
THEOREM StoreTypes == Store!Spec => []Store!TypeOK
<1>1. StoreInv => Store!TypeOK
  BY DEF StoreInv
<1>2. QED
  BY StoreInvariant, <1>1, PTL

\* persistMessage stores a raw row with its whole graph, or nothing of it.
THEOREM StoreRawHasGraph == Store!Spec => []Store!RawHasGraph
<1>1. StoreInv => Store!RawHasGraph
  BY DEF StoreInv
<1>2. QED
  BY StoreInvariant, <1>1, PTL

\* Of any number of syncs that meet at one message, one stores it.
THEOREM StoreOnce == Store!Spec => []Store!StoredOnce
<1>1. StoreInv => Store!StoredOnce
  BY DEF StoreInv
<1>2. QED
  BY StoreInvariant, <1>1, PTL

-----------------------------------------------------------------------------

\* A message event is committed with the raw row it is about, or after it.
NotedIsStored == \A w \in Task, m \in Message : <<w, m>> \in noted => m \in table.raw

\* A transaction that is about to commit has the row open, or has found it.
EndsStored ==
    \A w \in Task :
        /\ tx[w].at = "children" => tx[w].new
        /\ tx[w].at = "commit" => tx[w].new \/ tx[w].msg \in table.raw

LEMMA NotedKeeps ==
    ASSUME Store!TypeOK, NotedIsStored, EndsStored, [Store!Next]_storeVars
    PROVE  NotedIsStored' /\ EndsStored'
<1>1. ASSUME NEW w \in Task,
             (\E m \in Message : Store!Begin(w, m)) \/ Store!CoreInserts(w) \/ Store!CoreSkips(w)
             \/ Store!CoreFindsNothing(w) \/ Store!InsertChildren(w)
      PROVE  NotedIsStored' /\ EndsStored'
  <2>1. table' = table /\ noted' = noted
    BY <1>1 DEF Store!Begin, Store!CoreInserts, Store!CoreSkips, Store!CoreFindsNothing,
                Store!InsertChildren
  <2>2. /\ \A v \in Task \ {w} : tx'[v] = tx[v]
        /\ tx'[w].at = "children" => tx'[w].new
        /\ tx'[w].at = "commit" => tx'[w].new \/ tx'[w].msg \in table.raw
    BY <1>1 DEF Store!TypeOK, Store!Tx, Store!NoTx, EndsStored, Store!Begin,
                Store!CoreInserts, Store!CoreSkips, Store!CoreFindsNothing, Store!InsertChildren
  <2>3. QED
    BY <2>1, <2>2 DEF NotedIsStored, EndsStored
<1>2. ASSUME NEW w \in Task, Store!Commit(w) PROVE NotedIsStored' /\ EndsStored'
  <2>1. /\ tx[w].at = "commit" /\ noted' = noted \cup {<<w, tx[w].msg>>}
        /\ table'.raw = table.raw \cup (IF tx[w].new THEN {tx[w].msg} ELSE {})
        /\ tx'[w].at = "idle" /\ \A v \in Task \ {w} : tx'[v] = tx[v]
    BY <1>2 DEF Store!Commit, Store!TypeOK, Store!NoTx
  <2>2. tx[w].msg \in table'.raw
    BY <2>1 DEF EndsStored
  <2>3. QED
    BY <2>1, <2>2 DEF NotedIsStored, EndsStored
<1>3. ASSUME NEW W \in SUBSET Task, Store!Rollback(W) PROVE NotedIsStored' /\ EndsStored'
  BY <1>3 DEF Store!Rollback, Store!NoTx, NotedIsStored, EndsStored
<1>4. CASE UNCHANGED storeVars
  BY <1>4 DEF storeVars, NotedIsStored, EndsStored
<1>5. QED
  BY <1>1, <1>2, <1>3, <1>4 DEF Store!Next

\* No event tells of a message that is not stored, although persistMessage writes the
\* event of a message another sync has stored.
THEOREM StoreNotedIsStored == Store!Spec => []NotedIsStored
<1>1. Store!Init => NotedIsStored /\ EndsStored
  BY DEF Store!Init, Store!NoTx, NotedIsStored, EndsStored
<1>2. Store!TypeOK /\ NotedIsStored /\ EndsStored /\ [Store!Next]_<<table, noted, tx>>
      => NotedIsStored' /\ EndsStored'
  BY NotedKeeps DEF storeVars
<1>3. QED
  BY <1>1, <1>2, StoreTypes, PTL DEF Store!Spec

-----------------------------------------------------------------------------
(* The executor's use of the store.                                         *)

StoreUnchanged == UNCHANGED <<table, noted, tx>>

LEMMA JobsLeaveStore ==
    ASSUME NEW j \in Job,
           CreateSyncJob(j) \/ EnqueueSync(j) \/ RunHere(j) \/ JobStep(j)
    PROVE  StoreUnchanged
<1>1. CASE CreateSyncJob(j) \/ EnqueueSync(j)
  BY <1>1 DEF CreateSyncJob, EnqueueSync, storeVars, StoreUnchanged
<1>2. CASE RunHere(j) \/ Deliver(j)
  BY <1>2 DEF RunHere, Deliver, Begins, storeVars, StoreUnchanged
<1>3. CASE RanHere(j) \/ Completes(j) \/ \E how \in FaultKinds : CompleteThrows(j, how)
  BY <1>3 DEF RanHere, Completes, CompleteThrows, Ends, storeVars, StoreUnchanged
<1>4. QED
  BY <1>1, <1>2, <1>3 DEF JobStep

LEMMA TasksUseStore ==
    ASSUME NEW t \in Task, TaskStep(t)
    PROVE  Store!Next \/ StoreUnchanged
<1>1. CASE StartTask(t) \/ AccountLoaded(t) \/ AccountUnusable(t)
  BY <1>1 DEF StartTask, AccountLoaded, AccountUnusable, storeVars, StoreUnchanged
<1>2. CASE \E event \in {"started", "auth", "completed", "failed"} : Yields(t, event)
  BY <1>2 DEF Yields, storeVars, StoreUnchanged
<1>3. CASE \E m \in Message : YieldsMessage(t, m)
  BY <1>3 DEF YieldsMessage, Store!Next
<1>4. CASE EventWritten(t) \/ AdapterThrows(t) \/ StreamEnds(t) \/ FailureWritten(t)
  BY <1>4 DEF EventWritten, AdapterThrows, StreamEnds, FailureWritten, storeVars,
              StoreUnchanged
<1>5. CASE MessageStatement(t) \/ MessageWritten(t) \/ MessageNotFound(t)
  BY <1>5 DEF MessageStatement, MessageWritten, MessageNotFound, Store!Next
<1>6. ASSUME NEW how \in FaultKinds, MessageThrows(t, how)
      PROVE  Store!Next
  <2>1. Store!Commit(t) \/ Store!Rollback({t})
    BY <1>6 DEF MessageThrows
  <2>2. {t} \in SUBSET Task
    OBVIOUS
  <2>3. QED
    BY <2>1, <2>2 DEF Store!Next
<1>7. CASE \E how \in FaultKinds : EventThrows(t, how) \/ FailureUnwritten(t, how)
  BY <1>7 DEF EventThrows, FailureUnwritten, storeVars, StoreUnchanged
<1>8. QED
  BY <1>1, <1>2, <1>3, <1>4, <1>5, <1>6, <1>7 DEF TaskStep

LEMMA DeathRollsBack ==
    ASSUME NEW j \in Job, Dies(j)
    PROVE  Store!Next
<1>1. Tasks(j) \in SUBSET Task
  BY DEF Tasks
<1>2. Store!Rollback(Tasks(j))
  BY DEF Dies
<1>3. QED
  BY <1>1, <1>2 DEF Store!Next

\* Sync jobs use the message store as it specifies.
THEOREM SyncImplementsStore == Spec => Store!Spec
<1>1. Init => Store!Init
  BY DEF Init
<1>2. [Next]_vars => [Store!Next]_<<table, noted, tx>>
  <2> SUFFICES ASSUME [Next]_vars PROVE Store!Next \/ StoreUnchanged
    BY DEF StoreUnchanged
  <2>1. CASE \E j \in Job : CreateSyncJob(j) \/ EnqueueSync(j) \/ RunHere(j) \/ JobStep(j)
    BY <2>1, JobsLeaveStore
  <2>2. CASE \E j \in Job : Dies(j)
    BY <2>2, DeathRollsBack
  <2>3. CASE \E t \in Task : TaskStep(t)
    BY <2>3, TasksUseStore
  <2>4. CASE UNCHANGED vars
    BY <2>4 DEF vars, StoreUnchanged
  <2>5. QED
    BY <2>1, <2>2, <2>3, <2>4 DEF Next
<1>3. QED
  BY <1>1, <1>2, PTL DEF Spec, Store!Spec

\* Whatever fails and whoever dies, and however many syncs meet at one message, one of
\* them stores it, with its whole graph.
THEOREM SyncStoresWholeOnce == Spec => []StoredWholeOnce
  BY StoreRawHasGraph, StoreOnce, SyncImplementsStore, PTL DEF StoredWholeOnce

-----------------------------------------------------------------------------
(* What the log tells, and what the executor knows.                         *)

Types ==
    /\ job \in [Job -> JobState]
    /\ log \in [Task -> Seq(Event \cup {"enqueued"})]
    /\ exec \in [Task -> Exec]
    /\ faults \in 0..MaxFaults

\* A job that may still be delivered has a delivery left.
Deliverable ==
    \A j \in Job : job[j].status \in {"none", "skeleton", "pending"} =>
        job[j].attempts < MaxAttempts

\* A task is driven only while its job runs, has nothing before its job begins, and
\* is settled when its job is done with.
Placed(t) ==
    /\ exec[t].at \notin {"idle", "settled"} => job[JobOf[t]].status \in {"here", "processing"}
    /\ job[JobOf[t]].status \in {"none", "skeleton"} => exec[t].at = "idle"
    /\ job[JobOf[t]].status = "completed" => exec[t].at = "settled"

\* The store has a transaction open only for the message being handled.
Handling(t) == tx[t].at # "idle" => exec[t].at = "handling" /\ exec[t].event = "message"

\* Every message of the listing is yet to come, in hand, or noted.
Accounted(t) ==
    \A m \in Message :
        \/ m \in exec[t].todo \/ <<t, m>> \in noted
        \/ tx[t].at # "idle" /\ tx[t].msg = m

Listing(t) ==
    /\ exec[t].at \in {"waiting", "loading"} => exec[t].last = "none"
    /\ exec[t].at \in {"pulling", "handling"} =>
        /\ exec[t].last = "auth" => Accounted(t)
        /\ exec[t].at = "handling" /\ exec[t].event \in {"message", "completed"} =>
             exec[t].last = "auth"
        /\ exec[t].at = "handling" /\ exec[t].event = "completed" => exec[t].todo = {}

\* A completed event is written only when every message is noted.
Saved(t) ==
    (\E i \in DOMAIN log[t] : log[t][i] = "completed") => \A m \in Message : <<t, m>> \in noted

\* The terminal events have a newest one, which is what Max chooses.
HasNewest(t) ==
    Terminals(t) # {} => \E i \in Terminals(t) : \A k \in Terminals(t) : k <= i

\* What the executor has seen written is what the log tells; where the two differ a
\* statement has failed.  A task that runs while its log already says completed runs
\* for the second time, or its completed event was thought unwritten.
Verdict(t) ==
    /\ exec[t].at = "pulling" /\ exec[t].last \in {"completed", "failed"} =>
         TaskStatus(t) = exec[t].last
    /\ exec[t].at \notin {"idle", "settled"} /\ TaskStatus(t) = "completed" =>
         faults > 0 \/ (exec[t].at = "pulling" /\ exec[t].last = "completed")
    /\ job[JobOf[t]].status \in {"none", "skeleton", "pending"} /\ TaskStatus(t) = "completed" =>
         faults > 0
    /\ exec[t].at = "settled" =>
         /\ exec[t].result \in {"completed", "failed"}
         /\ exec[t].result = "completed" => TaskStatus(t) = "completed"
         /\ exec[t].result = "failed" /\ TaskStatus(t) # "failed" => faults > 0
         /\ exec[t].result = "failed" /\ TaskStatus(t) = "completed" => faults > 1

TaskInv(t) ==
    Placed(t) /\ Handling(t) /\ Listing(t) /\ Saved(t) /\ HasNewest(t) /\ Verdict(t)

IInv == Types /\ Deliverable /\ \A t \in Task : TaskInv(t)

-----------------------------------------------------------------------------
(* The log.                                                                 *)

\* An event appended to the log tells the status if it is a terminal one, and else
\* leaves it as it was.
LEMMA AppendedLog ==
    ASSUME NEW t \in Task, NEW event \in Event, log[t] \in Seq(Event \cup {"enqueued"}),
           HasNewest(t), log'[t] = Append(log[t], event)
    PROVE  /\ HasNewest(t)'
           /\ TaskStatus(t)' = IF event \in {"completed", "failed"} THEN event ELSE TaskStatus(t)
           /\ (\E i \in DOMAIN log'[t] : log'[t][i] = "completed") =>
                event = "completed" \/ \E i \in DOMAIN log[t] : log[t][i] = "completed"
<1> DEFINE n == Len(log[t])
<1>1. /\ n \in Nat /\ DOMAIN log[t] = 1..n /\ DOMAIN log'[t] = 1..n + 1
      /\ log'[t][n + 1] = event /\ \A i \in 1..n : log'[t][i] = log[t][i]
  OBVIOUS
<1> HIDE DEF n
<1>2. CASE event \in {"completed", "failed"}
  <2>1. n + 1 \in Terminals(t)' /\ \A k \in Terminals(t)' : k <= n + 1 /\ k \in Nat
    BY <1>1, <1>2 DEF Terminals
  <2>2. Max(Terminals(t)') = n + 1
    BY <1>1, <2>1 DEF Max
  <2>3. HasNewest(t)'
    BY <2>1 DEF HasNewest
  <2>4. TaskStatus(t)' = event
    BY <1>1, <2>1, <2>2 DEF TaskStatus
  <2>5. QED
    BY <1>1, <1>2, <2>3, <2>4
<1>3. CASE event \notin {"completed", "failed"}
  <2>1. Terminals(t)' = Terminals(t)
    BY <1>1, <1>3 DEF Terminals
  <2>2. HasNewest(t)'
    BY <2>1 DEF HasNewest
  <2>3. Terminals(t) = {} \/ Max(Terminals(t)) \in Terminals(t)
    BY <1>1 DEF HasNewest, Max, Terminals
  <2>4. TaskStatus(t)' = TaskStatus(t)
    BY <1>1, <2>1, <2>3 DEF TaskStatus, Terminals
  <2>5. QED
    BY <1>1, <1>3, <2>2, <2>4
<1>4. QED
  BY <1>2, <1>3

LEMMA SameLog ==
    ASSUME NEW t, log'[t] = log[t]
    PROVE  /\ TaskStatus(t)' = TaskStatus(t) /\ HasNewest(t)' = HasNewest(t)
           /\ Terminals(t)' = Terminals(t)
  BY DEF TaskStatus, HasNewest, Terminals

\* The status completed is told by an event.
LEMMA CompletedIsLogged ==
    ASSUME NEW t \in Task, HasNewest(t), log[t] \in Seq(Event \cup {"enqueued"}),
           TaskStatus(t) = "completed"
    PROVE  \E i \in DOMAIN log[t] : log[t][i] = "completed"
<1>1. Terminals(t) # {}
  BY DEF TaskStatus
<1>2. Terminals(t) \subseteq Nat
  BY DEF Terminals
<1>3. Max(Terminals(t)) \in Terminals(t)
  BY <1>1, <1>2 DEF HasNewest, Max
<1>4. QED
  BY <1>1, <1>3 DEF TaskStatus, Terminals

\* The log of a task begins with the job, and tells nothing yet.
LEMMA FreshLog ==
    ASSUME NEW t \in Task, log[t] = <<>> \/ log[t] = <<"enqueued">>
    PROVE  HasNewest(t) /\ TaskStatus(t) = "running" /\ Saved(t)
  BY DEF HasNewest, TaskStatus, Terminals, Saved

-----------------------------------------------------------------------------
(* The frame of a step.                                                     *)

\* What a step leaves alone keeps its part of the invariant, whatever is committed and
\* however many statements fail meanwhile.
LEMMA OthersKeep ==
    ASSUME NEW t \in Task, TaskInv(t),
           exec'[t] = exec[t], tx'[t] = tx[t], log'[t] = log[t],
           job'[JobOf[t]].status = job[JobOf[t]].status,
           noted \subseteq noted', faults \in Nat, faults' \in Nat, faults <= faults'
    PROVE  TaskInv(t)'
<1> USE DEF TaskInv
<1>1. Placed(t)' /\ Handling(t)' /\ Listing(t)' /\ Saved(t)'
  BY DEF Placed, Handling, Listing, Accounted, Saved
<1>2. HasNewest(t)' /\ Verdict(t)'
  BY SameLog DEF Verdict
<1>3. QED
  BY <1>1, <1>2

LEMMA SyncInit == Init => IInv
<1> SUFFICES ASSUME Init PROVE IInv
  OBVIOUS
<1> USE ConfigAssumption DEF Init
<1>1. Types
  BY DEF Types, JobState, Exec, NoExec, Event
<1>2. Deliverable
  BY DEF Deliverable
<1>3. ASSUME NEW t \in Task PROVE TaskInv(t)
  <2>1. exec[t].at = "idle" /\ tx[t].at = "idle" /\ log[t] = <<>> /\ JobOf[t] \in Job
    BY DEF NoExec, Store!Init, Store!NoTx
  <2>2. job[JobOf[t]].status = "none"
    BY <2>1
  <2>3. Placed(t) /\ Handling(t) /\ Listing(t)
    BY <2>1, <2>2 DEF Placed, Handling, Listing
  <2>4. HasNewest(t) /\ Saved(t) /\ Verdict(t)
    BY <2>1, <2>2, FreshLog DEF Verdict
  <2>5. QED
    BY <2>3, <2>4 DEF TaskInv
<1>4. QED
  BY <1>1, <1>2, <1>3 DEF IInv

-----------------------------------------------------------------------------
(* The steps of a task.                                                     *)

\* The state of a task, and the frame of its steps.
LEMMA TaskState ==
    ASSUME Store!TypeOK, IInv, NEW t \in Task
    PROVE  /\ TaskInv(t) /\ exec[t] \in Exec /\ tx[t] \in Store!Tx
           /\ log[t] \in Seq(Event \cup {"enqueued"}) /\ exec[t].event \in Event
           /\ exec[t].todo \subseteq Message /\ exec[t].last \in Event
           /\ exec \in [Task -> Exec] /\ log \in [Task -> Seq(Event \cup {"enqueued"})]
           /\ faults \in Nat /\ JobOf[t] \in Job /\ HasNewest(t)
<1>1. faults \in Nat
  BY ConfigAssumption DEF IInv, Types
<1>2. /\ exec \in [Task -> Exec] /\ log \in [Task -> Seq(Event \cup {"enqueued"})]
      /\ exec[t] \in Exec /\ log[t] \in Seq(Event \cup {"enqueued"})
  BY DEF IInv, Types
<1>3. exec[t].event \in Event /\ exec[t].todo \subseteq Message /\ exec[t].last \in Event
  BY <1>2 DEF Exec
<1>4. TaskInv(t) /\ HasNewest(t) /\ tx[t] \in Store!Tx /\ JobOf[t] \in Job
  BY ConfigAssumption DEF IInv, TaskInv, Store!TypeOK
<1>5. QED
  BY <1>1, <1>2, <1>3, <1>4

LEMMA TaskStepKeeps ==
    ASSUME Store!TypeOK, IInv, NEW t \in Task, NEW x \in Exec,
           exec' = [exec EXCEPT ![t] = x], \A u \in Task \ {t} : tx'[u] = tx[u],
           \/ UNCHANGED log
           \/ \E event \in Event : log' = [log EXCEPT ![t] = Append(@, event)],
           UNCHANGED job, noted \subseteq noted', faults' \in faults..MaxFaults,
           Placed(t)', Handling(t)', Listing(t)', Saved(t)', Verdict(t)'
    PROVE  IInv'
<1>1. exec \in [Task -> Exec] /\ log \in [Task -> Seq(Event \cup {"enqueued"})] /\ faults \in Nat
  BY TaskState
<1>2. Types'
  <2>1. exec' \in [Task -> Exec]
    BY <1>1
  <2>2. log' \in [Task -> Seq(Event \cup {"enqueued"})]
    <3>1. \A event \in Event : Append(log[t], event) \in Seq(Event \cup {"enqueued"})
      BY <1>1
    <3>2. QED
      BY <1>1, <3>1
  <2>3. faults' \in 0..MaxFaults /\ job' \in [Job -> JobState]
    BY <1>1, ConfigAssumption DEF IInv, Types
  <2>4. QED
    BY <2>1, <2>2, <2>3 DEF Types
<1>3. Deliverable'
  BY DEF IInv, Deliverable
<1>4. ASSUME NEW u \in Task, u # t PROVE TaskInv(u)'
  <2>1. TaskInv(u) /\ exec'[u] = exec[u] /\ tx'[u] = tx[u] /\ log'[u] = log[u]
    BY <1>1, <1>4 DEF IInv
  <2>2. faults' \in Nat /\ faults <= faults'
    BY <1>1
  <2>3. QED
    BY <1>1, <2>1, <2>2, OthersKeep
<1>5. HasNewest(t)'
  <2>1. HasNewest(t) /\ log[t] \in Seq(Event \cup {"enqueued"})
    BY TaskState
  <2>2. CASE UNCHANGED log
    BY <2>1, <2>2, SameLog
  <2>3. CASE \E event \in Event : log' = [log EXCEPT ![t] = Append(@, event)]
    BY <1>1, <2>1, <2>3, AppendedLog
  <2>4. QED
    BY <2>2, <2>3
<1>6. QED
  BY <1>2, <1>3, <1>4, <1>5 DEF IInv, TaskInv

\* Between its events a task goes on, or to its catch block.
LEMMA GoesKeeps ==
    ASSUME Store!TypeOK, IInv, NEW t \in Task,
           StartTask(t) \/ AccountLoaded(t) \/ AccountUnusable(t) \/ AdapterThrows(t)
    PROVE  IInv'
<1> DEFINE x == exec'[t]
<1>1. /\ TaskInv(t) /\ exec[t] \in Exec /\ tx[t] \in Store!Tx /\ exec \in [Task -> Exec]
      /\ faults \in Nat
  BY TaskState
<1>2. PICK to \in {"loading", "pulling", "failing"} :
        /\ exec' = [exec EXCEPT ![t].at = to]
        /\ \/ exec[t].at = "waiting" /\ to = "loading"
           \/ exec[t].at = "loading" /\ to \in {"pulling", "failing"}
           \/ exec[t].at = "pulling" /\ to = "failing"
              /\ exec[t].last \notin {"completed", "failed"}
        /\ UNCHANGED <<table, noted, tx, job, log, faults>>
  BY DEF StartTask, AccountLoaded, AccountUnusable, AdapterThrows, Goes, storeVars
<1>3. /\ exec' = [exec EXCEPT ![t] = x] /\ x \in Exec
      /\ x.at = to /\ x.event = exec[t].event /\ x.last = exec[t].last
      /\ x.todo = exec[t].todo /\ x.result = exec[t].result
  BY <1>1, <1>2 DEF Exec
<1> HIDE DEF x
<1>4. exec'[t] = x
  BY DEF x
<1>5. Placed(t)' /\ Handling(t)'
  BY <1>1, <1>2, <1>3, <1>4 DEF TaskInv, Placed, Handling
<1>6. Listing(t)' /\ Saved(t)'
  BY <1>1, <1>2, <1>3, <1>4 DEF TaskInv, Listing, Saved
<1>7. Verdict(t)'
  BY <1>1, <1>2, <1>3, <1>4, SameLog DEF TaskInv, Listing, Verdict
<1>8. faults' \in faults..MaxFaults
  BY <1>1, <1>2 DEF IInv, Types
<1>9. QED
  BY <1>2, <1>3, <1>5, <1>6, <1>7, <1>8, TaskStepKeeps

\* An event in hand: nothing is written yet.
LEMMA YieldsKeeps ==
    ASSUME Store!TypeOK, IInv, NEW t \in Task,
           NEW event \in {"started", "auth", "completed", "failed"}, Yields(t, event)
    PROVE  IInv'
<1> DEFINE x == exec'[t]
<1>1. /\ TaskInv(t) /\ exec[t] \in Exec /\ tx[t] \in Store!Tx /\ exec \in [Task -> Exec]
      /\ faults \in Nat
  BY TaskState
<1>2. /\ exec' = [exec EXCEPT ![t].at = "handling", ![t].event = event]
      /\ exec[t].at = "pulling" /\ UNCHANGED <<table, noted, tx, job, log, faults>>
      /\ exec[t].last \notin {"completed", "failed"}
      /\ event = "completed" => exec[t].last = "auth" /\ exec[t].todo = {}
  BY DEF Yields, storeVars
<1>3. /\ exec' = [exec EXCEPT ![t] = x] /\ x \in Exec
      /\ x.at = "handling" /\ x.event = event /\ x.last = exec[t].last
      /\ x.todo = exec[t].todo /\ x.result = exec[t].result
  BY <1>1, <1>2 DEF Exec, Event
<1> HIDE DEF x
<1>4. exec'[t] = x
  BY DEF x
<1>5. Placed(t)' /\ Handling(t)'
  BY <1>1, <1>2, <1>3, <1>4 DEF TaskInv, Placed, Handling
<1>6. Listing(t)' /\ Saved(t)'
  BY <1>1, <1>2, <1>3, <1>4 DEF TaskInv, Listing, Accounted, Saved
<1>7. Verdict(t)'
  BY <1>1, <1>2, <1>3, <1>4, SameLog DEF TaskInv, Verdict
<1>8. faults' \in faults..MaxFaults
  BY <1>1, <1>2 DEF IInv, Types
<1>9. QED
  BY <1>2, <1>3, <1>5, <1>6, <1>7, <1>8, TaskStepKeeps

\* A message in hand is no longer to come, and not noted yet.
LEMMA YieldsMessageKeeps ==
    ASSUME Store!TypeOK, IInv, NEW t \in Task, NEW m \in Message, YieldsMessage(t, m)
    PROVE  IInv'
<1> DEFINE x == exec'[t]
<1>1. /\ TaskInv(t) /\ exec[t] \in Exec /\ tx[t] \in Store!Tx /\ exec \in [Task -> Exec]
      /\ faults \in Nat
  BY TaskState
<1>2. /\ exec' = [exec EXCEPT ![t].at = "handling", ![t].event = "message",
                              ![t].todo = @ \ {m}]
      /\ exec[t].at = "pulling" /\ exec[t].last = "auth"
      /\ UNCHANGED <<table, noted, job, log, faults>>
  BY DEF YieldsMessage, Store!Begin
<1>3. /\ exec' = [exec EXCEPT ![t] = x] /\ x \in Exec
      /\ x.at = "handling" /\ x.event = "message" /\ x.last = "auth"
      /\ x.todo = exec[t].todo \ {m} /\ x.result = exec[t].result
  BY <1>1, <1>2 DEF Exec, Event
<1>4. tx'[t].at = "core" /\ tx'[t].msg = m /\ \A u \in Task \ {t} : tx'[u] = tx[u]
  BY DEF YieldsMessage, Store!Begin, Store!TypeOK
<1> HIDE DEF x
<1>5. exec'[t] = x
  BY DEF x
<1>6. Placed(t)' /\ Handling(t)' /\ Saved(t)'
  BY <1>1, <1>2, <1>3, <1>5 DEF TaskInv, Placed, Handling, Saved
<1>7. tx[t].at = "idle"
  BY <1>1, <1>2 DEF TaskInv, Handling
<1>8. Listing(t)'
  BY <1>1, <1>2, <1>3, <1>4, <1>5, <1>7 DEF TaskInv, Listing, Accounted
<1>9. Verdict(t)'
  BY <1>1, <1>2, <1>3, <1>5, SameLog DEF TaskInv, Verdict
<1>10. faults' \in faults..MaxFaults
  BY <1>1, <1>2 DEF IInv, Types
<1>11. QED
  BY <1>2, <1>3, <1>4, <1>6, <1>8, <1>9, <1>10, TaskStepKeeps

\* The event is written, and the executor takes note of it: what it knows to be written
\* is what the log now tells.
LEMMA EventWrittenKeeps ==
    ASSUME Store!TypeOK, IInv, NEW t \in Task, EventWritten(t)
    PROVE  IInv'
<1> DEFINE x == exec'[t]
<1> DEFINE event == exec[t].event
<1>1. /\ TaskInv(t) /\ exec[t] \in Exec /\ tx[t] \in Store!Tx /\ exec \in [Task -> Exec]
      /\ faults \in Nat /\ HasNewest(t) /\ log[t] \in Seq(Event \cup {"enqueued"})
      /\ log \in [Task -> Seq(Event \cup {"enqueued"})] /\ event \in Event
  BY TaskState
<1>2. /\ exec' = [exec EXCEPT ![t].at = "pulling", ![t].event = "none",
                    ![t].last = IF exec[t].event = "message" THEN @ ELSE exec[t].event,
                    ![t].todo = IF exec[t].event = "auth" THEN Message ELSE @]
      /\ exec[t].at = "handling" /\ event # "message"
      /\ log' = [log EXCEPT ![t] = Append(@, event)]
      /\ UNCHANGED <<table, noted, tx, job, faults>>
  BY DEF EventWritten, Handled, Append1, storeVars
<1>3. /\ exec' = [exec EXCEPT ![t] = x] /\ x \in Exec
      /\ x.at = "pulling" /\ x.last = event
      /\ x.todo = IF event = "auth" THEN Message ELSE exec[t].todo
  BY <1>1, <1>2 DEF Exec, Event
<1>4. log'[t] = Append(log[t], event)
  BY <1>1, <1>2
<1> HIDE DEF x
<1>5. exec'[t] = x
  BY DEF x
<1>6. Placed(t)' /\ Handling(t)'
  BY <1>1, <1>2, <1>3, <1>5 DEF TaskInv, Placed, Handling
<1>7. event = "completed" => \A m \in Message : <<t, m>> \in noted
  BY <1>1, <1>2 DEF TaskInv, Handling, Listing, Accounted
<1>8. Listing(t)'
  BY <1>1, <1>2, <1>3, <1>5 DEF TaskInv, Listing, Accounted
<1>9. PICK e \in Event : e = event
  BY <1>1
<1>10. /\ TaskStatus(t)' = IF e \in {"completed", "failed"} THEN e ELSE TaskStatus(t)
       /\ (\E i \in DOMAIN log'[t] : log'[t][i] = "completed") =>
            e = "completed" \/ \E i \in DOMAIN log[t] : log[t][i] = "completed"
  BY <1>1, <1>4, <1>9, AppendedLog
<1> HIDE DEF event
<1>11. Saved(t)'
  BY <1>1, <1>2, <1>7, <1>9, <1>10 DEF TaskInv, Saved
<1>12. Verdict(t)'
  <2>1. TaskStatus(t) = "completed" => faults > 0
    BY <1>1, <1>2 DEF TaskInv, Verdict
  <2>2. job'[JobOf[t]].status \notin {"none", "skeleton", "pending"}
    BY <1>1, <1>2 DEF TaskInv, Placed
  <2>3. QED
    BY <1>2, <1>3, <1>5, <1>9, <1>10, <2>1, <2>2 DEF Verdict
<1>13. faults' \in faults..MaxFaults
  BY <1>1, <1>2 DEF IInv, Types
<1>14. \A u \in Task \ {t} : tx'[u] = tx[u]
  BY <1>2
<1>15. \E ev \in Event : log' = [log EXCEPT ![t] = Append(@, ev)]
  BY <1>2, <1>9
<1>16. noted \subseteq noted' /\ UNCHANGED job
  BY <1>2
<1>17. QED
  BY <1>3, <1>6, <1>8, <1>11, <1>12, <1>13, <1>14, <1>15, <1>16, TaskStepKeeps

\* A statement fails: whether the event is in the log the executor does not know, and a
\* fault is counted.
LEMMA EventThrowsKeeps ==
    ASSUME Store!TypeOK, IInv, NEW t \in Task, NEW how \in FaultKinds, EventThrows(t, how)
    PROVE  IInv'
<1> DEFINE x == exec'[t]
<1> DEFINE event == exec[t].event
<1>1. /\ TaskInv(t) /\ exec[t] \in Exec /\ tx[t] \in Store!Tx /\ exec \in [Task -> Exec]
      /\ faults \in Nat /\ HasNewest(t) /\ log[t] \in Seq(Event \cup {"enqueued"})
      /\ log \in [Task -> Seq(Event \cup {"enqueued"})] /\ event \in Event
  BY TaskState
<1>2. /\ exec' = [exec EXCEPT ![t].at = "failing"]
      /\ exec[t].at = "handling" /\ event # "message"
      /\ log' = [log EXCEPT ![t] = Append(@, event)] \/ UNCHANGED log
      /\ UNCHANGED <<table, noted, tx, job>>
      /\ faults < MaxFaults /\ faults' = faults + 1
  BY DEF EventThrows, Goes, Append1, storeVars, Fault
<1>3. exec' = [exec EXCEPT ![t] = x] /\ x \in Exec /\ x.at = "failing"
  BY <1>1, <1>2 DEF Exec, Event
<1> HIDE DEF x
<1>4. exec'[t] = x
  BY DEF x
<1>5. Placed(t)' /\ Handling(t)' /\ Listing(t)'
  BY <1>1, <1>2, <1>3, <1>4 DEF TaskInv, Placed, Handling, Listing
<1>6. event = "completed" => \A m \in Message : <<t, m>> \in noted
  BY <1>1, <1>2 DEF TaskInv, Handling, Listing, Accounted
<1>7. PICK e \in Event : e = event
  BY <1>1
<1>8. (\E i \in DOMAIN log'[t] : log'[t][i] = "completed") =>
        e = "completed" \/ \E i \in DOMAIN log[t] : log[t][i] = "completed"
  <2>1. CASE log' = [log EXCEPT ![t] = Append(@, event)]
    <3>1. log'[t] = Append(log[t], e)
      BY <1>1, <1>7, <2>1
    <3>2. QED
      BY <1>1, <3>1, AppendedLog
  <2>2. CASE UNCHANGED log
    BY <2>2
  <2>3. QED
    BY <1>2, <2>1, <2>2
<1> HIDE DEF event
<1>9. Saved(t)'
  BY <1>1, <1>2, <1>6, <1>7, <1>8 DEF TaskInv, Saved
<1>10. Verdict(t)'
  BY <1>1, <1>2, <1>3, <1>4 DEF Verdict
<1>11. faults' \in faults..MaxFaults
  BY <1>1, <1>2, ConfigAssumption
<1>12. \A u \in Task \ {t} : tx'[u] = tx[u]
  BY <1>2
<1>13. UNCHANGED log \/ \E ev \in Event : log' = [log EXCEPT ![t] = Append(@, ev)]
  BY <1>2, <1>7
<1>14. noted \subseteq noted' /\ UNCHANGED job
  BY <1>2
<1>15. QED
  BY <1>3, <1>5, <1>9, <1>10, <1>11, <1>12, <1>13, <1>14, TaskStepKeeps

\* Inside its transaction a message stays in hand.
LEMMA MessageStatementKeeps ==
    ASSUME Store!TypeOK, IInv, NEW t \in Task, MessageStatement(t)
    PROVE  IInv'
<1>1. /\ TaskInv(t) /\ exec[t] \in Exec /\ tx[t] \in Store!Tx /\ exec \in [Task -> Exec]
      /\ faults \in Nat
  BY TaskState
<1>2. UNCHANGED <<table, noted, job, log, exec, faults>>
  BY DEF MessageStatement, Store!CoreInserts, Store!CoreSkips, Store!InsertChildren
<1>3. /\ tx[t].at # "idle" /\ tx'[t].at # "idle" /\ tx'[t].msg = tx[t].msg
      /\ \A u \in Task \ {t} : tx'[u] = tx[u]
  BY <1>1 DEF MessageStatement, Store!CoreInserts, Store!CoreSkips, Store!InsertChildren,
              Store!AtCore, Store!Tx, Store!TypeOK
<1>4. Placed(t)' /\ Handling(t)' /\ Listing(t)' /\ Saved(t)'
  BY <1>1, <1>2, <1>3 DEF TaskInv, Placed, Handling, Listing, Accounted, Saved
<1>5. Verdict(t)'
  BY <1>1, <1>2, SameLog DEF TaskInv, Verdict
<1>6. exec' = [exec EXCEPT ![t] = exec[t]]
  BY <1>1, <1>2
<1>7. faults' \in faults..MaxFaults
  BY <1>1, <1>2 DEF IInv, Types
<1>8. noted \subseteq noted' /\ UNCHANGED <<job, log>>
  BY <1>2
<1>9. PICK x \in Exec : x = exec[t]
  BY <1>1
<1>10. QED
  BY <1>3, <1>4, <1>5, <1>6, <1>7, <1>8, <1>9, TaskStepKeeps

\* The message in hand is noted.
LEMMA MessageWrittenKeeps ==
    ASSUME Store!TypeOK, IInv, NEW t \in Task, MessageWritten(t)
    PROVE  IInv'
<1> DEFINE x == exec'[t]
<1>1. /\ TaskInv(t) /\ exec[t] \in Exec /\ tx[t] \in Store!Tx /\ exec \in [Task -> Exec]
      /\ faults \in Nat
  BY TaskState
<1>2. /\ tx[t].at = "commit" /\ noted' = noted \cup {<<t, tx[t].msg>>}
      /\ tx' = [tx EXCEPT ![t] = Store!NoTx] /\ UNCHANGED <<job, log, faults>>
  BY DEF MessageWritten, Store!Commit
<1>3. exec[t].at = "handling" /\ exec[t].event = "message" /\ exec[t].last = "auth"
  BY <1>1, <1>2 DEF TaskInv, Handling, Listing
<1>4. /\ exec' = [exec EXCEPT ![t] = x] /\ x \in Exec
      /\ x.at = "pulling" /\ x.last = "auth" /\ x.todo = exec[t].todo
  BY <1>1, <1>3 DEF MessageWritten, Handled, Exec, Event
<1>5. tx'[t].at = "idle" /\ \A u \in Task \ {t} : tx'[u] = tx[u]
  BY <1>2 DEF Store!NoTx, Store!TypeOK
<1> HIDE DEF x
<1>6. exec'[t] = x
  BY DEF x
<1>7. Placed(t)' /\ Handling(t)' /\ Saved(t)'
  BY <1>1, <1>2, <1>3, <1>4, <1>5, <1>6 DEF TaskInv, Placed, Handling, Saved
<1>8. Listing(t)'
  BY <1>1, <1>2, <1>3, <1>4, <1>5, <1>6 DEF TaskInv, Listing, Accounted
<1>9. Verdict(t)'
  BY <1>1, <1>2, <1>3, <1>4, <1>6, SameLog DEF TaskInv, Verdict
<1>10. faults' \in faults..MaxFaults
  BY <1>1, <1>2 DEF IInv, Types
<1>11. QED
  BY <1>2, <1>4, <1>5, <1>7, <1>8, <1>9, <1>10, TaskStepKeeps

\* The message in hand is not stored, or not known to be: the task fails.
LEMMA MessageFailsKeeps ==
    ASSUME Store!TypeOK, IInv, NEW t \in Task,
           MessageNotFound(t) \/ \E how \in FaultKinds : MessageThrows(t, how)
    PROVE  IInv'
<1> DEFINE x == exec'[t]
<1>1. /\ TaskInv(t) /\ exec[t] \in Exec /\ tx[t] \in Store!Tx /\ exec \in [Task -> Exec]
      /\ faults \in Nat
  BY TaskState
<1>2. /\ exec' = [exec EXCEPT ![t].at = "failing"] /\ UNCHANGED <<job, log>>
      /\ noted \subseteq noted' /\ tx'[t] = Store!NoTx
      /\ \A u \in Task \ {t} : tx'[u] = tx[u]
  BY DEF MessageNotFound, MessageThrows, Goes, Store!CoreFindsNothing, Store!Commit,
         Store!Rollback, Store!TypeOK
<1>3. exec[t].at = "handling"
  BY <1>1 DEF MessageNotFound, MessageThrows, Store!CoreFindsNothing, Store!SnapshotIsStale,
              Store!AtCore, TaskInv, Handling
<1>4. exec' = [exec EXCEPT ![t] = x] /\ x \in Exec /\ x.at = "failing"
  BY <1>1, <1>2 DEF Exec
<1>5. faults' \in faults..MaxFaults
  BY <1>1, ConfigAssumption DEF MessageNotFound, MessageThrows, Fault, IInv, Types
<1> HIDE DEF x
<1>6. exec'[t] = x
  BY DEF x
<1>7. Placed(t)' /\ Handling(t)' /\ Listing(t)' /\ Saved(t)'
  BY <1>1, <1>2, <1>3, <1>4, <1>6 DEF TaskInv, Placed, Handling, Listing, Saved, Store!NoTx
<1>8. Verdict(t)'
  BY <1>1, <1>2, <1>3, <1>4, <1>5, <1>6, SameLog DEF TaskInv, Verdict
<1>9. QED
  BY <1>2, <1>4, <1>5, <1>7, <1>8, TaskStepKeeps

\* The stream is at its end: the task returns the verdict it has seen written.
LEMMA StreamEndsKeeps ==
    ASSUME Store!TypeOK, IInv, NEW t \in Task, StreamEnds(t)
    PROVE  IInv'
<1> DEFINE x == exec'[t]
<1>1. /\ TaskInv(t) /\ exec[t] \in Exec /\ tx[t] \in Store!Tx /\ exec \in [Task -> Exec]
      /\ faults \in Nat
  BY TaskState
<1>2. /\ exec' = [exec EXCEPT ![t].at = "settled", ![t].result = exec[t].last]
      /\ exec[t].at = "pulling" /\ exec[t].last \in {"completed", "failed"}
      /\ UNCHANGED <<table, noted, tx, job, log, faults>>
  BY DEF StreamEnds, Settles, storeVars
<1>3. /\ exec' = [exec EXCEPT ![t] = x] /\ x \in Exec
      /\ x.at = "settled" /\ x.result = exec[t].last
  BY <1>1, <1>2 DEF Exec, Event
<1> HIDE DEF x
<1>4. exec'[t] = x
  BY DEF x
<1>5. Placed(t)' /\ Handling(t)' /\ Listing(t)' /\ Saved(t)'
  BY <1>1, <1>2, <1>3, <1>4 DEF TaskInv, Placed, Handling, Listing, Saved
<1>6. Verdict(t)'
  BY <1>1, <1>2, <1>3, <1>4, SameLog DEF TaskInv, Verdict, Placed
<1>7. faults' \in faults..MaxFaults
  BY <1>1, <1>2 DEF IInv, Types
<1>8. QED
  BY <1>2, <1>3, <1>5, <1>6, <1>7, TaskStepKeeps

\* The catch block returns failed, whether or not its event could be written; if it could
\* not, and the log says completed, that is the second statement that failed.
LEMMA FailureKeeps ==
    ASSUME Store!TypeOK, IInv, NEW t \in Task,
           FailureWritten(t) \/ \E how \in FaultKinds : FailureUnwritten(t, how)
    PROVE  IInv'
<1> DEFINE x == exec'[t]
<1>1. /\ TaskInv(t) /\ exec[t] \in Exec /\ tx[t] \in Store!Tx /\ exec \in [Task -> Exec]
      /\ faults \in Nat /\ HasNewest(t) /\ log[t] \in Seq(Event \cup {"enqueued"})
      /\ log \in [Task -> Seq(Event \cup {"enqueued"})]
  BY TaskState
<1>2. /\ exec' = [exec EXCEPT ![t].at = "settled", ![t].result = "failed"]
      /\ exec[t].at = "failing"
      /\ UNCHANGED <<table, noted, tx, job>>
      /\ \/ log' = [log EXCEPT ![t] = Append(@, "failed")] /\ faults' \in {faults, faults + 1}
         \/ UNCHANGED log /\ faults' = faults + 1
  BY DEF FailureWritten, FailureUnwritten, Append1, Settles, Fault, storeVars
<1>3. faults' \in faults..MaxFaults
  BY <1>1, ConfigAssumption DEF FailureWritten, FailureUnwritten, Fault, IInv, Types
<1>4. /\ exec' = [exec EXCEPT ![t] = x] /\ x \in Exec
      /\ x.at = "settled" /\ x.result = "failed"
  BY <1>1, <1>2 DEF Exec
<1> HIDE DEF x
<1>5. exec'[t] = x
  BY DEF x
<1>6. Placed(t)' /\ Handling(t)' /\ Listing(t)'
  BY <1>1, <1>2, <1>4, <1>5 DEF TaskInv, Placed, Handling, Listing
<1>7. TaskStatus(t) = "completed" => faults > 0
  BY <1>1, <1>2 DEF TaskInv, Verdict
<1>8. job'[JobOf[t]].status \notin {"none", "skeleton", "pending"}
  BY <1>1, <1>2 DEF TaskInv, Placed
<1>9. PICK failed \in Event : failed = "failed"
  BY DEF Event
<1>10. Saved(t)' /\ Verdict(t)'
  <2>1. CASE log' = [log EXCEPT ![t] = Append(@, "failed")]
    <3>1. log'[t] = Append(log[t], failed)
      BY <1>1, <1>9, <2>1
    <3>2. /\ TaskStatus(t)' = "failed"
          /\ (\E i \in DOMAIN log'[t] : log'[t][i] = "completed") =>
               \E i \in DOMAIN log[t] : log[t][i] = "completed"
      BY <1>1, <1>9, <3>1, AppendedLog
    <3>3. Saved(t)'
      BY <1>1, <1>2, <3>2 DEF TaskInv, Saved
    <3>4. Verdict(t)'
      BY <1>4, <1>5, <1>8, <3>2 DEF Verdict
    <3>5. QED
      BY <3>3, <3>4
  <2>2. CASE UNCHANGED log /\ faults' = faults + 1
    <3>1. TaskStatus(t)' = TaskStatus(t) /\ Saved(t)'
      BY <1>1, <1>2, <2>2, SameLog DEF TaskInv, Saved
    <3>2. QED
      BY <1>1, <1>4, <1>5, <1>7, <1>8, <2>2, <3>1 DEF Verdict
  <2>3. QED
    BY <1>2, <2>1, <2>2
<1>11. UNCHANGED log \/ \E event \in Event : log' = [log EXCEPT ![t] = Append(@, event)]
  BY <1>2, <1>9
<1>12. noted \subseteq noted' /\ UNCHANGED job /\ \A u \in Task \ {t} : tx'[u] = tx[u]
  BY <1>2
<1>13. QED
  BY <1>3, <1>4, <1>6, <1>10, <1>11, <1>12, TaskStepKeeps

LEMMA TaskKeeps == ASSUME Store!TypeOK, IInv, NEW t \in Task, TaskStep(t) PROVE IInv'
<1>1. CASE StartTask(t) \/ AccountLoaded(t) \/ AccountUnusable(t) \/ AdapterThrows(t)
  BY <1>1, GoesKeeps
<1>2. CASE \E event \in {"started", "auth", "completed", "failed"} : Yields(t, event)
  BY <1>2, YieldsKeeps
<1>3. CASE \E m \in Message : YieldsMessage(t, m)
  BY <1>3, YieldsMessageKeeps
<1>4. CASE EventWritten(t) \/ MessageStatement(t) \/ MessageWritten(t) \/ StreamEnds(t)
  BY <1>4, EventWrittenKeeps, MessageStatementKeeps, MessageWrittenKeeps, StreamEndsKeeps
<1>5. CASE MessageNotFound(t) \/ \E how \in FaultKinds : MessageThrows(t, how)
  BY <1>5, MessageFailsKeeps
<1>6. CASE FailureWritten(t) \/ \E how \in FaultKinds : FailureUnwritten(t, how)
  BY <1>6, FailureKeeps
<1>7. CASE \E how \in FaultKinds : EventThrows(t, how)
  BY <1>7, EventThrowsKeeps
<1>8. QED
  BY <1>1, <1>2, <1>3, <1>4, <1>5, <1>6, <1>7 DEF TaskStep

-----------------------------------------------------------------------------
(* The steps of a job.                                                      *)

\* A step of a job that concerns its own tasks only.
LEMMA JobStepKeeps ==
    ASSUME Store!TypeOK, IInv, NEW j \in Job, NEW x \in JobState,
           job' = [job EXCEPT ![j] = x],
           x.status \in {"none", "skeleton", "pending"} => x.attempts < MaxAttempts,
           \A t \in Task \ Tasks(j) : exec'[t] = exec[t] /\ tx'[t] = tx[t] /\ log'[t] = log[t],
           exec' \in [Task -> Exec], log' \in [Task -> Seq(Event \cup {"enqueued"})],
           UNCHANGED noted, faults' \in faults..MaxFaults,
           \A t \in Tasks(j) : TaskInv(t)'
    PROVE  IInv'
<1>1. job \in [Job -> JobState] /\ faults \in 0..MaxFaults
  BY DEF IInv, Types
<1>2. Types'
  BY <1>1, ConfigAssumption DEF Types
<1>3. Deliverable'
  BY <1>1 DEF IInv, Deliverable
<1>4. ASSUME NEW t \in Task \ Tasks(j) PROVE TaskInv(t)'
  <2>1. JobOf[t] \in Job \ {j} /\ t \in Task
    BY ConfigAssumption DEF Tasks
  <2>2. job'[JobOf[t]].status = job[JobOf[t]].status
    BY <1>1, <2>1
  <2>3. faults \in Nat /\ faults' \in Nat /\ faults <= faults' /\ noted \subseteq noted'
    BY <1>1, ConfigAssumption
  <2>4. TaskInv(t) /\ exec'[t] = exec[t] /\ tx'[t] = tx[t] /\ log'[t] = log[t]
    BY <2>1 DEF IInv
  <2>5. QED
    BY <2>1, <2>2, <2>3, <2>4, OthersKeep
<1>5. QED
  BY <1>2, <1>3, <1>4 DEF IInv

LEMMA JobOfTask ==
    ASSUME Store!TypeOK, IInv, NEW j \in Job
    PROVE  /\ job \in [Job -> JobState] /\ job[j] \in JobState
           /\ exec \in [Task -> Exec] /\ log \in [Task -> Seq(Event \cup {"enqueued"})]
           /\ \A t \in Tasks(j) : t \in Task /\ JobOf[t] = j /\ TaskInv(t)
           /\ faults \in Nat
  BY TaskState, ConfigAssumption DEF IInv, Types, Tasks

\* The skeleton: a log that tells nothing.
LEMMA SkeletonKeeps ==
    ASSUME Store!TypeOK, IInv, NEW j \in Job, CreateSyncJob(j) PROVE IInv'
<1> DEFINE x == job'[j]
<1>1. /\ job \in [Job -> JobState] /\ job[j] \in JobState /\ faults \in Nat
      /\ exec \in [Task -> Exec] /\ log \in [Task -> Seq(Event \cup {"enqueued"})]
      /\ \A t \in Tasks(j) : t \in Task /\ JobOf[t] = j /\ TaskInv(t)
  BY JobOfTask
<1>2. /\ job[j].status = "none" /\ job' = [job EXCEPT ![j].status = "skeleton"]
      /\ log' = [t \in Task |-> IF t \in Tasks(j) THEN <<"enqueued">> ELSE log[t]]
      /\ UNCHANGED <<table, noted, tx, exec, faults>>
  BY DEF CreateSyncJob, storeVars
<1>3. /\ job' = [job EXCEPT ![j] = x] /\ x \in JobState
      /\ x.status = "skeleton" /\ x.attempts = job[j].attempts
  BY <1>1, <1>2 DEF JobState
<1>4. x.attempts < MaxAttempts
  BY <1>2, <1>3 DEF IInv, Deliverable
<1> HIDE DEF x
<1>5. job'[j] = x
  BY DEF x
<1>6. ASSUME NEW t \in Tasks(j) PROVE TaskInv(t)'
  <2>1. t \in Task /\ JobOf[t] = j /\ TaskInv(t) /\ log'[t] = <<"enqueued">>
    BY <1>1, <1>2
  <2>2. exec'[t].at = "idle" /\ tx'[t].at = "idle"
    BY <1>2, <2>1 DEF TaskInv, Placed, Handling
  <2>3. HasNewest(t)' /\ TaskStatus(t)' = "running" /\ Saved(t)'
    BY <2>1 DEF HasNewest, TaskStatus, Terminals, Saved
  <2>4. Placed(t)' /\ Handling(t)' /\ Listing(t)' /\ Verdict(t)'
    BY <1>3, <1>5, <2>1, <2>2, <2>3 DEF Placed, Handling, Listing, Verdict
  <2>5. QED
    BY <2>3, <2>4 DEF TaskInv
<1>7. log' \in [Task -> Seq(Event \cup {"enqueued"})]
  <2>1. <<"enqueued">> \in Seq(Event \cup {"enqueued"})
    OBVIOUS
  <2>2. QED
    BY <1>1, <1>2, <2>1
<1>8. \A t \in Task \ Tasks(j) : exec'[t] = exec[t] /\ tx'[t] = tx[t] /\ log'[t] = log[t]
  BY <1>2
<1>9. faults' \in faults..MaxFaults /\ UNCHANGED noted /\ exec' \in [Task -> Exec]
  BY <1>1, <1>2 DEF IInv, Types
<1>10. QED
  BY <1>3, <1>4, <1>6, <1>7, <1>8, <1>9, JobStepKeeps

\* The job changes its place, and its tasks do not stir: enqueued, returned, or settled.
LEMMA PlaceKeeps ==
    ASSUME Store!TypeOK, IInv, NEW j \in Job,
           EnqueueSync(j) \/ RanHere(j) \/ Completes(j)
           \/ \E how \in FaultKinds : CompleteThrows(j, how)
    PROVE  IInv'
<1> DEFINE x == job'[j]
<1>1. /\ job \in [Job -> JobState] /\ job[j] \in JobState /\ faults \in Nat
      /\ exec \in [Task -> Exec] /\ log \in [Task -> Seq(Event \cup {"enqueued"})]
      /\ \A t \in Tasks(j) : t \in Task /\ JobOf[t] = j /\ TaskInv(t)
  BY JobOfTask
<1>2. UNCHANGED <<table, noted, tx, log, exec>>
  BY DEF EnqueueSync, RanHere, Completes, CompleteThrows, Ends, storeVars
<1>3. PICK to \in {"pending", "ran", "completed", "dead"} :
        /\ job' = [job EXCEPT ![j].status = to]
        /\ \/ job[j].status = "skeleton" /\ to = "pending" /\ faults' = faults
           \/ AllSettled(j) /\ to \in {"ran", "completed"} /\ faults' = faults
           \/ /\ AllSettled(j) /\ to \in {"pending", "dead"}
              /\ to = "pending" => job[j].attempts < MaxAttempts
              /\ faults < MaxFaults /\ faults' = faults + 1
  BY DEF EnqueueSync, RanHere, Completes, CompleteThrows, Ends, Fault
<1>4. /\ job' = [job EXCEPT ![j] = x] /\ x \in JobState
      /\ x.status = to /\ x.attempts = job[j].attempts
  BY <1>1, <1>3 DEF JobState
<1>5. x.status \in {"none", "skeleton", "pending"} => x.attempts < MaxAttempts
  BY <1>3, <1>4 DEF IInv, Deliverable
<1> HIDE DEF x
<1>6. job'[j] = x
  BY DEF x
<1>7. ASSUME NEW t \in Tasks(j) PROVE TaskInv(t)'
  <2>1. /\ t \in Task /\ JobOf[t] = j /\ TaskInv(t) /\ UNCHANGED <<exec[t], tx[t], log[t]>>
        /\ exec[t].at = "settled" \/ (job[j].status = "skeleton" /\ to = "pending")
    BY <1>1, <1>2, <1>3 DEF AllSettled
  <2>2. Placed(t)' /\ Handling(t)' /\ Listing(t)' /\ Saved(t)'
    BY <1>2, <1>3, <1>4, <1>6, <2>1
       DEF TaskInv, Placed, Handling, Listing, Accounted, Saved
  <2>3. HasNewest(t)' /\ Verdict(t)'
    BY <1>1, <1>3, <1>4, <1>6, <2>1, SameLog DEF TaskInv, Verdict, Placed
  <2>4. QED
    BY <2>2, <2>3 DEF TaskInv
<1>8. faults' \in faults..MaxFaults
  BY <1>1, <1>3, ConfigAssumption DEF IInv, Types
<1>9. /\ exec' \in [Task -> Exec] /\ log' \in [Task -> Seq(Event \cup {"enqueued"})]
      /\ \A t \in Task \ Tasks(j) : exec'[t] = exec[t] /\ tx'[t] = tx[t] /\ log'[t] = log[t]
      /\ UNCHANGED noted
  <2>1. exec' = exec /\ log' = log /\ tx' = tx /\ noted' = noted
    BY <1>2
  <2>2. QED
    BY <1>1, <2>1
<1>10. QED
  BY <1>4, <1>5, <1>7, <1>8, <1>9, JobStepKeeps

\* A run begins with every task parked, and nothing open in the store.
LEMMA BeginsKeeps ==
    ASSUME Store!TypeOK, IInv, NEW j \in Job, RunHere(j) \/ Deliver(j)
    PROVE  IInv'
<1> DEFINE x == job'[j]
<1> DEFINE parked == [NoExec EXCEPT !.at = "waiting"]
<1>1. /\ job \in [Job -> JobState] /\ job[j] \in JobState /\ faults \in Nat
      /\ exec \in [Task -> Exec] /\ log \in [Task -> Seq(Event \cup {"enqueued"})]
      /\ \A t \in Tasks(j) : t \in Task /\ JobOf[t] = j /\ TaskInv(t)
  BY JobOfTask
<1>2. /\ UNCHANGED <<table, noted, tx, log, faults>>
      /\ job[j].status \in {"skeleton", "pending"}
      /\ exec' = [t \in Task |-> IF t \in Tasks(j) THEN parked ELSE exec[t]]
  BY DEF RunHere, Deliver, Begins, storeVars
<1>3. PICK to \in {"here", "processing"} :
        job' = [job EXCEPT ![j].status = to,
                           ![j].attempts = IF to = "here" THEN @ ELSE @ + 1]
  BY DEF RunHere, Deliver, Begins
<1>4. job[j].attempts \in 0..MaxAttempts /\ job[j].attempts < MaxAttempts
  BY <1>1, <1>2 DEF IInv, Deliverable, JobState
<1>5. job' = [job EXCEPT ![j] = x] /\ x \in JobState /\ x.status = to
  <2>1. job[j].attempts + 1 \in 0..MaxAttempts
    BY <1>4, ConfigAssumption
  <2>2. QED
    BY <1>1, <1>3, <1>4, <2>1 DEF JobState
<1> HIDE DEF x
<1>6. job'[j] = x
  BY DEF x
<1>7. /\ parked \in Exec /\ parked.at = "waiting" /\ parked.last = "none"
  BY DEF NoExec, Exec, Event
<1> HIDE DEF parked
<1>8. ASSUME NEW t \in Tasks(j) PROVE TaskInv(t)'
  <2>1. t \in Task /\ JobOf[t] = j /\ TaskInv(t) /\ exec'[t] = parked
    BY <1>1, <1>2
  <2>2. tx[t].at = "idle"
    BY <1>2, <2>1 DEF TaskInv, Placed, Handling
  <2>3. Placed(t)' /\ Handling(t)' /\ Listing(t)' /\ Saved(t)'
    BY <1>2, <1>5, <1>6, <1>7, <2>1, <2>2 DEF TaskInv, Placed, Handling, Listing, Saved
  <2>4. HasNewest(t)' /\ Verdict(t)'
    BY <1>2, <1>5, <1>6, <1>7, <2>1, SameLog DEF TaskInv, Verdict
  <2>5. QED
    BY <2>3, <2>4 DEF TaskInv
<1>9. /\ exec' \in [Task -> Exec] /\ log' \in [Task -> Seq(Event \cup {"enqueued"})]
      /\ \A t \in Task \ Tasks(j) : exec'[t] = exec[t] /\ tx'[t] = tx[t] /\ log'[t] = log[t]
      /\ UNCHANGED noted
  BY <1>1, <1>2, <1>7
<1>10. faults' \in faults..MaxFaults
  BY <1>1, <1>2 DEF IInv, Types
<1>11. QED
  BY <1>5, <1>8, <1>9, <1>10, JobStepKeeps

\* A process that dies takes its tasks and their transactions with it; the log and what
\* is committed stay.
LEMMA DiesKeeps ==
    ASSUME Store!TypeOK, IInv, NEW j \in Job, Dies(j) PROVE IInv'
<1> DEFINE x == job'[j]
<1>1. /\ job \in [Job -> JobState] /\ job[j] \in JobState /\ faults \in Nat
      /\ exec \in [Task -> Exec] /\ log \in [Task -> Seq(Event \cup {"enqueued"})]
      /\ \A t \in Tasks(j) : t \in Task /\ JobOf[t] = j /\ TaskInv(t)
  BY JobOfTask
<1>2. /\ job' = [job EXCEPT ![j].status = "orphan"]
      /\ exec' = [t \in Task |-> IF t \in Tasks(j) THEN NoExec ELSE exec[t]]
      /\ tx' = [t \in Task |-> IF t \in Tasks(j) THEN Store!NoTx ELSE tx[t]]
      /\ UNCHANGED <<table, noted, log, faults>>
  BY DEF Dies, Store!Rollback
<1>3. job' = [job EXCEPT ![j] = x] /\ x \in JobState /\ x.status = "orphan"
  BY <1>1, <1>2 DEF JobState
<1> HIDE DEF x
<1>4. job'[j] = x
  BY DEF x
<1>5. NoExec \in Exec /\ NoExec.at = "idle" /\ Store!NoTx.at = "idle"
  BY DEF NoExec, Exec, Event, Store!NoTx
<1>6. ASSUME NEW t \in Tasks(j) PROVE TaskInv(t)'
  <2>1. t \in Task /\ JobOf[t] = j /\ TaskInv(t) /\ exec'[t].at = "idle" /\ tx'[t].at = "idle"
    BY <1>1, <1>2, <1>5
  <2>2. Placed(t)' /\ Handling(t)' /\ Listing(t)' /\ Saved(t)'
    BY <1>2, <1>3, <1>4, <2>1 DEF TaskInv, Placed, Handling, Listing, Saved
  <2>3. HasNewest(t)' /\ Verdict(t)'
    BY <1>2, <1>3, <1>4, <2>1, SameLog DEF TaskInv, Verdict
  <2>4. QED
    BY <2>2, <2>3 DEF TaskInv
<1>7. /\ exec' \in [Task -> Exec] /\ log' \in [Task -> Seq(Event \cup {"enqueued"})]
      /\ \A t \in Task \ Tasks(j) : exec'[t] = exec[t] /\ tx'[t] = tx[t] /\ log'[t] = log[t]
      /\ UNCHANGED noted
  BY <1>1, <1>2, <1>5
<1>8. faults' \in faults..MaxFaults
  BY <1>1, <1>2 DEF IInv, Types
<1>9. QED
  BY <1>3, <1>6, <1>7, <1>8, JobStepKeeps

LEMMA SyncKeeps == ASSUME Store!TypeOK, IInv, [Next]_vars PROVE IInv'
<1>1. CASE \E j \in Job : CreateSyncJob(j) \/ EnqueueSync(j) \/ RunHere(j) \/ Dies(j)
  BY <1>1, SkeletonKeeps, PlaceKeeps, BeginsKeeps, DiesKeeps
<1>2. CASE \E j \in Job : JobStep(j)
  BY <1>2, BeginsKeeps, PlaceKeeps DEF JobStep
<1>3. CASE \E t \in Task : TaskStep(t)
  BY <1>3, TaskKeeps
<1>4. CASE UNCHANGED vars
  <2>1. UNCHANGED <<job, log, exec, faults, tx, noted>>
    BY <1>4 DEF vars
  <2>2. Types' /\ Deliverable'
    BY <2>1 DEF IInv, Types, Deliverable
  <2>3. ASSUME NEW t \in Task PROVE TaskInv(t)'
    <3>1. TaskInv(t) /\ faults \in Nat
      BY TaskState
    <3>2. QED
      BY <2>1, <3>1, OthersKeep
  <2>4. QED
    BY <2>2, <2>3 DEF IInv
<1>5. QED
  BY <1>1, <1>2, <1>3, <1>4 DEF Next

LEMMA SyncInvariant == Spec => []IInv /\ []Store!TypeOK /\ []NotedIsStored
  BY SyncInit, SyncKeeps, SyncImplementsStore, StoreTypes, StoreNotedIsStored, PTL DEF Spec

-----------------------------------------------------------------------------
(* The theorems of the executor.                                            *)

\* The variables of the executor have their types.
THEOREM SyncTypes == Spec => []TypeOK
<1>1. IInv /\ Store!TypeOK => TypeOK
  BY DEF IInv, Types, TypeOK
<1>2. QED
  BY <1>1, SyncInvariant, PTL

\* A task whose status folds to completed has stored its whole listing (handler.ts:146),
\* however many syncs share the account and whatever fails: its completed event is
\* written only when every message has been noted, and none is noted unstored.
THEOREM SyncCompletedMeansStored == Spec => []CompletedMeansStored
<1>1. ASSUME IInv, Store!TypeOK, NotedIsStored PROVE CompletedMeansStored
  <2> SUFFICES ASSUME NEW t \in Task, TaskStatus(t) = "completed", NEW m \in Message
               PROVE  <<t, m>> \in noted /\ m \in table.raw
    BY DEF CompletedMeansStored
  <2>1. TaskInv(t) /\ HasNewest(t) /\ log[t] \in Seq(Event \cup {"enqueued"})
    BY <1>1, TaskState
  <2>2. \E i \in DOMAIN log[t] : log[t][i] = "completed"
    BY <2>1, CompletedIsLogged
  <2>3. <<t, m>> \in noted
    BY <2>1, <2>2 DEF TaskInv, Saved
  <2>4. QED
    BY <1>1, <2>3 DEF NotedIsStored
<1>2. QED
  BY <1>1, SyncInvariant, PTL

\* The verdict that a task returns and the status its log folds to differ only by the
\* statements that failed, over any number of deliveries (handler.ts:176).
THEOREM SyncVerdictLogged == Spec => []VerdictLogged
<1>1. ASSUME IInv, Store!TypeOK PROVE VerdictLogged
  <2>1. TypeOK
    BY <1>1 DEF IInv, Types, TypeOK
  <2>2. \A t \in Task : Verdict(t)
    BY <1>1 DEF IInv, TaskInv
  <2>3. QED
    BY <2>1, <2>2 DEF VerdictLogged, Verdict
<1>2. QED
  BY <1>1, SyncInvariant, PTL

\* The rollup over the tasks keeps that agreement: a job that returns completed has the
\* status completed, and one that the queue has completed without a fault has a verdict
\* for every task (get-sync-job-result.ts:20).
THEOREM SyncRollupAgrees == Spec => []RollupAgrees
<1>1. ASSUME IInv, Store!TypeOK PROVE RollupAgrees
  <2> SUFFICES ASSUME NEW j \in Job
               PROVE  /\ AllSettled(j) /\ Result(j) = "completed" => JobStatus(j) = "completed"
                      /\ job[j].status = "completed" /\ faults = 0 =>
                           /\ \A t \in Tasks(j) : TaskStatus(t) # "running"
                           /\ Result(j) = "failed" => JobStatus(j) \in {"partial", "failed"}
    BY DEF RollupAgrees
  <2> DEFINE statuses == {TaskStatus(t) : t \in Tasks(j)}
  <2>1. /\ Tasks(j) # {}
        /\ \A t \in Tasks(j) : t \in Task /\ JobOf[t] = j /\ Placed(t) /\ Verdict(t)
    BY <1>1, ConfigAssumption DEF Tasks, IInv, TaskInv
  <2>2. ASSUME AllSettled(j), Result(j) = "completed" PROVE JobStatus(j) = "completed"
    <3>1. \A t \in Tasks(j) : TaskStatus(t) = "completed"
      BY <2>1, <2>2 DEF AllSettled, Result, Verdict
    <3>2. statuses = {"completed"}
      BY <2>1, <3>1
    <3>3. QED
      BY <3>2 DEF JobStatus
  <2>3. ASSUME job[j].status = "completed", faults = 0
        PROVE  /\ \A t \in Tasks(j) : TaskStatus(t) # "running"
               /\ Result(j) = "failed" => JobStatus(j) \in {"partial", "failed"}
    <3>1. \A t \in Tasks(j) : /\ exec[t].result \in {"completed", "failed"}
                              /\ TaskStatus(t) = exec[t].result
      BY <2>1, <2>3 DEF Placed, Verdict
    <3>2. ASSUME Result(j) = "failed" PROVE JobStatus(j) \in {"partial", "failed"}
      <4>1. PICK t \in Tasks(j) : TaskStatus(t) = "failed"
        BY <3>1, <3>2 DEF Result
      <4>2. "failed" \in statuses /\ statuses # {"completed"}
        BY <4>1
      <4>3. QED
        BY <4>2 DEF JobStatus
    <3>3. QED
      BY <3>1, <3>2
  <2>4. QED
    BY <2>2, <2>3
<1>2. QED
  BY <1>1, SyncInvariant, PTL
-----------------------------------------------------------------------------
(* Sync jobs as the queue's jobs.                                           *)

\* The deliveries that a job's state tells of: none before it is in the queue, and one at
\* least when a worker has it.
Counted ==
    \A j \in Job :
        /\ job[j].status \in {"none", "skeleton", "here", "ran"} => job[j].attempts = 0
        /\ job[j].status = "processing" => job[j].attempts # 0

\* The steps of a job from one entry to another.
Moves(e, x) ==
    \/ e.status = "none" /\ x.status = "skeleton" /\ x.attempts = e.attempts
    \/ e.status = "skeleton" /\ x.status \in {"pending", "here"} /\ x.attempts = e.attempts
    \/ e.status = "here" /\ x.status = "ran" /\ x.attempts = e.attempts
    \/ e.status = "pending" /\ x.status = "processing" /\ x.attempts = e.attempts + 1
    \/ e.status = "processing" /\ x.status \in {"completed", "dead"} /\ x.attempts = e.attempts
    \/ /\ e.status = "processing" /\ x.status = "pending" /\ x.attempts = e.attempts
       /\ e.attempts < MaxAttempts
    \/ /\ e.status \in {"skeleton", "here", "processing"} /\ x.status = "orphan"
       /\ x.attempts = e.attempts

\* A step of the executor leaves the jobs alone, or moves one of them.
LEMMA JobMoves ==
    ASSUME IInv, [Next]_vars
    PROVE  \/ job' = job
           \/ \E j \in Job : \E x \in JobState :
                job' = [job EXCEPT ![j] = x] /\ Moves(job[j], x)
<1>0. job \in [Job -> JobState]
  BY DEF IInv, Types
<1>1. ASSUME NEW j \in Job, NEW to \in {"skeleton", "pending", "here", "ran", "completed",
                                        "dead", "orphan"},
             job' = [job EXCEPT ![j].status = to],
             \/ job[j].status = "none" /\ to = "skeleton"
             \/ job[j].status = "skeleton" /\ to \in {"pending", "here", "orphan"}
             \/ job[j].status = "here" /\ to \in {"ran", "orphan"}
             \/ job[j].status = "processing" /\ to \in {"completed", "dead", "orphan"}
             \/ /\ job[j].status = "processing" /\ to = "pending"
                /\ job[j].attempts < MaxAttempts
      PROVE  \E x \in JobState : job' = [job EXCEPT ![j] = x] /\ Moves(job[j], x)
  <2> DEFINE x == [job[j] EXCEPT !.status = to]
  <2>1. x \in JobState /\ x.status = to /\ x.attempts = job[j].attempts
    BY <1>0 DEF JobState
  <2>2. job' = [job EXCEPT ![j] = x]
    BY <1>0, <1>1
  <2> HIDE DEF x
  <2>3. Moves(job[j], x)
    BY <1>1, <2>1 DEF Moves
  <2>4. QED
    BY <2>1, <2>2, <2>3
<1>2. ASSUME NEW j \in Job, CreateSyncJob(j) \/ EnqueueSync(j) \/ Dies(j)
      PROVE  \E x \in JobState : job' = [job EXCEPT ![j] = x] /\ Moves(job[j], x)
  BY <1>1, <1>2 DEF CreateSyncJob, EnqueueSync, Dies
<1>3. ASSUME NEW j \in Job, RunHere(j)
      PROVE  \E x \in JobState : job' = [job EXCEPT ![j] = x] /\ Moves(job[j], x)
  <2>1. job[j].status = "skeleton" /\ job' = [job EXCEPT ![j].status = "here"]
    BY <1>0, <1>3 DEF RunHere, Begins
  <2>2. QED
    BY <1>1, <2>1
<1>4. ASSUME NEW j \in Job,
             RanHere(j) \/ Completes(j) \/ \E how \in FaultKinds : CompleteThrows(j, how)
      PROVE  \E x \in JobState : job' = [job EXCEPT ![j] = x] /\ Moves(job[j], x)
  BY <1>1, <1>4 DEF RanHere, Completes, CompleteThrows, Ends
<1>5. ASSUME NEW j \in Job, Deliver(j)
      PROVE  \E x \in JobState : job' = [job EXCEPT ![j] = x] /\ Moves(job[j], x)
  <2> DEFINE x == [status |-> "processing", attempts |-> job[j].attempts + 1]
  <2>1. job[j].status = "pending" /\ job[j].attempts \in 0..MaxAttempts
        /\ job[j].attempts < MaxAttempts
    BY <1>0, <1>5 DEF Deliver, IInv, Deliverable, JobState
  <2>2. x \in JobState
    BY <2>1, ConfigAssumption DEF JobState
  <2>3. job' = [job EXCEPT ![j] = x]
    BY <1>0, <1>5 DEF Deliver, Begins, JobState
  <2>4. Moves(job[j], x)
    BY <2>1 DEF Moves
  <2>5. QED
    BY <2>2, <2>3, <2>4
<1>6. ASSUME NEW t \in Task, TaskStep(t) PROVE job' = job
  BY <1>6 DEF TaskStep, StartTask, AccountLoaded, AccountUnusable, Yields, YieldsMessage,
              EventWritten, EventThrows, MessageStatement, MessageWritten, MessageNotFound,
              MessageThrows, AdapterThrows, StreamEnds, FailureWritten, FailureUnwritten
<1>7. QED
  BY <1>2, <1>3, <1>4, <1>5, <1>6 DEF Next, JobStep, vars

LEMMA CountedKeeps == ASSUME IInv, Counted, [Next]_vars PROVE Counted'
<1>1. job \in [Job -> JobState]
  BY DEF IInv, Types
<1>2. CASE job' = job
  BY <1>2 DEF Counted
<1>3. ASSUME NEW j \in Job, NEW x \in JobState, job' = [job EXCEPT ![j] = x], Moves(job[j], x)
      PROVE  Counted'
  <2>1. /\ x.status \in {"none", "skeleton", "here", "ran"} => x.attempts = 0
        /\ x.status = "processing" => x.attempts # 0
    BY <1>1, <1>3, ConfigAssumption DEF Counted, Moves, JobState
  <2>2. QED
    BY <1>1, <1>3, <2>1 DEF Counted
<1>4. QED
  BY <1>2, <1>3, JobMoves

\* What such a move is to the queue: a step of JobLifecycle, or nothing.
LEMMA JobsUseQueue ==
    ASSUME IInv, Counted, [Next]_vars
    PROVE  Queue!Next \/ UNCHANGED QueueJobs
<1>1. job \in [Job -> JobState]
  BY DEF IInv, Types
<1>2. CASE job' = job
  BY <1>2 DEF QueueJobs, QueueStatus
<1>3. ASSUME NEW j \in Job, NEW x \in JobState, job' = [job EXCEPT ![j] = x], Moves(job[j], x)
      PROVE  Queue!Next \/ UNCHANGED QueueJobs
  <2> DEFINE e == job[j]
  <2>1. e \in JobState /\ job'[j] = x
    BY <1>1, <1>3
  <2>2. PICK from, to : from = QueueStatus(j) /\ to = QueueStatus(j)'
    OBVIOUS
  <2>3. /\ QueueJobs = [i \in Job |-> [status |-> QueueStatus(i), attempts |-> job[i].attempts]]
        /\ QueueJobs[j] = [status |-> from, attempts |-> e.attempts]
    BY <2>2 DEF QueueJobs
  <2>4. \A i \in Job \ {j} : QueueStatus(i)' = QueueStatus(i) /\ job'[i] = job[i]
    BY <1>1, <1>3 DEF QueueStatus
  <2>5. QueueJobs' = [QueueJobs EXCEPT ![j] = [status |-> to, attempts |-> x.attempts]]
    BY <2>1, <2>2, <2>3, <2>4 DEF QueueJobs
  <2>6. /\ e.status \in {"none", "skeleton", "here"} => e.attempts = 0
        /\ e.status = "processing" => e.attempts # 0
        /\ e.status \in {"skeleton", "pending"} => e.attempts < MaxAttempts
    BY DEF IInv, Deliverable, Counted
  <2>7. \/ to = from /\ x.attempts = e.attempts
        \/ from = "absent" /\ to = "pending" /\ x.attempts = e.attempts
        \/ /\ from = "pending" /\ to = "processing" /\ x.attempts = e.attempts + 1
           /\ e.attempts < MaxAttempts
        \/ from = "processing" /\ to \in {"completed", "dead"} /\ x.attempts = e.attempts
        \/ /\ from = "processing" /\ to = "pending" /\ x.attempts = e.attempts
           /\ e.attempts < MaxAttempts
    BY <1>3, <2>1, <2>2, <2>6, ConfigAssumption DEF Moves, QueueStatus, JobState
  <2> HIDE DEF e
  <2>8. CASE to = from /\ x.attempts = e.attempts
    BY <2>3, <2>5, <2>8
  <2>9. ASSUME x.attempts = e.attempts
        PROVE  QueueJobs' = [QueueJobs EXCEPT ![j].status = to] /\ QueueJobs[j].status = from
    BY <2>3, <2>5, <2>9
  <2>10. CASE from = "absent" /\ to = "pending" /\ x.attempts = e.attempts
    BY <2>9, <2>10 DEF Queue!Next, Queue!Submit, Queue!Verdict
  <2>11. CASE from = "processing" /\ to = "completed" /\ x.attempts = e.attempts
    BY <2>9, <2>11 DEF Queue!Next, Queue!Succeed, Queue!Verdict
  <2>12. CASE from = "processing" /\ to = "dead" /\ x.attempts = e.attempts
    BY <2>9, <2>12 DEF Queue!Next, Queue!Bury, Queue!Verdict
  <2>13. CASE /\ from = "processing" /\ to = "pending" /\ x.attempts = e.attempts
              /\ e.attempts < MaxAttempts
    BY <2>3, <2>9, <2>13 DEF Queue!Next, Queue!Retry, Queue!Verdict
  <2>14. CASE /\ from = "pending" /\ to = "processing" /\ x.attempts = e.attempts + 1
              /\ e.attempts < MaxAttempts
    <3>1. QueueJobs[j].status = "pending" /\ QueueJobs[j].attempts = e.attempts
      BY <2>3, <2>14
    <3>2. QueueJobs' = [i \in Job |->
            IF i \in {j} THEN [status |-> "processing", attempts |-> QueueJobs[i].attempts + 1]
                         ELSE QueueJobs[i]]
      BY <2>3, <2>5, <2>14, <3>1
    <3>3. Queue!Deliver({j})
      BY <2>14, <3>1, <3>2 DEF Queue!Deliver
    <3>4. {j} \in SUBSET Job
      OBVIOUS
    <3>5. QED
      BY <3>3, <3>4 DEF Queue!Next
  <2>15. QED
    BY <2>7, <2>8, <2>10, <2>11, <2>12, <2>13, <2>14
<1>4. QED
  BY <1>2, <1>3, JobMoves

\* Sync jobs take the queue as JobLifecycle, which the consumer implements, describes it:
\* whatever fails and whoever dies, a job is delivered only while attempts remain, a delivery
\* ends in one verdict, and a worker that dies leaves its job processing.
THEOREM SyncImplementsLifecycle == Spec => ImplementsJobLifecycle
<1>1. Init => Counted /\ Queue!Init
  BY DEF Init, Counted, Queue!Init, QueueJobs, QueueStatus
<1>2. IInv /\ Counted /\ [Next]_vars => Counted'
  BY CountedKeeps
<1>3. IInv /\ Counted /\ [Next]_vars => [Queue!Next]_<<QueueJobs, {}>>
  BY JobsUseQueue
<1>4. QED
  BY <1>1, <1>2, <1>3, SyncInvariant, PTL DEF Spec, ImplementsJobLifecycle, Queue!Spec, Queue!vars
================================================================================
