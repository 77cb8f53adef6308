-------------------------------- MODULE TxContext --------------------------------
(***************************************************************************)
(* The transactions of packages/backend/libs/db: runInOrgTx() and runInTx()*)
(* (src/tx.ts) over the pool of connections.                               *)
(*                                                                         *)
(* A task calls a decorated operation, and what that operation does may    *)
(* call others: its calls are a stack.  The lowest opens a transaction on  *)
(* a connection of the pool and, for an org, sets the org for as long as   *)
(* the transaction lasts; those above it find the transaction in the async *)
(* context (the call below them) and join it, or throw.  Every caller in   *)
(* the repository awaits the calls it makes, so a call ends after those    *)
(* above it.                                                               *)
(***************************************************************************)
EXTENDS Naturals, Sequences

CONSTANTS Task, Conn, Org,
          NoOrg,              \* runInTx(), and a connection with no org set
          NoTask, NoConn,
          MaxDepth            \* bound: calls on a stack

ASSUME TxAssumption ==
    NoOrg \notin Org /\ NoTask \notin Task /\ NoConn \notin Conn /\ MaxDepth \in Nat

VARIABLES
    stack,     \* of each task, its calls in progress
    conn,      \* of each connection, whose it is, the org set, a failed transaction
    wrote,     \* tasks whose transaction has written
    durable,   \* tasks whose writes are committed
    reported   \* what the task's last lowest call returned

txVars == <<stack, conn, wrote, durable, reported>>

\* opens: the call opened the transaction.  at: "waiting" for a connection, "begun"
\* before the org is set, "running" its operation, or "throwing".
Frame == [org : Org \cup {NoOrg}, conn : Conn \cup {NoConn}, opens : BOOLEAN,
          at : {"waiting", "begun", "running", "throwing"}]

Free == [task |-> NoTask, org |-> NoOrg, failed |-> FALSE]

TxInit ==
    /\ stack = [t \in Task |-> <<>>]
    /\ conn = [c \in Conn |-> Free]
    /\ wrote = {} /\ durable = {}
    /\ reported = [t \in Task |-> "nothing"]

-----------------------------------------------------------------------------

Depth(t) == Len(stack[t])
Top(t) == stack[t][Depth(t)]
TopIs(t, at) == Depth(t) > 0 /\ Top(t).at = at

Lowest(t, frame) == stack' = [stack EXCEPT ![t] = <<frame>>]
Above(t, frame) == stack' = [stack EXCEPT ![t] = Append(@, frame)]
Turns(t, at) == stack' = [stack EXCEPT ![t][Depth(t)].at = at]

Waiting(org) == [org |-> org, conn |-> NoConn, opens |-> TRUE, at |-> "waiting"]

\* A call where there is no ambient transaction.
Calls(t, org) ==
    /\ Depth(t) = 0
    /\ Lowest(t, Waiting(org))
    /\ wrote' = wrote \ {t} /\ durable' = durable \ {t}
    /\ reported' = [reported EXCEPT ![t] = "nothing"]
    /\ UNCHANGED conn

MayCall(t) == TopIs(t, "running") /\ Depth(t) < MaxDepth

\* Seeded fault: the ambient transaction is not looked up.
OpensAnother(t, org) ==
    /\ MayCall(t)
    /\ Above(t, Waiting(org))
    /\ UNCHANGED <<conn, wrote, durable, reported>>

\* A call inside another joins a transaction of the same org, or, unscoped, an unscoped
\* one.
Joins(t, org) ==
    /\ MayCall(t) /\ org = Top(t).org
    /\ Above(t, [org |-> org, conn |-> Top(t).conn, opens |-> FALSE, at |-> "running"])
    /\ UNCHANGED <<conn, wrote, durable, reported>>

\* Otherwise it throws, which the operation that called it lets through.
Refused(t, org) ==
    /\ MayCall(t) /\ org # Top(t).org
    /\ Turns(t, "throwing")
    /\ UNCHANGED <<conn, wrote, durable, reported>>

\* The pool has a connection, and the transaction begins.
Begins(t, c) ==
    /\ TopIs(t, "waiting") /\ conn[c].task = NoTask
    /\ conn' = [conn EXCEPT ![c].task = t]
    /\ stack' = [stack EXCEPT ![t][Depth(t)] = [@ EXCEPT !.conn = c, !.at = "begun"]]
    /\ UNCHANGED <<wrote, durable, reported>>

\* SET LOCAL app.current_org_id, for a call with an org.
Scopes(t) ==
    /\ TopIs(t, "begun")
    /\ conn' = [conn EXCEPT ![Top(t).conn].org = IF Top(t).org = NoOrg THEN @ ELSE Top(t).org]
    /\ Turns(t, "running")
    /\ UNCHANGED <<wrote, durable, reported>>

\* A statement of the operation; none succeeds after one has failed.
Writes(t) ==
    /\ TopIs(t, "running") /\ ~conn[Top(t).conn].failed
    /\ wrote' = wrote \cup {t}
    /\ UNCHANGED <<stack, conn, durable, reported>>

StatementFails(t) ==
    /\ TopIs(t, "running")
    /\ conn' = [conn EXCEPT ![Top(t).conn].failed = TRUE]
    /\ Turns(t, "throwing")
    /\ UNCHANGED <<wrote, durable, reported>>

\* Seeded fault: an operation that has written catches.
CatchesAll(t) ==
    /\ TopIs(t, "throwing")
    /\ Turns(t, "running")
    /\ UNCHANGED <<conn, wrote, durable, reported>>

\* The only operation that goes on after a statement that failed is listApplied(), which
\* writes nothing; its transaction is one that COMMIT rolls back.
Catches(t) ==
    /\ TopIs(t, "throwing") /\ t \notin wrote
    /\ Turns(t, "running")
    /\ UNCHANGED <<conn, wrote, durable, reported>>

Pop(t) == [i \in 1..(Depth(t) - 1) |-> stack[t][i]]

\* Seeded fault: SET, not SET LOCAL.
ReleasedWithOrg(t) ==
    conn' = [conn EXCEPT ![Top(t).conn] = [Free EXCEPT !.org = conn[Top(t).conn].org]]

\* The end of the transaction, which is that of the org's setting, frees the connection.
Released(t) == conn' = [conn EXCEPT ![Top(t).conn] = Free]

JoinedReturns(t) ==
    /\ TopIs(t, "running") /\ ~Top(t).opens
    /\ stack' = [stack EXCEPT ![t] = Pop(t)]
    /\ UNCHANGED <<conn, wrote, durable, reported>>

JoinedThrows(t) ==
    /\ TopIs(t, "throwing") /\ ~Top(t).opens
    /\ stack' = [stack EXCEPT ![t] =
                    [i \in 1..(Depth(t) - 1) |->
                        IF i = Depth(t) - 1 THEN [stack[t][i] EXCEPT !.at = "throwing"]
                        ELSE stack[t][i]]]
    /\ UNCHANGED <<conn, wrote, durable, reported>>

\* COMMIT, which rolls a failed transaction back and does not say so.
Commits(t) ==
    /\ TopIs(t, "running") /\ Top(t).opens
    /\ durable' = IF conn[Top(t).conn].failed THEN durable ELSE durable \cup (wrote \cap {t})
    /\ reported' = [reported EXCEPT ![t] = "success"]
    /\ stack' = [stack EXCEPT ![t] = Pop(t)]
    /\ Released(t)
    /\ UNCHANGED wrote

\* ROLLBACK; and a COMMIT whose answer is lost, after which nobody knows.
RollsBack(t) ==
    /\ TopIs(t, "throwing") /\ Top(t).opens
    /\ reported' = [reported EXCEPT ![t] = "error"]
    /\ stack' = [stack EXCEPT ![t] = Pop(t)]
    /\ Released(t)
    /\ UNCHANGED <<wrote, durable>>

CommitLost(t) ==
    /\ TopIs(t, "running") /\ Top(t).opens /\ ~conn[Top(t).conn].failed
    /\ durable' \in {durable, durable \cup (wrote \cap {t})}
    /\ reported' = [reported EXCEPT ![t] = "error"]
    /\ stack' = [stack EXCEPT ![t] = Pop(t)]
    /\ Released(t)
    /\ UNCHANGED wrote

-----------------------------------------------------------------------------

Finishes(t) ==
    Scopes(t) \/ JoinedReturns(t) \/ JoinedThrows(t) \/ Commits(t) \/ RollsBack(t)

TxNext ==
    \E t \in Task :
        \/ \E org \in Org \cup {NoOrg} : Calls(t, org) \/ Joins(t, org) \/ Refused(t, org)
        \/ \E c \in Conn : Begins(t, c)
        \/ Writes(t) \/ StatementFails(t) \/ Catches(t) \/ CommitLost(t)
        \/ Finishes(t)

TxSpec == TxInit /\ [][TxNext]_txVars

\* An operation ends: it makes no more calls and statements than it has.  The pool
\* serves those who wait in turn.
TxFairness ==
    /\ \A t \in Task : SF_txVars(JoinedReturns(t)) /\ SF_txVars(Commits(t))
    /\ \A t \in Task : WF_txVars(Scopes(t) \/ JoinedThrows(t) \/ RollsBack(t))
    /\ \A t \in Task : SF_txVars(\E c \in Conn : Begins(t, c))

-----------------------------------------------------------------------------
(* Properties.                                                              *)

\* Nothing of a transaction stays on the connection that goes back to the pool.
TxTypeOK ==
    /\ stack \in [Task -> Seq(Frame)]
    /\ conn \in [Conn -> [task : Task \cup {NoTask}, org : Org \cup {NoOrg}, failed : BOOLEAN]]
    /\ \A c \in Conn : conn[c].task = NoTask => conn[c] = Free
    /\ wrote \subseteq Task /\ durable \subseteq Task
    /\ reported \in [Task -> {"nothing", "success", "error"}]

\* A statement runs in a transaction of its own task, with the org that its call is for,
\* and with none for an unscoped call, whoever had the connection before.
OwnOrg ==
    \A t \in Task : TopIs(t, "running") =>
        /\ conn[Top(t).conn].task = t
        /\ conn[Top(t).conn].org = Top(t).org

\* A call that returns has committed what it and the calls inside it wrote, although a
\* statement that fails makes COMMIT a silent rollback.
SuccessMeansCommitted ==
    \A t \in Task : reported[t] = "success" /\ t \in wrote => t \in durable

\* Whoever waits for a connection gets one and ends: a task that holds one never waits
\* for a second.
CallsEnd == \A t \in Task : TopIs(t, "waiting") ~> Depth(t) = 0
===================================================================================
