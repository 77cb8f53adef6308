------------------------------- MODULE DbPoolProofs -------------------------------
(***************************************************************************)
(* The pool of connections of libs/db, for any number of tasks,            *)
(* connections, orgs, services and signals.  Its two sides share no state: *)
(*                                                                         *)
(*   - TxContext takes connections from it: a statement runs in its own    *)
(*     task's transaction with its own call's org, and what returns is     *)
(*     committed.  The argument is about one task at a time: a step of a   *)
(*     task leaves the stacks of the others alone, and the connections     *)
(*     they hold.                                                          *)
(*   - ServicesLauncher closes it, under the services that share it: after *)
(*     their work, and only upon a signal.                                 *)
(***************************************************************************)
EXTENDS TxContext, ServicesLauncher, SequenceTheorems, TLAPS

-----------------------------------------------------------------------------
(* The tasks and their connections.                                         *)

\* The calls of a task are one transaction: the lowest opened it, those above have its
\* connection and its org, and only the highest does anything.
OneTransaction(t) ==
    LET calls == stack[t] IN
    Depth(t) > 0 =>
        /\ calls[1].opens
        /\ \A i \in 2..Depth(t) :
               /\ ~calls[i].opens
               /\ calls[i].conn = calls[1].conn /\ calls[i].org = calls[1].org
               /\ calls[1].at \in {"running", "throwing"}
               /\ calls[i].at \in {"running", "throwing"}

\* The connection is the task's from the begin to the end, and has its org.
OwnConnection(t) ==
    LET lowest == stack[t][1] IN
    Depth(t) > 0 /\ lowest.at # "waiting" =>
        /\ lowest.conn \in Conn /\ conn[lowest.conn].task = t
        /\ lowest.at = "begun" => conn[lowest.conn].org = NoOrg /\ ~conn[lowest.conn].failed
        /\ lowest.at # "begun" => conn[lowest.conn].org = lowest.org

\* What the report of a task rests on: it has none while calls are in progress, and an
\* operation that goes on in a failed transaction has written nothing.
Honest(t) ==
    /\ Depth(t) > 0 => reported[t] = "nothing"
    /\ reported[t] = "success" /\ t \in wrote => t \in durable
    /\ TopIs(t, "running") /\ conn[Top(t).conn].failed => t \notin wrote

Kept(t) == OneTransaction(t) /\ OwnConnection(t) /\ Honest(t)

TxInv == TxTypeOK /\ \A t \in Task : Kept(t)

-----------------------------------------------------------------------------

\* The next-state relation, by the task that takes the step.
StepOf(t) ==
    \/ \E org \in Org \cup {NoOrg} : Calls(t, org) \/ Joins(t, org) \/ Refused(t, org)
    \/ \E c \in Conn : Begins(t, c)
    \/ Writes(t) \/ StatementFails(t) \/ Catches(t) \/ CommitLost(t)
    \/ Finishes(t)

\* A frame that is on top is a frame.
LEMMA TopIsFrame ==
    ASSUME TxTypeOK, NEW t \in Task, Depth(t) > 0
    PROVE  /\ Depth(t) \in Nat \ {0} /\ stack[t] \in Seq(Frame) /\ Top(t) \in Frame
           /\ \A i \in 1..Depth(t) : stack[t][i] \in Frame
BY DEF TxTypeOK, Depth, Top

\* A function from the first numbers to frames is a stack.
LEMMA FunctionIsStack ==
    ASSUME NEW n \in Nat, NEW f \in [1..n -> Frame]
    PROVE  f \in Seq(Frame) /\ Len(f) = n
<1>1. f \in Seq(Frame)
  BY SeqDef
<1> QED
  BY <1>1, LenProperties

\* Without its last call a stack is a stack.
LEMMA PopIsStack ==
    ASSUME TxTypeOK, NEW t \in Task, Depth(t) > 0
    PROVE  /\ Pop(t) \in Seq(Frame) /\ Len(Pop(t)) = Depth(t) - 1
           /\ \A i \in 1..(Depth(t) - 1) : Pop(t)[i] = stack[t][i]
BY TopIsFrame DEF Pop, Depth

\* In TxInv the highest call has the connection and the org of the lowest.
LEMMA TopIsLowest ==
    ASSUME TxInv, NEW t \in Task, Depth(t) > 0
    PROVE  /\ Top(t).conn = stack[t][1].conn /\ Top(t).org = stack[t][1].org
           /\ Top(t).opens <=> Depth(t) = 1
           /\ Top(t).at \in {"waiting", "begun"} => Depth(t) = 1
           /\ Top(t).at # "waiting" =>
                  /\ stack[t][1].at # "waiting"
                  /\ Top(t).conn \in Conn /\ conn[Top(t).conn].task = t
<1>1. Kept(t)
  BY DEF TxInv
<1>2. Depth(t) = 1 \/ Depth(t) \in 2..Depth(t)
  BY TopIsFrame DEF TxInv
<1> QED
  BY <1>1, <1>2, TopIsFrame DEF TxInv, Kept, OneTransaction, OwnConnection, Top

-----------------------------------------------------------------------------
(* A step of a task, on the others.                                         *)

\* What a step of t may touch: its own stack, connections that are its own or free.
Touches(t) ==
    /\ \A u \in Task \ {t} :
           /\ stack'[u] = stack[u] /\ reported'[u] = reported[u]
           /\ u \in wrote' <=> u \in wrote
           /\ u \in durable' <=> u \in durable
    /\ \A c \in Conn : conn[c].task \notin {t, NoTask} => conn'[c] = conn[c]

LEMMA OthersKeep ==
    ASSUME TxInv, NEW t \in Task, Touches(t), NEW u \in Task \ {t}
    PROVE  Kept(u)'
<1>1. Kept(u) /\ stack'[u] = stack[u] /\ reported'[u] = reported[u]
      /\ (u \in wrote' <=> u \in wrote) /\ (u \in durable' <=> u \in durable)
  BY DEF TxInv, Touches
<1>2. ASSUME Depth(u) > 0, stack[u][1].at # "waiting"
      PROVE  conn'[stack[u][1].conn] = conn[stack[u][1].conn]
  BY <1>1, <1>2, TxAssumption DEF Kept, OwnConnection, Touches
<1>3. OneTransaction(u)'
  BY <1>1 DEF Kept, OneTransaction, Depth
<1>4. OwnConnection(u)'
  BY <1>1, <1>2 DEF Kept, OwnConnection, Depth
<1>5. ASSUME TopIs(u, "running") PROVE conn'[Top(u).conn] = conn[Top(u).conn]
  <2>1. u \in Task /\ Depth(u) > 0 /\ Top(u).at # "waiting"
    BY <1>5 DEF TopIs
  <2> QED
    BY <1>2, <2>1, TopIsLowest
<1>6. Honest(u)'
  BY <1>1, <1>5 DEF Kept, Honest, TopIs, Top, Depth
<1> QED
  BY <1>3, <1>4, <1>6 DEF Kept

-----------------------------------------------------------------------------
(* A step of a task, on itself.                                             *)

LEMMA CallsKeep ==
    ASSUME TxInv, NEW t \in Task, NEW org \in Org \cup {NoOrg}, Calls(t, org)
    PROVE  TxTypeOK' /\ Touches(t) /\ Kept(t)'
<1>1. Waiting(org) \in Frame /\ Waiting(org).at = "waiting" /\ Waiting(org).opens
  BY DEF Waiting, Frame
<1>2. stack'[t] = <<Waiting(org)>> /\ Len(stack'[t]) = 1 /\ stack'[t][1] = Waiting(org)
  BY DEF TxInv, TxTypeOK, Calls, Lowest
<1>3. TxTypeOK'
  BY <1>1 DEF TxInv, TxTypeOK, Calls, Lowest
<1>4. Touches(t)
  BY DEF TxInv, TxTypeOK, Calls, Lowest, Touches
<1>5. Kept(t)'
  BY <1>1, <1>2 DEF TxInv, TxTypeOK, Calls, Kept, OneTransaction, OwnConnection, Honest,
                    TopIs, Top, Depth
<1> QED
  BY <1>3, <1>4, <1>5

LEMMA JoinsKeep ==
    ASSUME TxInv, NEW t \in Task, NEW org \in Org \cup {NoOrg}, Joins(t, org)
    PROVE  TxTypeOK' /\ Touches(t) /\ Kept(t)'
<1> DEFINE frame == [org |-> org, conn |-> Top(t).conn, opens |-> FALSE, at |-> "running"]
<1>1. Depth(t) > 0 /\ Top(t).at = "running" /\ Top(t).org = org
  BY DEF Joins, MayCall, TopIs
<1>2. frame \in Frame
  BY <1>1, TopIsFrame DEF Frame, TxInv
<1>3. stack'[t] = Append(stack[t], frame)
  BY DEF TxInv, TxTypeOK, Joins, Above
<1>4. TxTypeOK'
  BY <1>2 DEF TxInv, TxTypeOK, Joins, Above
<1>5. Touches(t)
  BY DEF TxInv, TxTypeOK, Joins, Above, Touches
<1>6. /\ Len(stack'[t]) = Depth(t) + 1 /\ stack'[t][Depth(t) + 1] = frame
      /\ \A i \in 1..Depth(t) : stack'[t][i] = stack[t][i]
  BY <1>1, <1>2, <1>3, TopIsFrame DEF TxInv, Depth
<1>7. /\ frame.conn = stack[t][1].conn /\ frame.org = stack[t][1].org /\ ~frame.opens
      /\ frame.at = "running" /\ stack[t][1].at \in {"running", "throwing"}
  <2>1. Depth(t) = 1 \/ Depth(t) \in 2..Depth(t)
    BY <1>1, TopIsFrame DEF TxInv
  <2> QED
    BY <1>1, <2>1, TopIsLowest DEF TxInv, Kept, OneTransaction, Top
<1>8. OneTransaction(t)'
  <2>1. Depth(t)' = Depth(t) + 1 /\ stack'[t][1] = stack[t][1] /\ Depth(t) \in Nat
    BY <1>1, <1>6, TopIsFrame DEF TxInv, Depth
  <2>2. ASSUME NEW i \in 2..(Depth(t) + 1)
        PROVE  /\ ~stack'[t][i].opens
               /\ stack'[t][i].conn = stack[t][1].conn /\ stack'[t][i].org = stack[t][1].org
               /\ stack'[t][i].at \in {"running", "throwing"}
    BY <1>1, <1>6, <1>7, <2>1 DEF TxInv, Kept, OneTransaction
  <2> QED
    BY <1>1, <1>7, <2>1, <2>2 DEF TxInv, Kept, OneTransaction
<1>9. OwnConnection(t)'
  BY <1>1, <1>6, TopIsFrame DEF TxInv, Kept, OwnConnection, Joins, Depth
<1>10. Honest(t)'
  BY <1>1, <1>6, TopIsFrame DEF TxInv, Kept, Honest, Joins, TopIs, Top, Depth
<1> QED
  BY <1>4, <1>5, <1>8, <1>9, <1>10 DEF Kept

\* The connection is not the one of another task, whatever a step does with it.
OwnConn(t) ==
    /\ conn' \in [Conn -> [task : Task \cup {NoTask}, org : Org \cup {NoOrg}, failed : BOOLEAN]]
    /\ \A c \in Conn : conn'[c] # conn[c] => conn[c].task = t

Working(at) == at \in {"running", "throwing"}

\* Under a call that works, all calls do.
LEMMA AllWork ==
    ASSUME TxInv, NEW t \in Task, Depth(t) > 0, Working(Top(t).at)
    PROVE  \A i \in 1..Depth(t) : Working(stack[t][i].at)
<1>1. ASSUME NEW i \in 1..Depth(t) PROVE Working(stack[t][i].at)
  <2>1. Depth(t) \in Nat
    BY TopIsFrame DEF TxInv
  <2>2. CASE Depth(t) = 1
    BY <2>1, <2>2 DEF Top
  <2>3. CASE Depth(t) # 1
    <3>1. Depth(t) \in 2..Depth(t) /\ (i = 1 \/ i \in 2..Depth(t))
      BY <2>1, <2>3
    <3> QED
      BY <3>1 DEF TxInv, Kept, OneTransaction, Working
  <2> QED
    BY <2>2, <2>3
<1> QED
  BY <1>1

\* A transaction goes on with the lowest calls of a stack, which may throw.
LEMMA Continues ==
    ASSUME TxInv, NEW t \in Task, NEW n \in 1..Depth(t), Depth(t)' = n,
           Depth(t) \in Nat,
           \A i \in 1..n : /\ stack'[t][i].opens = stack[t][i].opens
                           /\ stack'[t][i].conn = stack[t][i].conn
                           /\ stack'[t][i].org = stack[t][i].org
                           /\ Working(stack[t][i].at) /\ Working(stack'[t][i].at),
           \A c \in Conn : conn'[c].task = conn[c].task /\ conn'[c].org = conn[c].org
    PROVE  OneTransaction(t)' /\ OwnConnection(t)'
<1>1. n \in Nat /\ 1 \in 1..n /\ Depth(t) > 0
  OBVIOUS
<1>2. OneTransaction(t) /\ OwnConnection(t)
  BY DEF TxInv, Kept
<1>3. ASSUME NEW i \in 2..n
      PROVE  /\ ~stack'[t][i].opens
             /\ stack'[t][i].conn = stack'[t][1].conn /\ stack'[t][i].org = stack'[t][1].org
  <2>1. i \in 1..n /\ i \in 2..Depth(t)
    BY <1>1
  <2> QED
    BY <1>1, <1>2, <2>1 DEF OneTransaction
<1>4. OneTransaction(t)'
  <2>1. \A i \in 2..n : i \in 1..n
    BY <1>1
  <2> QED
    BY <1>1, <1>2, <1>3, <2>1 DEF OneTransaction, Working
<1>5. OwnConnection(t)'
  BY <1>1, <1>2 DEF OwnConnection, Working
<1> QED
  BY <1>4, <1>5

\* Of an operation that starts or stops throwing, and of a statement that fails.
LEMMA TurnsKeep ==
    ASSUME TxInv, NEW t \in Task, NEW at, Working(at),
           Depth(t) > 0, Working(Top(t).at), Turns(t, at),
           OwnConn(t), \A c \in Conn : conn'[c].task = conn[c].task /\ conn'[c].org = conn[c].org,
           UNCHANGED <<wrote, durable, reported>>,
           at = "running" => t \notin wrote
    PROVE  TxTypeOK' /\ Touches(t) /\ Kept(t)'
<1>1. PICK n \in Nat \ {0} : n = Depth(t)
  BY TopIsFrame DEF TxInv
<1>2. PICK frame \in Frame : /\ frame = [stack[t][n] EXCEPT !.at = at]
                             /\ frame.at = at /\ frame.conn = stack[t][n].conn
                             /\ frame.org = stack[t][n].org /\ frame.opens = stack[t][n].opens
  <2> DEFINE changed == [stack[t][n] EXCEPT !.at = at]
  <2>1. stack[t][n] \in Frame
    BY <1>1, TopIsFrame DEF TxInv, Top
  <2>2. /\ changed \in Frame /\ changed.at = at /\ changed.conn = stack[t][n].conn
        /\ changed.org = stack[t][n].org /\ changed.opens = stack[t][n].opens
    BY <2>1 DEF Frame, Working
  <2> QED
    BY <2>2
<1>3. PICK calls : calls = [stack[t] EXCEPT ![n] = frame]
  OBVIOUS
<1>4. stack[t] \in Seq(Frame) /\ n \in 1..Len(stack[t]) /\ Len(stack[t]) = n
  BY <1>1, TopIsFrame DEF TxInv, Depth
<1>5. /\ calls \in Seq(Frame) /\ Len(calls) = n
      /\ \A i \in 1..n : calls[i] = IF i = n THEN frame ELSE stack[t][i]
  BY <1>2, <1>3, <1>4, ExceptSeq
<1>6. stack' = [stack EXCEPT ![t] = calls]
  BY <1>1, <1>2, <1>3 DEF Turns
<1>7. stack'[t] = calls /\ Depth(t)' = n /\ Top(t)' = frame
  BY <1>4, <1>5, <1>6 DEF TxInv, TxTypeOK, Depth, Top
<1>8. TxTypeOK'
  <2>1. \A c \in Conn : conn'[c].task = NoTask => conn'[c] = Free
    BY TxAssumption DEF OwnConn, TxInv, TxTypeOK
  <2> QED
    BY <1>5, <1>6, <2>1 DEF TxInv, TxTypeOK, OwnConn
<1>9. Touches(t)
  BY <1>6 DEF TxInv, TxTypeOK, Touches, OwnConn
<1>10. OneTransaction(t)' /\ OwnConnection(t)'
  <2>1. \A i \in 1..n : Working(stack[t][i].at)
    BY <1>1, AllWork
  <2>2. \A i \in 1..n : /\ stack'[t][i].opens = stack[t][i].opens
                        /\ stack'[t][i].conn = stack[t][i].conn
                        /\ stack'[t][i].org = stack[t][i].org
                        /\ Working(stack'[t][i].at)
    BY <1>2, <1>5, <1>7, <2>1
  <2>3. n \in 1..Depth(t) /\ Depth(t) \in Nat
    BY <1>1
  <2> QED
    BY <1>7, <2>1, <2>2, <2>3, Continues
<1>11. Honest(t)'
  BY <1>1, <1>2, <1>7 DEF TxInv, Kept, Honest, TopIs
<1> QED
  BY <1>8, <1>9, <1>10, <1>11 DEF Kept

\* A joined call ends, and the one under it goes on or throws.
LEMMA JoinedEndsKeeps ==
    ASSUME TxInv, NEW t \in Task, JoinedReturns(t) \/ JoinedThrows(t)
    PROVE  TxTypeOK' /\ Touches(t) /\ Kept(t)'
<1>1. PICK n \in Nat \ {0} : n = Depth(t) - 1 /\ Depth(t) \in Nat /\ Depth(t) > 0
  <2>1. Depth(t) > 0 /\ ~Top(t).opens
    BY DEF JoinedReturns, JoinedThrows, TopIs
  <2> QED
    BY <2>1, TopIsFrame, TopIsLowest DEF TxInv
<1>2. /\ Depth(t) \in Nat /\ Depth(t) > 0 /\ n \in 1..Depth(t) /\ Depth(t) = n + 1
      /\ \A i \in 1..Depth(t) : stack[t][i] \in Frame
  BY <1>1, TopIsFrame DEF TxInv
<1>3. Working(Top(t).at)
  BY DEF JoinedReturns, JoinedThrows, TopIs, Working
<1>4. PICK calls : /\ stack' = [stack EXCEPT ![t] = calls]
                   /\ calls \in Seq(Frame) /\ Len(calls) = n
                   /\ \A i \in 1..n : \/ calls[i] = stack[t][i]
                                      \/ calls[i] = [stack[t][i] EXCEPT !.at = "throwing"]
                   /\ calls[n].at = "throwing" \/ (JoinedReturns(t) /\ calls[n] = stack[t][n])
  <2>1. CASE JoinedReturns(t)
    <3>1. Pop(t) \in Seq(Frame) /\ Len(Pop(t)) = n /\ \A i \in 1..n : Pop(t)[i] = stack[t][i]
      BY <1>1, <1>2, PopIsStack DEF TxInv
    <3>2. stack' = [stack EXCEPT ![t] = Pop(t)]
      BY <2>1 DEF JoinedReturns
    <3>3. Pop(t)[n] = stack[t][n]
      BY <3>1
    <3> QED
      BY <2>1, <3>1, <3>2, <3>3
  <2>2. CASE JoinedThrows(t)
    <3> DEFINE calls == [i \in 1..n |-> IF i = n THEN [stack[t][i] EXCEPT !.at = "throwing"]
                                        ELSE stack[t][i]]
    <3>1. \A i \in 1..n : calls[i] \in Frame
      BY <1>2 DEF Frame
    <3>2. calls \in Seq(Frame) /\ Len(calls) = n
      <4>1. calls \in [1..n -> Frame]
        BY <3>1
      <4> QED
        BY <4>1, FunctionIsStack
    <3>3. stack' = [stack EXCEPT ![t] = calls]
      BY <1>1, <2>2 DEF JoinedThrows
    <3>4. calls[n].at = "throwing"
      BY <1>2 DEF Frame
    <3> HIDE DEF calls
    <3>5. \A i \in 1..n :
              calls[i] = stack[t][i] \/ calls[i] = [stack[t][i] EXCEPT !.at = "throwing"]
      BY DEF calls
    <3> QED
      BY <3>2, <3>3, <3>4, <3>5
  <2> QED
    BY <2>1, <2>2
<1>5. stack'[t] = calls /\ Depth(t)' = n /\ Top(t)' = calls[n]
  BY <1>4 DEF TxInv, TxTypeOK, Depth, Top
<1>6. UNCHANGED <<conn, wrote, durable, reported>>
  BY DEF JoinedReturns, JoinedThrows
<1>7. TxTypeOK'
  BY <1>4, <1>6 DEF TxInv, TxTypeOK
<1>8. Touches(t)
  BY <1>4, <1>6 DEF TxInv, TxTypeOK, Touches
<1>9. \A i \in 1..n : /\ stack'[t][i].opens = stack[t][i].opens
                      /\ stack'[t][i].conn = stack[t][i].conn
                      /\ stack'[t][i].org = stack[t][i].org
                      /\ Working(stack[t][i].at) /\ Working(stack'[t][i].at)
  <2> TAKE i \in 1..n
  <2>1. stack[t][i] \in Frame /\ Working(stack[t][i].at)
    BY <1>2, <1>3, AllWork
  <2> QED
    BY <1>4, <1>5, <2>1 DEF Frame, Working
<1>10. OneTransaction(t)' /\ OwnConnection(t)'
  BY <1>2, <1>5, <1>6, <1>9, Continues
<1>11. Honest(t)'
  <2>1. ASSUME JoinedReturns(t), calls[n] = stack[t][n]
        PROVE  Top(t)'.conn = Top(t).conn /\ TopIs(t, "running")
    <3>1. TopIs(t, "running")
      BY <2>1 DEF JoinedReturns
    <3>2. stack[t][n].conn = stack[t][1].conn
      <4>1. n = 1 \/ n \in 2..Depth(t)
        BY <1>2
      <4> QED
        BY <1>2, <4>1 DEF TxInv, Kept, OneTransaction
    <3> QED
      BY <1>2, <1>5, <2>1, <3>1, <3>2, TopIsLowest
  <2> QED
    BY <1>2, <1>4, <1>5, <1>6, <2>1 DEF TxInv, Kept, Honest, TopIs
<1> QED
  BY <1>7, <1>8, <1>10, <1>11 DEF Kept

\* The lowest call gets its connection, and the org is set on it.
LEMMA OpensKeep ==
    ASSUME TxInv, NEW t \in Task, (\E c \in Conn : Begins(t, c)) \/ Scopes(t)
    PROVE  TxTypeOK' /\ Touches(t) /\ Kept(t)'
<1>1. Depth(t) = 1 /\ Top(t) \in Frame /\ Top(t).opens /\ Top(t) = stack[t][1]
  <2>1. Depth(t) > 0 /\ Top(t).at \in {"waiting", "begun"}
    BY DEF Begins, Scopes, TopIs
  <2>2. Depth(t) = 1 /\ Top(t).opens
    BY <2>1, TopIsLowest
  <2> QED
    BY <2>2, TopIsFrame DEF TxInv, Top
<1>2. PICK frame \in Frame :
          /\ stack' = [stack EXCEPT ![t] = [@ EXCEPT ![1] = frame]]
          /\ frame.opens /\ frame.org = Top(t).org /\ frame.conn \in Conn
          /\ \/ /\ TopIs(t, "waiting") /\ frame.at = "begun"
                /\ conn[frame.conn].task = NoTask
                /\ conn' = [conn EXCEPT ![frame.conn].task = t]
             \/ /\ TopIs(t, "begun") /\ frame.at = "running" /\ frame.conn = Top(t).conn
                /\ conn' = [conn EXCEPT ![frame.conn].org =
                                IF Top(t).org = NoOrg THEN @ ELSE Top(t).org]
  <2>1. ASSUME NEW c \in Conn, Begins(t, c)
        PROVE  LET frame == [Top(t) EXCEPT !.conn = c, !.at = "begun"] IN
               /\ frame \in Frame /\ frame.opens /\ frame.org = Top(t).org
               /\ frame.conn = c /\ frame.at = "begun"
               /\ stack' = [stack EXCEPT ![t] = [@ EXCEPT ![1] = frame]]
    BY <1>1, <2>1 DEF Begins, Frame, Top
  <2>2. ASSUME Scopes(t)
        PROVE  LET frame == [Top(t) EXCEPT !.at = "running"] IN
               /\ frame \in Frame /\ frame.opens /\ frame.org = Top(t).org
               /\ frame.conn = Top(t).conn /\ frame.at = "running"
               /\ stack' = [stack EXCEPT ![t] = [@ EXCEPT ![1] = frame]]
    BY <1>1, <2>2 DEF Scopes, Turns, Frame, Top
  <2>3. CASE \E c \in Conn : Begins(t, c)
    <3>1. PICK c \in Conn : Begins(t, c)
      BY <2>3
    <3> DEFINE begun == [Top(t) EXCEPT !.conn = c, !.at = "begun"]
    <3>2. /\ begun \in Frame /\ begun.opens /\ begun.org = Top(t).org
          /\ begun.conn = c /\ begun.at = "begun"
          /\ stack' = [stack EXCEPT ![t] = [@ EXCEPT ![1] = begun]]
      BY <2>1, <3>1
    <3>3. TopIs(t, "waiting") /\ conn[c].task = NoTask /\ conn' = [conn EXCEPT ![c].task = t]
      BY <3>1 DEF Begins
    <3> HIDE DEF begun
    <3> QED
      BY <3>2, <3>3
  <2>4. CASE Scopes(t)
    <3>1. Top(t).conn \in Conn
      BY <1>1, <2>4, TopIsLowest DEF Scopes, TopIs
    <3> QED
      BY <2>2, <2>4, <3>1 DEF Scopes
  <2> QED
    BY <2>3, <2>4
<1>3. PICK calls \in Seq(Frame) :
          Len(calls) = 1 /\ calls[1] = frame /\ stack' = [stack EXCEPT ![t] = calls]
  <2>1. stack[t] \in Seq(Frame) /\ 1 \in 1..Len(stack[t]) /\ Len(stack[t]) = 1
    BY <1>1, TopIsFrame DEF TxInv, Depth
  <2>2. LET calls == [stack[t] EXCEPT ![1] = frame]
        IN calls \in Seq(Frame) /\ Len(calls) = 1 /\ calls[1] = frame
    BY <2>1, ExceptSeq
  <2> QED
    BY <1>2, <2>2
<1>4. /\ stack'[t] = calls /\ Depth(t)' = 1 /\ Top(t)' = frame
      /\ UNCHANGED <<wrote, durable, reported>>
  BY <1>3 DEF TxInv, TxTypeOK, Depth, Top, Begins, Scopes
<1>5. Kept(t)
  BY DEF TxInv
<1>6. /\ conn' \in [Conn -> [task : Task \cup {NoTask}, org : Org \cup {NoOrg}, failed : BOOLEAN]]
      /\ conn'[frame.conn].task = t
      /\ \A c \in Conn : conn'[c] # conn[c] => c = frame.conn
      /\ frame.at = "begun" => conn'[frame.conn].org = NoOrg /\ ~conn'[frame.conn].failed
      /\ frame.at = "running" => conn'[frame.conn].org = frame.org /\ ~conn'[frame.conn].failed
  <2>1. CASE frame.at = "begun"
    <3>1. conn[frame.conn] = Free /\ conn' = [conn EXCEPT ![frame.conn].task = t]
      BY <1>2, <2>1 DEF TxInv, TxTypeOK
    <3>2. /\ Free.org = NoOrg /\ ~Free.failed
          /\ conn'[frame.conn] = [Free EXCEPT !.task = t]
          /\ [Free EXCEPT !.task = t] \in
                 [task : Task \cup {NoTask}, org : Org \cup {NoOrg}, failed : BOOLEAN]
      BY <1>2, <3>1 DEF TxInv, TxTypeOK, Free
    <3> QED
      BY <1>2, <2>1, <3>1, <3>2 DEF TxInv, TxTypeOK, Free
  <2>2. CASE frame.at = "running"
    <3>1. /\ TopIs(t, "begun") /\ frame.conn = Top(t).conn
          /\ conn' = [conn EXCEPT ![frame.conn].org = IF Top(t).org = NoOrg THEN @ ELSE Top(t).org]
      BY <1>2, <2>2
    <3>2. /\ conn[frame.conn].task = t /\ conn[frame.conn].org = NoOrg
          /\ ~conn[frame.conn].failed
      BY <1>1, <1>5, <3>1 DEF Kept, OwnConnection, TopIs
    <3>3. Top(t).org \in Org \cup {NoOrg}
      BY <1>1 DEF Frame
    <3> QED
      BY <1>2, <2>2, <3>1, <3>2, <3>3 DEF TxInv, TxTypeOK
  <2> QED
    BY <1>2, <2>1, <2>2
<1>7. TxTypeOK'
  <2>1. \A c \in Conn : conn'[c].task = NoTask => conn'[c] = Free
    BY <1>6, TxAssumption DEF TxInv, TxTypeOK
  <2> QED
    BY <1>3, <1>4, <1>6, <2>1 DEF TxInv, TxTypeOK
<1>8. Touches(t)
  <2>1. conn[frame.conn].task \in {t, NoTask}
    <3>1. CASE TopIs(t, "begun") /\ frame.conn = Top(t).conn
      BY <3>1, TopIsLowest DEF TopIs
    <3> QED
      BY <1>2, <3>1
  <2> QED
    BY <1>3, <1>4, <1>6, <2>1 DEF TxInv, TxTypeOK, Touches
<1>9. OneTransaction(t)' /\ OwnConnection(t)'
  BY <1>2, <1>3, <1>4, <1>6 DEF OneTransaction, OwnConnection
<1>10. Honest(t)'
  BY <1>1, <1>2, <1>4, <1>5, <1>6 DEF Kept, Honest, TopIs
<1> QED
  BY <1>7, <1>8, <1>9, <1>10 DEF Kept

\* The transaction ends with its lowest call.
LEMMA EndsKeep ==
    ASSUME TxInv, NEW t \in Task, Commits(t) \/ RollsBack(t) \/ CommitLost(t)
    PROVE  TxTypeOK' /\ Touches(t) /\ Kept(t)'
<1>1. Depth(t) = 1 /\ Top(t).conn \in Conn /\ conn[Top(t).conn].task = t
  <2>1. Depth(t) > 0 /\ Top(t).opens /\ Top(t).at # "waiting"
    BY DEF Commits, RollsBack, CommitLost, TopIs
  <2> QED
    BY <2>1, TopIsLowest
<1>2. Pop(t) \in Seq(Frame) /\ Len(Pop(t)) = 0
  BY <1>1, PopIsStack DEF TxInv
<1>3. /\ stack' = [stack EXCEPT ![t] = Pop(t)]
      /\ conn' = [conn EXCEPT ![Top(t).conn] = Free]
      /\ wrote' = wrote
  BY DEF Commits, RollsBack, CommitLost, Released
<1>4. Depth(t)' = 0
  BY <1>2, <1>3 DEF TxInv, TxTypeOK, Depth
<1>5. \A u \in Task \ {t} : reported'[u] = reported[u] /\ (u \in durable' <=> u \in durable)
  BY DEF Commits, RollsBack, CommitLost, TxInv, TxTypeOK
<1>6. /\ durable' \subseteq Task
      /\ reported' \in [Task -> {"nothing", "success", "error"}]
  BY DEF Commits, RollsBack, CommitLost, TxInv, TxTypeOK
<1>7. TxTypeOK'
  <2>1. Free \in [task : Task \cup {NoTask}, org : Org \cup {NoOrg}, failed : BOOLEAN]
    BY DEF Free
  <2> QED
    BY <1>2, <1>3, <1>6, <2>1 DEF TxInv, TxTypeOK
<1>8. Touches(t)
  BY <1>1, <1>3, <1>5 DEF TxInv, TxTypeOK, Touches
<1>9. Honest(t)'
  <2>1. ASSUME reported'[t] = "success", t \in wrote PROVE t \in durable'
    <3>1. Commits(t)
      BY <2>1 DEF RollsBack, CommitLost, TxInv, TxTypeOK
    <3>2. ~conn[Top(t).conn].failed
      BY <2>1, <3>1 DEF Commits, TxInv, Kept, Honest
    <3> QED
      BY <2>1, <3>1, <3>2 DEF Commits
  <2> QED
    BY <1>3, <1>4, <2>1 DEF Honest, TopIs
<1> QED
  BY <1>4, <1>7, <1>8, <1>9 DEF Kept, OneTransaction, OwnConnection

\* A statement that succeeds, in a transaction that has not failed.
LEMMA WritesKeep ==
    ASSUME TxInv, NEW t \in Task, Writes(t)
    PROVE  TxTypeOK' /\ Touches(t) /\ Kept(t)'
<1>1. TxTypeOK' /\ Touches(t)
  BY DEF TxInv, TxTypeOK, Writes, Touches
<1>2. OneTransaction(t)' /\ OwnConnection(t)'
  BY DEF TxInv, Kept, OneTransaction, OwnConnection, Writes, Depth
<1>3. Honest(t)'
  BY DEF TxInv, Kept, Honest, Writes, TopIs, Top, Depth
<1> QED
  BY <1>1, <1>2, <1>3 DEF Kept

\* Every step keeps the invariant.
LEMMA StepKeeps ==
    ASSUME TxInv, NEW t \in Task, StepOf(t)
    PROVE  TxInv'
<1>1. TxTypeOK' /\ Touches(t) /\ Kept(t)'
  <2>1. ASSUME NEW org \in Org \cup {NoOrg}, Refused(t, org)
        PROVE  TxTypeOK' /\ Touches(t) /\ Kept(t)'
    BY <2>1, TurnsKeep DEF Refused, MayCall, TopIs, Working, OwnConn, TxInv, TxTypeOK
  <2>2. CASE StatementFails(t)
    <3>1. Depth(t) > 0 /\ Working(Top(t).at) /\ Turns(t, "throwing")
          /\ UNCHANGED <<wrote, durable, reported>>
      BY <2>2 DEF StatementFails, TopIs, Working
    <3>2. Top(t).conn \in Conn /\ conn[Top(t).conn].task = t
      BY <3>1, TopIsLowest DEF Working
    <3>3. OwnConn(t) /\ \A c \in Conn : conn'[c].task = conn[c].task /\ conn'[c].org = conn[c].org
      BY <2>2, <3>2 DEF StatementFails, OwnConn, TxInv, TxTypeOK
    <3> QED
      BY <3>1, <3>3, TurnsKeep DEF Working
  <2>3. CASE Catches(t)
    BY <2>3, TurnsKeep DEF Catches, TopIs, Working, OwnConn, TxInv, TxTypeOK
  <2> QED
    BY <2>1, <2>2, <2>3, CallsKeep, JoinsKeep, OpensKeep, WritesKeep, EndsKeep,
       JoinedEndsKeeps DEF StepOf, Finishes
<1> QED
  BY <1>1, OthersKeep DEF TxInv

\* The invariant holds in every reachable state, for every set of tasks, connections and
\* orgs and any depth of calls.
THEOREM TxInvariant == TxSpec => []TxInv
<1>1. TxInit => TxInv
  <2> SUFFICES ASSUME TxInit PROVE TxInv
    OBVIOUS
  <2>1. Free \in [task : Task \cup {NoTask}, org : Org \cup {NoOrg}, failed : BOOLEAN]
    BY DEF Free
  <2>2. \A t \in Task : stack[t] = <<>> /\ Depth(t) = 0
    BY DEF TxInit, Depth
  <2>3. TxTypeOK
    BY <2>1 DEF TxInit, TxTypeOK
  <2>4. \A t \in Task : reported[t] = "nothing"
    BY DEF TxInit
  <2> QED
    BY <2>2, <2>3, <2>4 DEF TxInv, Kept, OneTransaction, OwnConnection, Honest, TopIs
<1>2. TxInv /\ [TxNext]_txVars => TxInv'
  <2> SUFFICES ASSUME TxInv, [TxNext]_txVars PROVE TxInv'
    OBVIOUS
  <2>1. CASE TxNext
    BY <2>1, StepKeeps DEF TxNext, StepOf
  <2>2. CASE UNCHANGED txVars
    BY <2>2 DEF txVars, TxInv, TxTypeOK, Kept, OneTransaction, OwnConnection, Honest, TopIs,
                Top, Depth
  <2> QED
    BY <2>1, <2>2
<1> QED
  BY <1>1, <1>2, PTL DEF TxSpec

\* The types, and nothing left on a connection that goes back to the pool.
THEOREM TxTypesHold == TxSpec => []TxTypeOK
<1>1. TxInv => TxTypeOK
  BY DEF TxInv
<1> QED
  BY <1>1, TxInvariant, PTL

\* tx.ts: a statement runs in its own task's transaction, under its own call's org.
THEOREM StatementsRunUnderOwnOrg == TxSpec => []OwnOrg
<1>1. TxInv => OwnOrg
  <2> SUFFICES ASSUME TxInv, NEW t \in Task, TopIs(t, "running")
      PROVE  conn[Top(t).conn].task = t /\ conn[Top(t).conn].org = Top(t).org
    BY DEF OwnOrg
  <2>1. Depth(t) > 0 /\ Working(Top(t).at) /\ Depth(t) \in Nat
    BY TopIsFrame DEF TopIs, Working, TxInv
  <2>2. Working(stack[t][1].at)
    BY <2>1, AllWork
  <2> QED
    BY <2>1, <2>2, TopIsLowest DEF TxInv, Kept, OwnConnection, Working
<1> QED
  BY <1>1, TxInvariant, PTL

\* tx.ts: what a call that returns has written is committed, although COMMIT is silent
\* about a transaction that failed.
THEOREM ReturnsAreCommitted == TxSpec => []SuccessMeansCommitted
<1>1. TxInv => SuccessMeansCommitted
  BY DEF TxInv, Kept, Honest, SuccessMeansCommitted
<1> QED
  BY <1>1, TxInvariant, PTL

-----------------------------------------------------------------------------
(* The services that share the pool, and its end.                           *)

\* A drain that has not been rejected has called stop() of every app up to the one it is
\* at, and those before that one have finished.
Drained ==
    \A s \in Signals : drain[s] <= Closing =>
        \A i \in DOMAIN names : i <= drain[s] /\ names[i] \in Stoppable =>
            names[i] \in stopping /\ (i < drain[s] => names[i] \notin busy)

\* What boots is one of the services to run, and what works has booted.
Booted ==
    /\ names \in Seq(App)
    /\ \A a \in App : boot[a] # "no" => \E i \in DOMAIN names : names[i] = a
    /\ launcher = "selecting" => \A a \in App : boot[a] = "no"
    /\ \A a \in busy : boot[a] = "ready"

\* Only where the services run does a signal drain, and only a drain closes their pool.
Closes ==
    /\ launcher # "waiting" => handlers = {} /\ Drains = {}
    /\ \A s \in handlers : drain[s] = 0
    /\ launcher \in {"selecting", "booting"} => db # "destroying" /\ process # "exited"
    /\ launcher = "waiting" /\ (db = "destroying" \/ process = "exited") =>
           \E s \in Signals : drain[s] = Closing

LauncherInv == TypeOK /\ Booted /\ Closes /\ Drained

\* Nothing boots or drains yet.
LEMMA LauncherInit == Init => LauncherInv
<1> SUFFICES ASSUME Init PROVE LauncherInv
  OBVIOUS
<1>1. names \in Seq(App) /\ Len(names) \in Nat
  <2>1. CASE names = Order
    BY <2>1, LauncherAssumption
  <2>2. CASE names = <<>>
    BY <2>2
  <2>3. CASE \E a \in App : names = <<a>>
    BY <2>3
  <2>4. QED
    BY <2>1, <2>2, <2>3 DEF Init
<1>2. TypeOK
  BY <1>1 DEF Init, TypeOK, Rejected
<1>3. Booted /\ Closes
  BY <1>1 DEF Init, Booted, Closes, Drains
<1>4. Drained
  BY <1>1 DEF Init, Drained
<1>5. QED
  BY <1>2, <1>3, <1>4 DEF LauncherInv

\* Work is taken only by an app that has booted and that no drain has told to stop.
LEMMA AppsKeep ==
    ASSUME LauncherInv, NEW a \in App, TakesWork(a) \/ WorkEnds(a) \/ Breaks(a)
    PROVE  LauncherInv'
<1> USE DEF LauncherInv
<1>1. UNCHANGED <<names, boot, launcher, process, handlers, drain, stopping>>
  BY DEF TakesWork, WorkEnds, Breaks
<1>2. busy' \subseteq busy \cup ({a} \ stopping) /\ busy' \subseteq App
      /\ (boot[a] = "ready" \/ busy' \subseteq busy)
  BY DEF TakesWork, WorkEnds, Breaks, TypeOK
<1>3. broken' \subseteq Stoppable /\ db' \in {"absent", "open", "destroying"}
      /\ (db' = "destroying" => db = "destroying")
  BY DEF TakesWork, WorkEnds, Breaks, TypeOK
<1>4. TypeOK'
  BY <1>1, <1>2, <1>3 DEF TypeOK, Rejected
<1>5. Booted'
  BY <1>1, <1>2 DEF Booted
<1>6. Closes'
  BY <1>1, <1>3 DEF Closes, Drains, Closing
<1>7. Drained'
  BY <1>1, <1>2 DEF Drained, Closing
<1>8. QED
  BY <1>4, <1>5, <1>6, <1>7

\* The boot leaves the drains alone, and so does the end of a boot that failed: there are
\* none then.
LEMMA LaunchKeeps ==
    ASSUME LauncherInv, Launch
    PROVE  LauncherInv'
<1> USE DEF LauncherInv
<1>1. UNCHANGED <<names, drain, stopping, busy, broken>>
  BY DEF Launch, Selects, AllReady, BootFails, FinallyCloses, FinallyClosed, EndsByItself,
         Starts, appVars
<1>2. Drained'
  BY <1>1 DEF Drained, Closing
<1>3. CASE Selects
  <2>1. busy = {} /\ drain' = drain /\ handlers = {} /\ Drains = {}
    BY <1>3 DEF Selects, Booted, Closes, TypeOK
  <2>2. boot' \in [App -> {"no", "starting"}]
        /\ \A a \in App : boot'[a] # "no" => \E i \in DOMAIN names : names[i] = a
    BY <1>3 DEF Selects
  <2>3. TypeOK'
    BY <1>1, <1>3, <2>2 DEF Selects, TypeOK, Rejected
  <2>4. Booted'
    BY <1>1, <1>3, <2>1, <2>2 DEF Selects, Booted
  <2>5. Closes'
    BY <1>1, <1>3, <2>1 DEF Selects, Closes, Drains
  <2>6. QED
    BY <1>2, <2>3, <2>4, <2>5
<1>4. CASE \E a \in App, how \in {"ready", "failed"} : Starts(a, how)
  <2>1. PICK a \in App, how \in {"ready", "failed"} : Starts(a, how)
    BY <1>4
  <2>2. TypeOK'
    BY <1>1, <2>1 DEF Starts, TypeOK, Rejected
  <2>3. Booted'
    BY <1>1, <2>1 DEF Starts, Booted, TypeOK
  <2>4. Closes'
    BY <1>1, <2>1 DEF Starts, Closes, Drains, Closing
  <2>5. QED
    BY <1>2, <2>2, <2>3, <2>4
<1>5. CASE AllReady
  <2>1. TypeOK'
    BY <1>1, <1>5 DEF AllReady, TypeOK, Rejected
  <2>2. Booted'
    BY <1>1, <1>5 DEF AllReady, Booted
  <2>3. Closes'
    BY <1>1, <1>5 DEF AllReady, Closes, Drains, TypeOK
  <2>4. QED
    BY <1>2, <2>1, <2>2, <2>3
<1>6. CASE BootFails \/ FinallyCloses \/ FinallyClosed \/ EndsByItself
  <2>1. launcher' = "failed" /\ launcher # "waiting" /\ UNCHANGED <<boot, handlers>>
    BY <1>6 DEF BootFails, FinallyCloses, FinallyClosed, EndsByItself, EndReached
  <2>2. TypeOK'
    BY <1>1, <1>6, <2>1 DEF BootFails, FinallyCloses, FinallyClosed, EndsByItself, TypeOK,
                            Rejected
  <2>3. Booted'
    BY <1>1, <2>1 DEF Booted
  <2>4. Closes'
    BY <1>1, <2>1 DEF Closes, Drains
  <2>5. QED
    BY <1>2, <2>2, <2>3, <2>4
<1>7. QED
  BY <1>3, <1>4, <1>5, <1>6 DEF Launch

\* A drain goes on to the next app once the one before it has stopped.
LEMMA ReachesKeeps ==
    ASSUME LauncherInv, NEW s \in Signals, launcher = "waiting", Up,
           Reaches(s, drain[s] + 1), drain[s] \in 0..Len(names),
           drain[s] \in DOMAIN names => Stopped(names[drain[s]]),
           UNCHANGED <<names, boot, launcher, busy, broken, process>>,
           handlers' = handlers \ {s}
    PROVE  LauncherInv'
<1> USE DEF LauncherInv
<1> DEFINE i == drain[s] + 1
<1>1. Len(names) \in Nat /\ DOMAIN names = 1..Len(names) /\ i \in 1..Closing
  BY DEF Booted, Closing
<1>2. stopping \subseteq stopping' /\ stopping' \subseteq Stoppable
      /\ (i \in DOMAIN names /\ names[i] \in Stoppable => names[i] \in stopping')
  BY DEF Reaches, TypeOK
<1>3. drain' = [drain EXCEPT ![s] = i] /\ drain' \in [Signals -> 0..Rejected]
  BY <1>1 DEF Reaches, TypeOK, Rejected, Closing
<1>4. /\ db' \in {"absent", "open", "destroying"}
      /\ db' = "destroying" => db = "destroying" \/ i = Closing
  BY DEF Reaches, TypeOK
<1>5. TypeOK'
  BY <1>2, <1>3, <1>4 DEF TypeOK, Rejected
<1>6. Booted'
  BY DEF Booted
<1>7. Closes'
  <2>1. process' # "exited"
    BY DEF Up
  <2>2. ASSUME db' = "destroying" PROVE \E z \in Signals : drain'[z] = Closing
    <3>1. CASE i = Closing
      BY <1>3, <3>1 DEF TypeOK
    <3>2. CASE db = "destroying"
      <4>1. PICK z \in Signals : drain[z] = Closing
        BY <3>2 DEF Closes
      <4>2. z # s
        BY <1>1, <4>1 DEF Closing
      <4>3. drain'[z] = Closing
        BY <1>3, <4>1, <4>2 DEF TypeOK
      <4>4. QED
        BY <4>3
    <3>3. QED
      BY <1>4, <2>2, <3>1, <3>2
  <2>3. \A z \in handlers' : drain'[z] = 0
    BY <1>3 DEF Closes, TypeOK
  <2>4. QED
    BY <2>1, <2>2, <2>3 DEF Closes, Closing
<1>8. Drained'
  <2> SUFFICES ASSUME NEW z \in Signals, drain'[z] <= Closing,
                      NEW k \in DOMAIN names, k <= drain'[z], names[k] \in Stoppable
               PROVE  names[k] \in stopping' /\ (k < drain'[z] => names[k] \notin busy)
    BY DEF Drained, Closing
  <2>1. CASE z # s
    BY <1>2, <1>3, <2>1 DEF Drained, TypeOK
  <2>2. CASE z = s
    <3>1. drain'[s] = i /\ drain[s] <= Closing /\ drain[s] \in Nat /\ k \in Nat
      BY <1>1, <1>3 DEF TypeOK, Closing
    <3>2. CASE k = i
      BY <1>2, <2>2, <3>1, <3>2
    <3>3. CASE k = drain[s]
      BY <1>2, <2>2, <3>1, <3>3 DEF Drained, Stopped
    <3>4. CASE k < drain[s]
      BY <1>2, <2>2, <3>1, <3>4 DEF Drained
    <3>5. QED
      BY <2>2, <3>1, <3>2, <3>3, <3>4
  <2>3. QED
    BY <2>1, <2>2
<1>9. QED
  BY <1>5, <1>6, <1>7, <1>8

\* A signal starts a drain or kills; a drain goes on, is rejected, or ends the process.
LEMMA SignalsKeep ==
    ASSUME LauncherInv, NEW s \in Signals, Signalled(s) \/ Shutdown(s)
    PROVE  LauncherInv'
<1> USE DEF LauncherInv
<1>1. Len(names) \in Nat /\ DOMAIN names = 1..Len(names)
  BY DEF Booted
<1>2. CASE Signalled(s)
  <2>1. CASE s \in handlers
    <3>1. launcher = "waiting" /\ drain[s] = 0
      BY <2>1 DEF Closes
    <3>2. QED
      BY <1>1, <1>2, <2>1, <3>1, ReachesKeeps DEF Signalled
  <2>2. CASE s \notin handlers
    <3>1. process' = "killed" /\ UNCHANGED <<names, boot, launcher, handlers, drain, db>>
          /\ UNCHANGED <<stopping, busy, broken>>
      BY <1>2, <2>2 DEF Signalled
    <3>2. QED
      BY <3>1 DEF TypeOK, Booted, Closes, Drained, Drains, Closing, Rejected
  <2>3. QED
    BY <2>1, <2>2
<1>3. ASSUME drain[s] # 0 PROVE launcher = "waiting" /\ s \notin handlers
  BY <1>3 DEF Closes, Drains
<1>4. CASE StopReturns(s)
  <2>1. drain[s] \in 1..Len(names) /\ launcher = "waiting" /\ s \notin handlers
    BY <1>1, <1>3, <1>4 DEF StopReturns
  <2>2. Reaches(s, drain[s] + 1) /\ Stopped(names[drain[s]]) /\ Up
        /\ UNCHANGED <<names, boot, launcher, process, handlers, busy, broken>>
    BY <1>4 DEF StopReturns
  <2>3. handlers' = handlers \ {s} /\ drain[s] \in 0..Len(names)
    BY <1>1, <2>1, <2>2
  <2>4. QED
    BY <2>1, <2>2, <2>3, ReachesKeeps
<1>5. CASE StopRejects(s)
  <2>1. drain[s] \in 1..Len(names) /\ launcher = "waiting" /\ s \notin handlers
    BY <1>1, <1>3, <1>5 DEF StopRejects
  <2>2. drain' = [drain EXCEPT ![s] = Rejected] /\ process' \in {"up", "killed"}
        /\ UNCHANGED <<names, boot, launcher, handlers, stopping, busy, broken, db>>
    BY <1>5 DEF StopRejects, appVars
  <2>3. Rejected \in 0..Rejected /\ ~(Rejected <= Closing) /\ Closing' = Closing
    BY <1>1, <2>2 DEF Rejected, Closing
  <2>4. TypeOK'
    BY <2>2, <2>3 DEF TypeOK, Rejected
  <2>5. Booted'
    BY <2>2 DEF Booted
  <2>6. Closes'
    <3>1. \A z \in Signals : drain[z] = Closing => drain'[z] = Closing
      BY <1>1, <2>1, <2>2 DEF TypeOK, Closing
    <3>2. \A z \in handlers : drain'[z] = 0
      BY <2>1, <2>2 DEF Closes, TypeOK
    <3>3. QED
      BY <2>1, <2>2, <2>3, <3>1, <3>2 DEF Closes
  <2>7. Drained'
    <3>1. \A z \in Signals : drain'[z] <= Closing => z # s /\ drain'[z] = drain[z]
      BY <2>2, <2>3 DEF TypeOK
    <3>2. QED
      BY <2>2, <2>3, <3>1 DEF Drained
  <2>8. QED
    BY <2>4, <2>5, <2>6, <2>7
<1>6. CASE Exits(s)
  <2>1. drain[s] = Closing /\ launcher = "waiting"
    BY <1>1, <1>3, <1>6 DEF Exits, Closing
  <2>2. db' = "absent" /\ process' = "exited"
        /\ UNCHANGED <<names, boot, launcher, handlers, drain, stopping, busy, broken>>
    BY <1>6 DEF Exits, appVars
  <2>3. QED
    BY <2>1, <2>2 DEF TypeOK, Booted, Closes, Drained, Drains, Closing, Rejected
<1>7. QED
  BY <1>2, <1>4, <1>5, <1>6 DEF Shutdown

LEMMA LauncherInvariant == Spec => []LauncherInv
<1>1. Init => LauncherInv
  BY LauncherInit
<1>2. LauncherInv /\ [Next]_vars => LauncherInv'
  <2> SUFFICES ASSUME LauncherInv, [Next]_vars PROVE LauncherInv'
    OBVIOUS
  <2>1. CASE UNCHANGED vars
    BY <2>1 DEF vars, appVars, LauncherInv, TypeOK, Booted, Closes, Drained, Drains, Closing,
                Rejected
  <2>2. QED
    BY <2>1, AppsKeep, LaunchKeeps, SignalsKeep DEF Next
<1>3. QED
  BY <1>1, <1>2, PTL DEF Spec

\* handler.ts, runtime.ts: whatever services there are and in whatever order the two
\* signals come, the pool is closed and the process exits only upon a signal, and when every
\* app with a stop() has finished its work, also that of the other signal's drain.
THEOREM ServicesDrainFirst == Spec => []DrainedFirst
<1>1. ASSUME LauncherInv PROVE DrainedFirst
  <2> SUFFICES ASSUME launcher = "waiting", db = "destroying" \/ process = "exited"
               PROVE  Drains # {} /\ busy \cap Stoppable = {}
    BY <1>1 DEF LauncherInv, DrainedFirst
  <2>1. PICK s \in Signals : drain[s] = Closing
    BY <1>1 DEF LauncherInv, Closes
  <2>2. Len(names) \in Nat /\ DOMAIN names = 1..Len(names)
    BY <1>1 DEF LauncherInv, Booted
  <2>3. ASSUME NEW a \in busy \cap Stoppable PROVE FALSE
    <3>1. PICK i \in DOMAIN names : names[i] = a
      BY <1>1, <2>3 DEF LauncherInv, Booted, TypeOK
    <3>2. i < drain[s] /\ i <= drain[s] /\ drain[s] <= Closing
      BY <2>1, <2>2 DEF Closing
    <3>3. QED
      BY <1>1, <3>1, <3>2 DEF LauncherInv, Drained
  <2>4. QED
    BY <2>1, <2>2, <2>3 DEF Drains, Closing
<1>2. QED
  BY <1>1, LauncherInvariant, PTL
-----------------------------------------------------------------------------
(* What an app is to the launcher.                                          *)

\* An app that has not booted is at rest; the launcher waits once all have booted.
Rested ==
    /\ \A a \in App : boot[a] # "ready" => a \notin busy /\ a \notin broken /\ a \notin stopping
    /\ launcher = "waiting" => \A i \in DOMAIN names : boot[names[i]] = "ready"

\* What the entry of an app says, now and after a step.
LEMMA AppEntry ==
    ASSUME NEW a \in App
    PROVE  /\ Apps[a] = [life |-> Apps[a].life, busy |-> Apps[a].busy,
                     broken |-> Apps[a].broken]
           /\ Apps[a].life = AppLife(a)
           /\ Apps[a].busy \in BOOLEAN /\ (Apps[a].busy <=> a \in busy)
           /\ Apps[a].broken \in BOOLEAN /\ (Apps[a].broken <=> a \in broken)
<1>1. PICK entry : entry = Apps[a]
  OBVIOUS
<1>2. entry = [life |-> entry.life, busy |-> entry.busy, broken |-> entry.broken]
  BY <1>1 DEF Apps
<1>3. /\ entry.life = AppLife(a)
      /\ entry.busy = (a \in busy) /\ (entry.busy <=> a \in busy)
      /\ entry.broken = (a \in broken) /\ (entry.broken <=> a \in broken)
  BY <1>1 DEF Apps
<1>4. (a \in busy) \in BOOLEAN /\ (a \in broken) \in BOOLEAN
  OBVIOUS
<1>5. entry.busy \in BOOLEAN /\ entry.broken \in BOOLEAN
  BY <1>3, <1>4, Zenon
<1>6. QED
  BY <1>1, <1>2, <1>3, <1>5

LEMMA AppEntryNext ==
    ASSUME NEW a \in App
    PROVE  /\ Apps'[a] = [life |-> Apps'[a].life, busy |-> Apps'[a].busy,
                     broken |-> Apps'[a].broken]
           /\ Apps'[a].life = AppLife(a)'
           /\ Apps'[a].busy \in BOOLEAN /\ (Apps'[a].busy <=> a \in busy')
           /\ Apps'[a].broken \in BOOLEAN /\ (Apps'[a].broken <=> a \in broken')
<1>1. PICK entry : entry = Apps'[a]
  OBVIOUS
<1>2. entry = [life |-> entry.life, busy |-> entry.busy, broken |-> entry.broken]
  BY <1>1 DEF Apps
<1>3. /\ entry.life = AppLife(a)'
      /\ entry.busy = (a \in busy') /\ (entry.busy <=> a \in busy')
      /\ entry.broken = (a \in broken') /\ (entry.broken <=> a \in broken')
  BY <1>1 DEF Apps
<1>4. (a \in busy') \in BOOLEAN /\ (a \in broken') \in BOOLEAN
  OBVIOUS
<1>5. entry.busy \in BOOLEAN /\ entry.broken \in BOOLEAN
  BY <1>3, <1>4, Zenon
<1>6. QED
  BY <1>1, <1>2, <1>3, <1>5

LEMMA EntryAtRest ==
    ASSUME NEW entry, entry = [life |-> entry.life, busy |-> entry.busy,
                               broken |-> entry.broken],
           entry.busy = FALSE, entry.broken = FALSE
    PROVE  /\ entry.life = "down" => entry = Contract!Down
           /\ entry.life = "up" => entry = [Contract!Down EXCEPT !.life = "up"]
<1>1. ASSUME entry.life = "down" PROVE entry = Contract!Down
  BY <1>1 DEF Contract!Down
<1>2. PICK down : down = Contract!Down
  OBVIOUS
<1>3. down.busy = FALSE /\ down.broken = FALSE
  BY <1>2 DEF Contract!Down
<1>4. down = [life |-> down.life, busy |-> down.busy, broken |-> down.broken]
  BY <1>2 DEF Contract!Down
<1>5. ASSUME entry.life = "up" PROVE entry = [down EXCEPT !.life = "up"]
  BY <1>3, <1>4, <1>5
<1>6. QED
  BY <1>1, <1>2, <1>5

LEMMA BootIsStart ==
    ASSUME LauncherInv, Rested, Launch
    PROVE  Rested' /\ [Contract!Next]_Apps
<1> USE DEF LauncherInv
<1>1. UNCHANGED <<names, stopping, busy, broken>>
  BY DEF Launch, Selects, AllReady, BootFails, FinallyCloses, FinallyClosed, EndsByItself,
         Starts, appVars
<1>2. CASE Selects
  <2>1. \A a \in App : boot[a] = "no" /\ boot'[a] # "ready"
    BY <1>2 DEF Selects, Booted
  <2>2. launcher' # "waiting"
    BY <1>2 DEF Selects
  <2>3. Rested'
    BY <1>1, <2>1, <2>2 DEF Rested
  <2>4. \A a \in App : boot[a] # "ready" /\ boot'[a] # "ready"
    BY <2>1
  <2>5. UNCHANGED Apps
    BY <1>1, <2>4 DEF Apps, AppLife
  <2>6. QED
    BY <2>3, <2>5
<1>3. ASSUME NEW a \in App, NEW how \in {"ready", "failed"}, Starts(a, how)
      PROVE  Rested' /\ [Contract!Next]_Apps
  <2>1. boot[a] = "starting" /\ boot' = [boot EXCEPT ![a] = how] /\ UNCHANGED launcher
    BY <1>3 DEF Starts
  <2>2. launcher # "waiting"
    BY <2>1 DEF Rested, Booted
  <2>3. a \notin busy /\ a \notin broken /\ a \notin stopping
    BY <2>1 DEF Rested
  <2>4. boot'[a] = how /\ \A b \in App \ {a} : boot'[b] = boot[b]
    BY <2>1 DEF TypeOK
  <2>5. Rested'
    BY <1>1, <2>1, <2>2, <2>3, <2>4 DEF Rested
  <2>6. \A b \in App \ {a} : Apps'[b] = Apps[b]
    BY <1>1, <2>4 DEF Apps, AppLife
  <2>7. Apps[a] = Contract!Down
    <3>1. Apps[a].life = "down" /\ Apps[a].busy = FALSE /\ Apps[a].broken = FALSE
      BY <2>1, <2>3, AppEntry DEF AppLife
    <3>2. QED
      BY <3>1, AppEntry, EntryAtRest
  <2>8. CASE how = "failed"
    <3>1. Apps'[a] = Contract!Down
      <4>1. Apps'[a].life = "down" /\ Apps'[a].busy = FALSE /\ Apps'[a].broken = FALSE
        BY <1>1, <2>3, <2>4, <2>8, AppEntryNext DEF AppLife
      <4>2. QED
        BY <4>1, AppEntryNext, EntryAtRest
    <3>2. Apps' = Apps
      BY <2>6, <2>7, <3>1 DEF Apps, AppLife
    <3>3. QED
      BY <2>5, <3>2
  <2>9. CASE how = "ready"
    <3>1. Apps'[a] = [Contract!Down EXCEPT !.life = "up"]
      <4>1. Apps'[a].life = "up" /\ Apps'[a].busy = FALSE /\ Apps'[a].broken = FALSE
        BY <1>1, <2>3, <2>4, <2>9, AppEntryNext DEF AppLife
      <4>2. QED
        BY <4>1, AppEntryNext, EntryAtRest
    <3>2. Apps' = [Apps EXCEPT ![a] = [Contract!Down EXCEPT !.life = "up"]]
      BY <2>6, <3>1 DEF Apps, AppLife
    <3>3. Contract!Start(a)
      BY <2>7, <3>2 DEF Contract!Start, Contract!Becomes
    <3>4. QED
      BY <2>5, <3>3 DEF Contract!Next
  <2>10. QED
    BY <2>8, <2>9
<1>4. CASE AllReady
  <2>1. Rested' /\ UNCHANGED Apps
    BY <1>1, <1>4 DEF AllReady, Rested, Apps, AppLife
  <2>2. QED
    BY <2>1
<1>5. CASE BootFails \/ FinallyCloses \/ FinallyClosed \/ EndsByItself
  <2>1. launcher' # "waiting" /\ UNCHANGED boot
    BY <1>5 DEF BootFails, FinallyCloses, FinallyClosed, EndsByItself, EndReached
  <2>2. Rested' /\ UNCHANGED Apps
    BY <1>1, <2>1 DEF Rested, Apps, AppLife
  <2>3. QED
    BY <2>2
<1>6. QED
  BY <1>2, <1>3, <1>4, <1>5 DEF Launch

LEMMA WorkIsTaken ==
    ASSUME LauncherInv, Rested, NEW a \in App, TakesWork(a) \/ WorkEnds(a) \/ Breaks(a)
    PROVE  Rested' /\ [Contract!Next]_Apps
<1> USE DEF LauncherInv
<1>1. UNCHANGED <<names, boot, launcher, stopping>>
  BY DEF TakesWork, WorkEnds, Breaks
<1>2. boot[a] = "ready"
  BY DEF TakesWork, WorkEnds, Breaks, Booted
<1>3. \A b \in App \ {a} : (b \in busy' <=> b \in busy) /\ (b \in broken' <=> b \in broken)
  BY DEF TakesWork, WorkEnds, Breaks
<1>4. Rested'
  BY <1>1, <1>2, <1>3 DEF Rested
<1>5. PICK from, to : from = Apps[a] /\ to = Apps'[a]
  OBVIOUS
<1>6. /\ from.life = (IF a \in stopping THEN "stopping" ELSE "up") /\ to.life = from.life
      /\ (from.busy <=> a \in busy) /\ (to.busy <=> a \in busy')
      /\ (from.broken <=> a \in broken) /\ (to.broken <=> a \in broken')
      /\ from.busy \in BOOLEAN /\ to.busy \in BOOLEAN
      /\ from.broken \in BOOLEAN /\ to.broken \in BOOLEAN
  BY <1>1, <1>2, <1>5, AppEntry, AppEntryNext DEF AppLife
<1>7. /\ from = [life |-> from.life, busy |-> from.busy, broken |-> from.broken]
      /\ to = [life |-> to.life, busy |-> to.busy, broken |-> to.broken]
  BY <1>5, AppEntry, AppEntryNext
<1>8. Apps' = [Apps EXCEPT ![a] = to]
  <2>1. \A b \in App \ {a} : Apps'[b] = Apps[b]
    BY <1>1, <1>3 DEF Apps, AppLife
  <2>2. QED
    BY <1>5, <2>1 DEF Apps, AppLife
<1>9. CASE TakesWork(a)
  <2>1. from.life = "up" /\ to.life = "up" /\ to.busy = TRUE /\ to.broken = from.broken
    BY <1>6, <1>9 DEF TakesWork
  <2>2. to = [from EXCEPT !.busy = TRUE]
    BY <1>7, <2>1
  <2>3. Contract!TakesWork(a)
    BY <1>5, <1>8, <2>1, <2>2 DEF Contract!TakesWork, Contract!Becomes
  <2>4. QED
    BY <1>4, <2>3 DEF Contract!Next
<1>10. CASE WorkEnds(a) \/ Breaks(a)
  <2>1. /\ from.life # "down" /\ to.life = from.life
        /\ to.busy \in {FALSE, from.busy} /\ to.broken \in {TRUE, from.broken}
    <3>1. (a \in busy' => a \in busy) /\ (a \in broken => a \in broken')
      BY <1>10 DEF WorkEnds, Breaks
    <3>2. QED
      BY <1>6, <3>1
  <2>2. to = [from EXCEPT !.busy = to.busy, !.broken = to.broken]
    BY <1>7, <2>1
  <2>3. Contract!GoesOn(a)
    BY <1>5, <1>8, <2>1, <2>2 DEF Contract!GoesOn, Contract!Becomes
  <2>4. QED
    BY <1>4, <2>3 DEF Contract!Next
<1>11. QED
  BY <1>9, <1>10

\* A drain tells one app to stop, and one that has booted.
LEMMA DrainIsStop ==
    ASSUME LauncherInv, Rested, launcher = "waiting", NEW s \in Signals, NEW i, Reaches(s, i),
           UNCHANGED <<names, boot, launcher, busy, broken>>
    PROVE  Rested' /\ [Contract!Next]_Apps
<1> USE DEF LauncherInv
<1>1. CASE UNCHANGED stopping
  <2>1. Rested' /\ UNCHANGED Apps
    BY <1>1 DEF Rested, Apps, AppLife
  <2>2. QED
    BY <2>1
<1>2. CASE stopping' # stopping
  <2>1. i \in DOMAIN names /\ stopping' = stopping \cup ({names[i]} \cap Stoppable)
    BY <1>2 DEF Reaches
  <2>2. PICK a : a = names[i]
    OBVIOUS
  <2>3. a \in App /\ a \notin stopping /\ stopping' = stopping \cup {a}
    BY <1>2, <2>1, <2>2 DEF Booted
  <2>4. boot[a] = "ready"
    BY <2>1, <2>2 DEF Rested
  <2>5. Rested'
    BY <2>3, <2>4 DEF Rested
  <2>6. Apps[a].life = "up" /\ Apps'[a] = [Apps[a] EXCEPT !.life = "stopping"]
    BY <2>3, <2>4 DEF Apps, AppLife
  <2>7. Apps' = [Apps EXCEPT ![a] = [Apps[a] EXCEPT !.life = "stopping"]]
    <3>1. \A b \in App \ {a} : Apps'[b] = Apps[b]
      BY <2>3 DEF Apps, AppLife
    <3>2. QED
      <4>1. PICK entry : entry = [Apps[a] EXCEPT !.life = "stopping"]
        OBVIOUS
      <4>2. Apps'[a] = entry
        BY <2>6, <4>1
      <4>3. Apps' = [Apps EXCEPT ![a] = entry]
        BY <3>1, <4>2 DEF Apps, AppLife
      <4>4. QED
        BY <4>1, <4>3
  <2>8. Contract!Stop(a)
    BY <2>6, <2>7 DEF Contract!Stop, Contract!Becomes
  <2>9. QED
    BY <2>3, <2>5, <2>8 DEF Contract!Next
<1>3. QED
  BY <1>1, <1>2

LEMMA SignalsStop ==
    ASSUME LauncherInv, Rested, NEW s \in Signals, Signalled(s) \/ Shutdown(s)
    PROVE  Rested' /\ [Contract!Next]_Apps
<1> USE DEF LauncherInv
<1>1. UNCHANGED <<names, boot, launcher, busy, broken>>
  BY DEF Signalled, Shutdown, StopReturns, StopRejects, Exits, appVars
<1>2. CASE UNCHANGED stopping
  <2>1. Rested' /\ UNCHANGED Apps
    BY <1>1, <1>2 DEF Rested, Apps, AppLife
  <2>2. QED
    BY <2>1
<1>3. CASE s \in handlers /\ Signalled(s)
  <2>1. launcher = "waiting" /\ Reaches(s, 1)
    BY <1>3 DEF Signalled, Closes
  <2>2. QED
    BY <1>1, <2>1, DrainIsStop
<1>4. CASE StopReturns(s)
  <2>1. drain[s] # 0 /\ Reaches(s, drain[s] + 1)
    BY <1>4 DEF StopReturns, Booted
  <2>2. launcher = "waiting"
    BY <2>1 DEF Closes, Drains
  <2>3. QED
    BY <1>1, <2>1, <2>2, DrainIsStop
<1>5. QED
  BY <1>2, <1>3, <1>4 DEF Signalled, Shutdown, StopRejects, Exits, appVars

\* handler.ts, application.ts: whatever services there are, the launcher needs no more of an
\* app than the contract that a consumer is proved to implement: stop() is called of no app
\* whose start() has not resolved, although boots fail and signals come at any moment.
THEOREM LauncherRunsApps == Spec => RunsApps
<1>1. Init => Rested /\ Contract!Init
  <2> SUFFICES ASSUME Init PROVE Rested /\ Contract!Init
    OBVIOUS
  <2>1. \A a \in App : boot[a] = "no" /\ a \notin busy /\ a \notin broken /\ a \notin stopping
    BY DEF Init
  <2>2. Rested
    BY <2>1 DEF Init, Rested
  <2>3. ASSUME NEW a \in App PROVE Apps[a] = Contract!Down
    <3>1. Apps[a].life = "down" /\ Apps[a].busy = FALSE /\ Apps[a].broken = FALSE
      BY <2>1, AppEntry DEF AppLife
    <3>2. QED
      BY <3>1, AppEntry, EntryAtRest
  <2>4. QED
    BY <2>2, <2>3 DEF Apps, Contract!Init
<1>2. LauncherInv /\ Rested /\ [Next]_vars => Rested' /\ [Contract!Next]_Apps
  <2> SUFFICES ASSUME LauncherInv, Rested, [Next]_vars PROVE Rested' /\ [Contract!Next]_Apps
    OBVIOUS
  <2>1. CASE UNCHANGED vars
    <3>1. Rested' /\ UNCHANGED Apps
      BY <2>1 DEF vars, appVars, Rested, Apps, AppLife
    <3>2. QED
      BY <3>1
  <2>2. QED
    BY <2>1, BootIsStart, WorkIsTaken, SignalsStop DEF Next
<1>3. QED
  BY <1>1, <1>2, LauncherInvariant, PTL DEF Spec, RunsApps, Contract!Spec
====================================================================================
