------------------------------ MODULE MessageStore ------------------------------
(***************************************************************************)
(* persistMessage of packages/backend/libs/sync (persistence/mutations):   *)
(* the statements that store one message, under concurrent syncs of one    *)
(* provider account.  (The unique index is per account: rows of two        *)
(* accounts never meet.)                                                   *)
(*                                                                         *)
(* A call is one READ COMMITTED transaction of two parts.  The core is one *)
(* statement: insert the raw row unless its key is taken, read the raw's   *)
(* id back, insert the message and the event.  It reads the snapshot taken *)
(* when it begins, but its insert meets the index as it is: it waits for a *)
(* transaction that has inserted the same key, and then inserts or not     *)
(* according to how that one ended.  The second part inserts the           *)
(* participants and attachments of a new message.                          *)
(***************************************************************************)
CONSTANTS Writer,   \* the tasks that store messages
          Message,  \* the external ids of the account's messages
          NoMessage

VARIABLES table,  \* committed: raw rows, messages, messages' children
          noted,  \* committed message events, as <<writer, message>>
          tx      \* the transaction of each writer

\* at: "core" until the first statement has answered, then "children", then
\* "commit".  sees: the raw rows of the statement's snapshot.
Tx == [at : {"idle", "core", "children", "commit"},
       msg : Message \cup {NoMessage}, sees : SUBSET Message, new : BOOLEAN]

NoTx == [at |-> "idle", msg |-> NoMessage, sees |-> {}, new |-> FALSE]

Init ==
    /\ table = [raw |-> {}, message |-> {}, children |-> {}]
    /\ noted = {}
    /\ tx = [w \in Writer |-> NoTx]

-----------------------------------------------------------------------------

\* Another transaction has inserted m's raw row and not ended.  Seeded fault:
\* nobody waits for it.
NeverPending(w, m) == FALSE

Pending(w, m) ==
    \E v \in Writer \ {w} :
        tx[v].at \in {"children", "commit"} /\ tx[v].new /\ tx[v].msg = m

Begin(w, m) ==
    /\ tx[w].at = "idle"
    /\ tx' = [tx EXCEPT ![w] = [at |-> "core", msg |-> m, sees |-> table.raw, new |-> FALSE]]
    /\ UNCHANGED <<table, noted>>

AtCore(w) == tx[w].at = "core" /\ ~Pending(w, tx[w].msg)

\* Seeded fault: the core commits on its own.
CoreInsertsAtOnce(w) ==
    /\ AtCore(w) /\ tx[w].msg \notin table.raw
    /\ tx' = [tx EXCEPT ![w].at = "children", ![w].new = TRUE]
    /\ table' = [table EXCEPT !.raw = @ \cup {tx[w].msg}, !.message = @ \cup {tx[w].msg}]
    /\ UNCHANGED noted

CoreInserts(w) ==
    /\ AtCore(w) /\ tx[w].msg \notin table.raw
    /\ tx' = [tx EXCEPT ![w].at = "children", ![w].new = TRUE]
    /\ UNCHANGED <<table, noted>>

\* ON CONFLICT DO NOTHING, and the select-back finds the row: only the event is
\* written.
CoreSkips(w) ==
    /\ AtCore(w) /\ tx[w].msg \in table.raw \cap tx[w].sees
    /\ tx' = [tx EXCEPT ![w].at = "commit"]
    /\ UNCHANGED <<table, noted>>

\* The row was committed after the snapshot: the insert does nothing, the
\* select-back finds nothing, and executeTakeFirstOrThrow throws.
SnapshotIsStale(w) == AtCore(w) /\ tx[w].msg \in table.raw \ tx[w].sees

CoreFindsNothing(w) ==
    /\ SnapshotIsStale(w)
    /\ tx' = [tx EXCEPT ![w] = NoTx]
    /\ UNCHANGED <<table, noted>>

InsertChildren(w) ==
    /\ tx[w].at = "children"
    /\ tx' = [tx EXCEPT ![w].at = "commit"]
    /\ UNCHANGED <<table, noted>>

Commit(w) ==
    /\ tx[w].at = "commit"
    /\ LET stored == IF tx[w].new THEN {tx[w].msg} ELSE {}
       IN table' = [raw |-> table.raw \cup stored, message |-> table.message \cup stored,
                    children |-> table.children \cup stored]
    /\ noted' = noted \cup {<<w, tx[w].msg>>}
    /\ tx' = [tx EXCEPT ![w] = NoTx]

\* Statements fail one at a time; a process takes its transactions with it.
Rollback(W) ==
    /\ tx' = [w \in Writer |-> IF w \in W THEN NoTx ELSE tx[w]]
    /\ UNCHANGED <<table, noted>>

Next ==
    \/ \E w \in Writer, m \in Message : Begin(w, m)
    \/ \E w \in Writer :
         CoreInserts(w) \/ CoreSkips(w) \/ CoreFindsNothing(w) \/ InsertChildren(w) \/ Commit(w)
    \/ \E W \in SUBSET Writer : Rollback(W)

Spec == Init /\ [][Next]_<<table, noted, tx>>

-----------------------------------------------------------------------------

\* The variables have their types.
TypeOK ==
    /\ table \in [raw : SUBSET Message, message : SUBSET Message, children : SUBSET Message]
    /\ noted \in SUBSET (Writer \X Message)
    /\ tx \in [Writer -> Tx]

\* A raw row is there with its message, its participants and its attachments, or
\* not at all: a later sync skips a message whose raw row it finds, so what is
\* missing beside it would be missing for ever.
RawHasGraph == table.raw = table.message /\ table.raw = table.children

\* However many syncs meet at one message, one of them stores it: two never have
\* its row open at once, and none has a row open that is already stored.
StoredOnce ==
    \A w \in Writer : tx[w].new =>
        /\ tx[w].msg \notin table.raw
        /\ ~Pending(w, tx[w].msg)

\* The select-back of a conflicting insert finds the row it conflicts with.
SelectBackFinds == \A w \in Writer : ~SnapshotIsStale(w)
================================================================================
