------------------------------ MODULE AdapterStream ------------------------------
(***************************************************************************)
(* What IProviderAdapter.ingest (libs/adapters/src/types.ts) is promised   *)
(* to be: the stream of events a sync is, whatever the provider.  It says  *)
(* started, then auth, then the messages of a listing, none twice; it ends *)
(* with one terminal event, completed when all that was listed has been    *)
(* said and failed else, unless a refresh of the credentials fails         *)
(* terminally, which throws, or the runner leaves it.                      *)
(*                                                                         *)
(* The one adapter there is throws at other places too, and the runner     *)
(* (runSyncTask) is written for that: Throws is what it takes besides, and *)
(* no part of the promise.                                                 *)
(***************************************************************************)
EXTENDS Naturals

CONSTANT Message

VARIABLES last,  \* the last event but for messages, or how the stream ended
          due,   \* the messages listed and not yet yielded
          sent   \* the messages yielded

vars == <<last, due, sent>>

Open == {"none", "started", "auth"}

Init == last = "none" /\ due = {} /\ sent = {}

Starts == last = "none" /\ last' = "started" /\ UNCHANGED <<due, sent>>

Authorized == last = "started" /\ last' = "auth" /\ UNCHANGED <<due, sent>>

RefreshFails == last = "started" /\ last' = "threw" /\ UNCHANGED <<due, sent>>

Lists(m) ==
    /\ last = "auth" /\ m \notin due \cup sent
    /\ due' = due \cup {m}
    /\ UNCHANGED <<last, sent>>

Yields(m) ==
    /\ last = "auth" /\ m \in due
    /\ due' = due \ {m} /\ sent' = sent \cup {m}
    /\ UNCHANGED last

Completes == last = "auth" /\ due = {} /\ last' = "completed" /\ UNCHANGED <<due, sent>>

Fails == last \in {"started", "auth"} /\ last' = "failed" /\ UNCHANGED <<due, sent>>

\* The runner's loop ends early, with an event in its hands.
Leaves == last \in {"started", "auth"} /\ last' = "left" /\ UNCHANGED <<due, sent>>

Next ==
    \/ Starts \/ Authorized \/ RefreshFails \/ Completes \/ Fails \/ Leaves
    \/ \E m \in Message : Lists(m) \/ Yields(m)

\* The promise of types.ts.
Spec == Init /\ [][Next]_vars

\* A throw anywhere, which the runner catches.
Throws == last \in Open /\ last' = "threw" /\ UNCHANGED <<due, sent>>
===============================================================================
