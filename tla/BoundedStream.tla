------------------------------ MODULE BoundedStream ------------------------------
(***************************************************************************)
(* What boundedConcurrencyPoolStream promises its caller: each item moves  *)
(* forward through its stages, at most Size are running, at most one more  *)
(* is in the producer's hand, nothing is started or yielded after the      *)
(* iteration has ended, and an iteration that returns has yielded the      *)
(* result of every item it took from the source.                           *)
(***************************************************************************)
EXTENDS Naturals, FiniteSets

CONSTANTS Item, Size

VARIABLES stage,    \* where each item is
          outcome   \* how the iteration ended, "none" while it goes on

vars == <<stage, outcome>>

In(s) == {i \in Item : stage[i] = s}
Move(i, from, to) == stage[i] = from /\ stage' = [stage EXCEPT ![i] = to]

Init == stage = [i \in Item |-> "source"] /\ outcome = "none"

Take(i) ==
    /\ outcome = "none" /\ In("held") = {}
    /\ Move(i, "source", "held")
    /\ UNCHANGED outcome

Admit(i) ==
    /\ outcome = "none" /\ Cardinality(In("running")) < Size
    /\ Move(i, "held", "running")
    /\ UNCHANGED outcome

\* A running item resolves (its result is ready) or rejects.
Settle(i) ==
    /\ Move(i, "running", "ready") \/ Move(i, "running", "gone")
    /\ UNCHANGED outcome

Deliver(i) ==
    /\ outcome = "none"
    /\ Move(i, "ready", "delivered")
    /\ UNCHANGED outcome

\* An item still held, or answered too late, is dropped once the stream ended.
Drop(i) ==
    /\ outcome # "none"
    /\ Move(i, "source", "gone") \/ Move(i, "held", "gone")
    /\ UNCHANGED outcome

Return ==
    /\ outcome = "none"
    /\ \A i \in Item : stage[i] \in {"source", "delivered"}
    /\ outcome' = "returned"
    /\ UNCHANGED stage

Abandon ==
    /\ outcome = "none"
    /\ outcome' \in {"threw", "broke"}
    /\ UNCHANGED stage

Next ==
    \/ \E i \in Item : Take(i) \/ Admit(i) \/ Settle(i) \/ Deliver(i) \/ Drop(i)
    \/ Return
    \/ Abandon

Spec == Init /\ [][Next]_vars
===============================================================================
