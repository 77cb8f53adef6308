------------------------------- MODULE PoolStream -------------------------------
(***************************************************************************)
(* boundedConcurrencyPoolStream of packages/shared/concurrency: a producer *)
(* pulls a source, paces itself on a ConcurrencyPool and submits fn(item); *)
(* a channel carries each result to the one consumer that iterates.        *)
(*                                                                         *)
(* All of it runs on one JavaScript thread, so what interleaves is         *)
(* continuations.  `micro` is the microtask queue: a resolved promise      *)
(* appends the continuation that awaits it, and continuations run whole,   *)
(* in order.  The order matters: the last thunk to settle resumes the      *)
(* producer, which closes the channel, BEFORE its own result is pushed.    *)
(* What happens outside (a thunk's work ends, the source answers, the      *)
(* consumer's loop body ends) appends to `micro` at any moment.            *)
(***************************************************************************)
EXTENDS Naturals, Sequences, FiniteSets

CONSTANTS N,     \* the source holds at most N items, pulled in order 1, 2, ...
          Size   \* the `size` argument

ASSUME NAssumption == N \in Nat
ASSUME SizeAssumption == Size \in Nat \ {0}

Item == 1..N
None == 0
Producer == "producer"

VARIABLES
    active, running, queue, capacityWaiters, idleWaiters,  \* the pool
    buffer, closed, failure, wake,                         \* the channel
    producer,   \* where the producer stands
    held,       \* the item it has pulled and not yet submitted
    pulled,     \* how many items the source has handed over
    consumer,   \* where the consumer stands
    cancelled,  \* the flag the consumer's `finally` raises
    delivered,  \* the results yielded so far
    outcome,    \* how the iteration ended
    micro       \* the microtask queue

poolVars == <<active, running, queue, capacityWaiters, idleWaiters>>
chanVars == <<buffer, closed, failure, wake>>
prodVars == <<producer, held, pulled>>
consVars == <<consumer, cancelled, delivered, outcome>>
vars == <<poolVars, chanVars, prodVars, consVars, micro>>

Pool == INSTANCE ConcurrencyPool WITH Task <- Item, Waiter <- {Producer}

\* The first next() starts the producer, which asks the source for an item, and
\* finds the channel empty, so the consumer parks.
Init ==
    /\ Pool!Init
    /\ buffer = <<>> /\ closed = FALSE /\ failure = FALSE /\ wake = TRUE
    /\ producer = "pulling" /\ held = None /\ pulled = 0
    /\ consumer = "parked" /\ cancelled = FALSE
    /\ delivered = <<>> /\ outcome = "none"
    /\ micro = <<>>

-----------------------------------------------------------------------------
(* Continuations.                                                           *)

Resume(k) == micro' = Append(micro, k)
IsNext(tag) == micro # <<>> /\ Head(micro)[1] = tag
Then(ks) == micro' = Tail(micro) \o ks

\* bump(): wake the parked consumer, if there is one.
Bumped == IF wake THEN <<<<"consumer", "next">>>> ELSE <<>>

-----------------------------------------------------------------------------
(* Outside events.                                                          *)

ThunkSettles(i, ok) ==
    /\ i \in running
    /\ \A k \in DOMAIN micro : micro[k][1] = "settle" => micro[k][2] # i
    /\ Resume(<<"settle", i, ok>>)
    /\ UNCHANGED <<poolVars, chanVars, prodVars, consVars>>

SourceAnswers(answer) ==
    /\ producer = "pulling"
    /\ answer = "item" => pulled < N
    /\ producer' = "answered"
    /\ Resume(<<"pull", answer>>)
    /\ UNCHANGED <<poolVars, chanVars, held, pulled, consVars>>

\* The consumer's loop body ends: it asks for the next result or breaks.
BodyEnds(how) ==
    /\ consumer = "body"
    /\ consumer' = "resuming"
    /\ Resume(<<"consumer", how>>)
    /\ UNCHANGED <<poolVars, chanVars, prodVars, cancelled, delivered, outcome>>

-----------------------------------------------------------------------------
(* The pool and the channel.                                                *)

\* run() resumes after its thunk: the pool's `finally` may resolve the promise
\* the producer awaits, and only then does run()'s own promise settle, whose
\* handler pushes the result or fails the channel.
RunSettle ==
    /\ IsNext("settle")
    /\ Pool!Settle(Head(micro)[2])
    /\ LET released == capacityWaiters' # capacityWaiters \/ idleWaiters' # idleWaiters
       IN Then((IF released THEN <<<<"producer">>>> ELSE <<>>)
               \o <<<<"publish", Head(micro)[2], Head(micro)[3]>>>>)
    /\ UNCHANGED <<chanVars, prodVars, consVars>>

RunPublish ==
    /\ IsNext("publish")
    /\ IF Head(micro)[3]
       THEN buffer' = Append(buffer, Head(micro)[2]) /\ UNCHANGED failure
       ELSE failure' = TRUE /\ UNCHANGED buffer
    /\ wake' = FALSE
    /\ Then(Bumped)
    /\ UNCHANGED <<poolVars, closed, prodVars, consVars>>

-----------------------------------------------------------------------------
(* The producer.                                                            *)

\* `await pool.onIdle()`, reached when the source is done or the loop breaks.
Drain ==
    /\ producer' = "draining"
    /\ IF Pool!Drained(active, queue)
       THEN Then(<<<<"producer">>>>) /\ UNCHANGED poolVars
       ELSE Then(<<>>) /\ Pool!OnIdle(Producer)

\* `await pool.whenCapacityAvailable()` with an item in hand.
\* Seeded fault: the producer submits whatever it pulls.
NoGate ==
    /\ producer' = "gated"
    /\ Then(<<<<"producer">>>>)
    /\ UNCHANGED poolVars

Gate ==
    /\ producer' = "gated"
    /\ IF Pool!HasRoom(active, queue)
       THEN Then(<<<<"producer">>>>) /\ UNCHANGED poolVars
       ELSE Then(<<>>) /\ Pool!WhenCapacityAvailable(Producer)

PullItem ==
    /\ IsNext("pull") /\ Head(micro)[2] = "item"
    /\ pulled' = pulled + 1
    /\ \/ ~cancelled /\ held' = pulled' /\ Gate
       \/ cancelled /\ UNCHANGED held /\ Drain
    /\ UNCHANGED <<chanVars, consVars>>

PullDone ==
    /\ IsNext("pull") /\ Head(micro)[2] = "done"
    /\ Drain
    /\ UNCHANGED <<chanVars, held, pulled, consVars>>

\* A consumer in its `finally` awaits the producer and ends with it.
\* (Seeded fault first: the parked consumer is not woken.)
EndsSilently(how) ==
    /\ producer' = how
    /\ consumer' = IF consumer = "cleanup" THEN "ended" ELSE consumer
    /\ Then(<<>>)
    /\ UNCHANGED wake

ProducerEnds(how) ==
    /\ producer' = how
    /\ consumer' = IF consumer = "cleanup" THEN "ended" ELSE consumer
    /\ wake' = FALSE
    /\ Then(Bumped)

\* The source throws: the channel fails at once, whatever is in flight.
PullThrows ==
    /\ IsNext("pull") /\ Head(micro)[2] = "throw"
    /\ failure' = TRUE
    /\ ProducerEnds("threw")
    /\ UNCHANGED <<poolVars, buffer, closed, held, pulled, cancelled, delivered, outcome>>

\* Seeded fault: the flag is not looked at again after the gate.
SubmitUnchecked ==
    /\ IsNext("producer") /\ producer = "gated"
    /\ held' = None
    /\ Pool!Submit(held) /\ producer' = "pulling" /\ Then(<<>>)
    /\ UNCHANGED <<chanVars, pulled, consVars>>

RunGated ==
    /\ IsNext("producer") /\ producer = "gated"
    /\ held' = None
    /\ \/ ~cancelled /\ Pool!Submit(held) /\ producer' = "pulling" /\ Then(<<>>)
       \/ cancelled /\ Drain
    /\ UNCHANGED <<chanVars, pulled, consVars>>

RunDrained ==
    /\ IsNext("producer") /\ producer = "draining"
    /\ closed' = TRUE
    /\ ProducerEnds("closed")
    /\ UNCHANGED <<poolVars, buffer, failure, held, pulled, cancelled, delivered, outcome>>

-----------------------------------------------------------------------------
(* The consumer.                                                            *)

\* The generator's `finally`: raise the flag and await the producer.
Leave(how) ==
    /\ outcome' = how
    /\ cancelled' = TRUE
    /\ consumer' = IF producer \in {"closed", "threw"} THEN "ended" ELSE "cleanup"
    /\ UNCHANGED <<buffer, wake, delivered>>

\* Seeded fault: a close takes effect before buffered results and a failure.
CloseBeforeBuffer ==
    \/ closed /\ Leave("returned")
    \/ /\ ~closed /\ buffer # <<>>
       /\ delivered' = Append(delivered, Head(buffer))
       /\ buffer' = Tail(buffer)
       /\ consumer' = "body"
       /\ UNCHANGED <<wake, cancelled, outcome>>
    \/ ~closed /\ buffer = <<>> /\ failure /\ Leave("threw")
    \/ /\ ~closed /\ buffer = <<>> /\ ~failure
       /\ wake' = TRUE
       /\ consumer' = "parked"
       /\ UNCHANGED <<buffer, delivered, cancelled, outcome>>

Iterate ==
    \/ /\ buffer # <<>>
       /\ delivered' = Append(delivered, Head(buffer))
       /\ buffer' = Tail(buffer)
       /\ consumer' = "body"
       /\ UNCHANGED <<wake, cancelled, outcome>>
    \/ buffer = <<>> /\ failure /\ Leave("threw")
    \/ buffer = <<>> /\ ~failure /\ closed /\ Leave("returned")
    \/ /\ buffer = <<>> /\ ~failure /\ ~closed
       /\ wake' = TRUE
       /\ consumer' = "parked"
       /\ UNCHANGED <<buffer, delivered, cancelled, outcome>>

RunConsumer ==
    /\ IsNext("consumer")
    /\ \/ Head(micro)[2] = "next" /\ Iterate
       \/ Head(micro)[2] = "break" /\ Leave("broke")
    /\ Then(<<>>)
    /\ UNCHANGED <<poolVars, closed, failure, prodVars>>

-----------------------------------------------------------------------------

Microtask ==
    \/ RunSettle \/ RunPublish
    \/ PullItem \/ PullDone \/ PullThrows \/ RunGated \/ RunDrained
    \/ RunConsumer

Next ==
    \/ Microtask
    \/ \E i \in Item, ok \in BOOLEAN : ThunkSettles(i, ok)
    \/ \E answer \in {"item", "done", "throw"} : SourceAnswers(answer)
    \/ \E how \in {"next", "break"} : BodyEnds(how)

Spec == Init /\ [][Next]_vars

\* The event loop runs every microtask; every thunk settles, the source always
\* answers and the consumer's body always ends (all three await I/O that does).
FairSpec ==
    /\ Spec
    /\ WF_vars(Microtask)
    /\ \A i \in Item : WF_vars(\E ok \in BOOLEAN : ThunkSettles(i, ok))
    /\ WF_vars(\E answer \in {"item", "done", "throw"} : SourceAnswers(answer))
    /\ WF_vars(\E how \in {"next", "break"} : BodyEnds(how))
-----------------------------------------------------------------------------
(* Properties.                                                              *)

Continuation ==
    ({"settle", "publish"} \X Item \X BOOLEAN) \cup {<<"producer">>}
        \cup ({"pull"} \X {"item", "done", "throw"})
        \cup ({"consumer"} \X {"next", "break"})

SeqRange(s) == {s[k] : k \in DOMAIN s}

\* The variables have their types.
TypeOK ==
    /\ Pool!TypeOK
    /\ buffer \in Seq(Item) /\ closed \in BOOLEAN /\ failure \in BOOLEAN
    /\ wake \in BOOLEAN /\ cancelled \in BOOLEAN
    /\ producer \in {"pulling", "answered", "gated", "draining", "closed", "threw"}
    /\ held \in Item \cup {None} /\ pulled \in 0..N
    /\ consumer \in {"parked", "resuming", "body", "cleanup", "ended"}
    /\ delivered \in Seq(Item)
    /\ outcome \in {"none", "returned", "threw", "broke"}
    /\ micro \in Seq(Continuation)

\* Capacity seen by the gate is still there when the producer resumes and
\* submits: the pool's own queue is never used, and `size` is never exceeded
\* (the variables having their types).
GateHolds == TypeOK /\ queue = <<>> /\ Cardinality(running) <= Size

\* An iteration that ends normally has yielded every pulled item's result, once
\* each, and no rejection was swallowed.  The close that ends it is issued before
\* the last result is pushed (or the channel failed), so this rests on the order
\* in which continuations run.  And however it ended, no invocation is in flight
\* then, unless the source itself threw (the producer does not wait for the pool).
NoResultLost ==
    /\ outcome = "returned" =>
        /\ SeqRange(delivered) = 1..pulled
        /\ Len(delivered) = pulled
        /\ ~failure
    /\ consumer = "ended" /\ producer = "closed" => running = {}

\* The stream always ends, and its consumer is never left parked.
Ends == <>(consumer = "ended")

\* What the stream promises, without pool, channel or event loop.
Pushing == {micro[k][2] : k \in {j \in DOMAIN micro : micro[j][1] = "publish" /\ micro[j][3]}}

Stage(i) ==
    CASE i > pulled -> "source"
      [] i = held -> "held"
      [] i \in running -> "running"
      [] i \in SeqRange(buffer) \cup Pushing -> "ready"
      [] i \in SeqRange(delivered) -> "delivered"
      [] OTHER -> "gone"

Abstract == INSTANCE BoundedStream WITH stage <- [i \in Item |-> Stage(i)]

\* The stream implements BoundedStream: every continuation is one of its steps
\* or changes nothing it can see.  In particular no invocation starts after the
\* consumer left, whatever the producer was waiting for at that moment.
ImplementsBoundedStream == Abstract!Spec
===============================================================================
