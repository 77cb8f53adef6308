---------------------------- MODULE PoolStreamProofs ----------------------------
(***************************************************************************)
(* The bounded stream for every number of items and every size.  The       *)
(* argument follows the microtask queue: the producer has one continuation *)
(* at a time and what it waited for still holds when that one runs, the    *)
(* consumer has one, every pulled item is in one place, and the result     *)
(* that is pushed after the close is pushed before the consumer looks.     *)
(***************************************************************************)
EXTENDS PoolStream, FiniteSetTheorems, TLAPS

-----------------------------------------------------------------------------
(* The inductive invariant.                                                 *)

\* The continuations of a kind, and the items whose results are to be pushed.
Waits(tag) == {k \in DOMAIN micro : micro[k][1] = tag}
Publishing == {micro[k][2] : k \in Waits("publish")}

\* The pool: its queue is never used, and its counter is true.
Slots == queue = <<>> /\ active = Cardinality(running) /\ active <= Size

\* The producer is in one place: it waits for the source, for the pool, or for its
\* turn, and then what it waited for still holds.
Turn ==
    /\ \A j, k \in Waits("producer") \cup Waits("pull") : j = k
    /\ \A k \in Waits("pull") :
          producer = "answered" /\ (micro[k][2] = "item" => pulled < N)
    /\ \A k \in Waits("producer") :
          /\ capacityWaiters = {} /\ idleWaiters = {}
          /\ \/ producer = "gated" /\ active < Size
             \/ producer = "draining" /\ active = 0
    /\ capacityWaiters # {} => producer = "gated"
    /\ idleWaiters # {} => producer = "draining"
    /\ held = IF producer = "gated" THEN pulled ELSE None
    /\ producer = "gated" => pulled > 0
    /\ closed <=> producer = "closed"
    /\ closed => active = 0

\* The consumer is parked, has a continuation, runs its body or has left.
Iteration ==
    /\ \A j, k \in Waits("consumer") : j = k
    /\ \A k \in Waits("consumer") : ~wake /\ consumer \in {"parked", "resuming"}
    /\ wake => consumer = "parked"
    /\ outcome = "none" <=> ~cancelled
    /\ cancelled <=> consumer \in {"cleanup", "ended"}

\* No item is in two places.
Apart ==
    /\ running \cup Publishing \cup SeqRange(buffer) \cup SeqRange(delivered) \subseteq 1..pulled
    /\ held \notin running \cup Publishing \cup SeqRange(buffer) \cup SeqRange(delivered)
    /\ running \cap (Publishing \cup SeqRange(buffer) \cup SeqRange(delivered)) = {}
    /\ Publishing \cap (SeqRange(buffer) \cup SeqRange(delivered)) = {}
    /\ SeqRange(buffer) \cap SeqRange(delivered) = {}

\* Nor twice in one.
Once ==
    /\ \A j, k \in Waits("publish") : micro[j][2] = micro[k][2] => j = k
    /\ \A j, k \in DOMAIN buffer : buffer[j] = buffer[k] => j = k
    /\ \A j, k \in DOMAIN delivered : delivered[j] = delivered[k] => j = k

\* None is lost while the stream goes on.
Kept ==
    outcome = "none" /\ ~failure =>
        1..pulled \subseteq {held} \cup running \cup Publishing
                                \cup SeqRange(buffer) \cup SeqRange(delivered)

\* Once the channel is closed, or will be before the consumer's turn, the consumer
\* finds every result pushed: the continuations that push precede it.
PushedFirst ==
    \A j \in Waits("publish"), k \in Waits("consumer") :
        closed \/ (producer = "draining" /\ \E m \in Waits("producer") : m < k) => j < k

\* What ended normally is over.
Over ==
    outcome = "returned" =>
        /\ SeqRange(delivered) = 1..pulled
        /\ ~failure /\ closed /\ Publishing = {}

IInv ==
    /\ TypeOK /\ Slots /\ Turn /\ Iteration
    /\ Apart /\ Once /\ Kept /\ PushedFirst /\ Over

-----------------------------------------------------------------------------
(* The microtask queue.                                                     *)

\* A step takes the first d continuations off the queue and puts new ones at its end.
Moved(d, new) ==
    /\ micro' \in Seq(Continuation)
    /\ \A k \in DOMAIN micro' :
          \/ k + d \in DOMAIN micro /\ micro'[k] = micro[k + d]
          \/ k + d > Len(micro) /\ micro'[k] \in new
    /\ \A k \in DOMAIN micro :
          k > d => k - d \in DOMAIN micro' /\ micro'[k - d] = micro[k]
    /\ \A j, k \in DOMAIN micro' :
          j + d > Len(micro) /\ k + d > Len(micro) /\ micro'[j] = micro'[k] => j = k
    /\ \A c \in new : \E k \in DOMAIN micro' : micro'[k] = c

\* What a continuation carries.
LEMMA Shapes ==
    ASSUME NEW c \in Continuation
    PROVE  /\ c[1] \in {"settle", "publish"} => c[2] \in Item /\ c[3] \in BOOLEAN
           /\ c[1] = "pull" => c[2] \in {"item", "done", "throw"}
           /\ c[1] = "consumer" => c[2] \in {"next", "break"}
           /\ c[1] \in {"settle", "publish", "producer", "pull", "consumer"}
  BY DEF Continuation

LEMMA Continuations ==
    /\ <<"producer">> \in Continuation
    /\ \A i \in Item, ok \in BOOLEAN :
          <<"settle", i, ok>> \in Continuation /\ <<"publish", i, ok>> \in Continuation
    /\ \A a \in {"item", "done", "throw"} : <<"pull", a>> \in Continuation
    /\ \A h \in {"next", "break"} : <<"consumer", h>> \in Continuation
  BY DEF Continuation

LEMMA Positions == TypeOK => Len(micro) \in Nat /\ DOMAIN micro = 1..Len(micro)
  BY DEF TypeOK

LEMMA Appends ==
    ASSUME TypeOK, NEW c \in Continuation, Resume(c)
    PROVE  Moved(0, {c})
<1>1. /\ micro' \in Seq(Continuation) /\ DOMAIN micro' = 1..(Len(micro) + 1)
      /\ \A k \in 1..Len(micro) : micro'[k] = micro[k]
      /\ micro'[Len(micro) + 1] = c
  BY DEF TypeOK, Resume
<1>2. QED
  BY <1>1, Positions DEF Moved

LEMMA Empties ==
    ASSUME TypeOK, micro # <<>>, Then(<<>>)
    PROVE  Moved(1, {})
<1>1. /\ micro' \in Seq(Continuation) /\ DOMAIN micro' = 1..(Len(micro) - 1)
      /\ \A k \in 1..(Len(micro) - 1) : micro'[k] = micro[k + 1]
  BY DEF TypeOK, Then
<1>2. QED
  BY <1>1, Positions DEF Moved

LEMMA Puts ==
    ASSUME TypeOK, micro # <<>>, NEW c \in Continuation, Then(<<c>>)
    PROVE  Moved(1, {c})
<1>1. /\ micro' \in Seq(Continuation) /\ DOMAIN micro' = 1..Len(micro) /\ Len(micro) > 0
      /\ \A k \in 1..(Len(micro) - 1) : micro'[k] = micro[k + 1]
      /\ micro'[Len(micro)] = c
  BY DEF TypeOK, Then
<1>2. QED
  BY <1>1, Positions DEF Moved

LEMMA PutsTwo ==
    ASSUME TypeOK, micro # <<>>, NEW c \in Continuation, NEW e \in Continuation,
           c # e, Then(<<c>> \o <<e>>)
    PROVE  Moved(1, {c, e})
<1>1. /\ micro' \in Seq(Continuation) /\ DOMAIN micro' = 1..(Len(micro) + 1)
      /\ Len(micro) > 0
      /\ \A k \in 1..(Len(micro) - 1) : micro'[k] = micro[k + 1]
      /\ micro'[Len(micro)] = c /\ micro'[Len(micro) + 1] = e
  BY DEF TypeOK, Then
<1>2. /\ \A k \in DOMAIN micro' :
            \/ k + 1 \in DOMAIN micro /\ micro'[k] = micro[k + 1]
            \/ k + 1 > Len(micro) /\ micro'[k] \in {c, e}
      /\ \A k \in DOMAIN micro : k > 1 => k - 1 \in DOMAIN micro' /\ micro'[k - 1] = micro[k]
  BY <1>1, Positions
<1>3. \A j \in DOMAIN micro' : j + 1 > Len(micro) => j \in {Len(micro), Len(micro) + 1}
  BY <1>1, Positions
<1>4. \A n \in {c, e} : \E k \in DOMAIN micro' : micro'[k] = n
  BY <1>1, Positions
<1>5. QED
  BY <1>1, <1>2, <1>3, <1>4 DEF Moved

\* A kind of which no continuation comes: what waits has waited.
LEMMA Waited ==
    ASSUME TypeOK, NEW d \in {0, 1}, NEW new, Moved(d, new),
           NEW tag, \A c \in new : c[1] # tag
    PROVE  \A k \in Waits(tag)' :
               k \in Nat /\ k + d \in Waits(tag) /\ micro'[k] = micro[k + d]
  BY Positions DEF Moved, Waits

\* A step that neither starts nor ends a push.
LEMMA NothingPushed ==
    ASSUME TypeOK, Once, NEW d \in {0, 1}, NEW new, Moved(d, new),
           d = 1 => micro[1][1] # "publish",
           \A c \in new : c[1] # "publish"
    PROVE  /\ Publishing' = Publishing
           /\ \A j, k \in Waits("publish")' : micro'[j][2] = micro'[k][2] => j = k
<1>1. \A k \in Waits("publish")' :
          k \in Nat /\ k + d \in Waits("publish") /\ micro'[k] = micro[k + d]
  BY Waited
<1>2. Publishing' \subseteq Publishing
  BY <1>1 DEF Publishing, Waits
<1>3. Publishing \subseteq Publishing'
  <2> SUFFICES ASSUME NEW k \in DOMAIN micro, micro[k][1] = "publish"
               PROVE  micro[k][2] \in Publishing'
    BY DEF Publishing, Waits
  <2>1. k > d
    BY Positions
  <2>2. k - d \in DOMAIN micro' /\ micro'[k - d] = micro[k]
    BY <2>1 DEF Moved
  <2>3. QED
    BY <2>2 DEF Publishing, Waits
<1>4. \A j, k \in Waits("publish")' : micro'[j][2] = micro'[k][2] => j = k
  <2> SUFFICES ASSUME NEW j \in Waits("publish")', NEW k \in Waits("publish")',
                      micro'[j][2] = micro'[k][2]
               PROVE  j = k
    OBVIOUS
  <2>1. j + d = k + d
    BY <1>1 DEF Once
  <2>2. QED
    BY <1>1, <2>1
<1>5. QED
  BY <1>2, <1>3, <1>4

-----------------------------------------------------------------------------
(* Steps that touch little.                                                 *)

LEMMA InitInvariant == Init => IInv
<1> SUFFICES ASSUME Init PROVE IInv
  OBVIOUS
<1>1. TypeOK
  <2>1. Pool!TypeOK
    BY DEF Init, Pool!Init, Pool!TypeOK
  <2>2. held \in Item \cup {None} /\ pulled \in 0..N
    BY NAssumption DEF Init
  <2>3. buffer \in Seq(Item) /\ delivered \in Seq(Item) /\ micro \in Seq(Continuation)
    BY DEF Init
  <2>4. closed \in BOOLEAN /\ failure \in BOOLEAN /\ wake \in BOOLEAN /\ cancelled \in BOOLEAN
    BY DEF Init
  <2>5. QED
    BY <2>1, <2>2, <2>3, <2>4 DEF Init, TypeOK
<1>2. Slots
  BY FS_EmptySet, SizeAssumption DEF Init, Pool!Init, Slots
<1>3. Waits("producer") = {} /\ Waits("pull") = {} /\ Waits("consumer") = {}
      /\ Waits("publish") = {} /\ Publishing = {} /\ pulled = 0 /\ held = 0
      /\ SeqRange(buffer) = {} /\ SeqRange(delivered) = {} /\ running = {}
      /\ capacityWaiters = {} /\ idleWaiters = {}
  BY DEF Init, Pool!Init, Waits, Publishing, SeqRange, None
<1>4. Turn
  BY <1>3 DEF Init, Turn, None
<1>5. Iteration
  BY <1>3 DEF Init, Iteration
<1>6. Apart /\ Kept
  BY <1>3 DEF Apart, Kept
<1>7. Once
  BY <1>3 DEF Init, Once
<1>8. PushedFirst /\ Over
  BY <1>3 DEF Init, PushedFirst, Over
<1>9. QED
  BY <1>1, <1>2, <1>4, <1>5, <1>6, <1>7, <1>8 DEF IInv

\* The conjuncts about items when nothing they are about changes.
LEMMA PlacesKept ==
    ASSUME Apart, Kept, Once, Publishing' = Publishing,
           \A j, k \in Waits("publish")' : micro'[j][2] = micro'[k][2] => j = k,
           running' = running, held' = held, pulled' = pulled, buffer' = buffer,
           delivered' = delivered,
           outcome' = "none" /\ ~failure' => outcome = "none" /\ ~failure
    PROVE  Apart' /\ Kept' /\ Once'
  BY DEF Apart, Kept, Once

\* A step outside, which puts a continuation that is neither a push nor the producer's.
LEMMA OutsideKeeps ==
    ASSUME IInv, NEW c \in Continuation, c[1] \in {"settle", "pull", "consumer"}, Resume(c),
           UNCHANGED <<poolVars, chanVars, held, pulled, cancelled, delivered, outcome>>
    PROVE  /\ Moved(0, {c}) /\ micro' \in Seq(Continuation)
           /\ Slots' /\ Apart' /\ Once' /\ Kept'
           /\ Publishing' = Publishing
           /\ \A k \in DOMAIN micro' :
                 \/ k \in DOMAIN micro /\ micro'[k] = micro[k]
                 \/ k > Len(micro) /\ micro'[k] = c
<1>1. Moved(0, {c}) /\ TypeOK /\ 0 \in {0, 1} /\ \A e \in {c} : e[1] # "publish"
  BY Appends DEF IInv
<1>2. Publishing' = Publishing
      /\ \A j, k \in Waits("publish")' : micro'[j][2] = micro'[k][2] => j = k
  BY <1>1, NothingPushed DEF IInv
<1>3. Apart' /\ Once' /\ Kept'
  BY <1>2, PlacesKept DEF IInv, poolVars, chanVars
<1>4. Slots'
  BY DEF IInv, Slots, poolVars
<1>5. \A k \in DOMAIN micro' :
          \/ k \in DOMAIN micro /\ micro'[k] = micro[k]
          \/ k > Len(micro) /\ micro'[k] = c
  BY <1>1, Positions DEF Moved
<1>6. QED
  BY <1>1, <1>2, <1>3, <1>4, <1>5 DEF Moved

LEMMA ThunkSettlesKeeps ==
    ASSUME IInv, NEW i \in Item, NEW ok \in BOOLEAN, ThunkSettles(i, ok)
    PROVE  IInv'
<1> DEFINE c == <<"settle", i, ok>>
<1>1. c \in Continuation /\ c[1] = "settle" /\ Resume(c)
      /\ UNCHANGED <<poolVars, chanVars, prodVars, consVars>>
  BY Continuations DEF ThunkSettles
<1> HIDE DEF c
<1>2. /\ micro' \in Seq(Continuation)
      /\ Slots' /\ Apart' /\ Once' /\ Kept'
      /\ Publishing' = Publishing
      /\ \A k \in DOMAIN micro' :
            \/ k \in DOMAIN micro /\ micro'[k] = micro[k]
            \/ k > Len(micro) /\ micro'[k] = c
  BY <1>1, OutsideKeeps DEF prodVars, consVars
<1>3. TypeOK'
  BY <1>1, <1>2 DEF IInv, TypeOK, Pool!TypeOK, poolVars, chanVars, prodVars, consVars
<1>4. \A tag \in {"producer", "pull", "consumer", "publish"} :
          \A k \in Waits(tag)' : k \in Waits(tag) /\ micro'[k] = micro[k]
  BY <1>1, <1>2 DEF Waits
<1>5. Turn'
  BY <1>1, <1>4 DEF IInv, Turn, poolVars, chanVars, prodVars
<1>6. Iteration'
  BY <1>1, <1>4 DEF IInv, Iteration, chanVars, consVars
<1>7. PushedFirst'
  BY <1>1, <1>4 DEF IInv, PushedFirst, chanVars, prodVars
<1>8. Over'
  BY <1>1, <1>2 DEF IInv, Over, chanVars, prodVars, consVars
<1>9. QED
  BY <1>2, <1>3, <1>5, <1>6, <1>7, <1>8 DEF IInv

LEMMA SourceAnswersKeeps ==
    ASSUME IInv, NEW answer \in {"item", "done", "throw"}, SourceAnswers(answer)
    PROVE  IInv'
<1> DEFINE c == <<"pull", answer>>
<1>1. c \in Continuation /\ c[1] = "pull" /\ c[2] = answer /\ Resume(c)
      /\ UNCHANGED <<poolVars, chanVars, held, pulled, consVars>>
      /\ producer = "pulling" /\ producer' = "answered" /\ (answer = "item" => pulled < N)
  BY Continuations DEF SourceAnswers
<1> HIDE DEF c
<1>2. /\ micro' \in Seq(Continuation)
      /\ Slots' /\ Apart' /\ Once' /\ Kept'
      /\ Publishing' = Publishing
      /\ \A k \in DOMAIN micro' :
            \/ k \in DOMAIN micro /\ micro'[k] = micro[k]
            \/ k > Len(micro) /\ micro'[k] = c
  BY <1>1, OutsideKeeps DEF prodVars, consVars
<1>3. TypeOK'
  BY <1>1, <1>2 DEF IInv, TypeOK, Pool!TypeOK, poolVars, chanVars, consVars
<1>4. \A tag \in {"producer", "consumer", "publish"} :
          \A k \in Waits(tag)' : k \in Waits(tag) /\ micro'[k] = micro[k]
  BY <1>1, <1>2 DEF Waits
<1>5. Waits("producer") = {} /\ Waits("pull") = {}
  BY <1>1 DEF IInv, Turn
<1>6. /\ Waits("producer")' = {}
      /\ \A k \in Waits("pull")' : micro'[k] = c
      /\ \A j, k \in Waits("pull")' : j = k
  BY <1>1, <1>2, <1>4, <1>5, OutsideKeeps DEF Waits, Moved, consVars
<1>7. Turn'
  BY <1>1, <1>5, <1>6 DEF IInv, Turn, poolVars, chanVars
<1>8. Iteration'
  BY <1>1, <1>4 DEF IInv, Iteration, chanVars, consVars
<1>9. PushedFirst'
  BY <1>1, <1>4 DEF IInv, PushedFirst, Turn, chanVars
<1>10. Over'
  BY <1>1, <1>2 DEF IInv, Over, chanVars, consVars
<1>11. QED
  BY <1>2, <1>3, <1>7, <1>8, <1>9, <1>10 DEF IInv

LEMMA BodyEndsKeeps ==
    ASSUME IInv, NEW how \in {"next", "break"}, BodyEnds(how)
    PROVE  IInv'
<1> DEFINE c == <<"consumer", how>>
<1>1. c \in Continuation /\ c[1] = "consumer" /\ Resume(c)
      /\ UNCHANGED <<poolVars, chanVars, prodVars, cancelled, delivered, outcome>>
      /\ consumer = "body" /\ consumer' = "resuming"
  BY Continuations DEF BodyEnds
<1> HIDE DEF c
<1>2. /\ micro' \in Seq(Continuation)
      /\ Slots' /\ Apart' /\ Once' /\ Kept'
      /\ Publishing' = Publishing
      /\ \A k \in DOMAIN micro' :
            \/ k \in DOMAIN micro /\ micro'[k] = micro[k]
            \/ k > Len(micro) /\ micro'[k] = c
  BY <1>1, OutsideKeeps DEF prodVars
<1>3. TypeOK'
  BY <1>1, <1>2 DEF IInv, TypeOK, Pool!TypeOK, poolVars, chanVars, prodVars
<1>4. \A tag \in {"producer", "pull", "publish"} :
          \A k \in Waits(tag)' : k \in Waits(tag) /\ micro'[k] = micro[k]
  BY <1>1, <1>2 DEF Waits
<1>5. Waits("consumer") = {}
  BY <1>1 DEF IInv, Iteration
<1>6. /\ \A k \in Waits("consumer")' : k > Len(micro) /\ micro'[k] = c
      /\ \A j, k \in Waits("consumer")' : j = k
  BY <1>1, <1>2, <1>5, OutsideKeeps DEF Waits, Moved, prodVars
<1>7. Turn'
  BY <1>1, <1>4 DEF IInv, Turn, poolVars, chanVars, prodVars
<1>8. Iteration'
  BY <1>1, <1>6 DEF IInv, Iteration, chanVars
<1>9. PushedFirst'
  <2>1. \A j \in Waits("publish")' : j <= Len(micro)
    BY <1>4, Positions DEF Waits, IInv
  <2>2. \A j \in Waits("publish")', k \in Waits("consumer")' : j < k
    BY <1>2, <1>6, <2>1, Positions DEF Waits, IInv
  <2>3. QED
    BY <2>2 DEF PushedFirst
<1>10. Over'
  BY <1>1, <1>2 DEF IInv, Over, chanVars, prodVars
<1>11. QED
  BY <1>2, <1>3, <1>7, <1>8, <1>9, <1>10 DEF IInv

-----------------------------------------------------------------------------
(* A thunk settles and its result is pushed.                                *)

LEMMA Heads ==
    ASSUME TypeOK, NEW tag, IsNext(tag)
    PROVE  /\ micro # <<>> /\ Head(micro) = micro[1] /\ 1 \in DOMAIN micro
           /\ micro[1] \in Continuation /\ micro[1][1] = tag /\ 1 \in Waits(tag)
<1>1. micro # <<>> /\ Head(micro)[1] = tag
  BY DEF IsNext
<1>2. Head(micro) = micro[1] /\ 1 \in DOMAIN micro
  BY <1>1 DEF TypeOK
<1>3. QED
  BY <1>1, <1>2 DEF Waits, TypeOK

\* What settling does to the pool while its queue is empty.
LEMMA PoolSettles ==
    ASSUME TypeOK, Slots, NEW i \in Item, Pool!Settle(i)
    PROVE  /\ i \in running /\ running' = running \ {i}
           /\ active > 0 /\ active' = active - 1
           /\ Slots' /\ Pool!TypeOK'
           /\ capacityWaiters' \in {capacityWaiters, {}}
           /\ idleWaiters' \in {idleWaiters, {}}
           /\ capacityWaiters' # capacityWaiters => active' < Size
           /\ idleWaiters' # idleWaiters => active' = 0
<1>1. i \in running /\ Pool!Release(i) /\ Pool!SignalCapacity /\ queue = <<>>
  BY DEF Slots, Pool!Settle, Pool!Refill
<1>2. running' = running \ {i} /\ active' = active - 1 /\ queue' = <<>>
  BY <1>1 DEF Pool!Release
<1>3. IsFiniteSet(running)
  <2>1. IsFiniteSet(1..N)
    BY NAssumption, FS_Interval
  <2>2. running \subseteq 1..N
    BY DEF TypeOK, Pool!TypeOK, Item
  <2>3. QED
    BY <2>1, <2>2, FS_Subset
<1>4. Cardinality(running') = Cardinality(running) - 1 /\ Cardinality(running') \in Nat
      /\ Cardinality(running) \in Nat
  BY <1>1, <1>2, <1>3, FS_RemoveElement, FS_CardinalityType
<1>5. active > 0 /\ active \in Nat /\ active' \in Nat
  BY <1>2, <1>4 DEF Slots
<1>6. Slots'
  BY <1>2, <1>4, <1>5, SizeAssumption DEF Slots
<1>7. /\ capacityWaiters' \in {capacityWaiters, {}}
      /\ idleWaiters' \in {idleWaiters, {}}
      /\ capacityWaiters' # capacityWaiters => active' < Size
      /\ idleWaiters' # idleWaiters => active' = 0
  BY <1>1, <1>2, <1>5 DEF Pool!SignalCapacity, Pool!Release, Pool!SignalIdle, Pool!HasRoom,
                          Pool!Drained
<1>8. Pool!TypeOK'
  BY <1>2, <1>5, <1>7 DEF TypeOK, Pool!TypeOK
<1>9. QED
  BY <1>1, <1>2, <1>5, <1>6, <1>7, <1>8

LEMMA RunSettleKeeps == IInv /\ RunSettle => IInv'
<1> SUFFICES ASSUME IInv, RunSettle PROVE IInv'
  OBVIOUS
<1> DEFINE released == capacityWaiters' # capacityWaiters \/ idleWaiters' # idleWaiters
<1>1. /\ micro # <<>> /\ Head(micro) = micro[1] /\ 1 \in DOMAIN micro
      /\ micro[1] \in Continuation /\ micro[1][1] = "settle"
  BY Heads DEF IInv, RunSettle
<1>2. PICK i \in Item, ok \in BOOLEAN : micro[1][2] = i /\ micro[1][3] = ok
  BY <1>1, Shapes
<1> DEFINE p == <<"publish", i, ok>>
           c == <<"producer">>
<1>3. /\ Pool!Settle(i)
      /\ Then((IF released THEN <<c>> ELSE <<>>) \o <<p>>)
      /\ UNCHANGED <<chanVars, prodVars, consVars>>
  BY <1>1, <1>2 DEF RunSettle
<1>4. /\ p \in Continuation /\ p[1] = "publish" /\ p[2] = i
      /\ c \in Continuation /\ c[1] = "producer" /\ c # p
  BY Continuations
<1> HIDE DEF p, c
<1>5. /\ released => Moved(1, {c, p})
      /\ ~released => Moved(1, {p})
  <2>1. CASE released
    <3>1. Then(<<c>> \o <<p>>)
      BY <1>3, <2>1
    <3>2. QED
      BY <1>1, <1>4, <2>1, <3>1, PutsTwo DEF IInv
  <2>2. CASE ~released
    <3>1. Then(<<p>>)
      BY <1>3, <2>2
    <3>2. QED
      BY <1>1, <1>4, <2>2, <3>1, Puts DEF IInv
  <2>3. QED
    BY <2>1, <2>2
<1>6. PICK new : /\ Moved(1, new) /\ p \in new /\ new \subseteq {c, p}
                 /\ c \in new => released
  BY <1>4, <1>5
<1>7. /\ i \in running /\ running' = running \ {i}
      /\ active > 0 /\ active' = active - 1
      /\ Slots' /\ Pool!TypeOK'
      /\ capacityWaiters' \in {capacityWaiters, {}}
      /\ idleWaiters' \in {idleWaiters, {}}
      /\ capacityWaiters' # capacityWaiters => active' < Size
      /\ idleWaiters' # idleWaiters => active' = 0
  BY <1>3, PoolSettles DEF IInv
<1>8. TypeOK'
  BY <1>3, <1>6, <1>7 DEF IInv, TypeOK, Moved, chanVars, prodVars, consVars
<1>9. /\ \A k \in Waits("pull")' : k \in Nat /\ k + 1 \in Waits("pull") /\ micro'[k] = micro[k + 1]
      /\ \A k \in Waits("consumer")' :
            k \in Nat /\ k + 1 \in Waits("consumer") /\ micro'[k] = micro[k + 1]
  BY <1>4, <1>6, Waited DEF IInv
<1>10. ~closed /\ \A k \in Waits("producer") : producer = "gated"
  BY <1>7 DEF IInv, Turn
<1>11. Turn'
  <2>1. CASE released
    <3>1. Waits("producer") = {} /\ Waits("pull") = {}
      BY <2>1, <1>7 DEF IInv, Turn, TypeOK
    <3>2. Waits("pull")' = {} /\ \A j, k \in Waits("producer")' : j = k
      <4>1. Waits("pull")' = {}
        BY <1>9, <3>1
      <4>2. \A k \in Waits("producer")' : k + 1 > Len(micro) /\ micro'[k] = c
        BY <1>4, <1>6, <3>1 DEF Moved, Waits
      <4>3. QED
        BY <1>6, <4>1, <4>2 DEF Moved, Waits
    <3>3. /\ capacityWaiters' = {} /\ idleWaiters' = {}
          /\ \/ producer = "gated" /\ active' < Size
             \/ producer = "draining" /\ active' = 0
      BY <2>1, <1>7 DEF IInv, Turn
    <3>4. QED
      BY <1>3, <1>7, <1>10, <3>2, <3>3 DEF IInv, Turn, chanVars, prodVars
  <2>2. CASE ~released
    <3>1. \A k \in Waits("producer")' :
              k \in Nat /\ k + 1 \in Waits("producer") /\ micro'[k] = micro[k + 1]
      BY <1>4, <1>6, <2>2, Waited DEF IInv
    <3>2. \A j, k \in Waits("producer")' \cup Waits("pull")' : j = k
      <4> SUFFICES ASSUME NEW j \in Waits("producer")' \cup Waits("pull")',
                          NEW k \in Waits("producer")' \cup Waits("pull")'
                   PROVE  j = k
        OBVIOUS
      <4>1. j \in Nat /\ k \in Nat /\ j + 1 = k + 1
        BY <1>9, <3>1 DEF IInv, Turn
      <4>2. QED
        BY <4>1
    <3>3. \A k \in Waits("producer")' :
             /\ capacityWaiters' = {} /\ idleWaiters' = {}
             /\ producer = "gated" /\ active' < Size
      <4>1. \A k \in Waits("producer") : producer = "gated" /\ active < Size
        BY <1>7 DEF IInv, Turn
      <4>2. active' < active
        BY <1>7 DEF IInv, TypeOK, Pool!TypeOK
      <4>3. \A k \in Waits("producer")' :
               producer = "gated" /\ active < Size /\ capacityWaiters = {} /\ idleWaiters = {}
        BY <3>1, <4>1 DEF IInv, Turn
      <4>4. active \in Int /\ active' \in Int /\ Size \in Int
        BY <1>7, SizeAssumption DEF IInv, TypeOK, Pool!TypeOK
      <4>5. QED
        BY <1>7, <4>2, <4>3, <4>4
    <3>4. QED
      BY <1>3, <1>7, <1>9, <1>10, <2>2, <3>2, <3>3 DEF IInv, Turn, chanVars, prodVars
  <2>3. QED
    BY <2>1, <2>2
<1>12. Iteration'
  BY <1>3, <1>9 DEF IInv, Iteration, chanVars, consVars
<1>13. Publishing' = Publishing \cup {i}
       /\ \A j, k \in Waits("publish")' : micro'[j][2] = micro'[k][2] => j = k
  <2>1. i \notin Publishing
    BY <1>7 DEF IInv, Apart
  <2>2. \A k \in Waits("publish")' :
           \/ k + 1 \in Waits("publish") /\ micro'[k] = micro[k + 1]
           \/ k + 1 > Len(micro) /\ micro'[k] = p
    BY <1>4, <1>6 DEF Moved, Waits
  <2>3. Publishing' \subseteq Publishing \cup {i}
    BY <1>4, <2>2 DEF Publishing
  <2>4. i \in Publishing'
    BY <1>4, <1>6 DEF Moved, Publishing, Waits
  <2>5. Publishing \subseteq Publishing'
    <3> SUFFICES ASSUME NEW k \in Waits("publish") PROVE micro[k][2] \in Publishing'
      BY DEF Publishing
    <3>1. k \in DOMAIN micro /\ k > 1
      BY <1>1, Positions DEF Waits, IInv
    <3>2. k - 1 \in DOMAIN micro' /\ micro'[k - 1] = micro[k]
      BY <1>6, <3>1 DEF Moved
    <3>3. QED
      BY <3>2 DEF Waits, Publishing
  <2>6. ASSUME NEW j \in Waits("publish")', NEW k \in Waits("publish")',
               micro'[j][2] = micro'[k][2]
        PROVE  j = k
    <3>1. j \in Nat /\ k \in Nat /\ j \in DOMAIN micro' /\ k \in DOMAIN micro'
      BY <1>6 DEF Moved, Waits
    <3>2. CASE micro'[j][2] = i
      <4>1. j + 1 > Len(micro) /\ micro'[j] = p /\ k + 1 > Len(micro) /\ micro'[k] = p
        BY <2>1, <2>2, <2>6, <3>2 DEF Publishing
      <4>2. QED
        BY <1>6, <3>1, <4>1 DEF Moved
    <3>3. CASE micro'[j][2] # i
      <4>1. j + 1 \in Waits("publish") /\ micro[j + 1][2] = micro'[j][2]
            /\ k + 1 \in Waits("publish") /\ micro[k + 1][2] = micro'[k][2]
        BY <1>4, <2>2, <2>6, <3>3
      <4>2. j + 1 = k + 1
        BY <2>6, <4>1 DEF IInv, Once
      <4>3. QED
        BY <3>1, <4>2
    <3>4. QED
      BY <3>2, <3>3
  <2>7. QED
    BY <2>3, <2>4, <2>5, <2>6
<1>14. Apart' /\ Kept' /\ Once'
  BY <1>3, <1>7, <1>13 DEF IInv, Apart, Kept, Once, chanVars, prodVars, consVars
<1>15. PushedFirst'
  <2> SUFFICES ASSUME NEW j \in Waits("publish")', NEW k \in Waits("consumer")',
                      NEW m \in Waits("producer")', m < k, producer = "draining"
               PROVE  FALSE
    BY <1>3, <1>10 DEF PushedFirst, chanVars, prodVars
  <2>1. m + 1 \notin Waits("producer")
    BY <1>10
  <2>2. m + 1 > Len(micro) /\ m \in Nat
    BY <1>6, <2>1 DEF Moved, Waits, IInv
  <2>3. k \in Nat /\ k + 1 <= Len(micro)
    BY <1>9, Positions DEF Waits, IInv
  <2>4. Len(micro) \in Nat
    BY Positions DEF IInv
  <2>5. QED
    BY <2>2, <2>3, <2>4
<1>16. Over'
  BY <1>3, <1>10 DEF IInv, Over, chanVars, prodVars, consVars
<1>17. QED
  BY <1>7, <1>8, <1>11, <1>12, <1>14, <1>15, <1>16 DEF IInv

\* A sequence grows at its end and shrinks at its head.
LEMMA Growing ==
    ASSUME NEW S, NEW s \in Seq(S), NEW e \in S
    PROVE  /\ SeqRange(Append(s, e)) = SeqRange(s) \cup {e}
           /\ (\A j, k \in DOMAIN s : s[j] = s[k] => j = k) /\ e \notin SeqRange(s)
              => \A j, k \in DOMAIN Append(s, e) : Append(s, e)[j] = Append(s, e)[k] => j = k
<1> DEFINE r == Append(s, e)
<1>1. /\ DOMAIN s = 1..Len(s) /\ Len(s) \in Nat /\ DOMAIN r = 1..(Len(s) + 1)
      /\ \A k \in DOMAIN s : r[k] = s[k]
      /\ r[Len(s) + 1] = e
  OBVIOUS
<1> HIDE DEF r
<1>2. SeqRange(r) = SeqRange(s) \cup {e}
  BY <1>1 DEF SeqRange
<1>3. (\A j, k \in DOMAIN s : s[j] = s[k] => j = k) /\ e \notin SeqRange(s)
      => \A j, k \in DOMAIN r : r[j] = r[k] => j = k
  BY <1>1 DEF SeqRange
<1>4. QED
  BY <1>2, <1>3 DEF r

LEMMA Shrinking ==
    ASSUME NEW S, NEW s \in Seq(S), s # <<>>
    PROVE  /\ Head(s) \in S /\ Tail(s) \in Seq(S)
           /\ SeqRange(s) = SeqRange(Tail(s)) \cup {Head(s)}
           /\ (\A j, k \in DOMAIN s : s[j] = s[k] => j = k)
              => /\ Head(s) \notin SeqRange(Tail(s))
                 /\ \A j, k \in DOMAIN Tail(s) : Tail(s)[j] = Tail(s)[k] => j = k
<1> DEFINE r == Tail(s)
           h == Head(s)
<1>1. /\ DOMAIN s = 1..Len(s) /\ Len(s) \in Nat \ {0} /\ DOMAIN r = 1..(Len(s) - 1)
      /\ \A k \in DOMAIN r : k \in Nat /\ k + 1 \in DOMAIN s /\ r[k] = s[k + 1]
      /\ s[1] = h /\ h \in S /\ r \in Seq(S)
  OBVIOUS
<1> HIDE DEF r, h
<1>2. \A k \in DOMAIN s : k = 1 \/ (k - 1 \in DOMAIN r /\ r[k - 1] = s[k])
  BY <1>1
<1>3. SeqRange(s) = SeqRange(r) \cup {h}
  BY <1>1, <1>2 DEF SeqRange
<1>4. ASSUME \A j, k \in DOMAIN s : s[j] = s[k] => j = k
      PROVE  h \notin SeqRange(r) /\ \A j, k \in DOMAIN r : r[j] = r[k] => j = k
  <2>1. ASSUME NEW k \in DOMAIN r PROVE r[k] # h
    BY <1>1, <1>4
  <2>2. ASSUME NEW j \in DOMAIN r, NEW k \in DOMAIN r, r[j] = r[k] PROVE j = k
    <3>1. j + 1 = k + 1
      BY <1>1, <1>4, <2>2
    <3>2. QED
      BY <1>1, <3>1
  <2>3. QED
    BY <2>1, <2>2 DEF SeqRange
<1>5. QED
  BY <1>1, <1>3, <1>4 DEF r, h

\* A continuation that leaves the producer where it is.
LEMMA TurnKept ==
    ASSUME IInv, NEW new, Moved(1, new), \A c \in new : c[1] \notin {"producer", "pull"},
           UNCHANGED <<poolVars, prodVars, closed>>
    PROVE  Turn'
<1>1. TypeOK /\ 1 \in {0, 1} /\ \A c \in new : c[1] # "producer" /\ c[1] # "pull"
  BY DEF IInv
<1>2. /\ \A k \in Waits("producer")' :
            k \in Nat /\ k + 1 \in Waits("producer") /\ micro'[k] = micro[k + 1]
      /\ \A k \in Waits("pull")' :
            k \in Nat /\ k + 1 \in Waits("pull") /\ micro'[k] = micro[k + 1]
  BY <1>1, Waited
<1>3. \A j, k \in Waits("producer")' \cup Waits("pull")' : j = k
  <2> SUFFICES ASSUME NEW j \in Waits("producer")' \cup Waits("pull")',
                      NEW k \in Waits("producer")' \cup Waits("pull")'
               PROVE  j = k
    OBVIOUS
  <2>1. j \in Nat /\ k \in Nat /\ j + 1 = k + 1
    BY <1>2 DEF IInv, Turn
  <2>2. QED
    BY <2>1
<1>4. QED
  BY <1>2, <1>3 DEF IInv, Turn, poolVars, prodVars

\* What pushes stays before what the consumer is woken by.
LEMMA OrderKept ==
    ASSUME TypeOK, NEW new, Moved(1, new), \A c \in new : c[1] = "consumer",
           \A j \in Waits("publish"), k \in Waits("consumer") :
               closed' \/ (producer' = "draining" /\ \E m \in Waits("producer") : m < k)
               => j < k \/ k = 1
    PROVE  PushedFirst'
<1>1. 1 \in {0, 1} /\ \A c \in new : c[1] # "publish" /\ c[1] # "producer"
  OBVIOUS
<1>2. /\ \A k \in Waits("publish")' : k \in Nat /\ k + 1 \in Waits("publish")
      /\ \A k \in Waits("producer")' : k \in Nat /\ k + 1 \in Waits("producer")
  BY <1>1, Waited
<1> SUFFICES ASSUME NEW j \in Waits("publish")', NEW k \in Waits("consumer")',
                    closed' \/ (producer' = "draining" /\ \E m \in Waits("producer")' : m < k)
             PROVE  j < k
  BY DEF PushedFirst
<1>3. j \in Nat /\ j + 1 \in Waits("publish") /\ j + 1 \in DOMAIN micro /\ k \in Nat /\ k > 0
      /\ Len(micro) \in Nat /\ j + 1 <= Len(micro)
  BY <1>2, Positions DEF Moved, Waits
<1>4. CASE k + 1 > Len(micro)
  BY <1>3, <1>4
<1>5. CASE k + 1 \in DOMAIN micro /\ micro'[k] = micro[k + 1]
  <2>1. k + 1 \in Waits("consumer")
    BY <1>5 DEF Waits
  <2>2. closed' \/ (producer' = "draining" /\ \E m \in Waits("producer") : m < k + 1)
    <3>1. ASSUME NEW m \in Waits("producer")', m < k
          PROVE  m + 1 \in Waits("producer") /\ m + 1 < k + 1
      BY <1>2, <1>3, <3>1
    <3>2. QED
      BY <3>1
  <2>3. j + 1 < k + 1
    BY <1>3, <2>1, <2>2
  <2>4. QED
    BY <1>3, <2>3
<1>6. QED
  BY <1>4, <1>5 DEF Moved, Waits

\* bump() wakes the consumer if it is parked.
LEMMA Bumps ==
    ASSUME IInv, micro # <<>>, Then(Bumped)
    PROVE  \E new : /\ Moved(1, new) /\ new \subseteq {<<"consumer", "next">>}
                    /\ new # {} => wake
<1>1. CASE wake
  <2>1. Then(<<<<"consumer", "next">>>>)
    BY <1>1 DEF Bumped
  <2>2. QED
    BY <1>1, <2>1, Puts, Continuations DEF IInv
<1>2. CASE ~wake
  <2>1. Then(<<>>)
    BY <1>2 DEF Bumped
  <2>2. QED
    BY <2>1, Empties DEF IInv
<1>3. QED
  BY <1>1, <1>2

\* ... and then it is the only continuation the consumer has.
LEMMA BumpedOnce ==
    ASSUME IInv, NEW new, Moved(1, new),
           \A c \in new : c[1] = "consumer" /\ c = <<"consumer", "next">>,
           new # {} => wake
    PROVE  /\ \A j, k \in Waits("consumer")' : j = k
           /\ \A k \in Waits("consumer")' : consumer \in {"parked", "resuming"}
<1>1. CASE new = {}
  <2>1. \A k \in Waits("consumer")' : k \in Nat /\ k + 1 \in Waits("consumer")
    BY <1>1, Waited DEF IInv
  <2>2. ASSUME NEW j \in Waits("consumer")', NEW k \in Waits("consumer")' PROVE j = k
    <3>1. j + 1 = k + 1
      BY <2>1 DEF IInv, Iteration
    <3>2. QED
      BY <2>1, <3>1
  <2>3. QED
    BY <2>1, <2>2 DEF IInv, Iteration
<1>2. CASE new # {}
  <2>1. Waits("consumer") = {} /\ consumer = "parked"
    BY <1>2 DEF IInv, Iteration
  <2>2. \A k \in Waits("consumer")' : k + 1 > Len(micro) /\ micro'[k] = <<"consumer", "next">>
    BY <2>1 DEF Moved, Waits
  <2>3. \A j, k \in Waits("consumer")' : j = k
    BY <2>2 DEF Moved, Waits
  <2>4. QED
    BY <2>1, <2>3
<1>3. QED
  BY <1>1, <1>2

LEMMA RunPublishKeeps == IInv /\ RunPublish => IInv'
<1> SUFFICES ASSUME IInv, RunPublish PROVE IInv'
  OBVIOUS
<1>1. /\ micro # <<>> /\ Head(micro) = micro[1] /\ 1 \in DOMAIN micro
      /\ micro[1] \in Continuation /\ micro[1][1] = "publish" /\ 1 \in Waits("publish")
  BY Heads DEF IInv, RunPublish
<1>2. PICK i \in Item, ok \in BOOLEAN : micro[1][2] = i /\ micro[1][3] = ok
  BY <1>1, Shapes
<1>3. /\ IF ok THEN buffer' = Append(buffer, i) /\ failure' = failure
               ELSE failure' = TRUE /\ buffer' = buffer
      /\ wake' = FALSE /\ Then(Bumped)
      /\ UNCHANGED <<poolVars, closed, prodVars, consVars>>
  BY <1>1, <1>2 DEF RunPublish
<1>4. PICK new : /\ Moved(1, new) /\ new \subseteq {<<"consumer", "next">>}
                 /\ new # {} => wake
  BY <1>1, <1>3, Bumps
<1>5. \A c \in new : c[1] = "consumer" /\ c = <<"consumer", "next">>
                     /\ c[1] \notin {"producer", "pull", "publish"}
  BY <1>4
<1>6. i \in Publishing /\ i \notin SeqRange(buffer) /\ i \notin SeqRange(delivered)
      /\ i \notin running /\ i # held /\ i \in 1..pulled
  BY <1>1, <1>2 DEF IInv, Apart, Publishing
<1>7. TypeOK'
  <2>1. buffer' \in Seq(Item)
    <3>1. buffer \in Seq(Item) /\ buffer' \in {buffer, Append(buffer, i)}
      BY <1>3 DEF IInv, TypeOK
    <3>2. QED
      BY <3>1
  <2>1a. micro' \in Seq(Continuation)
    BY <1>4 DEF Moved
  <2>2. failure' \in BOOLEAN
    BY <1>3 DEF IInv, TypeOK
  <2>3. QED
    BY <1>3, <2>1, <2>1a, <2>2 DEF IInv, TypeOK, Pool!TypeOK, poolVars, prodVars, consVars
<1>8. Slots' /\ Turn'
  BY <1>3, <1>4, <1>5, TurnKept DEF IInv, Slots, poolVars
<1>9. Iteration'
  <2>1. /\ \A j, k \in Waits("consumer")' : j = k
        /\ \A k \in Waits("consumer")' : consumer \in {"parked", "resuming"}
    BY <1>4, <1>5, BumpedOnce
  <2>2. QED
    BY <1>3, <2>1 DEF IInv, Iteration, consVars
<1>10. /\ Publishing' = Publishing \ {i}
       /\ \A j, k \in Waits("publish")' : micro'[j][2] = micro'[k][2] => j = k
  <2>1. \A k \in Waits("publish")' :
            k \in Nat /\ k > 0 /\ k + 1 \in Waits("publish") /\ micro'[k] = micro[k + 1]
    <3>1. \A k \in Waits("publish")' :
              k \in Nat /\ k + 1 \in Waits("publish") /\ micro'[k] = micro[k + 1]
      BY <1>4, <1>5, Waited DEF IInv
    <3>2. \A k \in Waits("publish")' : k > 0
      BY <1>4 DEF Moved, Waits
    <3>3. QED
      BY <3>1, <3>2
  <2>2. \A k \in Waits("publish") :
            \/ k = 1
            \/ k - 1 \in Waits("publish")' /\ micro'[k - 1] = micro[k]
    BY <1>4, Positions DEF Moved, Waits, IInv
  <2>3. Publishing' \subseteq Publishing
    BY <2>1 DEF Publishing
  <2>4. i \notin Publishing'
    <3> SUFFICES ASSUME NEW k \in Waits("publish")', micro'[k][2] = i PROVE FALSE
      BY DEF Publishing
    <3>1. k + 1 = 1
      BY <1>1, <1>2, <2>1 DEF IInv, Once
    <3>2. QED
      BY <2>1, <3>1
  <2>5. Publishing \subseteq Publishing' \cup {i}
    BY <1>2, <2>2 DEF Publishing
  <2>6. ASSUME NEW j \in Waits("publish")', NEW k \in Waits("publish")',
               micro'[j][2] = micro'[k][2]
        PROVE  j = k
    <3>1. j + 1 = k + 1
      BY <2>1, <2>6 DEF IInv, Once
    <3>2. QED
      BY <2>1, <3>1
  <2>7. QED
    BY <2>3, <2>4, <2>5, <2>6
<1>11. /\ SeqRange(buffer') = SeqRange(buffer) \cup (IF ok THEN {i} ELSE {})
       /\ \A j, k \in DOMAIN buffer' : buffer'[j] = buffer'[k] => j = k
  <2>1. CASE ok
    <3>1. buffer \in Seq(Item) /\ buffer' = Append(buffer, i)
      BY <1>3, <2>1 DEF IInv, TypeOK
    <3>2. \A j, k \in DOMAIN buffer : buffer[j] = buffer[k] => j = k
      BY DEF IInv, Once
    <3>3. QED
      BY <1>6, <2>1, <3>1, <3>2, Growing
  <2>2. CASE ~ok
    BY <1>3, <2>2 DEF IInv, Once
  <2>3. QED
    BY <2>1, <2>2
<1>12. Apart' /\ Once'
  <2>1. Apart'
    BY <1>3, <1>6, <1>10, <1>11 DEF IInv, Apart, poolVars, prodVars, consVars
  <2>2. QED
    BY <1>3, <1>10, <1>11, <2>1 DEF IInv, Once, consVars
<1>13. Kept'
  BY <1>3, <1>10, <1>11 DEF IInv, Kept, TypeOK, poolVars, prodVars, consVars
<1>14. PushedFirst'
  <2>1. closed' = closed /\ producer' = producer
    BY <1>3 DEF prodVars
  <2>2. QED
    BY <1>4, <1>5, <2>1, OrderKept DEF IInv, PushedFirst
<1>15. Over'
  BY <1>3, <1>6 DEF IInv, Over, consVars
<1>16. QED
  BY <1>7, <1>8, <1>9, <1>12, <1>13, <1>14, <1>15 DEF IInv

-----------------------------------------------------------------------------
(* The producer.                                                            *)

\* When the producer runs nothing else of it waits, and what it goes on to wait
\* for is the only thing.
LEMMA ProducerRuns ==
    ASSUME IInv, NEW new, Moved(1, new), new \subseteq {<<"producer">>},
           1 \in Waits("producer") \cup Waits("pull")
    PROVE  /\ capacityWaiters = {} /\ idleWaiters = {} /\ ~closed
           /\ Waits("pull")' = {}
           /\ \A j, k \in Waits("producer")' : j = k
           /\ \A k \in Waits("producer")' : new # {} /\ k + 1 > Len(micro)
           /\ \A k \in Waits("consumer")' :
                 k \in Nat /\ k + 1 \in Waits("consumer") /\ micro'[k] = micro[k + 1]
           /\ Publishing' = Publishing
           /\ \A j, k \in Waits("publish")' : micro'[j][2] = micro'[k][2] => j = k
<1>1. TypeOK /\ Once /\ 1 \in {0, 1} /\ micro[1][1] # "publish" /\ \A c \in new :
          c[1] # "publish" /\ c[1] # "pull" /\ c[1] # "consumer"
  BY DEF IInv, Waits
<1>2. capacityWaiters = {} /\ idleWaiters = {} /\ ~closed
  BY DEF IInv, Turn
<1>3. \A k \in Waits("producer") \cup Waits("pull") : k = 1
  BY DEF IInv, Turn
<1>4. \A k \in Waits("pull")' : k \in Nat /\ k + 1 \in Waits("pull") /\ k > 0
  <2>1. \A k \in Waits("pull")' : k \in Nat /\ k + 1 \in Waits("pull")
    BY <1>1, Waited
  <2>2. \A k \in Waits("pull")' : k > 0
    BY DEF Moved, Waits
  <2>3. QED
    BY <2>1, <2>2
<1>5. Waits("pull")' = {}
  <2> SUFFICES ASSUME NEW k \in Waits("pull")' PROVE FALSE
    OBVIOUS
  <2>1. k + 1 = 1
    BY <1>3, <1>4
  <2>2. QED
    BY <1>4, <2>1
<1>6. \A k \in Waits("producer")' : k + 1 > Len(micro) /\ micro'[k] = <<"producer">> /\ new # {}
  <2> SUFFICES ASSUME NEW k \in Waits("producer")'
               PROVE  k + 1 > Len(micro) /\ micro'[k] = <<"producer">> /\ new # {}
    OBVIOUS
  <2>1. k \in DOMAIN micro' /\ k \in Nat /\ k > 0
    BY DEF Moved, Waits
  <2>2. k + 1 \notin Waits("producer")
    BY <1>3, <2>1
  <2>3. QED
    BY <2>1, <2>2 DEF Moved, Waits
<1>7. \A j, k \in Waits("producer")' : j = k
  BY <1>6 DEF Moved, Waits
<1>8. \A k \in Waits("consumer")' :
          k \in Nat /\ k + 1 \in Waits("consumer") /\ micro'[k] = micro[k + 1]
  BY <1>1, Waited
<1>9. Publishing' = Publishing
      /\ \A j, k \in Waits("publish")' : micro'[j][2] = micro'[k][2] => j = k
  BY <1>1, NothingPushed
<1>10. QED
  BY <1>2, <1>5, <1>6, <1>7, <1>8, <1>9

\* It waits for the pool, in Gate or in Drain.
LEMMA ProducerWaits ==
    ASSUME IInv, NEW new, Moved(1, new), new \subseteq {<<"producer">>},
           1 \in Waits("producer") \cup Waits("pull"),
           UNCHANGED <<chanVars, consVars>>
    PROVE  Iteration' /\ PushedFirst' /\ Over'
<1>1. /\ ~closed
      /\ \A k \in Waits("producer")' : k + 1 > Len(micro)
      /\ \A k \in Waits("consumer")' :
            k \in Nat /\ k + 1 \in Waits("consumer") /\ micro'[k] = micro[k + 1]
  BY ProducerRuns
<1>2. Iteration'
  <2>1. ASSUME NEW j \in Waits("consumer")', NEW k \in Waits("consumer")' PROVE j = k
    <3>1. j + 1 = k + 1
      BY <1>1 DEF IInv, Iteration
    <3>2. QED
      BY <1>1, <3>1
  <2>2. QED
    BY <1>1, <2>1 DEF IInv, Iteration, chanVars, consVars
<1>3. PushedFirst'
  <2> SUFFICES ASSUME NEW k \in Waits("consumer")', NEW m \in Waits("producer")', m < k
               PROVE  FALSE
    BY <1>1 DEF PushedFirst, chanVars
  <2>1. k \in Nat /\ k + 1 <= Len(micro) /\ Len(micro) \in Nat /\ m \in Nat
    BY <1>1, Positions DEF Waits, IInv, Moved
  <2>2. m + 1 > Len(micro)
    BY <1>1
  <2>3. QED
    BY <2>1, <2>2
<1>4. Over'
  BY <1>1 DEF IInv, Over, chanVars, consVars
<1>5. QED
  BY <1>2, <1>3, <1>4

LEMMA Drains ==
    ASSUME IInv, micro # <<>>, 1 \in Waits("producer") \cup Waits("pull"), Drain
    PROVE  \E new :
              /\ Moved(1, new) /\ new \subseteq {<<"producer">>}
              /\ new # {} => active = 0 /\ idleWaiters' = idleWaiters
              /\ producer' = "draining" /\ Pool!TypeOK' /\ Slots'
              /\ UNCHANGED <<active, running, queue, capacityWaiters>>
<1>1. CASE Pool!Drained(active, queue)
  <2>1. Then(<<<<"producer">>>>) /\ UNCHANGED poolVars /\ active = 0 /\ producer' = "draining"
    BY <1>1 DEF Drain, Pool!Drained
  <2>2. Moved(1, {<<"producer">>})
    BY <2>1, Puts, Continuations DEF IInv
  <2>3. Pool!TypeOK' /\ Slots'
    BY <2>1 DEF IInv, TypeOK, Pool!TypeOK, Slots, poolVars
  <2>4. QED
    BY <2>1, <2>2, <2>3 DEF poolVars
<1>2. CASE ~Pool!Drained(active, queue)
  <2>1. Then(<<>>) /\ Pool!OnIdle(Producer) /\ producer' = "draining"
    BY <1>2 DEF Drain
  <2>2. Moved(1, {})
    BY <2>1, Empties DEF IInv
  <2>3. /\ Pool!TypeOK' /\ Slots'
        /\ UNCHANGED <<active, running, queue, capacityWaiters>>
    BY <2>1 DEF IInv, TypeOK, Pool!TypeOK, Slots, Pool!OnIdle
  <2>4. QED
    BY <2>1, <2>2, <2>3
<1>3. QED
  BY <1>1, <1>2

LEMMA Gates ==
    ASSUME IInv, micro # <<>>, 1 \in Waits("producer") \cup Waits("pull"), Gate
    PROVE  \E new :
              /\ Moved(1, new) /\ new \subseteq {<<"producer">>}
              /\ new # {} => active < Size /\ capacityWaiters' = capacityWaiters
              /\ producer' = "gated" /\ Pool!TypeOK' /\ Slots'
              /\ UNCHANGED <<active, running, queue, idleWaiters>>
<1>1. CASE Pool!HasRoom(active, queue)
  <2>1. Then(<<<<"producer">>>>) /\ UNCHANGED poolVars /\ producer' = "gated"
    BY <1>1 DEF Gate
  <2>2. active < Size
    BY <1>1 DEF Pool!HasRoom, IInv, Slots, TypeOK, Pool!TypeOK
  <2>3. Moved(1, {<<"producer">>})
    BY <2>1, Puts, Continuations DEF IInv
  <2>4. Pool!TypeOK' /\ Slots'
    BY <2>1 DEF IInv, TypeOK, Pool!TypeOK, Slots, poolVars
  <2>5. QED
    BY <2>1, <2>2, <2>3, <2>4 DEF poolVars
<1>2. CASE ~Pool!HasRoom(active, queue)
  <2>1. Then(<<>>) /\ Pool!WhenCapacityAvailable(Producer) /\ producer' = "gated"
    BY <1>2 DEF Gate
  <2>2. Moved(1, {})
    BY <2>1, Empties DEF IInv
  <2>3. /\ Pool!TypeOK' /\ Slots'
        /\ UNCHANGED <<active, running, queue, idleWaiters>>
    BY <2>1 DEF IInv, TypeOK, Pool!TypeOK, Slots, Pool!WhenCapacityAvailable
  <2>4. QED
    BY <2>1, <2>2, <2>3
<1>3. QED
  BY <1>1, <1>2

\* Draining from wherever the producer stands, the held item dropped.
LEMMA DrainKeeps ==
    ASSUME IInv, micro # <<>>, 1 \in Waits("producer") \cup Waits("pull"), Drain,
           held' = None, pulled' \in pulled..N,
           pulled' # pulled \/ held # None => outcome # "none",
           UNCHANGED <<chanVars, consVars>>
    PROVE  IInv'
<1>1. PICK new :
          /\ Moved(1, new) /\ new \subseteq {<<"producer">>}
          /\ new # {} => active = 0 /\ idleWaiters' = idleWaiters
          /\ producer' = "draining" /\ Pool!TypeOK' /\ Slots'
          /\ UNCHANGED <<active, running, queue, capacityWaiters>>
  BY Drains
<1>2. /\ capacityWaiters = {} /\ idleWaiters = {} /\ ~closed
      /\ Waits("pull")' = {}
      /\ \A j, k \in Waits("producer")' : j = k
      /\ \A k \in Waits("producer")' : new # {}
      /\ Publishing' = Publishing
      /\ \A j, k \in Waits("publish")' : micro'[j][2] = micro'[k][2] => j = k
  BY <1>1, ProducerRuns
<1>3. pulled \in Nat /\ pulled' \in 0..N /\ pulled <= pulled'
  BY NAssumption DEF IInv, TypeOK
<1>4. TypeOK'
  BY <1>1, <1>3 DEF IInv, TypeOK, Moved, chanVars, consVars
<1>5. Turn'
  BY <1>1, <1>2 DEF Turn, chanVars
<1>6. Iteration' /\ PushedFirst' /\ Over'
  BY <1>1, ProducerWaits
<1>7. Apart' /\ Once'
  <2>1. 1..pulled \subseteq 1..pulled' /\ None \notin 1..pulled
    BY <1>3 DEF None
  <2>2. QED
    BY <1>1, <1>2, <2>1 DEF IInv, Apart, Once, chanVars, consVars
<1>8. Kept'
  BY <1>1, <1>2 DEF IInv, Kept, chanVars, consVars
<1>9. QED
  BY <1>1, <1>4, <1>5, <1>6, <1>7, <1>8 DEF IInv

LEMMA PullItemKeeps == IInv /\ PullItem => IInv'
<1> SUFFICES ASSUME IInv, PullItem PROVE IInv'
  OBVIOUS
<1>1. /\ micro # <<>> /\ 1 \in Waits("pull") /\ micro[1][2] = "item"
  BY Heads DEF IInv, PullItem
<1>2. /\ pulled < N /\ pulled \in Nat /\ N \in Nat /\ pulled' = pulled + 1
      /\ held = None /\ producer = "answered" /\ UNCHANGED <<chanVars, consVars>>
  BY <1>1, NAssumption DEF IInv, Turn, TypeOK, PullItem
<1>3. CASE cancelled /\ UNCHANGED held /\ Drain
  <2>1. held' = None /\ pulled' \in pulled..N /\ outcome # "none"
    BY <1>2, <1>3 DEF IInv, Iteration
  <2>2. QED
    BY <1>1, <1>2, <1>3, <2>1, DrainKeeps
<1>4. CASE ~cancelled /\ held' = pulled' /\ Gate
  <2>1. PICK new :
            /\ Moved(1, new) /\ new \subseteq {<<"producer">>}
            /\ new # {} => active < Size /\ capacityWaiters' = capacityWaiters
            /\ producer' = "gated" /\ Pool!TypeOK' /\ Slots'
            /\ UNCHANGED <<active, running, queue, idleWaiters>>
    BY <1>1, <1>4, Gates
  <2>2. /\ capacityWaiters = {} /\ idleWaiters = {} /\ ~closed
        /\ Waits("pull")' = {}
        /\ \A j, k \in Waits("producer")' : j = k
        /\ \A k \in Waits("producer")' : new # {}
        /\ Publishing' = Publishing
        /\ \A j, k \in Waits("publish")' : micro'[j][2] = micro'[k][2] => j = k
    BY <1>1, <2>1, ProducerRuns
  <2>3. pulled' \in Item /\ pulled' \in 0..N /\ pulled' > 0
    BY <1>2 DEF Item
  <2>4. TypeOK'
    BY <1>2, <1>4, <2>1, <2>3 DEF IInv, TypeOK, Moved, chanVars, consVars
  <2>5. Turn'
    BY <1>2, <1>4, <2>1, <2>2, <2>3 DEF Turn, chanVars
  <2>6. Iteration' /\ PushedFirst' /\ Over'
    BY <1>1, <1>2, <2>1, ProducerWaits
  <2>7. 1..pulled' = 1..pulled \cup {held'} /\ held' \notin 1..pulled
    BY <1>2, <1>4
  <2>8. Apart' /\ Once'
    BY <1>2, <2>1, <2>2, <2>7 DEF IInv, Apart, Once, chanVars, consVars
  <2>9. Kept'
    <3>1. None \notin 1..pulled
      BY <1>2 DEF None
    <3>2. QED
      BY <1>2, <2>1, <2>2, <2>7, <3>1 DEF IInv, Kept, chanVars, consVars
  <2>10. QED
    BY <2>1, <2>4, <2>5, <2>6, <2>8, <2>9 DEF IInv
<1>5. QED
  BY <1>3, <1>4 DEF PullItem

LEMMA PullDoneKeeps == IInv /\ PullDone => IInv'
<1> SUFFICES ASSUME IInv, PullDone PROVE IInv'
  OBVIOUS
<1>1. micro # <<>> /\ 1 \in Waits("pull")
  BY Heads DEF IInv, PullDone
<1>2. held = None /\ pulled \in pulled..N /\ UNCHANGED <<held, pulled, chanVars, consVars>> /\ Drain
  BY <1>1, NAssumption DEF IInv, Turn, TypeOK, PullDone
<1>3. QED
  BY <1>1, <1>2, DrainKeeps

\* What the gate saw is still so when the held item is submitted.
LEMMA RunGatedKeeps == IInv /\ RunGated => IInv'
<1> SUFFICES ASSUME IInv, RunGated PROVE IInv'
  OBVIOUS
<1>1. /\ micro # <<>> /\ 1 \in Waits("producer") /\ producer = "gated"
  BY Heads DEF IInv, RunGated
<1>2. /\ held' = None /\ UNCHANGED <<chanVars, pulled, consVars>>
      /\ held = pulled /\ pulled > 0 /\ pulled \in 0..N /\ active < Size
      /\ capacityWaiters = {} /\ idleWaiters = {}
  BY <1>1 DEF IInv, Turn, TypeOK, RunGated
<1>3. CASE cancelled /\ Drain
  <2>1. pulled' \in pulled..N /\ outcome # "none"
    BY <1>2, <1>3, NAssumption DEF IInv, Iteration
  <2>2. QED
    BY <1>1, <1>2, <1>3, <2>1, DrainKeeps
<1>4. CASE ~cancelled /\ Pool!Submit(held) /\ producer' = "pulling" /\ Then(<<>>)
  <2>1. /\ held \notin running /\ active' = active + 1 /\ running' = running \cup {held}
        /\ queue' = queue /\ UNCHANGED <<capacityWaiters, idleWaiters>>
    BY <1>2, <1>4 DEF Pool!Submit, Pool!Start, Pool!Park, Pool!SlotFree
  <2>2. held \in Item /\ held # None
    BY <1>2, NAssumption DEF Item, None
  <2>3. Slots'
    <3>1. IsFiniteSet(1..N) /\ running \subseteq 1..N
      BY NAssumption, FS_Interval DEF IInv, TypeOK, Pool!TypeOK, Item
    <3>2. IsFiniteSet(running)
      BY <3>1, FS_Subset
    <3>3. Cardinality(running') = Cardinality(running) + 1
      BY <2>1, <3>2, FS_AddElement
    <3>4. QED
      BY <1>2, <2>1, <3>3, SizeAssumption DEF IInv, Slots, TypeOK, Pool!TypeOK
  <2>4. Moved(1, {})
    BY <1>1, <1>4, Empties DEF IInv
  <2>5. /\ ~closed /\ Waits("pull")' = {}
        /\ \A k \in Waits("producer")' : FALSE
        /\ Publishing' = Publishing
        /\ \A j, k \in Waits("publish")' : micro'[j][2] = micro'[k][2] => j = k
    BY <1>1, <2>4, ProducerRuns
  <2>6. TypeOK'
    BY <1>2, <1>4, <2>1, <2>2, <2>4 DEF IInv, TypeOK, Pool!TypeOK, Moved, chanVars, consVars
  <2>7. Turn'
    BY <1>2, <1>4, <2>1, <2>5 DEF Turn, chanVars
  <2>8. Iteration' /\ PushedFirst' /\ Over'
    BY <1>1, <1>2, <2>4, ProducerWaits
  <2>9. held \in 1..pulled /\ None \notin 1..pulled
    BY <1>2 DEF None
  <2>10. Apart' /\ Once'
    BY <1>2, <2>1, <2>5, <2>9 DEF IInv, Apart, Once, chanVars, consVars
  <2>11. Kept'
    BY <1>2, <2>1, <2>5 DEF IInv, Kept, chanVars, consVars
  <2>12. QED
    BY <2>3, <2>6, <2>7, <2>8, <2>10, <2>11 DEF IInv
<1>5. QED
  BY <1>3, <1>4 DEF RunGated

\* The producer ends, closing the channel or failing it.
LEMMA ProducerEndsKeeps ==
    ASSUME IInv, NEW how \in {"closed", "threw"}, micro # <<>>,
           1 \in Waits("producer") \cup Waits("pull"), ProducerEnds(how),
           how = "closed" => /\ closed' = TRUE /\ failure' = failure
                             /\ producer = "draining" /\ 1 \in Waits("producer"),
           how = "threw" => failure' = TRUE /\ closed' = closed /\ producer = "answered",
           UNCHANGED <<poolVars, buffer, held, pulled, cancelled, delivered, outcome>>
    PROVE  IInv'
<1>1. /\ producer' = how /\ wake' = FALSE /\ Then(Bumped)
      /\ consumer' = IF consumer = "cleanup" THEN "ended" ELSE consumer
  BY DEF ProducerEnds
<1>2. PICK new : /\ Moved(1, new) /\ new \subseteq {<<"consumer", "next">>}
                 /\ new # {} => wake
  BY <1>1, Bumps
<1>3. /\ \A c \in new : c[1] = "consumer" /\ c = <<"consumer", "next">>
                     /\ c[1] # "producer" /\ c[1] # "pull" /\ c[1] # "publish"
      /\ 1 \in {0, 1} /\ TypeOK /\ Once /\ micro[1][1] # "publish" /\ micro[1][1] # "consumer"
  BY <1>2 DEF IInv, Waits
<1>4. TypeOK'
  <2>1. failure' \in BOOLEAN /\ closed' \in BOOLEAN /\ micro' \in Seq(Continuation)
    BY <1>2 DEF IInv, TypeOK, Moved
  <2>2. consumer' \in {"parked", "resuming", "body", "cleanup", "ended"}
    BY <1>1 DEF IInv, TypeOK
  <2>3. QED
    BY <1>1, <2>1, <2>2 DEF IInv, TypeOK, Pool!TypeOK, poolVars
<1>5. Slots'
  BY DEF IInv, Slots, poolVars
<1>6. Waits("producer")' = {} /\ Waits("pull")' = {}
  <2>1. \A k \in Waits("producer") \cup Waits("pull") : k = 1
    BY DEF IInv, Turn
  <2>2. /\ \A k \in Waits("producer")' : k \in Nat /\ k + 1 \in Waits("producer")
        /\ \A k \in Waits("pull")' : k \in Nat /\ k + 1 \in Waits("pull")
    BY <1>2, <1>3, Waited
  <2>3. \A k \in Waits("producer")' \cup Waits("pull")' : k > 0
    BY <1>2 DEF Moved, Waits
  <2>4. \A k \in Waits("producer")' \cup Waits("pull")' : k \in Nat /\ k + 1 = 1
    BY <2>1, <2>2
  <2>5. QED
    BY <2>3, <2>4
<1>7. Turn'
  <2>1. ~closed /\ capacityWaiters = {} /\ idleWaiters = {} /\ held = None
    BY DEF IInv, Turn
  <2>2. how = "closed" => active = 0
    BY DEF IInv, Turn
  <2>3. QED
    BY <1>1, <1>6, <2>1, <2>2 DEF Turn, poolVars
<1>8. Iteration'
  <2>1. /\ \A j, k \in Waits("consumer")' : j = k
        /\ \A k \in Waits("consumer")' : consumer \in {"parked", "resuming"}
    BY <1>2, <1>3, BumpedOnce
  <2>2. QED
    BY <1>1, <2>1 DEF IInv, Iteration
<1>9. Publishing' = Publishing
      /\ \A j, k \in Waits("publish")' : micro'[j][2] = micro'[k][2] => j = k
  BY <1>2, <1>3, NothingPushed
<1>10. Apart' /\ Once'
  BY <1>9 DEF IInv, Apart, Once, poolVars
<1>11. Kept'
  BY <1>9 DEF IInv, Kept, TypeOK, poolVars
<1>12. PushedFirst'
  <2>1. ASSUME NEW j \in Waits("publish"), NEW k \in Waits("consumer"), how = "closed"
        PROVE  j < k
    <3>1. 1 < k
      BY <1>3, Positions DEF Waits
    <3>2. QED
      BY <2>1, <3>1 DEF IInv, PushedFirst
  <2>2. how = "threw" => ~closed' /\ producer' # "draining"
    BY <1>1 DEF IInv, Turn
  <2>3. QED
    BY <1>1, <1>2, <1>3, <2>1, <2>2, OrderKept
<1>13. Over'
  <2>1. ~closed
    BY DEF IInv, Turn
  <2>2. QED
    BY <2>1 DEF IInv, Over
<1>14. QED
  BY <1>4, <1>5, <1>7, <1>8, <1>10, <1>11, <1>12, <1>13 DEF IInv

LEMMA PullThrowsKeeps == IInv /\ PullThrows => IInv'
<1> SUFFICES ASSUME IInv, PullThrows PROVE IInv'
  OBVIOUS
<1>1. micro # <<>> /\ 1 \in Waits("pull")
  BY Heads DEF IInv, PullThrows
<1>2. producer = "answered"
  BY <1>1 DEF IInv, Turn
<1>3. QED
  BY <1>1, <1>2, ProducerEndsKeeps DEF PullThrows

LEMMA RunDrainedKeeps == IInv /\ RunDrained => IInv'
<1> SUFFICES ASSUME IInv, RunDrained PROVE IInv'
  OBVIOUS
<1>1. micro # <<>> /\ 1 \in Waits("producer")
  BY Heads DEF IInv, RunDrained
<1>2. QED
  BY <1>1, ProducerEndsKeeps DEF RunDrained

-----------------------------------------------------------------------------
(* The consumer.                                                            *)

\* A continuation of the consumer finds every result pushed, if the channel is closed.
LEMMA ClosedMeansPushed ==
    ASSUME IInv, 1 \in Waits("consumer"), closed
    PROVE  Publishing = {} /\ running = {} /\ held = None
<1>1. ASSUME NEW j \in Waits("publish") PROVE FALSE
  <2>1. j < 1
    BY DEF IInv, PushedFirst
  <2>2. QED
    BY <2>1, Positions DEF IInv, Waits
<1>2. held = None /\ Cardinality(running) = 0
  BY DEF IInv, Turn, Slots
<1>3. running = {}
  <2>1. IsFiniteSet(1..N) /\ running \subseteq 1..N
    BY NAssumption, FS_Interval DEF IInv, TypeOK, Pool!TypeOK, Item
  <2>2. QED
    BY <1>2, <2>1, FS_Subset, FS_EmptySet
<1>4. QED
  BY <1>1, <1>2, <1>3 DEF Publishing

LEMMA RunConsumerKeeps == IInv /\ RunConsumer => IInv'
<1> SUFFICES ASSUME IInv, RunConsumer PROVE IInv'
  OBVIOUS
<1>1. /\ micro # <<>> /\ 1 \in Waits("consumer") /\ micro[1][1] = "consumer"
  BY Heads DEF IInv, RunConsumer
<1>2. /\ Then(<<>>) /\ UNCHANGED <<poolVars, closed, failure, prodVars>>
      /\ Iterate \/ Leave("broke")
  BY DEF RunConsumer
<1>3. Moved(1, {}) /\ 1 \in {0, 1} /\ TypeOK /\ Once
  BY <1>1, <1>2, Empties DEF IInv
<1>4. Waits("consumer")' = {}
  <2>1. \A k \in Waits("consumer")' : k \in Nat /\ k + 1 \in Waits("consumer") /\ k > 0
    <3>1. \A k \in Waits("consumer")' : k \in Nat /\ k + 1 \in Waits("consumer")
      BY <1>3, Waited
    <3>2. \A k \in Waits("consumer")' : k > 0
      BY <1>3 DEF Moved, Waits
    <3>3. QED
      BY <3>1, <3>2
  <2>2. \A k \in Waits("consumer")' : k + 1 = 1
    BY <1>1, <2>1 DEF IInv, Iteration
  <2>3. QED
    BY <2>1, <2>2
<1>5. Slots' /\ Turn' /\ PushedFirst'
  <2>1. Turn'
    BY <1>2, <1>3, TurnKept
  <2>2. QED
    BY <1>2, <1>4, <2>1 DEF IInv, Slots, PushedFirst, poolVars
<1>6. /\ Publishing' = Publishing /\ micro' \in Seq(Continuation)
      /\ \A j, k \in Waits("publish")' : micro'[j][2] = micro'[k][2] => j = k
  <2>1. PICK new : new = {} /\ Moved(1, new)
    BY <1>3
  <2>2. micro[1][1] # "publish" /\ \A c \in new : c[1] # "publish"
    BY <1>1, <2>1
  <2>3. micro' \in Seq(Continuation)
    BY <1>3 DEF Moved
  <2>4. QED
    BY <1>3, <2>1, <2>2, <2>3, NothingPushed
<1>7. ~wake /\ outcome = "none" /\ ~cancelled
  BY <1>1 DEF IInv, Iteration
<1>8. ASSUME NEW how \in {"returned", "threw", "broke"}, Leave(how),
             how = "returned" => closed /\ ~failure /\ buffer = <<>>
      PROVE  IInv'
  <2>1. /\ outcome' = how /\ cancelled' = TRUE /\ consumer' \in {"ended", "cleanup"}
        /\ UNCHANGED <<buffer, wake, delivered>>
    BY <1>8 DEF Leave
  <2>2. TypeOK'
    BY <1>2, <1>6, <2>1 DEF IInv, TypeOK, Pool!TypeOK, poolVars, prodVars
  <2>3. Iteration'
    BY <1>4, <1>7, <2>1 DEF Iteration
  <2>4. Apart' /\ Once' /\ Kept'
    BY <1>2, <1>6, <1>8, <2>1, PlacesKept DEF IInv, poolVars, prodVars
  <2>5. Over'
    <3> SUFFICES ASSUME how = "returned"
                 PROVE  SeqRange(delivered) = 1..pulled /\ ~failure /\ closed /\ Publishing = {}
      BY <1>2, <1>6, <2>1 DEF Over, prodVars
    <3>1. Publishing = {} /\ running = {} /\ held = None
      BY <1>1, <1>8, ClosedMeansPushed
    <3>2. SeqRange(buffer) = {}
      BY <1>8 DEF SeqRange
    <3>3. 1..pulled \subseteq {None} \cup SeqRange(delivered)
      BY <1>7, <1>8, <3>1, <3>2 DEF IInv, Kept
    <3>4. None \notin 1..pulled /\ SeqRange(delivered) \subseteq 1..pulled
      BY DEF IInv, Apart, TypeOK, None
    <3>5. QED
      BY <1>8, <3>1, <3>3, <3>4
  <2>6. QED
    BY <1>5, <2>2, <2>3, <2>4, <2>5 DEF IInv
<1>9. ASSUME buffer # <<>>, delivered' = Append(delivered, Head(buffer)),
             buffer' = Tail(buffer), consumer' = "body", UNCHANGED <<wake, cancelled, outcome>>
      PROVE  IInv'
  <2>1. /\ buffer \in Seq(Item) /\ delivered \in Seq(Item)
        /\ \A j, k \in DOMAIN buffer : buffer[j] = buffer[k] => j = k
        /\ \A j, k \in DOMAIN delivered : delivered[j] = delivered[k] => j = k
    BY DEF IInv, TypeOK, Once
  <2>2. PICK h \in Item : h = Head(buffer)
    BY <1>9, <2>1, Shrinking
  <2>3. /\ buffer' \in Seq(Item) /\ SeqRange(buffer) = SeqRange(buffer') \cup {h}
        /\ h \notin SeqRange(buffer')
        /\ \A j, k \in DOMAIN buffer' : buffer'[j] = buffer'[k] => j = k
    BY <1>9, <2>1, <2>2, Shrinking
  <2>4. h \notin SeqRange(delivered)
    BY <2>3 DEF IInv, Apart
  <2>5. /\ delivered' \in Seq(Item) /\ SeqRange(delivered') = SeqRange(delivered) \cup {h}
        /\ \A j, k \in DOMAIN delivered' : delivered'[j] = delivered'[k] => j = k
    BY <1>9, <2>1, <2>2, <2>4, Growing
  <2>6. TypeOK'
    BY <1>2, <1>6, <1>9, <2>3, <2>5 DEF IInv, TypeOK, Pool!TypeOK, poolVars, prodVars
  <2>7. Iteration'
    BY <1>4, <1>7, <1>9 DEF Iteration
  <2>8. Apart'
    BY <1>2, <1>6, <2>3, <2>5 DEF IInv, Apart, poolVars, prodVars
  <2>9. Once'
    BY <1>6, <2>3, <2>5 DEF Once
  <2>10. Kept'
    BY <1>2, <1>6, <1>9, <2>3, <2>5 DEF IInv, Kept, poolVars, prodVars
  <2>11. Over'
    BY <1>7, <1>9 DEF Over
  <2>12. QED
    BY <1>5, <2>6, <2>7, <2>8, <2>9, <2>10, <2>11 DEF IInv
<1>10. ASSUME wake' = TRUE, consumer' = "parked",
              UNCHANGED <<buffer, delivered, cancelled, outcome>>
       PROVE  IInv'
  <2>1. TypeOK'
    BY <1>2, <1>6, <1>10 DEF IInv, TypeOK, Pool!TypeOK, poolVars, prodVars
  <2>2. Iteration'
    BY <1>4, <1>7, <1>10 DEF Iteration
  <2>3. Apart' /\ Once' /\ Kept'
    BY <1>2, <1>6, <1>10, PlacesKept DEF IInv, poolVars, prodVars
  <2>4. Over'
    BY <1>7, <1>10 DEF Over
  <2>5. QED
    BY <1>5, <2>1, <2>2, <2>3, <2>4 DEF IInv
<1>11. QED
  BY <1>2, <1>8, <1>9, <1>10 DEF Iterate

-----------------------------------------------------------------------------
(* The theorems about states.                                               *)

LEMMA NextInvariant == IInv /\ [Next]_vars => IInv'
<1> SUFFICES ASSUME IInv, [Next]_vars PROVE IInv'
  OBVIOUS
<1>1. CASE UNCHANGED vars
  <2>1. UNCHANGED <<poolVars, chanVars, prodVars, consVars, micro>>
    BY <1>1 DEF vars
  <2>2. Publishing' = Publishing /\ \A tag : Waits(tag)' = Waits(tag)
    BY <2>1 DEF Publishing, Waits
  <2>3. TypeOK' /\ Slots'
    BY <2>1 DEF IInv, TypeOK, Pool!TypeOK, Slots, poolVars, chanVars, prodVars, consVars
  <2>4. Turn'
    BY <2>1, <2>2 DEF IInv, Turn, poolVars, chanVars, prodVars
  <2>5. Iteration'
    BY <2>1, <2>2 DEF IInv, Iteration, chanVars, consVars
  <2>6. Apart' /\ Once' /\ Kept'
    BY <2>1, <2>2, PlacesKept DEF IInv, Once, poolVars, chanVars, prodVars, consVars
  <2>7. PushedFirst' /\ Over'
    BY <2>1, <2>2 DEF IInv, PushedFirst, Over, chanVars, prodVars, consVars
  <2>8. QED
    BY <2>3, <2>4, <2>5, <2>6, <2>7 DEF IInv
<1>2. CASE Microtask
  BY <1>2, RunSettleKeeps, RunPublishKeeps, PullItemKeeps, PullDoneKeeps, PullThrowsKeeps,
     RunGatedKeeps, RunDrainedKeeps, RunConsumerKeeps DEF Microtask
<1>3. CASE \E i \in Item, ok \in BOOLEAN : ThunkSettles(i, ok)
  BY <1>3, ThunkSettlesKeeps
<1>4. CASE \E answer \in {"item", "done", "throw"} : SourceAnswers(answer)
  BY <1>4, SourceAnswersKeeps
<1>5. CASE \E how \in {"next", "break"} : BodyEnds(how)
  BY <1>5, BodyEndsKeeps
<1>6. QED
  BY <1>1, <1>2, <1>3, <1>4, <1>5 DEF Next

LEMMA Invariant == Spec => []IInv
  BY InitInvariant, NextInvariant, PTL DEF Spec

\* The stream's variables have their types.
THEOREM StreamTypes == Spec => []TypeOK
<1>1. IInv => TypeOK
  BY DEF IInv
<1>2. QED
  BY Invariant, <1>1, PTL

\* The room whenCapacityAvailable() saw is there when the producer submits: the pool's
\* queue stays empty and `size` bounds the invocations in flight.
THEOREM StreamGateHolds == Spec => []GateHolds
<1>1. IInv => GateHolds
  BY DEF IInv, Slots, GateHolds
<1>2. QED
  BY Invariant, <1>1, PTL

\* A sequence without repetitions over the first n numbers has n elements.
LEMMA AllOnce ==
    ASSUME NEW n \in Nat, NEW S, NEW s \in Seq(S), SeqRange(s) = 1..n,
           \A j, k \in DOMAIN s : s[j] = s[k] => j = k
    PROVE  Len(s) = n
<1>1. Len(s) \in Nat /\ DOMAIN s = 1..Len(s) /\ s \in [1..Len(s) -> 1..n]
  BY DEF SeqRange
<1>2. s \in Bijection(1..Len(s), 1..n)
  BY <1>1 DEF Bijection, Injection, Surjection, IsInjective, SeqRange
<1>3. ExistsBijection(1..Len(s), 1..n)
  BY <1>2 DEF ExistsBijection
<1>4. Cardinality(1..n) = Len(s)
  BY <1>1, <1>3, FS_CountingElements
<1>5. Cardinality(1..n) = n
  BY FS_Interval
<1>6. QED
  BY <1>4, <1>5

\* An iteration that returns has yielded each pulled item's result once and swallowed
\* no rejection, although the close precedes the last push; and nothing is in flight
\* after it, however the consumer left, unless the source threw.
THEOREM StreamLosesNothing == Spec => []NoResultLost
<1>1. ASSUME IInv PROVE NoResultLost
  <2>1. ASSUME outcome = "returned"
        PROVE  SeqRange(delivered) = 1..pulled /\ Len(delivered) = pulled /\ ~failure
    <3>1. SeqRange(delivered) = 1..pulled /\ ~failure
      BY <1>1, <2>1 DEF IInv, Over
    <3>2. PICK n \in Nat : n = pulled
      BY <1>1, NAssumption DEF IInv, TypeOK
    <3>3. PICK s \in Seq(Item) : s = delivered
      BY <1>1 DEF IInv, TypeOK
    <3>4. Len(s) = n
      BY <1>1, <3>1, <3>2, <3>3, AllOnce DEF IInv, Once
    <3>5. QED
      BY <3>1, <3>2, <3>3, <3>4
  <2>2. producer = "closed" => running = {}
    <3>1. IsFiniteSet(1..N) /\ running \subseteq 1..N
      BY <1>1, NAssumption, FS_Interval DEF IInv, TypeOK, Pool!TypeOK, Item
    <3>2. producer = "closed" => Cardinality(running) = 0
      BY <1>1 DEF IInv, Turn, Slots
    <3>3. QED
      BY <3>1, <3>2, FS_Subset, FS_EmptySet
  <2>3. QED
    BY <2>1, <2>2 DEF NoResultLost
<1>2. QED
  BY Invariant, <1>1, PTL

-----------------------------------------------------------------------------
(* The stream implements BoundedStream.                                     *)

\* The stage of an item depends on five facts about it.
LEMMA SameStage ==
    ASSUME NEW i \in Item, pulled' = pulled, held' = held,
           i \in running' <=> i \in running,
           i \in SeqRange(buffer') \cup Pushing' <=> i \in SeqRange(buffer) \cup Pushing,
           i \in SeqRange(delivered') <=> i \in SeqRange(delivered)
    PROVE  Stage(i)' = Stage(i)
  BY DEF Stage

\* One item's stage changes, as a step of BoundedStream moves it.
LEMMA StageMoves ==
    ASSUME NEW i \in Item, NEW from, NEW to,
           Stage(i) = from, Stage(i)' = to,
           \A j \in Item \ {i} : Stage(j)' = Stage(j)
    PROVE  Abstract!Move(i, from, to)
  BY DEF Abstract!Move

\* No item's stage changes.
LEMMA StageStays ==
    ASSUME \A j \in Item : Stage(j)' = Stage(j), outcome' = outcome
    PROVE  UNCHANGED Abstract!vars
  BY DEF Abstract!vars

\* Pushing counts the results among what is to be pushed.
LEMMA PushingIs ==
    Pushing = {micro[k][2] : k \in {j \in Waits("publish") : micro[j][3]}}
    /\ Pushing \subseteq Publishing
  BY DEF Pushing, Publishing, Waits

LEMMA PushingSame ==
    ASSUME TypeOK, NEW d \in {0, 1}, NEW new, Moved(d, new),
           d = 1 => ~(micro[1][1] = "publish" /\ micro[1][3]),
           \A c \in new : ~(c[1] = "publish" /\ c[3])
    PROVE  Pushing' = Pushing
<1>1. \A k \in DOMAIN micro' : micro'[k][1] = "publish" /\ micro'[k][3] =>
          k + d \in DOMAIN micro /\ micro'[k] = micro[k + d]
  BY DEF Moved
<1>2. Pushing' \subseteq Pushing
  BY <1>1 DEF Pushing
<1>3. ASSUME NEW k \in DOMAIN micro, micro[k][1] = "publish", micro[k][3]
      PROVE  micro[k][2] \in Pushing'
  <2>1. k > d
    BY <1>3, Positions
  <2>2. k - d \in DOMAIN micro' /\ micro'[k - d] = micro[k]
    BY <2>1 DEF Moved
  <2>3. QED
    BY <1>3, <2>2 DEF Pushing
<1>4. QED
  BY <1>2, <1>3 DEF Pushing

LEMMA OutsideStutters ==
    ASSUME IInv, NEW c \in Continuation, c[1] # "publish", Resume(c),
           UNCHANGED <<poolVars, chanVars, held, pulled, delivered, outcome>>
    PROVE  UNCHANGED Abstract!vars
<1>1. PICK new : new = {c} /\ Moved(0, new)
  BY Appends DEF IInv
<1>2. 0 \in {0, 1} /\ TypeOK /\ \A e \in new : ~(e[1] = "publish" /\ e[3])
  BY <1>1 DEF IInv
<1>3. Pushing' = Pushing
  BY <1>1, <1>2, PushingSame
<1>4. QED
  BY <1>3, SameStage, StageStays DEF poolVars, chanVars

LEMMA SettleRefines == IInv /\ RunSettle => Abstract!Next
<1> SUFFICES ASSUME IInv, RunSettle PROVE Abstract!Next
  OBVIOUS
<1> DEFINE released == capacityWaiters' # capacityWaiters \/ idleWaiters' # idleWaiters
<1>1. /\ micro # <<>> /\ Head(micro) = micro[1] /\ 1 \in DOMAIN micro
      /\ micro[1] \in Continuation /\ micro[1][1] = "settle"
  BY Heads DEF IInv, RunSettle
<1>2. PICK i \in Item, ok \in BOOLEAN : micro[1][2] = i /\ micro[1][3] = ok
  BY <1>1, Shapes
<1> DEFINE p == <<"publish", i, ok>>
           c == <<"producer">>
<1>3. /\ Pool!Settle(i)
      /\ Then((IF released THEN <<c>> ELSE <<>>) \o <<p>>)
      /\ UNCHANGED <<chanVars, prodVars, consVars>>
  BY <1>1, <1>2 DEF RunSettle
<1>4. /\ p \in Continuation /\ p[1] = "publish" /\ p[2] = i /\ p[3] = ok
      /\ c \in Continuation /\ c[1] = "producer" /\ c # p
  BY Continuations
<1> HIDE DEF p, c
<1>5. PICK new : Moved(1, new) /\ p \in new /\ new \subseteq {c, p}
  <2>1. CASE released
    <3>1. Then(<<c>> \o <<p>>)
      BY <1>3, <2>1
    <3>2. QED
      BY <1>1, <1>4, <3>1, PutsTwo DEF IInv
  <2>2. CASE ~released
    <3>1. Then(<<p>>)
      BY <1>3, <2>2
    <3>2. QED
      BY <1>1, <1>4, <3>1, Puts DEF IInv
  <2>3. QED
    BY <2>1, <2>2
<1>6. i \in running /\ running' = running \ {i}
  BY <1>3, PoolSettles DEF IInv
<1>7. /\ i \notin Pushing /\ i \notin SeqRange(buffer) /\ i \notin SeqRange(delivered)
      /\ i # held /\ ~(i > pulled)
  BY <1>6, PushingIs DEF IInv, Apart, TypeOK
<1>8. Pushing' = Pushing \cup (IF ok THEN {i} ELSE {})
  <2>1. \A k \in DOMAIN micro' : micro'[k][1] = "publish" /\ micro'[k][3] =>
            \/ k + 1 \in DOMAIN micro /\ micro'[k] = micro[k + 1]
            \/ micro'[k] = p
    BY <1>4, <1>5 DEF Moved
  <2>2. Pushing' \subseteq Pushing \cup (IF ok THEN {i} ELSE {})
    BY <1>4, <2>1 DEF Pushing
  <2>3. ASSUME NEW k \in DOMAIN micro, micro[k][1] = "publish", micro[k][3]
        PROVE  micro[k][2] \in Pushing'
    <3>1. k > 1
      BY <1>1, <2>3, Positions DEF IInv
    <3>2. k - 1 \in DOMAIN micro' /\ micro'[k - 1] = micro[k]
      BY <1>5, <3>1 DEF Moved
    <3>3. QED
      BY <2>3, <3>2 DEF Pushing
  <2>4. ok => i \in Pushing'
    <3>1. PICK k \in DOMAIN micro' : micro'[k] = p
      BY <1>5 DEF Moved
    <3>2. QED
      BY <1>4, <3>1 DEF Pushing
  <2>5. QED
    BY <2>2, <2>3, <2>4 DEF Pushing
<1>9. \A j \in Item \ {i} : Stage(j)' = Stage(j)
  BY <1>3, <1>6, <1>8, SameStage DEF chanVars, prodVars, consVars
<1>10. Stage(i) = "running"
  BY <1>6, <1>7 DEF Stage
<1>11. Stage(i)' = IF ok THEN "ready" ELSE "gone"
  BY <1>3, <1>6, <1>7, <1>8 DEF Stage, chanVars, prodVars, consVars
<1>12. Abstract!Move(i, "running", "ready") \/ Abstract!Move(i, "running", "gone")
  BY <1>9, <1>10, <1>11, StageMoves
<1>13. QED
  BY <1>3, <1>12 DEF Abstract!Next, Abstract!Settle, consVars

LEMMA PublishStutters == IInv /\ RunPublish => UNCHANGED Abstract!vars
<1> SUFFICES ASSUME IInv, RunPublish PROVE UNCHANGED Abstract!vars
  OBVIOUS
<1>1. /\ micro # <<>> /\ Head(micro) = micro[1] /\ 1 \in DOMAIN micro
      /\ micro[1] \in Continuation /\ micro[1][1] = "publish" /\ 1 \in Waits("publish")
  BY Heads DEF IInv, RunPublish
<1>2. PICK i \in Item, ok \in BOOLEAN : micro[1][2] = i /\ micro[1][3] = ok
  BY <1>1, Shapes
<1>3. /\ IF ok THEN buffer' = Append(buffer, i) ELSE buffer' = buffer
      /\ Then(Bumped)
      /\ UNCHANGED <<poolVars, closed, prodVars, consVars>>
  BY <1>1, <1>2 DEF RunPublish
<1>4. PICK new : Moved(1, new) /\ new \subseteq {<<"consumer", "next">>}
  BY <1>1, <1>3, Bumps
<1>5. \A c \in new : c[1] # "publish"
  BY <1>4
<1>6. SeqRange(buffer') \cup Pushing' = SeqRange(buffer) \cup Pushing
  <2>1. CASE ok
    <3>1. buffer \in Seq(Item) /\ buffer' = Append(buffer, i)
      BY <1>3, <2>1 DEF IInv, TypeOK
    <3>2. SeqRange(buffer') = SeqRange(buffer) \cup {i}
      BY <3>1, Growing
    <3>3. i \in Pushing
      BY <1>1, <1>2, <2>1 DEF Pushing
    <3>4. Pushing' \subseteq Pushing
      <4>1. \A k \in DOMAIN micro' : micro'[k][1] = "publish" =>
                k + 1 \in DOMAIN micro /\ micro'[k] = micro[k + 1]
        BY <1>4, <1>5 DEF Moved
      <4>2. QED
        BY <4>1 DEF Pushing
    <3>5. ASSUME NEW k \in DOMAIN micro, micro[k][1] = "publish", micro[k][3]
          PROVE  micro[k][2] \in Pushing' \cup {i}
      <4>1. CASE k = 1
        BY <1>2, <4>1
      <4>2. CASE k > 1
        <5>1. k - 1 \in DOMAIN micro' /\ micro'[k - 1] = micro[k]
          BY <1>4, <4>2 DEF Moved
        <5>2. QED
          BY <3>5, <5>1 DEF Pushing
      <4>3. QED
        BY <4>1, <4>2, Positions DEF IInv
    <3>6. Pushing \subseteq Pushing' \cup {i}
      BY <3>5 DEF Pushing
    <3>7. QED
      BY <3>2, <3>3, <3>4, <3>6
  <2>2. CASE ~ok
    <3>1. Pushing' = Pushing
      BY <1>2, <1>4, <1>5, <2>2, PushingSame DEF IInv
    <3>2. QED
      BY <1>3, <2>2, <3>1
  <2>3. QED
    BY <2>1, <2>2
<1>7. QED
  BY <1>3, <1>6, SameStage, StageStays DEF poolVars, prodVars, consVars

\* The producer goes on to wait for the pool.
LEMMA ProducerPushesNothing ==
    ASSUME IInv, NEW new, Moved(1, new), new \subseteq {<<"producer">>},
           1 \in Waits("producer") \cup Waits("pull")
    PROVE  Pushing' = Pushing
<1>1. 1 \in {0, 1} /\ TypeOK /\ micro[1][1] # "publish" /\ \A c \in new : c[1] # "publish"
  BY DEF IInv, Waits
<1>2. QED
  BY <1>1, PushingSame

LEMMA PullItemRefines == IInv /\ PullItem => Abstract!Next
<1> SUFFICES ASSUME IInv, PullItem PROVE Abstract!Next
  OBVIOUS
<1>1. /\ micro # <<>> /\ 1 \in Waits("pull") /\ micro[1][2] = "item"
  BY Heads DEF IInv, PullItem
<1>2. /\ pulled < N /\ pulled \in Nat /\ N \in Nat /\ pulled' = pulled + 1
      /\ held = None /\ UNCHANGED <<chanVars, consVars>>
  BY <1>1, NAssumption DEF IInv, Turn, TypeOK, PullItem
<1>2a. PICK i \in Item : i = pulled + 1
  BY <1>2 DEF Item
<1>3. i \in Item /\ i > pulled /\ ~(i > pulled') /\ i # None /\ i \notin 1..pulled
      /\ \A j \in Item \ {i} : (j > pulled <=> j > pulled') /\ j # None /\ j # i
  BY <1>2, <1>2a DEF Item, None
<1>4. /\ i = pulled' /\ i \notin running /\ i \notin Pushing
      /\ i \notin SeqRange(buffer) /\ i \notin SeqRange(delivered)
  <2>1. i = pulled'
    BY <1>2, <1>2a
  <2>2. QED
    BY <1>3, <2>1, PushingIs DEF IInv, Apart
<1>5. CASE cancelled /\ UNCHANGED held /\ Drain
  <2>1. running' = running /\ Pushing' = Pushing
    BY <1>1, <1>5, Drains, ProducerPushesNothing
  <2>2. /\ Stage(i) = "source" /\ Stage(i)' = "gone"
        /\ \A j \in Item \ {i} : Stage(j)' = Stage(j)
    BY <1>2, <1>3, <1>4, <1>5, <2>1 DEF Stage, chanVars, consVars
  <2>3. outcome # "none"
    BY <1>5 DEF IInv, Iteration
  <2>4. Abstract!Move(i, "source", "gone")
    BY <2>2, StageMoves
  <2>5. QED
    BY <1>2, <2>3, <2>4 DEF Abstract!Next, Abstract!Drop, consVars
<1>6. CASE ~cancelled /\ held' = pulled' /\ Gate
  <2>1. running' = running /\ Pushing' = Pushing
    BY <1>1, <1>6, Gates, ProducerPushesNothing
  <2>2. /\ Stage(i) = "source" /\ Stage(i)' = "held"
        /\ \A j \in Item \ {i} : Stage(j)' = Stage(j)
    BY <1>2, <1>3, <1>4, <1>6, <2>1 DEF Stage, chanVars, consVars
  <2>3. outcome = "none"
    BY <1>6 DEF IInv, Iteration
  <2>4. Abstract!In("held") = {}
    <3> SUFFICES ASSUME NEW j \in Item, Stage(j) = "held" PROVE FALSE
      BY DEF Abstract!In
    <3>1. j # held
      BY <1>2 DEF Item, None
    <3>2. QED
      BY <3>1 DEF Stage
  <2>5. QED
    <3>1. Abstract!Move(i, "source", "held")
      BY <2>2, StageMoves
    <3>2. QED
      BY <1>2, <2>3, <2>4, <3>1 DEF Abstract!Next, Abstract!Take, consVars
<1>7. QED
  BY <1>5, <1>6 DEF PullItem

LEMMA PullDoneStutters == IInv /\ PullDone => UNCHANGED Abstract!vars
<1> SUFFICES ASSUME IInv, PullDone PROVE UNCHANGED Abstract!vars
  OBVIOUS
<1>1. micro # <<>> /\ 1 \in Waits("pull")
  BY Heads DEF IInv, PullDone
<1>2. UNCHANGED <<held, pulled, chanVars, consVars>> /\ Drain
  BY DEF PullDone
<1>3. running' = running /\ Pushing' = Pushing
  BY <1>1, <1>2, Drains, ProducerPushesNothing
<1>4. QED
  BY <1>2, <1>3, SameStage, StageStays DEF chanVars, consVars

LEMMA EndsStutter ==
    ASSUME IInv, NEW how, micro # <<>>, 1 \in Waits("producer") \cup Waits("pull"),
           ProducerEnds(how),
           UNCHANGED <<poolVars, buffer, held, pulled, delivered, outcome>>
    PROVE  UNCHANGED Abstract!vars
<1>1. PICK new : Moved(1, new) /\ new \subseteq {<<"consumer", "next">>}
  BY Bumps DEF ProducerEnds
<1>2. 1 \in {0, 1} /\ TypeOK /\ micro[1][1] # "publish" /\ \A c \in new : c[1] # "publish"
  BY <1>1 DEF IInv, Waits
<1>3. Pushing' = Pushing
  BY <1>1, <1>2, PushingSame
<1>4. QED
  BY <1>3, SameStage, StageStays DEF poolVars

LEMMA GatedRefines == IInv /\ RunGated => Abstract!Next
<1> SUFFICES ASSUME IInv, RunGated PROVE Abstract!Next
  OBVIOUS
<1>1. /\ micro # <<>> /\ 1 \in Waits("producer") /\ producer = "gated"
  BY Heads DEF IInv, RunGated
<1>2. /\ held' = None /\ UNCHANGED <<chanVars, pulled, consVars>>
      /\ held = pulled /\ pulled > 0 /\ pulled \in 0..N /\ active < Size
  BY <1>1 DEF IInv, Turn, TypeOK, RunGated
<1>3. PICK i \in Item : i = held
  BY <1>2, NAssumption DEF Item
<1>4. /\ ~(i > pulled) /\ i # None /\ i \notin running /\ i \notin Pushing
      /\ i \notin SeqRange(buffer) /\ i \notin SeqRange(delivered)
      /\ \A j \in Item \ {i} : j # None /\ j # held
  BY <1>2, <1>3, PushingIs DEF IInv, Apart, Item, None
<1>5. Stage(i) = "held"
  BY <1>3, <1>4 DEF Stage
<1>6. CASE cancelled /\ Drain
  <2>1. running' = running /\ Pushing' = Pushing
    BY <1>1, <1>6, Drains, ProducerPushesNothing
  <2>2. Stage(i)' = "gone" /\ \A j \in Item \ {i} : Stage(j)' = Stage(j)
    BY <1>2, <1>3, <1>4, <2>1 DEF Stage, chanVars, consVars
  <2>3. outcome # "none"
    BY <1>6 DEF IInv, Iteration
  <2>4. Abstract!Move(i, "held", "gone")
    BY <1>5, <2>2, StageMoves
  <2>5. QED
    BY <1>2, <2>3, <2>4 DEF Abstract!Next, Abstract!Drop, consVars
<1>7. CASE ~cancelled /\ Pool!Submit(held) /\ producer' = "pulling" /\ Then(<<>>)
  <2>1. running' = running \cup {i}
    BY <1>2, <1>3, <1>7 DEF Pool!Submit, Pool!Start, Pool!Park, Pool!SlotFree
  <2>2. PICK new : new = {} /\ Moved(1, new)
    BY <1>1, <1>7, Empties DEF IInv
  <2>3. Pushing' = Pushing
    BY <1>1, <2>2, ProducerPushesNothing
  <2>4. Stage(i)' = "running" /\ \A j \in Item \ {i} : Stage(j)' = Stage(j)
    BY <1>2, <1>3, <1>4, <2>1, <2>3 DEF Stage, chanVars, consVars
  <2>5. Abstract!In("running") = running
    <3>1. ASSUME NEW j \in Item PROVE Stage(j) = "running" <=> j \in running
      <4>1. j \in running => /\ ~(j > pulled) /\ j # held /\ j \notin Pushing
                             /\ j \notin SeqRange(buffer) /\ j \notin SeqRange(delivered)
        BY <1>2, PushingIs DEF IInv, Apart
      <4>2. QED
        BY <4>1 DEF Stage
    <3>2. running \subseteq Item
      BY DEF IInv, TypeOK, Pool!TypeOK
    <3>3. QED
      BY <3>1, <3>2 DEF Abstract!In
  <2>6. Cardinality(Abstract!In("running")) < Size /\ outcome = "none"
    BY <1>2, <1>7, <2>5 DEF IInv, Slots, Iteration
  <2>7. QED
    <3>1. Abstract!Move(i, "held", "running")
      BY <1>5, <2>4, StageMoves
    <3>2. QED
      BY <1>2, <2>6, <3>1 DEF Abstract!Next, Abstract!Admit, Abstract!Cardinality,
                              Cardinality, consVars
<1>8. QED
  BY <1>6, <1>7 DEF RunGated

LEMMA ConsumerRefines == IInv /\ RunConsumer => Abstract!Next \/ UNCHANGED Abstract!vars
<1> SUFFICES ASSUME IInv, RunConsumer PROVE Abstract!Next \/ UNCHANGED Abstract!vars
  OBVIOUS
<1>1. /\ micro # <<>> /\ 1 \in Waits("consumer") /\ micro[1][1] = "consumer"
  BY Heads DEF IInv, RunConsumer
<1>2. /\ Then(<<>>) /\ UNCHANGED <<poolVars, closed, failure, prodVars>>
      /\ Iterate \/ Leave("broke")
  BY DEF RunConsumer
<1>3. PICK new : new = {} /\ Moved(1, new)
  BY <1>1, <1>2, Empties DEF IInv
<1>4. 1 \in {0, 1} /\ TypeOK /\ micro[1][1] # "publish" /\ \A c \in new : c[1] # "publish"
  BY <1>1, <1>3 DEF IInv
<1>5. Pushing' = Pushing
  BY <1>3, <1>4, PushingSame
<1>6. outcome = "none"
  BY <1>1 DEF IInv, Iteration
<1>7. ASSUME NEW how \in {"returned", "threw", "broke"}, Leave(how),
             how = "returned" => closed /\ ~failure /\ buffer = <<>>
      PROVE  Abstract!Next
  <2>1. outcome' = how /\ UNCHANGED <<buffer, delivered>>
    BY <1>7 DEF Leave
  <2>2. \A j \in Item : Stage(j)' = Stage(j)
    BY <1>2, <1>5, <2>1, SameStage DEF poolVars, prodVars
  <2>3. CASE how # "returned"
    BY <1>6, <2>1, <2>2, <2>3 DEF Abstract!Next, Abstract!Abandon
  <2>4. CASE how = "returned"
    <3>1. Publishing = {} /\ running = {} /\ held = None
      BY <1>1, <1>7, <2>4, ClosedMeansPushed
    <3>2. SeqRange(buffer) = {}
      BY <1>7, <2>4 DEF SeqRange
    <3>3. 1..pulled \subseteq {None} \cup SeqRange(delivered)
      BY <1>6, <1>7, <2>4, <3>1, <3>2 DEF IInv, Kept
    <3>4. ASSUME NEW j \in Item PROVE Stage(j) \in {"source", "delivered"}
      <4>1. j # None /\ (j > pulled \/ j \in 1..pulled)
        BY NAssumption DEF Item, None, IInv, TypeOK
      <4>2. j \notin Pushing
        BY <3>1, PushingIs
      <4>3. QED
        BY <3>1, <3>2, <3>3, <4>1, <4>2 DEF Stage
    <3>5. QED
      BY <1>6, <2>1, <2>2, <2>4, <3>4 DEF Abstract!Next, Abstract!Return
  <2>5. QED
    BY <2>3, <2>4
<1>8. ASSUME buffer # <<>>, delivered' = Append(delivered, Head(buffer)),
             buffer' = Tail(buffer), UNCHANGED outcome
      PROVE  Abstract!Next
  <2>1. /\ buffer \in Seq(Item) /\ delivered \in Seq(Item)
        /\ \A j, k \in DOMAIN buffer : buffer[j] = buffer[k] => j = k
    BY DEF IInv, TypeOK, Once
  <2>2. PICK i \in Item : i = Head(buffer)
    BY <1>8, <2>1, Shrinking
  <2>3. SeqRange(buffer) = SeqRange(buffer') \cup {i} /\ i \notin SeqRange(buffer')
    BY <1>8, <2>1, <2>2, Shrinking
  <2>4. SeqRange(delivered') = SeqRange(delivered) \cup {i}
    BY <1>8, <2>1, <2>2, Growing
  <2>5. /\ i \notin Pushing /\ i \notin running /\ i \notin SeqRange(delivered)
        /\ i # held /\ ~(i > pulled)
    BY <2>3, PushingIs DEF IInv, Apart, TypeOK
  <2>6. Stage(i) = "ready" /\ Stage(i)' = "delivered"
    BY <1>2, <1>5, <2>3, <2>4, <2>5 DEF Stage, poolVars, prodVars
  <2>7. \A j \in Item \ {i} : Stage(j)' = Stage(j)
    BY <1>2, <1>5, <2>3, <2>4, SameStage DEF poolVars, prodVars
  <2>8. QED
    BY <1>6, <1>8, <2>6, <2>7, StageMoves DEF Abstract!Next, Abstract!Deliver
<1>9. ASSUME UNCHANGED <<buffer, delivered, outcome>>
      PROVE  UNCHANGED Abstract!vars
  BY <1>2, <1>5, <1>9, SameStage, StageStays DEF poolVars, prodVars
<1>10. QED
  BY <1>2, <1>7, <1>8, <1>9 DEF Iterate

LEMMA StepRefines == IInv /\ [Next]_vars => [Abstract!Next]_(Abstract!vars)
<1> SUFFICES ASSUME IInv, [Next]_vars PROVE Abstract!Next \/ UNCHANGED Abstract!vars
  OBVIOUS
<1>1. CASE UNCHANGED vars
  <2>1. Pushing' = Pushing
    BY <1>1 DEF Pushing, vars
  <2>2. QED
    BY <1>1, <2>1, SameStage, StageStays DEF vars, poolVars, chanVars, prodVars, consVars
<1>2. CASE PullThrows \/ RunDrained
  <2>1. micro # <<>> /\ 1 \in Waits("producer") \cup Waits("pull")
    BY <1>2, Heads DEF IInv, PullThrows, RunDrained
  <2>2. QED
    BY <1>2, <2>1, EndsStutter DEF PullThrows, RunDrained
<1>3. CASE Microtask
  BY <1>2, <1>3, SettleRefines, PublishStutters, PullItemRefines, PullDoneStutters,
     GatedRefines, ConsumerRefines DEF Microtask
<1>4. ASSUME NEW i \in Item, NEW ok \in BOOLEAN, ThunkSettles(i, ok)
      PROVE  UNCHANGED Abstract!vars
  BY <1>4, OutsideStutters, Continuations DEF ThunkSettles, prodVars, consVars
<1>5. ASSUME NEW answer \in {"item", "done", "throw"}, SourceAnswers(answer)
      PROVE  UNCHANGED Abstract!vars
  BY <1>5, OutsideStutters, Continuations DEF SourceAnswers, consVars
<1>6. ASSUME NEW how \in {"next", "break"}, BodyEnds(how)
      PROVE  UNCHANGED Abstract!vars
  BY <1>6, OutsideStutters, Continuations DEF BodyEnds, prodVars
<1>7. QED
  BY <1>1, <1>3, <1>4, <1>5, <1>6 DEF Next

LEMMA InitRefines == Init => Abstract!Init
<1> SUFFICES ASSUME Init PROVE Abstract!Init
  OBVIOUS
<1>1. ASSUME NEW i \in Item PROVE Stage(i) = "source"
  <2>1. /\ i > pulled /\ i # held /\ running = {}
        /\ SeqRange(buffer) = {} /\ SeqRange(delivered) = {} /\ Pushing = {}
    BY DEF Init, Pool!Init, Item, None, SeqRange, Pushing
  <2>2. QED
    BY <2>1 DEF Stage
<1>2. QED
  BY <1>1 DEF Abstract!Init, Init

\* Every continuation is a step of BoundedStream or invisible to it: items move
\* forward, at most `size` run, none starts or is yielded after the consumer left.
THEOREM StreamImplementsBoundedStream == Spec => ImplementsBoundedStream
<1>1. Init => Abstract!Init
  BY InitRefines
<1>2. IInv /\ [Next]_vars => [Abstract!Next]_(Abstract!vars)
  BY StepRefines
<1>3. QED
  BY <1>1, <1>2, Invariant, PTL DEF Spec, ImplementsBoundedStream, Abstract!Spec
-----------------------------------------------------------------------------
(* The pool, as the stream uses it.                                         *)

\* ConcurrencyPool is proved for every set of thunks and of promises: here for the items,
\* and the one promise that the producer awaits.
Proved == INSTANCE ConcurrencyPoolProofs WITH Task <- Item, Waiter <- {Producer}

LEMMA DrainUsesPool == IInv /\ Drain => [Pool!Next]_(Pool!vars)
  BY DEF Drain, Pool!Next, Pool!vars, poolVars

LEMMA GateUsesPool == IInv /\ Gate => [Pool!Next]_(Pool!vars)
  BY DEF Gate, Pool!Next, Pool!vars, poolVars

LEMMA StepUsesPool == IInv /\ [Next]_vars => [Pool!Next]_(Pool!vars)
<1> SUFFICES ASSUME IInv, [Next]_vars PROVE [Pool!Next]_(Pool!vars)
  OBVIOUS
<1>1. CASE UNCHANGED poolVars
  BY <1>1 DEF Pool!vars, poolVars
<1>2. CASE RunSettle
  <2>1. Head(micro)[2] \in Item
    BY <1>2, Heads, Shapes DEF RunSettle, IsNext, IInv
  <2>2. QED
    BY <1>2, <2>1 DEF RunSettle, Pool!Next
<1>3. CASE PullItem
  BY <1>1, <1>3, DrainUsesPool, GateUsesPool DEF PullItem
<1>4. CASE PullDone
  BY <1>4, DrainUsesPool DEF PullDone
<1>5. CASE RunGated
  <2>1. held \in Item
    BY <1>5 DEF IInv, Turn, TypeOK, RunGated, Item
  <2>2. QED
    BY <1>5, <2>1, DrainUsesPool DEF RunGated, Pool!Next
<1>6. QED
  BY <1>1, <1>2, <1>3, <1>4, <1>5
     DEF Next, vars, Microtask, RunPublish, PullThrows, RunDrained, RunConsumer, ThunkSettles,
         SourceAnswers, BodyEnds

\* stream.ts, pool.ts: the stream keeps to the pool's interface.  It submits an item once,
\* settles only what runs, and waits for one thing at a time.
THEOREM StreamUsesPool == Spec => Pool!Spec
<1>1. Init => Pool!Init
  BY DEF Init
<1>2. QED
  BY <1>1, StepUsesPool, Invariant, PTL DEF Spec, Pool!Spec

LEMMA SamePool ==
    /\ Pool!Init => Proved!Init
    /\ [Pool!Next]_(Pool!vars) => [Proved!Next]_(Proved!vars)
<1>1. Pool!Init => Proved!Init
  BY DEF Pool!Init, Proved!Init
<1>2. \A t \in Item : Pool!Submit(t) => Proved!Submit(t)
  BY DEF Pool!Submit, Proved!Submit, Pool!Start, Proved!Start, Pool!Park, Proved!Park,
         Pool!SlotFree, Proved!SlotFree, Pool!Queued, Proved!Queued
<1>3. \A t \in Item : Pool!Settle(t) => Proved!Settle(t)
  BY DEF Pool!Settle, Proved!Settle, Pool!Refill, Proved!Refill, Pool!Release, Proved!Release,
         Pool!SignalIdle, Proved!SignalIdle, Pool!SignalCapacity, Proved!SignalCapacity,
         Pool!Drained, Proved!Drained, Pool!HasRoom, Proved!HasRoom
<1>4. \A w \in {Producer} : /\ Pool!WhenCapacityAvailable(w) => Proved!WhenCapacityAvailable(w)
                            /\ Pool!OnIdle(w) => Proved!OnIdle(w)
  BY DEF Pool!WhenCapacityAvailable, Proved!WhenCapacityAvailable, Pool!OnIdle, Proved!OnIdle,
         Pool!Drained, Proved!Drained, Pool!HasRoom, Proved!HasRoom
<1>5. QED
  BY <1>1, <1>2, <1>3, <1>4 DEF Pool!Next, Proved!Next, Pool!vars, Proved!vars

\* stream.ts: the producer never waits for what has come to pass: while it is parked on the
\* pool the slots are all taken, or something still runs.
THEOREM StreamNoLostWakeup == Spec => []Pool!NoLostWakeup
<1>1. Proved!Spec => []Proved!NoLostWakeup
  BY SizeAssumption, Proved!PoolNoLostWakeup DEF Proved!SizeAssumption
<1>2. Proved!NoLostWakeup => Pool!NoLostWakeup
  BY DEF Proved!NoLostWakeup, Pool!NoLostWakeup
<1>3. QED
  BY <1>1, <1>2, SamePool, StreamUsesPool, PTL DEF Pool!Spec, Proved!Spec
=============================================================================
