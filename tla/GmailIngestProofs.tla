--------------------------- MODULE GmailIngestProofs ---------------------------
(***************************************************************************)
(* One pull of a mailbox of any size, under any cap, page size and skew.   *)
(* The listing goes down from the newest message, so that what it has      *)
(* yielded, what the page still holds and what the page token goes on      *)
(* below lie in that order; what arrives meanwhile lies above the cursor.  *)
(* That the completed pull has no gap follows from where the listing ends. *)
(***************************************************************************)
EXTENDS GmailIngest, FiniteSetTheorems, WellFoundedInduction, TLAPS

-----------------------------------------------------------------------------
(* Sets of message numbers.                                                 *)

\* A nonempty set of numbers up to a bound has a least and a greatest element: of
\* the intervals 1..y that its elements stand for, one has no other within it, and
\* so has one of the intervals y..b.
LEMMA LeastNumber ==
    ASSUME NEW b \in Nat, NEW S \in SUBSET (1..b), S # {}
    PROVE  \E x \in S : \A y \in S : x <= y
<1> DEFINE T == {1..y : y \in S}
<1>1. T \subseteq FiniteSubsetsOf(1..b) /\ T # {}
  <2>1. ASSUME NEW y \in S PROVE 1..y \in FiniteSubsetsOf(1..b)
    <3>1. IsFiniteSet(1..y)
      BY FS_Interval
    <3>2. QED
      BY <3>1 DEF FiniteSubsetsOf
  <2>2. QED
    BY <2>1
<1>2. IsWellFoundedOn(StrictSubsetOrdering(1..b), FiniteSubsetsOf(1..b))
  BY FS_StrictSubsetOrderingWellFounded
<1>3. PICK I \in T : \A J \in T : <<J, I>> \notin StrictSubsetOrdering(1..b)
  <2> HIDE DEF T
  <2>1. QED
    BY <1>1, <1>2, WFMin
<1>4. PICK x \in S : I = 1..x
  OBVIOUS
<1>5. ASSUME NEW y \in S, y < x PROVE FALSE
  <2>1. 1..y \in T /\ 1..y \subseteq 1..x /\ x \in 1..x /\ x \notin 1..y
    BY <1>5
  <2>2. <<1..y, 1..x>> \in StrictSubsetOrdering(1..b)
    BY <2>1 DEF StrictSubsetOrdering
  <2>3. QED
    BY <1>3, <1>4, <2>1, <2>2
<1>6. QED
  BY <1>5

LEMMA MinOfNumbers ==
    ASSUME NEW b \in Nat, NEW S \in SUBSET (1..b), S # {}
    PROVE  Min(S) \in S /\ \A y \in S : Min(S) <= y
  BY LeastNumber DEF Min

LEMMA MaxOfNumbers ==
    ASSUME NEW b \in Nat, NEW S \in SUBSET (1..b), S # {}
    PROVE  Max(S) \in S /\ \A y \in S : y <= Max(S)
<1> DEFINE T == {b + 1 - y : y \in S}
<1>1. T \in SUBSET (1..b) /\ T # {}
  <2>1. \A y \in S : b + 1 - y \in 1..b
    OBVIOUS
  <2>2. QED
    BY <2>1
<1>2. PICK t \in T : \A u \in T : t <= u
  <2> HIDE DEF T
  <2>1. QED
    BY <1>1, LeastNumber
<1>3. PICK x \in S : t = b + 1 - x
  OBVIOUS
<1>4. \A y \in S : x >= y
  BY <1>2, <1>3
<1>5. QED
  BY <1>4 DEF Max

\* The newest k of what is left are its upper end: they hold nothing else, it leaves
\* nothing out above one of its own, and with room for one it is empty only if
\* nothing is below.
Above(S, m) == {o \in S : o > m}

LEMMA NewestAreNewest ==
    ASSUME NEW k \in Nat, NEW older \in SUBSET Message, NEW page \in SUBSET older,
           \A m \in older : m \in page <=> Cardinality(Above(older, m)) < k
    PROVE  /\ \A p \in page, m \in older : m > p => m \in page
           /\ k > 0 /\ page = {} => older = {}
<1> DEFINE above(m) == Above(older, m)
<1>1. \A m \in older : m \in Nat /\ (m \in page <=> Cardinality(above(m)) < k)
  BY ConfigAssumption DEF Message
<1>2. IsFiniteSet(older) /\ \A m \in Nat : IsFiniteSet(above(m)) /\ Cardinality(above(m)) \in Nat
  <2>1. IsFiniteSet(Message)
    BY ConfigAssumption, FS_Interval DEF Message
  <2>2. IsFiniteSet(older)
    BY <2>1, FS_Subset
  <2>3. QED
    BY <2>2, FS_Subset, FS_CardinalityType DEF Above
<1>3. ASSUME NEW p \in page, NEW m \in older, m > p PROVE m \in page
  <2>1. p \in Nat /\ m \in Nat /\ above(m) \subseteq above(p)
    <3>1. p \in Nat /\ m \in Nat /\ \A o \in older : o > m => o > p
      BY <1>1, <1>3
    <3>2. QED
      BY <3>1 DEF Above
  <2>2. Cardinality(above(m)) <= Cardinality(above(p))
    BY <1>2, <2>1, FS_Subset
  <2>3. Cardinality(above(p)) < k
    BY <1>1
  <2>4. Cardinality(above(m)) \in Nat /\ Cardinality(above(p)) \in Nat
    BY <1>2, <2>1
  <2>5. Cardinality(above(m)) < k
    BY <2>2, <2>3, <2>4
  <2>6. QED
    BY <1>1, <2>5
<1>4. ASSUME k > 0, older # {} PROVE page # {}
  <2>1. Max(older) \in older /\ \A m \in older : m <= Max(older)
    BY <1>1, <1>4, MaxOfNumbers, ConfigAssumption DEF Message
  <2>2. above(Max(older)) = {}
    <3>1. Max(older) \in Nat /\ \A m \in older : ~(m > Max(older))
      BY <1>1, <2>1
    <3>2. QED
      BY <3>1 DEF Above
  <2>3. Cardinality(above(Max(older))) = 0
    BY <2>2, FS_EmptySet
  <2>4. QED
    BY <1>1, <1>4, <2>1, <2>3
<1>5. QED
  BY <1>1, <1>3, <1>4

-----------------------------------------------------------------------------
(* The invariant.                                                           *)

Listed == {m \in Message : stage[m] # "source"}
InHand == IF body THEN 1 ELSE 0

\* Until the loop begins nothing is listed; only the loop hands out events, and a
\* pull that has completed has nothing in flight.
Phases ==
    /\ at \in {"none", "unsupported", "started", "auth"} =>
         listing.at = "next" /\ listing.before = N + 1
    /\ body => at \in {"streaming", "left"}
    /\ at = "completed" => /\ listing.at = "done"
                           /\ \A m \in Message : stage[m] \in {"source", "delivered"}

Counted ==
    /\ Cardinality(Listed) = listing.n
    /\ Cardinality(Emitted) = processed + InHand

Asked == \A m \in Message : stage[m] = "running" => requests[m] > 0

\* What was yielded, then what the page holds, then what the token goes on below.
Downwards ==
    /\ \A m \in Listed \cup listing.page : listing.before <= m /\ m <= arrived
    /\ \A p \in listing.page : stage[p] = "source" /\ \A m \in Listed : p < m

\* A page is never empty, and a listing that goes on has room for an id.
Roomy ==
    /\ listing.at \in {"next", "page"} => listing.n < Cap
    /\ listing.at = "next" => listing.page = {}
    /\ listing.at = "page" => listing.page # {}

\* A listing that goes on has yet to come to every message the cursor covers and it
\* has not yielded; one that is done was stopped above them by the cap.
Covered ==
    /\ listing.at = "page" /\ ~listing.more => \A m \in Mailbox : listing.before <= m
    /\ \A m \in Mailbox : m <= cursor /\ stage[m] = "source" =>
         /\ listing.at = "next" => m < listing.before
         /\ listing.at = "page" => m \in listing.page \/ m < listing.before
         /\ listing.at = "done" => listing.n = Cap /\ \A l \in Listed : m < l

Fresh == at \in {"auth", "streaming"} => life + age > Skew

IInv ==
    /\ TypeOK /\ Phases /\ Counted /\ Asked
    /\ Downwards /\ Roomy /\ Covered /\ Fresh
-----------------------------------------------------------------------------
(* The steps.                                                               *)

LEMMA FiniteMessages ==
    \A S \in SUBSET Message : IsFiniteSet(S) /\ Cardinality(S) \in Nat /\ Cardinality(S) <= N
<1>1. IsFiniteSet(Message) /\ Cardinality(Message) = N
  BY ConfigAssumption, FS_Interval DEF Message
<1>2. QED
  BY <1>1, FS_Subset, FS_CardinalityType

LEMMA IngestInit == Init => IInv
<1> SUFFICES ASSUME Init PROVE IInv
  OBVIOUS
<1> USE ConfigAssumption
<1>1. stage = [m \in Message |-> "source"] /\ outcome = "none"
  BY DEF Init, Stream!Init
<1>2. TypeOK
  <2>1. N + 1 \in 1..N + 1 /\ 0 \in 0..Cap
    OBVIOUS
  <2>2. listing \in Listing
    BY <2>1 DEF Init, Listing
  <2>3. stage \in [Message -> {"source", "held", "running", "ready", "delivered", "gone"}]
    BY <1>1
  <2>4. requests \in [Message -> Nat]
    BY DEF Init
  <2>5. /\ arrived \in 0..N /\ deleted = {} /\ life \in 0..Lifetime /\ age = 0
        /\ refreshToken \in BOOLEAN /\ at \in {"none", "unsupported"} /\ cursor = 0
        /\ body = FALSE /\ processed = 0
    BY DEF Init
  <2>6. /\ deleted \subseteq 1..arrived /\ age \in 0..Skew + 1 /\ cursor \in 0..arrived
        /\ processed \in 0..N
    BY <2>5
  <2>7. QED
    BY <1>1, <2>2, <2>3, <2>4, <2>5, <2>6 DEF TypeOK
<1>3. Phases /\ Asked /\ Roomy /\ Fresh
  BY <1>1 DEF Init, Phases, Asked, Roomy, Fresh
<1>4. Listed = {} /\ Emitted = {}
  BY <1>1 DEF Listed, Emitted, Stream!In
<1>5. Counted
  BY <1>4, FS_EmptySet DEF Init, Counted, InHand
<1>6. Downwards
  BY <1>4 DEF Init, Downwards
<1>7. Covered
  BY <1>1 DEF Init, Covered, Mailbox
<1>8. QED
  BY <1>2, <1>3, <1>5, <1>6, <1>7 DEF IInv

\* What arrives during the pull lies above its cursor.
LEMMA ArriveKeeps == ASSUME IInv, Arrive PROVE IInv'
<1> USE ConfigAssumption
<1> USE DEF IInv, Arrive, tokenVars, streamVars, bodyVars
<1>1. TypeOK'
  BY DEF TypeOK
<1>2. Listed' = Listed /\ Emitted' = Emitted /\ InHand' = InHand
  BY DEF Listed, Emitted, InHand, Stream!In
<1>3. Phases' /\ Counted' /\ Asked' /\ Roomy' /\ Fresh'
  BY <1>2 DEF Phases, Counted, Asked, Roomy, Fresh
<1>4. Listed \subseteq Nat /\ listing.page \subseteq Nat /\ listing.before \in Nat
  BY DEF TypeOK, Listing, Listed, Message
<1>5. Downwards'
  BY <1>2, <1>4 DEF Downwards, TypeOK
<1>6. Mailbox' \subseteq Mailbox \cup {arrived + 1}
  BY DEF Mailbox, TypeOK
<1>7. Covered'
  <2>1. listing.at = "page" => listing.before <= arrived + 1
    BY <1>4 DEF Downwards, Roomy, TypeOK
  <2>2. ~(arrived + 1 <= cursor)
    BY DEF TypeOK
  <2>3. QED
    BY <1>2, <1>6, <2>1, <2>2 DEF Covered
<1>8. QED
  BY <1>1, <1>3, <1>5, <1>7

LEMMA DeleteKeeps == ASSUME IInv, NEW x \in Message, Delete(x) PROVE IInv'
<1> USE ConfigAssumption
<1> USE DEF IInv, Delete, tokenVars, streamVars, bodyVars
<1>1. TypeOK'
  BY DEF TypeOK, Mailbox
<1>2. Listed' = Listed /\ Emitted' = Emitted /\ InHand' = InHand
  BY DEF Listed, Emitted, InHand, Stream!In
<1>3. Phases' /\ Counted' /\ Asked' /\ Downwards' /\ Roomy' /\ Fresh'
  BY <1>2 DEF Phases, Counted, Asked, Downwards, Roomy, Fresh
<1>4. Mailbox' \subseteq Mailbox
  BY DEF Mailbox
<1>5. Covered'
  BY <1>2, <1>4 DEF Covered
<1>6. QED
  BY <1>1, <1>3, <1>5

\* The rest of the invariant does not look at the token, nor the freshness at it.
LEMMA TickKeeps == ASSUME IInv, Tick PROVE IInv'
<1> USE ConfigAssumption
<1> USE DEF IInv, Tick, mailVars, streamVars, bodyVars
<1>1. TypeOK' /\ Fresh'
  BY DEF TypeOK, Fresh
<1>2. Listed' = Listed /\ Emitted' = Emitted /\ InHand' = InHand /\ Mailbox' = Mailbox
  BY DEF Listed, Emitted, InHand, Mailbox, Stream!In
<1>3. Phases' /\ Counted' /\ Asked' /\ Downwards' /\ Roomy' /\ Covered'
  BY <1>2 DEF Phases, Counted, Asked, Downwards, Roomy, Covered
<1>4. QED
  BY <1>1, <1>3

\* The generator comes to its loop: it reads the cursor before it lists anything.
GeneratorStep ==
    \/ Refuses \/ Started \/ UsesStored \/ Refreshes \/ RefreshThrows \/ CursorThrows
    \/ \E some \in BOOLEAN : CursorLoaded(some)

LEMMA GeneratorKeeps == ASSUME IInv, GeneratorStep PROVE IInv'
<1> USE ConfigAssumption
<1> USE DEF IInv, mailVars, tokenVars, streamVars, bodyVars, GoesTo
<1> DEFINE before == {"none", "unsupported", "started", "auth"}
<1>1. /\ at \in before /\ at' \in {"started", "auth", "streaming", "threw"}
      /\ UNCHANGED <<mailVars, refreshToken, listing, streamVars, requests, bodyVars>>
  BY DEF GeneratorStep, Refuses, Started, UsesStored, Refreshes, RefreshThrows, CursorThrows,
         CursorLoaded
<1>2. /\ cursor' \in 0..arrived
      /\ at \notin {"auth"} \/ at' # "streaming" => cursor' = cursor
  BY DEF GeneratorStep, Refuses, Started, UsesStored, Refreshes, RefreshThrows, CursorThrows,
         CursorLoaded, TypeOK
<1>3. TypeOK'
  <2>1. life' \in 0..Lifetime /\ age' \in 0..Skew + 1
    BY DEF TypeOK, GeneratorStep, Refuses, Started, UsesStored, Refreshes, RefreshThrows,
           CursorThrows, CursorLoaded
  <2>2. QED
    BY <1>1, <1>2, <2>1 DEF TypeOK
<1>4. Fresh'
  BY DEF Fresh, TypeOK, StillGood, GeneratorStep, Refuses, Started, UsesStored, Refreshes,
         RefreshThrows, CursorThrows, CursorLoaded
<1>5. Listed' = Listed /\ Emitted' = Emitted /\ InHand' = InHand /\ Mailbox' = Mailbox
  BY <1>1 DEF Listed, Emitted, InHand, Mailbox, Stream!In
<1>6. Phases' /\ Counted' /\ Asked' /\ Downwards' /\ Roomy'
  BY <1>1, <1>5 DEF Phases, Counted, Asked, Downwards, Roomy
<1>7. Covered'
  <2>1. listing.at = "next" /\ \A m \in Mailbox : m < listing.before
    BY <1>1 DEF Phases, Mailbox, TypeOK
  <2>2. QED
    BY <1>1, <1>5, <2>1 DEF Covered
<1>8. QED
  BY <1>3, <1>4, <1>6, <1>7
-----------------------------------------------------------------------------
(* The listing.                                                             *)

\* A page is the newest part of what is left, so that what remains of it lies below
\* the page; without a token nothing remains.
LEMMA PageKeeps ==
    ASSUME IInv, NEW k \in 0..PageSize, NEW token \in BOOLEAN, PageAnswers(k, token)
    PROVE  IInv'
<1> USE ConfigAssumption
<1> USE DEF IInv
<1>1. PICK older : older = {m \in Mailbox : m < listing.before}
  OBVIOUS
<1>2. PICK page : page = NewestBelow(listing.before, k)
  OBVIOUS
<1>3. /\ at = "streaming" /\ listing.at = "next"
      /\ older # page => token
      /\ page = {} /\ token => listing.blank < EmptyPages
      /\ listing' = [listing EXCEPT
           !.at = IF page # {} THEN "page" ELSE IF token THEN "next" ELSE "done",
           !.page = page, !.more = token,
           !.before = IF page = {} THEN @ ELSE Min(page),
           !.blank = IF page = {} /\ token THEN @ + 1 ELSE @]
      /\ UNCHANGED <<mailVars, tokenVars, at, cursor, streamVars, requests, bodyVars>>
  BY <1>1, <1>2 DEF PageAnswers, Pulled, Follows
<1> USE DEF mailVars, tokenVars, streamVars, bodyVars
<1>4. /\ listing \in Listing /\ listing.before \in 1..N + 1 /\ listing.n \in 0..Cap
      /\ listing.blank \in 0..EmptyPages /\ k \in Nat
  BY DEF TypeOK, Listing
<1>5. /\ older \subseteq Message /\ page \subseteq older
      /\ \A p \in page, m \in older : m > p => m \in page
      /\ page = {} => older = {} \/ token
  <2>1. /\ older \subseteq Message /\ page \subseteq older
        /\ \A p \in page, m \in older : m > p => m \in page
    <3> HIDE DEF IInv
    <3>1. older \in SUBSET Message /\ page \in SUBSET older
      BY <1>1, <1>2 DEF IInv, TypeOK, Mailbox, Message, NewestBelow
    <3>2. page = {m \in older : Cardinality(Above(older, m)) < k}
      BY <1>1, <1>2 DEF NewestBelow, Above
    <3>3. \A m \in older : m \in page <=> Cardinality(Above(older, m)) < k
      BY <3>2
    <3>4. QED
      BY <1>4, <3>1, <3>3, NewestAreNewest
  <2>2. QED
    BY <1>3, <2>1
<1>6. /\ listing'.at = IF page # {} THEN "page" ELSE IF token THEN "next" ELSE "done"
      /\ listing'.page = page /\ listing'.more = token /\ listing'.n = listing.n
      /\ listing'.before = IF page = {} THEN listing.before ELSE Min(page)
  BY <1>3, <1>4 DEF Listing
<1>7. page # {} => Min(page) \in page /\ \A p \in page : Min(page) <= p
  BY <1>5, MinOfNumbers DEF Message
<1>8. listing' \in Listing
  <2>1. Min(page) \in 1..N + 1 \/ page = {}
    <3>1. page = {} \/ Min(page) \in 1..N
      BY <1>5, <1>7 DEF Message
    <3>2. QED
      BY <3>1
  <2>2. page \in SUBSET Message
    BY <1>5
  <2>3. (IF page = {} /\ token THEN listing.blank + 1 ELSE listing.blank) \in 0..EmptyPages
    BY <1>3, <1>4
  <2>4. QED
    BY <1>3, <1>4, <2>1, <2>2, <2>3 DEF Listing
<1>9. TypeOK'
  BY <1>3, <1>8 DEF TypeOK
<1>10. Listed' = Listed /\ Emitted' = Emitted /\ InHand' = InHand /\ Mailbox' = Mailbox
  BY <1>3 DEF Listed, Emitted, InHand, Mailbox, Stream!In
<1>11. Phases' /\ Counted' /\ Asked' /\ Roomy' /\ Fresh'
  BY <1>3, <1>6, <1>10 DEF Phases, Counted, Asked, Roomy, Fresh
<1>12. listing'.before <= listing.before
  <2>1. page = {} \/ Min(page) \in 1..N
    BY <1>5, <1>7 DEF Message
  <2>2. page = {} \/ Min(page) < listing.before
    BY <1>1, <1>5, <1>7
  <2>3. QED
    BY <1>4, <1>6, <2>1, <2>2
<1>13. /\ Listed \subseteq Message /\ arrived \in Nat /\ listing'.before \in Nat
       /\ \A m \in Mailbox : m \in Nat /\ m <= arrived
  BY <1>8 DEF Listed, TypeOK, Listing, Mailbox
<1>14. Downwards'
  <2>1. \A m \in Listed : listing'.before <= m /\ m <= arrived
    BY <1>4, <1>12, <1>13 DEF Downwards, Message
  <2>2. \A p \in page : listing'.before <= p /\ p <= arrived
    BY <1>1, <1>5, <1>6, <1>7, <1>13
  <2>3. ASSUME NEW p \in page PROVE stage[p] = "source" /\ \A m \in Listed : p < m
    <3>1. p \in Message /\ p < listing.before /\ \A m \in Listed : listing.before <= m
      BY <1>1, <1>5 DEF Downwards
    <3>2. \A m \in Listed : p < m
      BY <1>4, <1>13, <3>1 DEF Message
    <3>3. p \notin Listed
      BY <3>1, <3>2 DEF Message
    <3>4. QED
      BY <3>1, <3>2, <3>3 DEF Listed
  <2>4. QED
    BY <1>3, <1>6, <1>10, <2>1, <2>2, <2>3 DEF Downwards
<1>15. Covered'
  <2>1. ASSUME page # {}, NEW m \in Mailbox, m < listing.before, m \notin page
        PROVE  m < Min(page) /\ token
    <3>1. m \in older /\ m \in Nat
      BY <1>1, <1>13, <2>1
    <3>2. token
      BY <1>3, <2>1, <3>1
    <3>3. Min(page) \in page /\ Min(page) \in Nat /\ ~(m > Min(page)) /\ m # Min(page)
      <4> HIDE DEF IInv
      <4>1. Min(page) \in page /\ page \subseteq older /\ older \subseteq Message
        BY <1>5, <1>7, <2>1
      <4>2. Min(page) \in Nat
        <5>1. PICK e \in Message : e = Min(page)
          BY <4>1
        <5>2. e \in Nat
          BY DEF Message
        <5>3. QED
          BY <5>1, <5>2
      <4>3. ~(m > Min(page))
        BY <1>5, <2>1, <3>1, <4>1
      <4>4. QED
        BY <2>1, <4>1, <4>2, <4>3
    <3>4. QED
      BY <3>1, <3>2, <3>3
  <2>2. \A m \in Mailbox : m <= cursor /\ stage[m] = "source" => m < listing.before
    BY <1>3 DEF Covered
  <2>3. page = {} /\ ~token => \A m \in Mailbox : ~(m < listing.before)
    BY <1>1, <1>5
  <2>4. page # {} /\ ~token => \A m \in Mailbox : Min(page) <= m
    <3>1. ASSUME page # {}, ~token, NEW m \in Mailbox PROVE Min(page) <= m
      <4>1. CASE m \in page
        BY <1>7, <3>1, <4>1
      <4>2. CASE m \notin page
        BY <1>4, <1>12, <1>13, <1>6, <2>1, <3>1, <4>2
      <4>3. QED
        BY <4>1, <4>2
    <3>2. QED
      BY <3>1
  <2>5. QED
    BY <1>3, <1>6, <1>10, <2>1, <2>2, <2>3, <2>4 DEF Covered
<1>16. QED
  BY <1>9, <1>11, <1>14, <1>15

LEMMA PageThrowsKeeps == ASSUME IInv, PageThrows PROVE IInv'
<1> USE ConfigAssumption
<1> USE DEF IInv, PageThrows, mailVars, tokenVars, streamVars, bodyVars
<1>1. /\ listing'.at = "threw" /\ listing' \in Listing
      /\ listing'.page = listing.page /\ listing'.n = listing.n
      /\ listing'.before = listing.before
  BY DEF TypeOK, Listing
<1>2. TypeOK'
  BY <1>1 DEF TypeOK
<1>3. Listed' = Listed /\ Emitted' = Emitted /\ InHand' = InHand /\ Mailbox' = Mailbox
  BY DEF Listed, Emitted, InHand, Mailbox, Stream!In
<1>4. Phases' /\ Counted' /\ Asked' /\ Downwards' /\ Roomy' /\ Covered' /\ Fresh'
  BY <1>1, <1>3 DEF Phases, Counted, Asked, Downwards, Roomy, Covered, Fresh, Pulled
<1>5. QED
  BY <1>2, <1>4

\* The id handed out is the greatest of the page: below all that was listed before,
\* above what the page keeps.
LEMMA YieldsKeeps == ASSUME IInv, YieldsId PROVE IInv'
<1> USE ConfigAssumption
<1> USE DEF IInv
<1>1. PICK x : x = Max(listing.page)
  OBVIOUS
<1>2. PICK rest : rest = listing.page \ {x}
  OBVIOUS
<1>3. /\ at = "streaming" /\ listing.at = "page"
      /\ stage[x] = "source" /\ stage' = [stage EXCEPT ![x] = "held"] /\ UNCHANGED outcome
      /\ listing' = [listing EXCEPT
           !.page = rest, !.n = @ + 1,
           !.at = IF Cap - listing.n = 1 THEN "done" ELSE IF rest # {} THEN "page"
                  ELSE IF listing.more THEN "next" ELSE "done"]
      /\ UNCHANGED <<mailVars, tokenVars, at, cursor, requests, bodyVars>>
  BY <1>1, <1>2 DEF YieldsId, Pulled, Room, Stream!Take, Stream!Move
<1> USE DEF mailVars, tokenVars, bodyVars
<1>4. /\ listing \in Listing /\ listing.before \in 1..N + 1 /\ listing.n \in 0..Cap
      /\ listing.page \subseteq Message /\ listing.page # {} /\ listing.n < Cap
  BY <1>3 DEF TypeOK, Listing, Roomy
<1>5. x \in listing.page /\ \A p \in listing.page : p <= x
  BY <1>1, <1>4, MaxOfNumbers DEF Message
<1>6. /\ listing'.page = rest /\ listing'.n = listing.n + 1
      /\ listing'.more = listing.more /\ listing'.before = listing.before
      /\ listing'.at = IF Cap - listing.n = 1 THEN "done" ELSE IF rest # {} THEN "page"
                       ELSE IF listing.more THEN "next" ELSE "done"
  BY <1>3, <1>4 DEF Listing
<1>7. listing.n + 1 \in 0..Cap /\ rest \in SUBSET Message
  BY <1>2, <1>4
<1>8. listing' \in Listing
  BY <1>3, <1>4, <1>7 DEF Listing
<1>9. TypeOK'
  BY <1>3, <1>8 DEF TypeOK
<1>10. /\ Listed' = Listed \cup {x} /\ x \notin Listed
       /\ Emitted' = Emitted /\ InHand' = InHand /\ Mailbox' = Mailbox
  BY <1>3, <1>4, <1>5 DEF Listed, Emitted, InHand, Mailbox, Stream!In, TypeOK
<1>11. Counted'
  <2>1. Listed \in SUBSET Message
    BY DEF Listed
  <2>2. Cardinality(Listed \cup {x}) = Cardinality(Listed) + 1
    BY <1>10, <2>1, FiniteMessages, FS_AddElement
  <2>3. QED
    BY <1>3, <1>6, <1>10, <2>2 DEF Counted
<1>12. Phases' /\ Asked' /\ Roomy' /\ Fresh'
  <2>1. Phases' /\ Fresh'
    BY <1>3 DEF Phases, Fresh
  <2>2. Asked'
    BY <1>3, <1>4, <1>5 DEF Asked, TypeOK
  <2>3. Roomy'
    BY <1>3, <1>4, <1>6 DEF Roomy
  <2>4. QED
    BY <2>1, <2>2, <2>3
<1>13. /\ \A p \in rest : p \in Message /\ p \in listing.page /\ p < x
       /\ \A m \in Listed : m \in Message /\ x < m
  BY <1>2, <1>4, <1>5 DEF Message, Downwards, Listed
<1>14. Downwards'
  <2>1. \A m \in Listed \cup {x} \cup rest : listing.before <= m /\ m <= arrived
    BY <1>2, <1>5 DEF Downwards
  <2>2. \A p \in rest : stage'[p] = "source" /\ \A m \in Listed \cup {x} : p < m
    BY <1>2, <1>3, <1>4, <1>5, <1>13 DEF Downwards, TypeOK
  <2>3. QED
    BY <1>3, <1>6, <1>10, <2>1, <2>2 DEF Downwards
<1>15. Covered'
  <2>1. \A m \in Mailbox : m \in Message
    BY DEF Mailbox, TypeOK, Message
  <2>2. ASSUME NEW m \in Mailbox, m <= cursor, stage'[m] = "source"
        PROVE  m \in rest \/ m < listing.before
    <3>1. m # x /\ stage[m] = "source"
      BY <1>3, <1>4, <1>5, <2>1, <2>2 DEF TypeOK
    <3>2. QED
      BY <1>2, <1>3, <2>2, <3>1 DEF Covered
  <2>3. \A m \in rest : \A l \in Listed \cup {x} : m < l
    BY <1>13, <1>4, <1>5 DEF Message
  <2>4. \A m \in Mailbox : m < listing.before => \A l \in Listed \cup {x} : m < l
    <3>1. \A l \in Listed \cup {x} : l \in Message /\ listing.before <= l
      BY <1>4, <1>5, <1>13 DEF Downwards
    <3>2. QED
      BY <1>4, <2>1, <3>1 DEF Message
  <2>5. ~listing.more => \A m \in Mailbox : ~(m < listing.before)
    BY <1>3, <1>4, <2>1 DEF Covered, Message
  <2>6. listing.n + 1 = Cap \/ Cap - listing.n # 1
    BY <1>4
  <2>7. QED
    BY <1>3, <1>6, <1>10, <2>2, <2>3, <2>4, <2>5, <2>6, <1>3 DEF Covered
<1>16. QED
  BY <1>9, <1>11, <1>12, <1>14, <1>15
-----------------------------------------------------------------------------
(* The fetches, the loop and the runner.                                    *)

\* A step of a fetch, or a result handed out: what was listed stays so.
LEMMA StageStep ==
    ASSUME IInv, NEW x \in Message, NEW to \in {"running", "ready", "delivered", "gone"},
           stage[x] # "source", at # "completed", stage' = [stage EXCEPT ![x] = to],
           TypeOK', Counted', Asked',
           UNCHANGED <<mailVars, tokenVars, at, cursor, listing>>,
           body' => at \in {"streaming", "left"}
    PROVE  IInv'
<1> USE DEF mailVars, tokenVars
<1>1. Listed' = Listed /\ Mailbox' = Mailbox
  BY DEF IInv, TypeOK, Listed, Mailbox
<1>2. \A m \in Message : stage'[m] = "source" <=> stage[m] = "source"
  BY DEF IInv, TypeOK
<1>3. Phases' /\ Roomy' /\ Fresh'
  BY DEF IInv, Phases, Roomy, Fresh
<1>4. listing.page \subseteq Message /\ Mailbox \subseteq Message
  BY ConfigAssumption DEF IInv, TypeOK, Listing, Mailbox, Message
<1>5. Downwards' /\ Covered'
  BY <1>1, <1>2, <1>4 DEF IInv, Downwards, Covered
<1>6. QED
  BY <1>3, <1>5 DEF IInv

LEMMA FetchKeeps ==
    ASSUME IInv, NEW x \in Message, FetchStarts(x) \/ FetchAnswers(x) \/ FetchThrows(x)
    PROVE  IInv'
<1> USE ConfigAssumption
<1> USE DEF mailVars, tokenVars, bodyVars
<1>1. /\ TypeOK /\ Asked /\ Counted
      /\ stage \in [Message -> {"source", "held", "running", "ready", "delivered", "gone"}]
      /\ requests \in [Message -> Nat]
  BY DEF IInv, TypeOK
<1>2. /\ stage[x] \in {"held", "running"} /\ UNCHANGED outcome
      /\ UNCHANGED <<mailVars, tokenVars, at, cursor, listing, bodyVars>>
  BY DEF FetchStarts, FetchAnswers, FetchThrows, Fetching, Stream!Admit, Stream!Move
<1>3. \/ UNCHANGED stage
      \/ \E to \in {"running", "ready", "gone"} : stage' = [stage EXCEPT ![x] = to]
  BY DEF FetchStarts, FetchAnswers, FetchThrows, Fetching, Stream!Admit, Stream!Move
<1>4. PICK n \in Nat : requests' = [requests EXCEPT ![x] = n]
  <2>1. CASE FetchStarts(x)
    <3>1. 1 + AttachmentsOf[x] \in Nat
      BY DEF Message
    <3>2. QED
      BY <2>1, <3>1 DEF FetchStarts
  <2>2. CASE FetchAnswers(x)
    <3>1. requests[x] - 1 \in Nat
      BY <1>1, <2>2 DEF FetchAnswers, Fetching, Asked
    <3>2. QED
      BY <2>2, <3>1 DEF FetchAnswers
  <2>3. CASE FetchThrows(x)
    BY <2>3 DEF FetchThrows
  <2>4. QED
    BY <2>1, <2>2, <2>3
<1>5. stage'[x] = "running" => n > 0
  <2>1. requests'[x] = n
    BY <1>1, <1>4
  <2>2. CASE FetchStarts(x)
    <3>1. 1 + AttachmentsOf[x] > 0 /\ requests'[x] = 1 + AttachmentsOf[x]
      BY <1>1, <2>2 DEF FetchStarts, Message
    <3>2. QED
      BY <2>1, <3>1
  <2>3. CASE FetchAnswers(x)
    <3>1. requests[x] \in Nat \ {0} /\ requests'[x] = requests[x] - 1
      BY <1>1, <2>3 DEF FetchAnswers, Fetching, Asked
    <3>2. requests[x] # 1 \/ stage'[x] = "ready"
      BY <1>1, <2>3 DEF FetchAnswers
    <3>3. QED
      BY <2>1, <3>1, <3>2
  <2>4. CASE FetchThrows(x)
    BY <1>1, <2>4 DEF FetchThrows
  <2>5. QED
    BY <2>2, <2>3, <2>4
<1>6. Asked'
  BY <1>1, <1>3, <1>4, <1>5 DEF Asked
<1>7. TypeOK'
  <2>1. requests' \in [Message -> Nat]
    BY <1>1, <1>4
  <2>2. stage' \in [Message -> {"source", "held", "running", "ready", "delivered", "gone"}]
    BY <1>1, <1>3
  <2>3. QED
    BY <1>1, <1>2, <2>1, <2>2 DEF TypeOK
<1>8. Counted'
  <2>1. Listed' = Listed /\ Emitted' = Emitted
    BY <1>1, <1>2, <1>3 DEF Listed, Emitted, Stream!In
  <2>2. QED
    BY <1>1, <1>2, <2>1 DEF Counted, InHand
<1>9. at # "completed" /\ (body => at \in {"streaming", "left"})
  BY <1>2 DEF IInv, Phases
<1>10. CASE UNCHANGED stage
  <2>1. Listed' = Listed /\ Mailbox' = Mailbox
    BY <1>2, <1>10 DEF Listed, Mailbox
  <2>2. Phases' /\ Downwards' /\ Roomy' /\ Covered' /\ Fresh'
    BY <1>2, <1>10, <2>1 DEF IInv, Phases, Downwards, Roomy, Covered, Fresh
  <2>3. QED
    BY <1>6, <1>7, <1>8, <2>2 DEF IInv
<1>11. CASE \E to \in {"running", "ready", "gone"} : stage' = [stage EXCEPT ![x] = to]
  <2>1. PICK to \in {"running", "ready", "gone"} : stage' = [stage EXCEPT ![x] = to]
    BY <1>11
  <2>2. QED
    BY <1>1, <1>2, <1>6, <1>7, <1>8, <1>9, <2>1, StageStep
<1>12. QED
  BY <1>3, <1>10, <1>11
LEMMA EmitsKeeps == ASSUME IInv, NEW x \in Message, Emits(x) PROVE IInv'
<1> USE ConfigAssumption
<1> USE DEF mailVars, tokenVars, bodyVars
<1>1. /\ TypeOK /\ Asked /\ Counted
      /\ stage \in [Message -> {"source", "held", "running", "ready", "delivered", "gone"}]
  BY DEF IInv, TypeOK
<1>2. /\ at = "streaming" /\ ~body /\ body' = TRUE
      /\ stage[x] = "ready" /\ stage' = [stage EXCEPT ![x] = "delivered"] /\ UNCHANGED outcome
      /\ UNCHANGED <<mailVars, tokenVars, at, cursor, listing, requests, processed>>
  BY DEF Emits, Stream!Deliver, Stream!Move
<1>3. TypeOK' /\ Asked'
  <2>1. stage' \in [Message -> {"source", "held", "running", "ready", "delivered", "gone"}]
    BY <1>1, <1>2
  <2>2. TypeOK'
    BY <1>1, <1>2, <2>1 DEF TypeOK
  <2>3. Asked'
    BY <1>1, <1>2 DEF Asked
  <2>4. QED
    BY <2>2, <2>3
<1>4. Counted'
  <2>1. Listed' = Listed /\ Emitted' = Emitted \cup {x} /\ x \notin Emitted
    BY <1>1, <1>2 DEF Listed, Emitted, Stream!In
  <2>2. Emitted \in SUBSET Message
    BY DEF Emitted, Stream!In
  <2>3. Cardinality(Emitted \cup {x}) = Cardinality(Emitted) + 1
    BY <2>1, <2>2, FiniteMessages, FS_AddElement
  <2>4. QED
    BY <1>1, <1>2, <2>1, <2>3 DEF Counted, InHand, TypeOK
<1>5. QED
  BY <1>2, <1>3, <1>4, StageStep

\* The runner has handled no more messages than were emitted.
LEMMA HandledKeeps == ASSUME IInv, Handled PROVE IInv'
<1> USE ConfigAssumption
<1> USE DEF IInv, Handled, mailVars, tokenVars, streamVars, bodyVars
<1>1. Listed' = Listed /\ Emitted' = Emitted /\ Mailbox' = Mailbox
  BY DEF Listed, Emitted, Mailbox, Stream!In
<1>2. Counted'
  BY <1>1 DEF Counted, InHand, TypeOK
<1>3. processed + 1 \in 0..N
  <2>1. Emitted \in SUBSET Message /\ Cardinality(Emitted) = processed + 1
    BY DEF Emitted, Stream!In, Counted, InHand
  <2>2. QED
    BY <2>1, FiniteMessages DEF TypeOK
<1>4. TypeOK'
  BY <1>3 DEF TypeOK
<1>5. Phases' /\ Asked' /\ Downwards' /\ Roomy' /\ Covered' /\ Fresh'
  BY <1>1 DEF Phases, Asked, Downwards, Roomy, Covered, Fresh
<1>6. QED
  BY <1>2, <1>4, <1>5

\* The loop ends, however: what was listed, handed out and counted stays.
LEMMA EndKeeps == ASSUME IInv, Completes \/ Throws \/ Leaves PROVE IInv'
<1> USE ConfigAssumption
<1> USE DEF IInv, mailVars, tokenVars, bodyVars, Ends
<1>1. /\ UNCHANGED <<mailVars, tokenVars, cursor, listing, requests, bodyVars, stage>>
      /\ at' \in {"completed", "threw", "left"} /\ outcome' \in {"returned", "threw", "broke"}
      /\ at' # "left" => ~body
  BY DEF Completes, Throws, Leaves, Stream!Return
<1>2. at' = "completed" => /\ listing.at = "done"
                           /\ \A m \in Message : stage[m] \in {"source", "delivered"}
  BY DEF Completes, Throws, Leaves, Stream!Return
<1>3. TypeOK'
  BY <1>1 DEF TypeOK
<1>4. Listed' = Listed /\ Emitted' = Emitted /\ InHand' = InHand /\ Mailbox' = Mailbox
  BY <1>1 DEF Listed, Emitted, InHand, Mailbox, Stream!In
<1>5. Phases' /\ Counted' /\ Asked' /\ Downwards' /\ Roomy' /\ Covered' /\ Fresh'
  BY <1>1, <1>2, <1>4 DEF Phases, Counted, Asked, Downwards, Roomy, Covered, Fresh
<1>6. QED
  BY <1>3, <1>5

LEMMA IngestKeeps == ASSUME IInv, [Next]_vars PROVE IInv'
<1>1. CASE Step
  <2>1. CASE GeneratorStep
    BY <2>1, GeneratorKeeps
  <2>2. CASE \E k \in 0..PageSize, token \in BOOLEAN : PageAnswers(k, token)
    BY <2>2, PageKeeps
  <2>3. CASE PageThrows \/ YieldsId
    BY <2>3, PageThrowsKeeps, YieldsKeeps
  <2>4. CASE \E m \in Message : FetchStarts(m) \/ FetchAnswers(m) \/ FetchThrows(m) \/ Emits(m)
    BY <2>4, FetchKeeps, EmitsKeeps
  <2>5. CASE Handled \/ Completes \/ Throws
    BY <2>5, HandledKeeps, EndKeeps
  <2>6. QED
    BY <1>1, <2>1, <2>2, <2>3, <2>4, <2>5 DEF Step, GeneratorStep
<1>2. CASE Outside
  BY <1>2, ArriveKeeps, TickKeeps, EndKeeps, DeleteKeeps DEF Outside
<1>3. CASE UNCHANGED vars
  <2> USE <1>3 DEF vars, mailVars, tokenVars, streamVars, bodyVars
  <2>1. Listed' = Listed /\ Emitted' = Emitted /\ InHand' = InHand /\ Mailbox' = Mailbox
    BY DEF Listed, Emitted, InHand, Mailbox, Stream!In
  <2>2. TypeOK'
    BY DEF IInv, TypeOK
  <2>3. QED
    BY <2>1, <2>2
       DEF IInv, Phases, Counted, Asked, Downwards, Roomy, Covered, Fresh
<1>4. QED
  BY <1>1, <1>2, <1>3 DEF Next

LEMMA IngestInvariant == Spec => []IInv
  BY IngestInit, IngestKeeps, PTL DEF Spec

-----------------------------------------------------------------------------
(* The theorems.                                                            *)

\* The variables of a pull have their types.
THEOREM IngestTypes == Spec => []TypeOK
<1>1. IInv => TypeOK
  BY DEF IInv
<1>2. QED
  BY <1>1, IngestInvariant, PTL

\* A pull that completes leaves no gap, whatever the mailbox, the cap and the sizes of
\* the pages: what it did not emit lies above the cursor it stores (ingest.ts:97), or
\* below everything it emitted up to the cap.
THEOREM IngestLeavesNoGap == Spec => []NoGap
<1>1. ASSUME IInv PROVE NoGap
  <2>1. TypeOK /\ Cardinality(Listed) \in Nat /\ Cardinality(Listed) <= Cap
    BY <1>1 DEF IInv, Counted, TypeOK, Listing
  <2>2. ASSUME at = "completed" PROVE processed = Cardinality(Emitted)
    BY <1>1, <2>2, <2>1 DEF IInv, Phases, Counted, InHand, TypeOK
  <2>3. ASSUME at = "completed", NEW m \in Mailbox \ Emitted, ~(m > cursor)
        PROVE  Cardinality(Emitted) = Cap /\ \A e \in Emitted : e > m
    <3>1. Emitted = Listed
      BY <1>1, <2>3 DEF IInv, Phases, Emitted, Listed, Stream!In
    <3>2. m \in Message /\ m <= cursor
      BY <2>1, <2>3, ConfigAssumption DEF Mailbox, TypeOK, Message
    <3>3. stage[m] = "source"
      BY <2>3, <3>1, <3>2 DEF Listed
    <3>4. listing.n = Cap /\ \A l \in Listed : m < l
      BY <1>1, <2>3, <3>2, <3>3 DEF IInv, Phases, Covered
    <3>5. Listed \subseteq Nat /\ m \in Nat
      BY <3>2, ConfigAssumption DEF Listed, Message
    <3>6. QED
      BY <1>1, <3>1, <3>4, <3>5 DEF IInv, Counted
  <2>4. QED
    BY <2>1, <2>2, <2>3 DEF NoGap, Listed
<1>2. QED
  BY <1>1, IngestInvariant, PTL

\* A token is checked once and used in every request of the pull, which it outlives
\* unless the pull takes longer than the skew (flow.ts:46): what is left of it and
\* the time since the check are together more than the skew.
THEOREM IngestNoEarlyExpiry == Spec => []NoEarlyExpiry
<1>1. IInv => NoEarlyExpiry
  BY DEF IInv, TypeOK, Fresh, NoEarlyExpiry
<1>2. QED
  BY <1>1, IngestInvariant, PTL
-----------------------------------------------------------------------------
(* The promise of an adapter, and where it is broken.                       *)

Last == IF at = "streaming" THEN "auth" ELSE IF at = "unsupported" THEN "none" ELSE at
Due == {m \in Message : stage[m] \notin {"source", "delivered"}}

\* A step of a stream, of what it may do and where it may throw, on the mapped state.
StreamStep == Contract!Next \/ (Contract!Throws /\ BreaksOff)

LEMMA ContractStep ==
    ASSUME \/ Last = "none" /\ Last' = "started" /\ Due' = Due /\ Emitted' = Emitted
           \/ Last = "started" /\ Last' = "auth" /\ Due' = Due /\ Emitted' = Emitted
           \/ /\ Last = "auth" /\ Due = {} /\ Last' = "completed"
              /\ Due' = Due /\ Emitted' = Emitted
           \/ Last = "started" /\ Last' = "threw" /\ Due' = Due /\ Emitted' = Emitted
           \/ Last \in {"started", "auth"} /\ Last' = "left" /\ Due' = Due /\ Emitted' = Emitted
           \/ /\ Last \in {"none", "auth"} /\ Last' = "threw" /\ BreaksOff
              /\ Due' = Due /\ Emitted' = Emitted
           \/ Last' = Last /\ Due' = Due /\ Emitted' = Emitted
           \/ \E m \in Message :
                /\ Last = "auth" /\ Last' = Last
                /\ \/ m \notin Due \cup Emitted /\ Due' = Due \cup {m} /\ Emitted' = Emitted
                   \/ m \in Due /\ Due' = Due \ {m} /\ Emitted' = Emitted \cup {m}
    PROVE  [StreamStep]_(Contract!vars)
  BY DEF StreamStep, Last, Due, Contract!Next, Contract!vars, Contract!Starts,
         Contract!Authorized, Contract!Lists, Contract!Yields, Contract!Completes,
         Contract!RefreshFails, Contract!Leaves, Contract!Throws, Contract!Open

LEMMA ContractInit == Init => Contract!Init
  BY DEF Init, Stream!Init, Contract!Init, Emitted, Stream!In

\* A generator that moves on says started, then auth; a refused refresh throws, and what
\* throws else breaks off; reading the cursor says nothing.
LEMMA GeneratorContract ==
    ASSUME IInv, GeneratorStep \/ Throws \/ Leaves
    PROVE  [StreamStep]_(Contract!vars)
<1> USE DEF mailVars, tokenVars, streamVars, bodyVars, GoesTo, Ends
<1>1. UNCHANGED stage
  BY DEF GeneratorStep, Refuses, Started, UsesStored, Refreshes, RefreshThrows, CursorThrows,
         CursorLoaded, Throws, Leaves
<1>2. Due' = Due /\ Emitted' = Emitted
  BY <1>1 DEF Due, Emitted, Stream!In
<1>3. CASE GeneratorStep
  <2>1. \/ at = "none" /\ at' = "started"
        \/ at = "started" /\ at' \in {"auth", "threw"}
        \/ at = "auth" /\ at' = "streaming"
        \/ at \in {"unsupported", "auth"} /\ at' = "threw"
    BY <1>3 DEF GeneratorStep, Refuses, Started, UsesStored, Refreshes, RefreshThrows,
                CursorThrows, CursorLoaded
  <2>2. \/ Last = "none" /\ Last' = "started"
        \/ Last = "started" /\ Last' \in {"auth", "threw"}
        \/ Last \in {"none", "auth"} /\ Last' = "threw" /\ BreaksOff
        \/ Last' = Last
    BY <2>1 DEF Last, BreaksOff
  <2>3. QED
    BY <1>2, <2>2, ContractStep
<1>4. CASE Throws
  <2>1. at = "streaming" /\ at' = "threw" /\ BreaksOff
    BY <1>4 DEF Throws, BreaksOff
  <2>2. Last = "auth" /\ Last' = "threw"
    BY <2>1 DEF Last
  <2>3. QED
    BY <1>2, <2>1, <2>2, ContractStep
<1>5. CASE Leaves
  <2>1. at \in {"started", "auth", "streaming", "left"} /\ at' = "left"
    BY <1>5 DEF Leaves, IInv, Phases
  <2>2. \/ Last \in {"started", "auth"} /\ Last' = "left"
        \/ Last' = Last
    BY <2>1 DEF Last
  <2>3. QED
    BY <1>2, <2>2, ContractStep
<1>6. QED
  BY <1>3, <1>4, <1>5

\* An id taken from the listing becomes due, a result handed out is yielded, and between
\* the two an item only moves on.
LEMMA LoopContract ==
    ASSUME IInv,
           YieldsId \/ Completes
           \/ \E m \in Message : FetchStarts(m) \/ FetchAnswers(m) \/ FetchThrows(m) \/ Emits(m)
    PROVE  [StreamStep]_(Contract!vars)
<1> USE DEF mailVars, tokenVars, streamVars, bodyVars, Ends
<1>1. stage \in [Message -> {"source", "held", "running", "ready", "delivered", "gone"}]
  BY DEF IInv, TypeOK
<1>2. CASE YieldsId
  <2>1. PICK x \in Message : x = Max(listing.page)
    <3>1. listing.page \subseteq Message /\ listing.page # {}
      BY <1>2 DEF IInv, TypeOK, Listing, YieldsId, Roomy
    <3>2. QED
      BY <3>1, MaxOfNumbers, ConfigAssumption DEF Message
  <2>2. /\ at = "streaming" /\ UNCHANGED at
        /\ stage[x] = "source" /\ stage' = [stage EXCEPT ![x] = "held"]
    BY <1>2, <2>1 DEF YieldsId, Pulled, Stream!Take, Stream!Move
  <2>3. x \notin Due \cup Emitted /\ Due' = Due \cup {x} /\ Emitted' = Emitted
    BY <1>1, <2>2 DEF Due, Emitted, Stream!In
  <2>4. Last = "auth" /\ Last' = Last
    BY <2>2 DEF Last
  <2>5. QED
    BY <2>3, <2>4, ContractStep
<1>3. CASE Completes
  <2>1. /\ at = "streaming" /\ at' = "completed" /\ UNCHANGED stage
        /\ \A m \in Message : stage[m] \in {"source", "delivered"}
    BY <1>3 DEF Completes, Stream!Return
  <2>2. Due = {} /\ Due' = Due /\ Emitted' = Emitted
    BY <2>1 DEF Due, Emitted, Stream!In
  <2>3. Last = "auth" /\ Last' = "completed"
    BY <2>1 DEF Last
  <2>4. QED
    BY <2>2, <2>3, ContractStep
<1>4. CASE \E m \in Message : FetchStarts(m) \/ FetchAnswers(m) \/ FetchThrows(m)
  <2>1. PICK x \in Message : FetchStarts(x) \/ FetchAnswers(x) \/ FetchThrows(x)
    BY <1>4
  <2>2. /\ stage[x] \in {"held", "running"} /\ UNCHANGED at
        /\ \/ UNCHANGED stage
           \/ \E to \in {"running", "ready", "gone"} : stage' = [stage EXCEPT ![x] = to]
    BY <2>1 DEF FetchStarts, FetchAnswers, FetchThrows, Fetching, Stream!Admit, Stream!Move
  <2>3. Due' = Due /\ Emitted' = Emitted
    BY <1>1, <2>2 DEF Due, Emitted, Stream!In
  <2>4. Last' = Last
    BY <2>2 DEF Last
  <2>5. QED
    BY <2>3, <2>4, ContractStep
<1>5. CASE \E m \in Message : Emits(m)
  <2>1. PICK x \in Message : Emits(x)
    BY <1>5
  <2>2. /\ at = "streaming" /\ UNCHANGED at
        /\ stage[x] = "ready" /\ stage' = [stage EXCEPT ![x] = "delivered"]
    BY <2>1 DEF Emits, Stream!Deliver, Stream!Move
  <2>3. x \in Due /\ Due' = Due \ {x} /\ Emitted' = Emitted \cup {x}
    BY <1>1, <2>2 DEF Due, Emitted, Stream!In
  <2>4. Last = "auth" /\ Last' = Last
    BY <2>2 DEF Last
  <2>5. QED
    BY <2>3, <2>4, ContractStep
<1>6. QED
  BY <1>2, <1>3, <1>4, <1>5

LEMMA NextContract == ASSUME IInv, [Next]_vars PROVE [StreamStep]_(Contract!vars)
<1>1. CASE GeneratorStep \/ Throws \/ Leaves
  BY <1>1, GeneratorContract
<1>2. CASE YieldsId \/ Completes
           \/ \E m \in Message : FetchStarts(m) \/ FetchAnswers(m) \/ FetchThrows(m) \/ Emits(m)
  BY <1>2, LoopContract
<1>3. ASSUME UNCHANGED <<at, stage>> PROVE [StreamStep]_(Contract!vars)
  BY <1>3 DEF Contract!vars, Emitted, Stream!In
<1>4. CASE \/ \E k \in 0..PageSize, token \in BOOLEAN : PageAnswers(k, token)
           \/ PageThrows \/ Handled \/ Arrive \/ Tick \/ \E m \in Message : Delete(m)
           \/ UNCHANGED vars
  <2>1. UNCHANGED <<at, stage>>
    BY <1>4 DEF PageAnswers, PageThrows, Handled, Arrive, Tick, Delete, vars, mailVars,
                tokenVars, streamVars, bodyVars
  <2>2. QED
    BY <1>3, <2>1
<1>5. QED
  BY <1>1, <1>2, <1>4 DEF Next, Step, Outside, GeneratorStep

\* A pull is the stream of events that types.ts promises, for every mailbox and every way
\* it can fail, but that it throws where a request beside the refresh has failed or its
\* spec is not supported, and nowhere else: started, auth, then the messages listed, each
\* once; completed only when all that was listed has been yielded, and no throw before
\* what has been fetched is yielded.
THEOREM IngestStreamsOrThrows == Spec => StreamsOrThrows
<1>1. Init => Contract!Init
  BY ContractInit
<1>2. IInv /\ [Next]_vars => [Contract!Next \/ (Contract!Throws /\ BreaksOff)]_(Contract!vars)
  BY NextContract DEF StreamStep
<1>3. QED
  BY <1>1, <1>2, IngestInvariant, PTL DEF Spec, StreamsOrThrows
-----------------------------------------------------------------------------
(* The stream of fetches, as the pull uses it.                              *)

\* The iteration goes on until the loop ends it.
Iterating ==
    /\ at \in {"none", "unsupported", "started", "auth", "streaming"} => outcome = "none"
    /\ at = "left" => outcome = "broke"

LEMMA StepUsesStream ==
    ASSUME IInv, Iterating, [Next]_vars
    PROVE  Iterating' /\ [Stream!Next]_(Stream!vars)
<1>1. CASE UNCHANGED <<stage, outcome, at>>
  BY <1>1 DEF Iterating, Stream!vars
<1>2. CASE GeneratorStep
  BY <1>2 DEF GeneratorStep, Refuses, Started, UsesStored, Refreshes, RefreshThrows,
              CursorThrows, CursorLoaded, GoesTo, streamVars, Iterating, Stream!vars
<1>3. CASE YieldsId
  <2>1. PICK m \in Message : m = Max(listing.page)
    <3>1. listing.page \subseteq Message /\ listing.page # {}
      BY <1>3 DEF IInv, TypeOK, Listing, YieldsId, Roomy
    <3>2. QED
      BY <3>1, MaxOfNumbers, ConfigAssumption DEF Message
  <2>2. Stream!Take(m) /\ UNCHANGED at
    BY <1>3, <2>1 DEF YieldsId
  <2>3. QED
    BY <2>2 DEF Stream!Take, Stream!Next, Iterating
<1>4. ASSUME NEW m \in Message, FetchStarts(m) \/ FetchAnswers(m) \/ FetchThrows(m) \/ Emits(m)
      PROVE  Iterating' /\ [Stream!Next]_(Stream!vars)
  <2>1. CASE FetchStarts(m) \/ Emits(m)
    BY <2>1 DEF FetchStarts, Emits, Stream!Admit, Stream!Deliver, Stream!Next, Iterating
  <2>2. CASE FetchAnswers(m) \/ FetchThrows(m)
    <3>1. stage[m] = "running" /\ UNCHANGED <<outcome, at>>
      BY <2>2 DEF FetchAnswers, FetchThrows, Fetching
    <3>2. CASE UNCHANGED stage
      BY <1>1, <3>1, <3>2
    <3>3. CASE stage' # stage
      <4>1. Stream!Settle(m)
        BY <2>2, <3>1, <3>3 DEF FetchAnswers, FetchThrows, Stream!Settle, Stream!Move
      <4>2. QED
        BY <3>1, <4>1 DEF Stream!Next, Iterating
    <3>4. QED
      BY <3>2, <3>3
  <2>3. QED
    BY <1>4, <2>1, <2>2
<1>5. CASE Completes
  BY <1>5 DEF Completes, Ends, Stream!Return, Stream!Next, Iterating
<1>6. CASE Throws
  BY <1>6 DEF Throws, Ends, Stream!Abandon, Stream!Next, Iterating
<1>7. CASE Leaves
  <2>1. UNCHANGED stage /\ outcome' = "broke" /\ at' = "left"
    BY <1>7 DEF Leaves, Ends
  <2>2. outcome \in {"none", "broke"}
    BY <1>7 DEF Leaves, Iterating, IInv, Phases
  <2>3. QED
    BY <2>1, <2>2 DEF Iterating, Stream!Abandon, Stream!Next, Stream!vars
<1>8. CASE \/ \E k \in 0..PageSize, token \in BOOLEAN : PageAnswers(k, token)
           \/ PageThrows \/ Handled \/ Arrive \/ Tick \/ \E m \in Message : Delete(m)
           \/ UNCHANGED vars
  <2>1. UNCHANGED <<stage, outcome, at>>
    BY <1>8 DEF PageAnswers, PageThrows, Handled, Arrive, Tick, Delete, vars, mailVars,
                tokenVars, streamVars, bodyVars
  <2>2. QED
    BY <1>1, <2>1
<1>9. QED
  BY <1>2, <1>3, <1>4, <1>5, <1>6, <1>7, <1>8 DEF Next, Step, Outside, GeneratorStep

\* ingest.ts: the pull keeps to the interface of the stream that StreamImplementsBoundedStream
\* is about.  Its listing is pulled only when the producer has nothing in hand, and nothing is
\* listed, fetched or emitted once the loop has ended.
THEOREM IngestUsesStream == Spec => Stream!Spec
<1>1. Init => Iterating /\ Stream!Init
  BY DEF Init, Iterating, Stream!Init
<1>2. IInv /\ Iterating /\ [Next]_vars => Iterating' /\ [Stream!Next]_(Stream!vars)
  BY StepUsesStream
<1>3. QED
  BY <1>1, <1>2, IngestInvariant, PTL DEF Spec, Stream!Spec

\* No more messages are fetched at once than fetchConcurrency, and one more id at most is
\* listed ahead of them.
FewFetches ==
    /\ Cardinality(Stream!In("running")) <= FetchConcurrency
    /\ \A l, m \in Stream!In("held") : l = m

Stages == stage \in [Message -> {"source", "held", "running", "ready", "delivered", "gone"}]

\* What BoundedStream promises of the items in flight.
LEMMA StreamFew == Stream!Spec => []FewFetches
<1>1. Stream!Init => Stages /\ FewFetches
  <2> SUFFICES ASSUME Stream!Init PROVE Stages /\ FewFetches
    OBVIOUS
  <2>1. Stages /\ Stream!In("running") = {} /\ Stream!In("held") = {}
    BY DEF Stream!Init, Stages, Stream!In
  <2>2. Cardinality(Stream!In("running")) = 0
    BY <2>1, FS_EmptySet
  <2>3. QED
    BY <2>1, <2>2, ConfigAssumption DEF FewFetches
<1>2. Stages /\ FewFetches /\ [Stream!Next]_(Stream!vars) => (Stages /\ FewFetches)'
  <2> SUFFICES ASSUME Stages, FewFetches, [Stream!Next]_(Stream!vars)
               PROVE  (Stages /\ FewFetches)'
    OBVIOUS
  <2>1. CASE UNCHANGED stage
    BY <2>1 DEF Stages, FewFetches, Stream!In
  <2>2. ASSUME NEW m \in Message, NEW from, NEW to, Stream!Move(m, from, to),
               to \in {"ready", "delivered", "gone"}
        PROVE  (Stages /\ FewFetches)'
    <3>1. Stages' /\ Stream!In("held")' \subseteq Stream!In("held")
          /\ Stream!In("running")' \subseteq Stream!In("running")
      BY <2>2 DEF Stages, Stream!Move, Stream!In
    <3>2. Cardinality(Stream!In("running")') <= Cardinality(Stream!In("running"))
      <4>1. PICK before, after : before = Stream!In("running") /\ after = Stream!In("running")'
        OBVIOUS
      <4>2. IsFiniteSet(before) /\ after \subseteq before
        BY <3>1, <4>1, FiniteMessages DEF Stream!In
      <4>3. Cardinality(after) <= Cardinality(before)
        BY <4>2, FS_Subset
      <4>4. QED
        BY <4>1, <4>3
    <3>3. QED
      <4>1. PICK before, after : before = Cardinality(Stream!In("running"))
                                /\ after = Cardinality(Stream!In("running"))'
        OBVIOUS
      <4>2. before \in Nat /\ after \in Nat
        BY <4>1, FiniteMessages DEF Stream!In
      <4>3. after <= FetchConcurrency
        BY <3>2, <4>1, <4>2, ConfigAssumption DEF FewFetches
      <4>4. QED
        BY <3>1, <4>1, <4>3 DEF FewFetches
  <2>3. ASSUME NEW m \in Message, Stream!Take(m) PROVE (Stages /\ FewFetches)'
    <3>1. Stages' /\ Stream!In("held")' = {m} /\ Stream!In("running")' = Stream!In("running")
      BY <2>3 DEF Stages, Stream!Take, Stream!Move, Stream!In
    <3>2. QED
      BY <3>1 DEF FewFetches
  <2>4. ASSUME NEW m \in Message, Stream!Admit(m) PROVE (Stages /\ FewFetches)'
    <3>1. Stages' /\ Stream!In("held")' \subseteq Stream!In("held")
          /\ Stream!In("running")' = Stream!In("running") \cup {m}
          /\ Cardinality(Stream!In("running")) < FetchConcurrency
      <4>1. stage[m] = "held" /\ stage' = [stage EXCEPT ![m] = "running"]
            /\ Cardinality(Stream!In("running")) < FetchConcurrency
        BY <2>4 DEF Stream!Admit, Stream!Move, Cardinality, Stream!Cardinality
      <4>2. Stages'
        BY <4>1 DEF Stages
      <4>3. Stream!In("held")' \subseteq Stream!In("held")
        BY <4>1 DEF Stages, Stream!In
      <4>4. Stream!In("running")' = Stream!In("running") \cup {m}
        BY <4>1 DEF Stages, Stream!In
      <4>5. QED
        BY <4>1, <4>2, <4>3, <4>4
    <3>2. PICK before, after : before = Stream!In("running") /\ after = Stream!In("running")'
      OBVIOUS
    <3>3. before \in SUBSET Message /\ after = before \cup {m}
      BY <3>1, <3>2 DEF Stream!In
    <3>4. IsFiniteSet(before) /\ Cardinality(before) \in Nat
      BY <3>3, FiniteMessages
    <3>5. Cardinality(after) <= Cardinality(before) + 1 /\ Cardinality(after) \in Nat
      BY <3>3, <3>4, FS_AddElement
    <3>6. Cardinality(before) < FetchConcurrency
      BY <3>1, <3>2
    <3>7. Cardinality(after) <= FetchConcurrency
      BY <3>4, <3>5, <3>6, ConfigAssumption
    <3>8. QED
      BY <3>1, <3>2, <3>7 DEF FewFetches
  <2>5. QED
    BY <2>1, <2>2, <2>3, <2>4 DEF Stream!Next, Stream!Settle, Stream!Deliver, Stream!Drop,
                                  Stream!Return, Stream!Abandon, Stream!vars
<1>3. QED
  BY <1>1, <1>2, PTL DEF Stream!Spec

\* The fetches of a pull are bounded, however many pages are listed and however they end.
THEOREM IngestFewFetches == Spec => []FewFetches
  BY IngestUsesStream, StreamFew, PTL
===============================================================================
