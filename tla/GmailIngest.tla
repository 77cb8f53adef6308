------------------------------- MODULE GmailIngest -------------------------------
(***************************************************************************)
(* One pull of a Gmail mailbox: ingest() of packages/backend/libs/adapters *)
(* (gmail/ingress/ingest.ts), with the token check of lib/oauth2/flow.ts   *)
(* and the requests of gmail/queries.  A generator that refreshes the      *)
(* token, reads the cursor, lists ids page by page up to a cap, fetches    *)
(* them through a boundedConcurrencyPoolStream, and yields events to the   *)
(* task that drives it.  The stream is BoundedStream.                      *)
(*                                                                         *)
(* Messages are numbered in the order of their arrival, which is the order *)
(* of Gmail's historyId; a list request answers the newest ones first, and *)
(* its page token goes on below the last one listed (external).            *)
(***************************************************************************)
EXTENDS Naturals, FiniteSets, FiniteSetsExt

CONSTANTS
    N,                 \* BOUND: messages that ever arrive
    Cap,               \* spec.limit
    PageSize, FetchConcurrency,
    Skew,              \* refresh a token that expires within this many ticks
    Lifetime,          \* expires_in of a fresh token
    EmptyPages,        \* BOUND: pages without ids that are not the last one
    AttachmentsOf      \* attachments of each message that carry an id

ASSUME ConfigAssumption ==
    /\ N \in Nat /\ Cap \in Nat \ {0} /\ PageSize \in Nat \ {0}
    /\ FetchConcurrency \in Nat \ {0}
    /\ Skew \in Nat /\ Lifetime \in Nat /\ Skew < Lifetime /\ EmptyPages \in Nat
    /\ AttachmentsOf \in [1..N -> Nat]

Message == 1..N

VARIABLES
    arrived, deleted,  \* the mailbox: the messages 1..arrived, without these
    life, age,         \* ticks the token lives on, and ticks since it was checked
    refreshToken,      \* whether the credentials have one
    at,                \* where the generator stands
    cursor,            \* the historyId it has read, 0 for none
    listing,           \* where messageIds() stands
    stage, outcome,    \* the stream of fetches (BoundedStream)
    requests,          \* requests that the fetch of each message still needs
    body, processed    \* the runner handles a message; messages it has handled

mailVars == <<arrived, deleted>>
tokenVars == <<life, age, refreshToken>>
streamVars == <<stage, outcome>>
bodyVars == <<body, processed>>
vars == <<mailVars, tokenVars, at, cursor, listing, streamVars, requests, bodyVars>>

Stream == INSTANCE BoundedStream WITH Item <- Message, Size <- FetchConcurrency

Mailbox == (1..arrived) \ deleted
Done == at \in {"completed", "threw", "left"}

\* page: ids listed and not yet yielded; more, before: the page token, and the
\* last id listed, below which it goes on; n: ids yielded; blank: empty pages followed.
Listing == [at : {"next", "page", "done", "threw"}, page : SUBSET Message,
            more : BOOLEAN, before : 1..N + 1, n : 0..Cap, blank : 0..EmptyPages]

Init ==
    /\ arrived \in 0..N /\ deleted = {}
    /\ life \in 0..Lifetime /\ age = 0 /\ refreshToken \in BOOLEAN
    /\ at \in {"none", "unsupported"} /\ cursor = 0
    /\ listing = [at |-> "next", page |-> {}, more |-> TRUE, before |-> N + 1,
                  n |-> 0, blank |-> 0]
    /\ Stream!Init
    /\ requests = [m \in Message |-> 0]
    /\ body = FALSE /\ processed = 0

-----------------------------------------------------------------------------
(* Outside: the mailbox changes and the token grows old.                    *)

Arrive ==
    /\ ~Done /\ arrived < N
    /\ arrived' = arrived + 1
    /\ UNCHANGED <<deleted, tokenVars, at, cursor, listing, streamVars, requests, bodyVars>>

Delete(m) ==
    /\ ~Done /\ m \in Mailbox
    /\ deleted' = deleted \cup {m}
    /\ UNCHANGED <<arrived, tokenVars, at, cursor, listing, streamVars, requests, bodyVars>>

Tick ==
    /\ ~Done /\ life > 0
    /\ life' = life - 1
    /\ age' = IF age > Skew THEN age ELSE age + 1
    /\ UNCHANGED <<mailVars, refreshToken, at, cursor, listing, streamVars, requests, bodyVars>>

-----------------------------------------------------------------------------
(* The generator up to its first message.                                   *)

GoesTo(place) ==
    /\ at' = place
    /\ UNCHANGED <<mailVars, listing, streamVars, requests, bodyVars>>

Started == at = "none" /\ GoesTo("started") /\ UNCHANGED <<tokenVars, cursor>>

\* The spec is not that of a full sync: nothing is yielded.
Refuses == at = "unsupported" /\ GoesTo("threw") /\ UNCHANGED <<tokenVars, cursor>>

\* Seeded fault: a token is refreshed only once it has expired.
NotExpired == life > 0

StillGood == life > Skew

UsesStored ==
    /\ at = "started" /\ StillGood
    /\ age' = 0
    /\ GoesTo("auth") /\ UNCHANGED <<life, refreshToken, cursor>>

\* refreshTokens(): the grant's answer keeps the old refresh token.
Refreshes ==
    /\ at = "started" /\ ~StillGood /\ refreshToken
    /\ life' = Lifetime /\ age' = 0
    /\ GoesTo("auth") /\ UNCHANGED <<refreshToken, cursor>>

\* There is none, or the grant is refused or unanswered.
RefreshThrows ==
    /\ at = "started" /\ ~StillGood
    /\ GoesTo("threw") /\ UNCHANGED <<tokenVars, cursor>>

\* getProfile() answers with the newest historyId, or without one.
CursorLoaded(some) ==
    /\ at = "auth" /\ life > 0
    /\ cursor' = IF some THEN arrived ELSE 0
    /\ GoesTo("streaming") /\ UNCHANGED tokenVars

CursorThrows == at = "auth" /\ GoesTo("threw") /\ UNCHANGED <<tokenVars, cursor>>

-----------------------------------------------------------------------------
(* messageIds(), pulled by the stream's producer when it has nothing in hand. *)

Pulled ==
    /\ at = "streaming" /\ outcome = "none" /\ Stream!In("held") = {}

Room == Cap - listing.n
PageLimit == Min({PageSize, Room})

NewestBelow(before, k) ==
    LET older == {m \in Mailbox : m < before}
    IN {m \in older : Cardinality({o \in older : o > m}) < k}

\* A page is followed by the next one if it has a token, full or not.
Follows(token) == token

\* One list request.  A page may be short or empty; it has a token if messages remain
\* behind it, and may have one if none do.  An empty page that has one is followed.
PageAnswers(k, token) ==
    LET older == {m \in Mailbox : m < listing.before}
        page  == NewestBelow(listing.before, k)
    IN /\ Pulled /\ listing.at = "next" /\ life > 0
       /\ k <= PageLimit /\ k <= Cardinality(older)
       /\ older # page => token
       /\ page = {} /\ token => listing.blank < EmptyPages
       /\ listing' = [listing EXCEPT
            !.at = IF page # {} THEN "page" ELSE IF Follows(token) THEN "next" ELSE "done",
            !.page = page,
            !.more = Follows(token),
            !.before = IF page = {} THEN @ ELSE Min(page),
            !.blank = IF page = {} /\ token THEN @ + 1 ELSE @]
       /\ UNCHANGED <<mailVars, tokenVars, at, cursor, streamVars, requests, bodyVars>>

PageThrows ==
    /\ Pulled /\ listing.at = "next"
    /\ listing' = [listing EXCEPT !.at = "threw"]
    /\ UNCHANGED <<mailVars, tokenVars, at, cursor, streamVars, requests, bodyVars>>

\* The next id, and what follows it: the cap, the rest of the page, or its token.
YieldsId ==
    LET m    == Max(listing.page)
        rest == listing.page \ {m}
    IN /\ Pulled /\ listing.at = "page"
       /\ Stream!Take(m)
       /\ listing' = [listing EXCEPT
            !.page = rest, !.n = @ + 1,
            !.at = IF Room = 1 THEN "done" ELSE IF rest # {} THEN "page"
                   ELSE IF listing.more THEN "next" ELSE "done"]
       /\ UNCHANGED <<mailVars, tokenVars, at, cursor, requests, bodyVars>>

-----------------------------------------------------------------------------
(* processMessage(): the message, then its attachments one by one.          *)

\* What is in flight when the iteration has ended is no longer looked at.
Fetching(m) == stage[m] = "running" /\ outcome = "none"

FetchStarts(m) ==
    /\ Stream!Admit(m)
    /\ requests' = [requests EXCEPT ![m] = 1 + AttachmentsOf[m]]
    /\ UNCHANGED <<mailVars, tokenVars, at, cursor, listing, bodyVars>>

\* The last answer settles the fetch.
FetchAnswers(m) ==
    /\ Fetching(m) /\ life > 0 /\ m \notin deleted
    /\ requests' = [requests EXCEPT ![m] = @ - 1]
    /\ IF requests[m] = 1 THEN stage' = [stage EXCEPT ![m] = "ready"] ELSE UNCHANGED stage
    /\ UNCHANGED <<mailVars, tokenVars, at, cursor, listing, outcome, bodyVars>>

\* A request fails, or normalize() refuses the payload.
FetchThrows(m) ==
    /\ Fetching(m)
    /\ stage' = [stage EXCEPT ![m] = "gone"]
    /\ requests' = [requests EXCEPT ![m] = 0]
    /\ UNCHANGED <<mailVars, tokenVars, at, cursor, listing, outcome, bodyVars>>

-----------------------------------------------------------------------------
(* The loop of ingest(), and the runner behind it.                          *)

\* The next result is yielded as a message event.
Emits(m) ==
    /\ at = "streaming" /\ ~body
    /\ Stream!Deliver(m)
    /\ body' = TRUE
    /\ UNCHANGED <<mailVars, tokenVars, at, cursor, listing, requests, processed>>

Handled ==
    /\ at = "streaming" /\ body
    /\ body' = FALSE /\ processed' = processed + 1
    /\ UNCHANGED <<mailVars, tokenVars, at, cursor, listing, streamVars, requests>>

Ends(place) ==
    /\ at' = place
    /\ UNCHANGED <<mailVars, tokenVars, cursor, listing, requests, bodyVars>>

\* Seeded faults: the loop ends with the listing; the cursor is read at the end;
\* a rejection of the source is not passed on.
CompletesEarly ==
    /\ at = "streaming" /\ ~body /\ listing.at = "done"
    /\ outcome' = "returned" /\ UNCHANGED stage
    /\ Ends("completed")

CompletesWithNewCursor ==
    /\ at = "streaming" /\ ~body /\ listing.at = "done"
    /\ Stream!Return
    /\ at' = "completed" /\ cursor' = arrived
    /\ UNCHANGED <<mailVars, tokenVars, listing, requests, bodyVars>>

ThrowsForFetchesOnly ==
    /\ at = "streaming" /\ ~body /\ Stream!In("ready") = {} /\ Stream!In("gone") # {}
    /\ outcome' = "threw" /\ UNCHANGED stage
    /\ Ends("threw")

Completes ==
    /\ at = "streaming" /\ ~body /\ listing.at = "done"
    /\ Stream!Return
    /\ Ends("completed")

\* A rejection of the source or of a fetch, once what was ready before is yielded.
Throws ==
    /\ at = "streaming" /\ ~body /\ Stream!In("ready") = {}
    /\ listing.at = "threw" \/ Stream!In("gone") # {}
    /\ outcome' = "threw" /\ UNCHANGED stage
    /\ Ends("threw")

\* The runner could not handle the event in its hands, and leaves the iteration.
Leaves ==
    /\ at \in {"started", "auth"} \/ body
    /\ outcome' = "broke" /\ UNCHANGED stage
    /\ Ends("left")

-----------------------------------------------------------------------------

Step ==
    \/ Refuses \/ Started \/ UsesStored \/ Refreshes \/ RefreshThrows
    \/ \E some \in BOOLEAN : CursorLoaded(some)
    \/ CursorThrows
    \/ \E k \in 0..PageSize, token \in BOOLEAN : PageAnswers(k, token)
    \/ PageThrows \/ YieldsId
    \/ \E m \in Message : FetchStarts(m) \/ FetchAnswers(m) \/ FetchThrows(m) \/ Emits(m)
    \/ Handled \/ Completes \/ Throws

Outside == Arrive \/ Tick \/ Leaves \/ \E m \in Message : Delete(m)

Next == Step \/ Outside

Spec == Init /\ [][Next]_vars

\* Google answers or refuses, and the runner handles what it is given.
FairSpec == Spec /\ WF_vars(Step)

-----------------------------------------------------------------------------
(* Properties.                                                              *)

Emitted == Stream!In("delivered")

\* The variables have their types.
TypeOK ==
    /\ arrived \in 0..N /\ deleted \subseteq 1..arrived
    /\ life \in 0..Lifetime /\ age \in 0..Skew + 1 /\ refreshToken \in BOOLEAN
    /\ at \in {"none", "unsupported", "started", "auth", "streaming", "completed", "threw", "left"}
    /\ cursor \in 0..arrived
    /\ listing \in Listing
    /\ stage \in [Message -> {"source", "held", "running", "ready", "delivered", "gone"}]
    /\ outcome \in {"none", "returned", "threw", "broke"}
    /\ requests \in [Message -> Nat]
    /\ body \in BOOLEAN /\ processed \in 0..N

\* A pull that completes leaves no gap: a message of the mailbox that it did not
\* emit arrived after the cursor, so that the next sync will replay it, or the cap
\* was reached by newer ones.  Nothing a pull meets (short pages, arrivals and
\* deletions while it lists, fetches that end in any order) changes that.  The cap
\* bounds what is fetched and not only what is emitted, and the count that the pull
\* reports is that of the messages the runner has handled.
NoGap ==
    /\ TypeOK
    /\ Cardinality({m \in Message : stage[m] # "source"}) <= Cap
    /\ at = "completed" =>
         /\ processed = Cardinality(Emitted)
         /\ \A m \in Mailbox \ Emitted :
              \/ m > cursor
              \/ Cardinality(Emitted) = Cap /\ \A e \in Emitted : e > m

\* A pull that takes no longer than the skew is never refused for its token: the
\* token is checked once and used in every later request.
NoEarlyExpiry == at \in {"auth", "streaming"} /\ life = 0 => age > Skew

\* AdapterStream, of a pull.
Contract == INSTANCE AdapterStream WITH
    last <- IF at = "streaming" THEN "auth" ELSE IF at = "unsupported" THEN "none" ELSE at,
    sent <- Emitted,
    due <- {m \in Message : stage[m] \notin {"source", "delivered"}}

\* A spec that is not supported; the profile; a listing or a fetch that failed, when
\* all that was fetched before is yielded.
BreaksOff ==
    \/ at \in {"unsupported", "auth"}
    \/ /\ at = "streaming" /\ Stream!In("ready") = {}
       /\ listing.at = "threw" \/ Stream!In("gone") # {}

\* A pull is the stream that types.ts promises the runner, but that it throws where a
\* request beside the refresh fails, or its spec is not supported, and nowhere else:
\* what was listed is yielded before it completes, each message once, and what has
\* been fetched is yielded before it throws.
StreamsOrThrows ==
    Contract!Init /\ [][Contract!Next \/ (Contract!Throws /\ BreaksOff)]_(Contract!vars)

\* types.ts:281: ingest() "throws only when a refresh fails terminally", and else ends
\* with a terminal event (types.ts:217).  It does not: a request that fails later throws.
KeepsPromise == Contract!Spec

\* Every pull ends, whatever fails and whatever arrives meanwhile.
PullEnds == <>Done
===============================================================================
