---------------------------- MODULE AccountsProofs ----------------------------
(***************************************************************************)
(* The accounts, for any number of invocations, logins and ports.  The     *)
(* flow compares the state before it looks at the code, and reconnect      *)
(* compares the login with the row it read before its OAuth: together they *)
(* make the credentials of a row those of its mailbox, although the        *)
(* statement that writes them goes by the id alone, and much later.        *)
(***************************************************************************)
EXTENDS Accounts, TLAPS

\* What awaitRedirect may have resolved with.
Answer == [kind : {"ok", "state_mismatch", "oauth_error", "missing_code"},
           state : Cli \cup {Nobody}, login : Login \cup {Nobody}]

AnswerTypes == redirect \in [Cli -> Answer \cup {Unresolved}]

\* An answer is accepted only of the flow's own page, with a code for a login.
Accepted ==
    \A c \in Cli : redirect[c].kind = "ok" => redirect[c].state = c /\ redirect[c].login \in Login

PastRedirect ==
    \A c \in Cli : at[c] \in {"exchanging", "profile", "done"} => redirect[c].kind = "ok"

\* From the bind to the end of the flow there is a listener.
Listening ==
    \A c \in Cli :
        at[c] \in {"authorizing", "opening", "waiting", "exchanging", "profile"} =>
            port[c] \in Port

FlowInv == TypeOK /\ Listening /\ AnswerTypes /\ Accepted /\ PastRedirect

-----------------------------------------------------------------------------
(* The flow.                                                                *)

\* No answer is mistaken for none.
LEMMA UnresolvedIsNoAnswer == Unresolved \notin Answer /\ Unresolved.kind = "none"
  BY DEF Unresolved, Answer

LEMMA FlowInit == Init => FlowInv
<1> SUFFICES ASSUME Init PROVE FlowInv
  OBVIOUS
<1>1. TypeOK
  BY DEF Init, TypeOK, Places
<1>2. Listening /\ AnswerTypes /\ Accepted /\ PastRedirect
  BY DEF Init, Listening, AnswerTypes, Accepted, PastRedirect, Unresolved
<1>3. QED
  BY <1>1, <1>2 DEF FlowInv

\* A step of the flow moves it from one place to another; past the redirect it is
\* only with an accepted answer.
LEMMA FlowStep ==
    ASSUME FlowInv, NEW c \in Cli, Begin(c) \/ Step(c)
    PROVE  FlowInv'
<1> USE DEF FlowInv
<1>1. UNCHANGED redirect
  BY DEF Begin, Step, Binds, Authorizes, Opens, SpawnErrors, TimesOut, Received, Exchanges,
         Returns, Throws
<1>2. PICK to \in Places : at' = [at EXCEPT ![c] = to]
  BY DEF Begin, Step, Binds, Authorizes, Opens, SpawnErrors, TimesOut, Received, Exchanges,
         Returns, Throws, GoesTo, Places, Ended
<1>3. PICK p \in Port \cup {NoPort} : port' = [port EXCEPT ![c] = p]
  <2>1. CASE \E p \in Port : Binds(c, p)
    BY <2>1 DEF Binds
  <2>2. CASE UNCHANGED port
    BY <2>2 DEF TypeOK
  <2>3. CASE Close(c)
    BY <2>3 DEF Close
  <2>4. QED
    BY <2>1, <2>2, <2>3 DEF Begin, Step, Authorizes, Opens, SpawnErrors, TimesOut, Received,
                            Exchanges, Returns, Throws
<1>4. armed' \in [Cli -> BOOLEAN]
  <2>1. armed' = armed \/ armed' = [armed EXCEPT ![c] = TRUE]
    BY DEF Begin, Step, Binds, Authorizes, Opens, SpawnErrors, TimesOut, Received, Exchanges,
           Returns, Throws
  <2>2. QED
    BY <2>1 DEF TypeOK
<1>5. pages' \subseteq [state : Cli, port : Port]
  <2>1. CASE \E shown \in BOOLEAN : Opens(c, shown)
    <3>1. port[c] \in Port
      BY <2>1 DEF Opens, GoesTo, Listening
    <3>2. QED
      BY <2>1, <3>1 DEF Opens, TypeOK
  <2>2. CASE UNCHANGED pages
    BY <2>2 DEF TypeOK
  <2>3. QED
    BY <2>1, <2>2 DEF Begin, Step, Binds, Authorizes, SpawnErrors, TimesOut, Received,
                      Exchanges, Returns, Throws
<1>6. TypeOK'
  BY <1>1, <1>2, <1>3, <1>4, <1>5 DEF TypeOK
<1>7. at'[c] \in {"exchanging", "profile", "done"} => redirect[c].kind = "ok"
  BY DEF PastRedirect, TypeOK, Begin, Step, Binds, Authorizes, Opens, SpawnErrors, TimesOut,
         Received, Exchanges, Returns, Throws, GoesTo
<1>8. PastRedirect'
  BY <1>1, <1>2, <1>7 DEF PastRedirect, TypeOK
<1>9. Listening'
  <2>1. at'[c] \in {"authorizing", "opening", "waiting", "exchanging", "profile"} =>
          port'[c] \in Port
    BY <1>3 DEF Listening, TypeOK, Begin, Step, Binds, Authorizes, Opens, SpawnErrors,
                TimesOut, Received, Exchanges, Returns, Throws, GoesTo, Close
  <2>2. QED
    BY <1>2, <1>3, <2>1 DEF Listening, TypeOK
<1>10. QED
  BY <1>1, <1>6, <1>8, <1>9 DEF AnswerTypes, Accepted

\* A request is answered for what it carries: only the flow's own state and a code
\* make it an accepted one, and an answer is never replaced.
LEMMA RequestStep ==
    ASSUME FlowInv, Outside
    PROVE  FlowInv' /\ UNCHANGED at
<1> USE DEF FlowInv
<1>1. PICK c \in Cli, req \in Request :
        Requested(c, req) /\ (req.carries = "code" => req.login \in Login)
  <2>1. CASE \E c \in Cli : StrayRequest(c)
    <3>1. PICK c \in Cli : StrayRequest(c)
      BY <2>1
    <3> DEFINE req == [state |-> Nobody, carries |-> "neither", login |-> Nobody]
    <3>2. req \in Request /\ req.carries # "code" /\ Requested(c, req)
      BY <3>1 DEF StrayRequest, Request
    <3>3. QED
      BY <3>2
  <2>2. ASSUME NEW page \in pages, NEW carries \in {"code", "error", "neither"},
               NEW l \in Login \cup {Nobody}, PageAnswers(page, carries, l)
        PROVE  \E c \in Cli, req \in Request :
                 Requested(c, req) /\ (req.carries = "code" => req.login \in Login)
    <3> DEFINE req == [state |-> page.state, carries |-> carries, login |-> l]
    <3>1. PICK c \in Cli : Requested(c, req)
      BY <2>2 DEF PageAnswers
    <3>2. page.state \in Cli
      BY DEF TypeOK
    <3>3. req \in Request /\ (req.carries = "code" => req.login \in Login)
      BY <2>2, <3>2 DEF PageAnswers, Request
    <3>4. QED
      BY <3>1, <3>3
  <2>3. QED
    BY <2>1, <2>2 DEF Outside
<1> DEFINE answer == [kind |-> HandleRedirect(c, req), state |-> req.state,
                      login |-> req.login]
<1>2. /\ UNCHANGED <<at, port, armed, pages>>
      /\ redirect' = [redirect EXCEPT ![c] = IF @ # Unresolved THEN @ ELSE answer]
  BY <1>1 DEF Requested
<1>3. /\ answer \in Answer
      /\ answer.kind = "ok" => answer.state = c /\ answer.login \in Login
  BY <1>1 DEF HandleRedirect, Request, Answer
<1> HIDE DEF answer
<1>4. AnswerTypes'
  BY <1>2, <1>3 DEF AnswerTypes
<1>5. \A d \in Cli :
        \/ redirect'[d] = redirect[d]
        \/ d = c /\ redirect[d] = Unresolved /\ redirect'[d] = answer
  BY <1>2 DEF AnswerTypes
<1>6. Accepted'
  BY <1>3, <1>5 DEF Accepted
<1>7. PastRedirect'
  BY <1>2, <1>5, UnresolvedIsNoAnswer DEF PastRedirect
<1>8. Listening'
  BY <1>2 DEF Listening
<1>9. TypeOK'
  <2>1. \A d \in Cli : redirect'[d] # Unresolved =>
          /\ redirect'[d].kind \in {"ok", "state_mismatch", "oauth_error", "missing_code"}
          /\ redirect'[d].state \in Cli \cup {Nobody}
          /\ redirect'[d].login \in Login \cup {Nobody}
    BY <1>4 DEF AnswerTypes, Answer
  <2>2. QED
    BY <1>2, <2>1 DEF TypeOK
<1>10. QED
  BY <1>2, <1>4, <1>6, <1>7, <1>8, <1>9

-----------------------------------------------------------------------------
(* The verbs.                                                               *)

\* What a verb has resolved is a row there is, and of the same mailbox still.
SeenRows ==
    /\ seen \in [Cli -> SeenRow \cup {NoRow}]
    /\ \A c \in Cli : seen[c] # NoRow =>
         /\ Exists(seen[c].id)
         /\ row[seen[c].id].externalAccountId = seen[c].row.externalAccountId

\* reconnect resolves its account before it begins.
ResolvedFirst ==
    \A c \in Cli : VerbOf[c].name = "reconnect" /\ at[c] # "idle" => seen[c] # NoRow

\* An invocation that has not ended has inserted nothing.
InsertsAtTheEnd == \A c \in Cli : Exists(c) => outcome[c] # "none"

Credentials ==
    \A i \in Id : Exists(i) =>
        /\ row[i].credentials.opens = row[i].externalAccountId
        /\ row[i].credentials.from \in Cli => at[row[i].credentials.from] = "done"

Outcomes == {"none", "ok", "not found", "ambiguous", "no authorization", "failed", "mismatch",
             "cancelled", "DBUniqueViolationError", "DuplicateProviderAccountError"}

TableTypes == row \in [Id -> Row \cup {NoRow}] /\ outcome \in [Cli -> Outcomes]

IInv ==
    /\ FlowInv
    /\ TableTypes /\ SeenRows
    /\ ResolvedFirst /\ InsertsAtTheEnd
    /\ Credentials

\* A verb changes nothing of an account but the credentials or the flag.
Kept(i) ==
    /\ row'[i] # NoRow
    /\ row'[i].externalAccountId = row[i].externalAccountId
    /\ row'[i].alias = row[i].alias
    /\ row'[i].isActive => row[i].isActive
    /\ row'[i].credentials = row[i].credentials \/ row'[i].isActive = row[i].isActive

\* What every step does to the accounts: rows stay, those that are written open their
\* mailbox, and the resolved ones stay what they were.
RowStep ==
    /\ row' \in [Id -> Row \cup {NoRow}]
    /\ \A i \in Id : Exists(i) => Kept(i)
    /\ Credentials'

LEMMA ConstantTypes ==
    /\ \A c \in Cli : c \in Id /\ c \notin Seed
    /\ NoRow \notin Row /\ NoRow \notin SeenRow
    /\ \A c \in Cli : VerbOf[c].name = "connect" => VerbOf[c].alias \in Alias \cup {NoAlias}
  BY AccountsAssumption DEF Id

\* What was written before the step stays right: a flow that is done stays done.
LEMMA DoneStaysDone ==
    ASSUME FlowInv, NEW c \in Cli, at[c] = "done",
           \/ UNCHANGED at
           \/ \E d \in Cli : Begin(d) \/ Step(d)
    PROVE  at'[c] = "done"
  BY DEF FlowInv, TypeOK, Begin, Step, Binds, Authorizes, Opens, SpawnErrors, TimesOut,
         Received, Exchanges, Returns, Throws, GoesTo

\* The rows that nobody writes.
LEMMA RowsUntouched ==
    ASSUME IInv, UNCHANGED row,
           \/ UNCHANGED at
           \/ \E d \in Cli : Begin(d) \/ Step(d)
    PROVE  RowStep
<1> USE DEF IInv
<1>1. \A i \in Id : Exists(i) => Kept(i)
  BY DEF Exists, Kept
<1>2. Credentials'
  <2> SUFFICES ASSUME NEW i \in Id, Exists(i)
               PROVE  /\ row[i].credentials.opens = row[i].externalAccountId
                      /\ row[i].credentials.from \in Cli =>
                           at'[row[i].credentials.from] = "done"
    BY DEF Credentials, Exists
  <2>1. QED
    BY DoneStaysDone DEF Credentials
<1>3. QED
  BY <1>1, <1>2 DEF RowStep, TableTypes

\* One account is written, as an account of the same mailbox.
LEMMA RowWritten ==
    ASSUME IInv, UNCHANGED at, NEW i \in Id, NEW r \in Row,
           row' = [row EXCEPT ![i] = r],
           r.credentials.opens = r.externalAccountId,
           r.credentials.from \in Cli => at[r.credentials.from] = "done",
           Exists(i) => /\ r.externalAccountId = row[i].externalAccountId
                        /\ r.alias = row[i].alias
                        /\ r.isActive => row[i].isActive
                        /\ r.credentials = row[i].credentials \/ r.isActive = row[i].isActive
    PROVE  RowStep
<1> USE DEF IInv
<1>1. /\ row'[i] = r /\ r # NoRow
      /\ \A k \in Id : k # i => row'[k] = row[k]
      /\ row' \in [Id -> Row \cup {NoRow}]
  BY ConstantTypes DEF TableTypes
<1>2. \A k \in Id : Exists(k) => Kept(k)
  BY <1>1 DEF Exists, Kept
<1>3. Credentials'
  <2> SUFFICES ASSUME NEW k \in Id, Exists(k)'
               PROVE  /\ row'[k].credentials.opens = row'[k].externalAccountId
                      /\ row'[k].credentials.from \in Cli =>
                           at[row'[k].credentials.from] = "done"
    BY DEF Credentials
  <2>1. CASE k = i
    BY <1>1, <2>1
  <2>2. CASE k # i
    BY <1>1, <2>2 DEF Credentials, Exists
  <2>3. QED
    BY <2>1, <2>2
<1>4. QED
  BY <1>1, <1>2, <1>3 DEF RowStep

LEMMA InsertRows ==
    ASSUME IInv, NEW c \in Cli, ConnectInserts(c)
    PROVE  RowStep
<1> USE DEF IInv
<1>1. /\ at[c] = "done" /\ outcome[c] = "none" /\ VerbOf[c].name = "connect"
      /\ UNCHANGED at
  BY DEF ConnectInserts, Authorized, Verb, vars
<1>2. redirect[c].login \in Login
  BY <1>1 DEF FlowInv, PastRedirect, Accepted
<1> DEFINE r == [externalAccountId |-> redirect[c].login, alias |-> VerbOf[c].alias,
                 isActive |-> TRUE, credentials |-> Fresh(c)]
<1>3. /\ r \in Row
      /\ r.credentials.opens = r.externalAccountId /\ r.credentials.from = c
  BY <1>1, <1>2, ConstantTypes DEF Row, Fresh
<1>4. UNCHANGED row \/ row' = [row EXCEPT ![c] = r]
  BY DEF ConnectInserts
<1>5. c \in Id /\ ~Exists(c)
  BY <1>1, ConstantTypes DEF InsertsAtTheEnd
<1> HIDE DEF r
<1>6. QED
  BY <1>1, <1>3, <1>4, <1>5, RowsUntouched, RowWritten

\* reconnect writes under the id it resolved minutes ago.  The row there is still of
\* the mailbox it was compared with.
LEMMA ReconnectRows ==
    ASSUME IInv, NEW c \in Cli, ReconnectUpdates(c)
    PROVE  RowStep
<1> USE DEF IInv
<1>1. /\ at[c] = "done" /\ VerbOf[c].name = "reconnect" /\ UNCHANGED at
      /\ redirect[c].login = seen[c].row.externalAccountId
  BY DEF ReconnectUpdates, Authorized, Verb, vars, SameIdentity
<1>2. redirect[c].login \in Login
  BY <1>1 DEF FlowInv, PastRedirect, Accepted
<1>3. seen[c] # NoRow
  BY <1>1 DEF ResolvedFirst
<1> DEFINE i == seen[c].id
           r == [row[i] EXCEPT !.credentials = Fresh(c)]
<1>4. i \in Id /\ Exists(i) /\ row[i].externalAccountId = redirect[c].login
  BY <1>1, <1>3 DEF SeenRows, SeenRow
<1>5. row[i] \in Row
  BY <1>4 DEF TableTypes, Exists
<1>6. /\ r \in Row /\ r.credentials = Fresh(c)
      /\ r.externalAccountId = row[i].externalAccountId
      /\ r.alias = row[i].alias /\ r.isActive = row[i].isActive
  BY <1>2, <1>5, ConstantTypes DEF Row, Fresh
<1>7. Fresh(c).opens = redirect[c].login /\ Fresh(c).from = c
  BY DEF Fresh
<1>8. row' = [row EXCEPT ![i] = r]
  BY DEF ReconnectUpdates, WithCredentials
<1> HIDE DEF i, r
<1>9. QED
  BY <1>1, <1>4, <1>6, <1>7, <1>8, RowWritten

LEMMA DeactivateRows ==
    ASSUME IInv, NEW c \in Cli, RmDeactivates(c)
    PROVE  RowStep
<1> USE DEF IInv
<1> DEFINE i == seen[c].id
           r == [row[i] EXCEPT !.isActive = FALSE]
<1>1. i \in Id /\ Exists(i) /\ UNCHANGED at
  BY DEF RmDeactivates, SeenRows, SeenRow, vars
<1>2. row[i] \in Row
  BY <1>1 DEF TableTypes, Exists
<1>3. /\ r \in Row /\ r.credentials = row[i].credentials /\ r.isActive = FALSE
      /\ r.externalAccountId = row[i].externalAccountId /\ r.alias = row[i].alias
  BY <1>2 DEF Row
<1>4. row' = [row EXCEPT ![i] = r]
  BY DEF RmDeactivates
<1>5. /\ r.credentials.opens = r.externalAccountId
      /\ r.credentials.from \in Cli => at[r.credentials.from] = "done"
  BY <1>1, <1>3 DEF Credentials
<1> HIDE DEF i, r
<1>6. QED
  BY <1>1, <1>3, <1>4, <1>5, RowWritten

-----------------------------------------------------------------------------
(* The invariant is inductive.                                              *)

\* What a verb does besides: it keeps the row it resolves, and ends once.
Remembers(c) ==
    \/ seen' = seen
    \/ /\ UNCHANGED row
       /\ \E i \in Id : Exists(i) /\ seen' = [seen EXCEPT ![c] = [id |-> i, row |-> row[i]]]

EndsOnce(c) ==
    \/ outcome' = outcome
    \/ \E how \in Outcomes \ {"none"} : outcome' = [outcome EXCEPT ![c] = how]

LEMMA ResolvesRemembers ==
    ASSUME NEW c \in Cli, Resolves(c), UNCHANGED row
    PROVE  Remembers(c)
  BY DEF Resolves, Matches, Remembers

LEMMA VerbRemembers ==
    ASSUME NEW c \in Cli, VerbStep(c)
    PROVE  Remembers(c) /\ EndsOnce(c)
<1>1. CASE ReconnectBegins(c) \/ RmResolves(c)
  BY <1>1, ResolvesRemembers DEF ReconnectBegins, RmResolves, EndsOnce
<1>2. CASE ConnectBegins(c)
  BY <1>2 DEF ConnectBegins, accountVars, Remembers, EndsOnce
<1>3. CASE ConnectInserts(c)
  <2>1. UniqueViolation \in Outcomes \ {"none"}
    BY DEF UniqueViolation, Classified, CaughtByService, Outcomes
  <2>2. EndsOnce(c)
    BY <1>3, <2>1 DEF ConnectInserts, Finish, EndsOnce, Outcomes
  <2>3. QED
    BY <1>3, <2>2 DEF ConnectInserts, Remembers
<1>4. CASE NotResolved(c)
  BY <1>4 DEF NotResolved, Finish, Remembers, EndsOnce, Outcomes
<1>5. CASE FlowRejects(c) \/ WriteFails(c) \/ IdentityMismatch(c)
  BY <1>5 DEF FlowRejects, WriteFails, IdentityMismatch, Finish, Remembers, EndsOnce, Outcomes
<1>6. CASE ReconnectUpdates(c) \/ RmCancelled(c) \/ RmDeactivates(c)
  BY <1>6 DEF ReconnectUpdates, RmCancelled, RmDeactivates, Finish, Remembers, EndsOnce, Outcomes
<1>7. QED
  BY <1>1, <1>2, <1>3, <1>4, <1>5, <1>6 DEF VerbStep

\* A verb takes no part in a flow but to begin it.
LEMMA VerbFlow ==
    ASSUME NEW c \in Cli, VerbStep(c)
    PROVE  UNCHANGED vars \/ Begin(c)
  BY DEF VerbStep, NotResolved, ConnectBegins, ReconnectBegins, RmResolves, FlowRejects,
         WriteFails, ConnectInserts, IdentityMismatch, ReconnectUpdates, RmCancelled,
         RmDeactivates

LEMMA VerbRows ==
    ASSUME IInv, NEW c \in Cli, VerbStep(c)
    PROVE  RowStep /\ \A d \in Cli : Exists(d)' /\ ~Exists(d) => outcome'[d] # "none"
<1>1. CASE ConnectInserts(c)
  <2>1. \A d \in Cli : d # c => row'[d] = row[d]
    BY <1>1, ConstantTypes DEF ConnectInserts, IInv, TableTypes
  <2>2. outcome'[c] # "none"
    BY <1>1 DEF ConnectInserts, Finish, IInv, TableTypes, UniqueViolation, Classified,
                CaughtByService
  <2>3. QED
    BY <1>1, <2>1, <2>2, InsertRows DEF Exists
<1>2. CASE ReconnectUpdates(c) \/ RmDeactivates(c)
  <2>1. RowStep
    BY <1>2, ReconnectRows, DeactivateRows
  <2>2. \A d \in Cli : d \in Id /\ (Exists(d)' => Exists(d))
    <3>1. PICK i \in Id : Exists(i) /\ \E r : row' = [row EXCEPT ![i] = r]
      <4>1. seen[c] # NoRow
        BY <1>2 DEF IInv, ResolvedFirst, ReconnectUpdates, RmDeactivates, Verb, Authorized
      <4>2. seen[c].id \in Id /\ Exists(seen[c].id)
        BY <4>1 DEF IInv, SeenRows, SeenRow
      <4>3. \E r : row' = [row EXCEPT ![seen[c].id] = r]
        BY <1>2 DEF ReconnectUpdates, RmDeactivates
      <4>4. QED
        BY <4>2, <4>3
    <3>2. PICK r : row' = [row EXCEPT ![i] = r]
      BY <3>1
    <3>3. QED
      BY <3>1, <3>2, ConstantTypes DEF Exists, IInv, TableTypes
  <2>3. QED
    BY <2>1, <2>2
<1>3. CASE UNCHANGED row
  BY <1>3, VerbFlow, RowsUntouched DEF Exists, vars
<1>4. QED
  BY <1>1, <1>2, <1>3 DEF VerbStep, NotResolved, ConnectBegins, ReconnectBegins, RmResolves,
     FlowRejects, WriteFails, IdentityMismatch, RmCancelled, accountVars

\* What is remembered of a row stays true of it.
LEMMA RemembersKeeps ==
    ASSUME IInv, RowStep, NEW c \in Cli, Remembers(c)
    PROVE  /\ SeenRows'
           /\ \A d \in Cli : seen[d] # NoRow => seen'[d] # NoRow
<1> USE DEF IInv
<1>1. CASE seen' = seen
  <2> SUFFICES ASSUME NEW d \in Cli, seen[d] # NoRow
               PROVE  /\ row'[seen[d].id] # NoRow
                      /\ row'[seen[d].id].externalAccountId = seen[d].row.externalAccountId
    BY <1>1 DEF SeenRows, Exists
  <2>1. /\ seen[d].id \in Id /\ Exists(seen[d].id)
        /\ row[seen[d].id].externalAccountId = seen[d].row.externalAccountId
    BY DEF SeenRows, SeenRow
  <2>2. Kept(seen[d].id)
    BY <2>1 DEF RowStep
  <2>3. QED
    BY <2>1, <2>2 DEF Kept
<1>2. ASSUME UNCHANGED row, NEW i \in Id, Exists(i),
             seen' = [seen EXCEPT ![c] = [id |-> i, row |-> row[i]]]
      PROVE  SeenRows' /\ \A d \in Cli : seen[d] # NoRow => seen'[d] # NoRow
  <2> DEFINE s == [id |-> i, row |-> row[i]]
  <2>1. s \in SeenRow /\ s.id = i /\ s.row = row[i]
    BY <1>2 DEF TableTypes, Exists, SeenRow
  <2>2. s # NoRow
    BY <2>1, ConstantTypes
  <2> HIDE DEF s
  <2>3. /\ seen' \in [Cli -> SeenRow \cup {NoRow}]
        /\ seen'[c] = s /\ \A d \in Cli : d # c => seen'[d] = seen[d]
    BY <1>2, <2>1 DEF SeenRows, s
  <2>4. QED
    BY <1>2, <2>1, <2>2, <2>3 DEF SeenRows, Exists
<1>3. QED
  BY <1>1, <1>2 DEF Remembers

LEMMA InitInvariant == AccountsInit => IInv
<1> SUFFICES ASSUME AccountsInit PROVE IInv
  OBVIOUS
<1>1. FlowInv
  BY FlowInit DEF AccountsInit
<1>2. TableTypes /\ SeenRows /\ ResolvedFirst
  BY AccountsAssumption
     DEF AccountsInit, Init, TableTypes, SeenRows, ResolvedFirst, Outcomes, Id
<1>3. \A i \in Id : Exists(i) => i \in Seed /\ row[i] = Owned[i]
  BY DEF AccountsInit, Exists
<1>4. InsertsAtTheEnd
  BY <1>3, ConstantTypes DEF InsertsAtTheEnd
<1>5. Credentials
  BY <1>3, AccountsAssumption DEF Credentials
<1>6. QED
  BY <1>1, <1>2, <1>4, <1>5 DEF IInv

LEMMA VerbInvariant ==
    ASSUME IInv, NEW c \in Cli, VerbStep(c)
    PROVE  IInv'
<1> USE DEF IInv
<1>1. FlowInv'
  <2>1. CASE UNCHANGED vars
    BY <2>1 DEF vars, FlowInv, TypeOK, Listening, AnswerTypes, Accepted, PastRedirect
  <2>2. QED
    BY <2>1, VerbFlow, FlowStep
<1>2. RowStep /\ \A d \in Cli : Exists(d)' /\ ~Exists(d) => outcome'[d] # "none"
  BY VerbRows
<1>3. EndsOnce(c) /\ SeenRows' /\ \A d \in Cli : seen[d] # NoRow => seen'[d] # NoRow
  BY <1>2, VerbRemembers, RemembersKeeps
<1>4. /\ outcome' \in [Cli -> Outcomes]
      /\ \A d \in Cli : outcome[d] # "none" => outcome'[d] # "none"
  BY <1>3 DEF EndsOnce, TableTypes
<1>5. TableTypes'
  BY <1>2, <1>4 DEF TableTypes, RowStep
<1>6. InsertsAtTheEnd'
  BY <1>2, <1>4 DEF InsertsAtTheEnd
<1>7. ResolvedFirst'
  <2>1. CASE UNCHANGED vars
    BY <1>3, <2>1 DEF ResolvedFirst, vars
  <2>2. CASE Begin(c)
    <3>1. \A d \in Cli : d # c => at'[d] = at[d]
      BY <2>2 DEF Begin, GoesTo, FlowInv, TypeOK
    <3>2. VerbOf[c].name = "reconnect" => ReconnectBegins(c) \/ UNCHANGED vars
      BY DEF VerbStep, NotResolved, ConnectBegins, RmResolves, FlowRejects,
             WriteFails, ConnectInserts, IdentityMismatch, ReconnectUpdates, RmCancelled,
             RmDeactivates, Verb
    <3>3. ReconnectBegins(c) => seen'[c] # NoRow
      <4>1. ASSUME ReconnectBegins(c)
            PROVE  \E i \in Id : Exists(i) /\ seen'[c] = [id |-> i, row |-> row[i]]
        BY <4>1 DEF ReconnectBegins, Resolves, Matches, SeenRows
      <4>2. \A i \in Id : Exists(i) => [id |-> i, row |-> row[i]] \in SeenRow
        BY DEF TableTypes, Exists, SeenRow
      <4>3. QED
        BY <4>1, <4>2, ConstantTypes
    <3>4. QED
      BY <1>3, <2>1, <3>1, <3>2, <3>3 DEF ResolvedFirst
  <2>3. QED
    BY <2>1, <2>2, VerbFlow
<1>8. QED
  BY <1>1, <1>2, <1>3, <1>5, <1>6, <1>7 DEF RowStep

LEMMA FlowInvariant ==
    ASSUME IInv, UNCHANGED accountVars, (\E c \in Cli : Step(c)) \/ Outside
    PROVE  IInv' /\ RowStep
<1> USE DEF IInv
<1>1. FlowInv'
  BY FlowStep, RequestStep
<1>2. RowStep
  BY RowsUntouched, RequestStep DEF accountVars
<1>3. \A c \in Cli : at'[c] # "idle" => at[c] # "idle"
  <2>1. CASE Outside
    BY <2>1, RequestStep
  <2>2. ASSUME NEW c \in Cli, Step(c)
        PROVE  at[c] # "idle" /\ \A d \in Cli : d # c => at'[d] = at[d]
    BY <2>2 DEF FlowInv, TypeOK, Step, Binds, Authorizes, Opens, SpawnErrors, TimesOut,
                Received, Exchanges, Returns, Throws, GoesTo
  <2>3. QED
    BY <2>1, <2>2
<1>4. ResolvedFirst'
  BY <1>3 DEF ResolvedFirst, accountVars
<1>5. TableTypes' /\ SeenRows' /\ InsertsAtTheEnd'
  BY DEF accountVars, TableTypes, SeenRows, InsertsAtTheEnd, Exists
<1>6. QED
  BY <1>1, <1>2, <1>4, <1>5 DEF RowStep

LEMMA NextInvariant ==
    ASSUME IInv, [Next]_<<vars, accountVars>>
    PROVE  IInv' /\ RowStep
<1>1. ASSUME NEW c \in Cli, VerbStep(c) PROVE IInv' /\ RowStep
  BY <1>1, VerbInvariant, VerbRows
<1>2. CASE UNCHANGED accountVars /\ ((\E c \in Cli : Step(c)) \/ Outside)
  BY <1>2, FlowInvariant
<1>3. CASE UNCHANGED <<vars, accountVars>>
  <2>1. RowStep
    BY <1>3, RowsUntouched DEF accountVars, vars
  <2>2. IInv'
    BY <1>3 DEF IInv, vars, accountVars, FlowInv, TypeOK, Listening, AnswerTypes, Accepted,
       PastRedirect, TableTypes, SeenRows, ResolvedFirst, InsertsAtTheEnd, Credentials, Exists
  <2>3. QED
    BY <2>1, <2>2
<1>4. QED
  BY <1>1, <1>2, <1>3 DEF Next, Flow

LEMMA Invariant == Spec => []IInv
<1>1. IInv /\ [Next]_<<vars, accountVars>> => IInv'
  BY NextInvariant
<1>2. QED
  BY <1>1, InitInvariant, PTL DEF Spec

-----------------------------------------------------------------------------
(* The results.                                                             *)

\* However many flows there are, whatever ports they reuse and whoever answers which
\* page late, a code is exchanged only by the flow whose state the answer carries.
THEOREM FlowsOwnConsent == Spec => []OwnConsent
<1>1. IInv => OwnConsent
  BY DEF IInv, FlowInv, PastRedirect, Accepted, OwnConsent
<1>2. QED
  BY <1>1, Invariant, PTL

\* The credentials of a row open the mailbox the row is for, and come from a flow
\* that was authorized: also when reconnect writes long after it has read its row.
THEOREM AccountsOpenTheirMailbox == Spec => []CredentialsOpenTheirMailbox
<1>1. ASSUME IInv PROVE CredentialsOpenTheirMailbox
  <2>1. \A c \in Cli : seen[c] # NoRow => seen[c].id \in Id /\ seen[c].row \in Row
    BY <1>1 DEF IInv, SeenRows, SeenRow
  <2>2. AccountsTypeOK
    BY <1>1, <2>1 DEF IInv, FlowInv, TableTypes, Outcomes, AccountsTypeOK
  <2>3. QED
    BY <1>1, <2>2 DEF IInv, Credentials, CredentialsOpenTheirMailbox
<1>2. QED
  BY <1>1, Invariant, PTL

\* No verb undoes what another did to an account, and none touches what an account is
\* called or whom it is of.
THEOREM VerbsDoOnlyWhatTheyAreFor == Spec => OnlyWhatItIsFor
<1> DEFINE Only ==
      \A i \in Id : Exists(i) =>
        /\ row'[i] # NoRow
        /\ row'[i].externalAccountId = row[i].externalAccountId
        /\ row'[i].alias = row[i].alias
        /\ row'[i].isActive => row[i].isActive
        /\ row'[i].credentials = row[i].credentials \/ row'[i].isActive = row[i].isActive
<1>1. IInv /\ [Next]_<<vars, accountVars>> => [Only]_row
  BY NextInvariant DEF RowStep, Kept
<1>2. QED
  BY <1>1, Invariant, PTL DEF Spec, OnlyWhatItIsFor
===============================================================================
