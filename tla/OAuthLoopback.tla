------------------------------ MODULE OAuthLoopback ------------------------------
(***************************************************************************)
(* runLoopbackFlow() of packages/backend/libs/adapters                     *)
(* (lib/oauth2/loopback.ts) with Gmail's authorize() and exchange(): each  *)
(* of several invocations of the command line binds a listener on a free   *)
(* loopback port, opens the browser on the consent page, and waits for the *)
(* redirect under a timeout.                                               *)
(*                                                                         *)
(* The state nonce and the PKCE pair of a flow are random: they are        *)
(* identified with the invocation.  A consent page stays open in the       *)
(* browser after its flow has ended, and may still be answered, or         *)
(* answered again; by then its port may belong to another flow.            *)
(***************************************************************************)
EXTENDS Naturals, FiniteSets

CONSTANTS Cli,            \* invocations, each with one flow
          Login,          \* mailboxes that the operator may consent for
          Port, NoPort,   \* the free ports of the loopback interface
          Nobody          \* no state, no login

ASSUME NobodyAssumption == Nobody \notin Cli \cup Login /\ NoPort \notin Port

VARIABLES
    at,       \* where each flow stands
    port,     \* the port its listener is bound to
    armed,    \* whether setExpectedState() has been called
    redirect, \* what awaitRedirect has resolved with
    pages     \* the consent pages open in the browser

vars == <<at, port, armed, redirect, pages>>

Ended == {"done", "threw", "crashed"}
Places == {"idle", "binding", "authorizing", "opening", "waiting", "exchanging", "profile"}
          \cup Ended

Unresolved == [kind |-> "none", state |-> Nobody, login |-> Nobody]

\* A request to a loopback port: the state it carries, and a code for a login, an
\* error, or neither.
Request == [state : Cli \cup {Nobody}, carries : {"code", "error", "neither"},
            login : Login \cup {Nobody}]

Init ==
    /\ at = [c \in Cli |-> "idle"]
    /\ port = [c \in Cli |-> NoPort]
    /\ armed = [c \in Cli |-> FALSE]
    /\ redirect = [c \in Cli |-> Unresolved]
    /\ pages = {}

-----------------------------------------------------------------------------
(* The flow.                                                                *)

GoesTo(c, from, to) == at[c] = from /\ at' = [at EXCEPT ![c] = to]

Begin(c) == GoesTo(c, "idle", "binding") /\ UNCHANGED <<port, armed, redirect, pages>>

\* The system picks a port nobody listens on.
Binds(c, p) ==
    /\ GoesTo(c, "binding", "authorizing")
    /\ \A d \in Cli : port[d] # p
    /\ port' = [port EXCEPT ![c] = p]
    /\ UNCHANGED <<armed, redirect, pages>>

\* The `finally`, and the end of a process.
Close(c) == port' = [port EXCEPT ![c] = NoPort]

\* listen() fails; authorize() has no configuration; the browser cannot be spawned;
\* the exchange of the code or the profile request fails.
Throws(c) ==
    /\ at[c] \in {"binding", "authorizing", "opening", "exchanging", "profile"}
    /\ at' = [at EXCEPT ![c] = "threw"]
    /\ Close(c)
    /\ UNCHANGED <<armed, redirect, pages>>

Authorizes(c) ==
    /\ GoesTo(c, "authorizing", "opening")
    /\ armed' = [armed EXCEPT ![c] = TRUE]
    /\ UNCHANGED <<port, redirect, pages>>

\* The browser shows the consent page, or the command prints nothing and shows none.
Opens(c, shown) ==
    /\ GoesTo(c, "opening", "waiting")
    /\ pages' = IF shown THEN pages \cup {[state |-> c, port |-> port[c]]} ELSE pages
    /\ UNCHANGED <<port, armed, redirect>>

\* spawn() reports a missing program by an 'error' event that nobody listens for:
\* the process dies, and no `finally` runs.
SpawnErrors(c) ==
    /\ GoesTo(c, "waiting", "crashed")
    /\ \A page \in pages : page.state # c
    /\ Close(c)
    /\ UNCHANGED <<armed, redirect, pages>>

-----------------------------------------------------------------------------
(* The listener.                                                            *)

\* Seeded fault: the state is not compared.
HandleRedirectAnyState(c, req) ==
    IF req.carries = "error" THEN "oauth_error"
    ELSE IF req.carries = "neither" THEN "missing_code" ELSE "ok"

HandleRedirect(c, req) ==
    IF ~armed[c] \/ req.state # c THEN "state_mismatch"
    ELSE IF req.carries = "error" THEN "oauth_error"
    ELSE IF req.carries = "neither" THEN "missing_code" ELSE "ok"

\* Every request is answered, and the first one settles awaitRedirect.
Requested(c, req) ==
    /\ port[c] # NoPort
    /\ redirect' = [redirect EXCEPT ![c] =
         IF @ # Unresolved THEN @
         ELSE [kind |-> HandleRedirect(c, req), state |-> req.state, login |-> req.login]]
    /\ UNCHANGED <<at, port, armed, pages>>

\* The operator consents as some login, refuses, or the page answers without either;
\* if nobody listens at the port any more nothing happens.
PageAnswers(page, carries, login) ==
    /\ page \in pages /\ (carries = "code" <=> login # Nobody)
    /\ \E c \in Cli :
         /\ port[c] = page.port
         /\ Requested(c, [state |-> page.state, carries |-> carries, login |-> login])

\* Another request that finds the listener: an icon, a path typed in.
StrayRequest(c) ==
    Requested(c, [state |-> Nobody, carries |-> "neither", login |-> Nobody])

-----------------------------------------------------------------------------
(* withTimeout() and what follows.                                          *)

\* Seeded fault: a flow whose browser opened is waited for without a limit.
TimesOutUnopened(c) ==
    /\ GoesTo(c, "waiting", "threw") /\ redirect[c] = Unresolved
    /\ \A page \in pages : page.state # c
    /\ Close(c)
    /\ UNCHANGED <<armed, redirect, pages>>

TimesOut(c) ==
    /\ GoesTo(c, "waiting", "threw") /\ redirect[c] = Unresolved
    /\ Close(c)
    /\ UNCHANGED <<armed, redirect, pages>>

Received(c) ==
    /\ redirect[c] # Unresolved
    /\ IF redirect[c].kind = "ok"
       THEN GoesTo(c, "waiting", "exchanging") /\ UNCHANGED port
       ELSE GoesTo(c, "waiting", "threw") /\ Close(c)
    /\ UNCHANGED <<armed, redirect, pages>>

\* exchangeCode(): the provider checks that the code was issued for this verifier.
Exchanges(c) ==
    /\ redirect[c].state = c
    /\ GoesTo(c, "exchanging", "profile")
    /\ UNCHANGED <<port, armed, redirect, pages>>

\* getGmailProfile() names the mailbox, and the flow returns.
Returns(c) ==
    /\ GoesTo(c, "profile", "done")
    /\ Close(c)
    /\ UNCHANGED <<armed, redirect, pages>>

-----------------------------------------------------------------------------

Step(c) ==
    \/ \E p \in Port : Binds(c, p)
    \/ Authorizes(c) \/ (\E shown \in BOOLEAN : Opens(c, shown)) \/ SpawnErrors(c)
    \/ TimesOut(c) \/ Received(c) \/ Exchanges(c) \/ Returns(c) \/ Throws(c)

Outside ==
    \/ \E page \in pages, carries \in {"code", "error", "neither"}, l \in Login \cup {Nobody} :
         PageAnswers(page, carries, l)
    \/ \E c \in Cli : StrayRequest(c)

-----------------------------------------------------------------------------
(* Properties.                                                              *)

\* The variables have their types.
TypeOK ==
    /\ at \in [Cli -> Places]
    /\ port \in [Cli -> Port \cup {NoPort}]
    /\ armed \in [Cli -> BOOLEAN]
    /\ \A c \in Cli : redirect[c] # Unresolved =>
         /\ redirect[c].kind \in {"ok", "state_mismatch", "oauth_error", "missing_code"}
         /\ redirect[c].state \in Cli \cup {Nobody} /\ redirect[c].login \in Login \cup {Nobody}
    /\ pages \subseteq [state : Cli, port : Port]

\* The code that a flow exchanges is one that the operator's consent gave to that
\* flow, although a page left over by an earlier flow answers at the same port.
OwnConsent ==
    \A c \in Cli : at[c] \in {"exchanging", "profile", "done"} =>
        redirect[c].kind = "ok" /\ redirect[c].state = c /\ redirect[c].login \in Login

\* Every flow ends, whether or not anybody answers its page, and gives back its port.
FlowEnds == \A c \in Cli : at[c] = "binding" ~> at[c] \in Ended /\ port[c] = NoPort
===============================================================================
