----------------------------- MODULE ServicesLauncher -----------------------------
(***************************************************************************)
(* `services run` (packages/backend/apps/cli/src/services/handler.ts, with *)
(* the pool of libs/db/src/runtime.ts and the end of apps/cli/src/index.ts)*)
(* boots several apps on one event loop, waits for a signal, stops them    *)
(* one after the other and closes the pool they share.                     *)
(*                                                                         *)
(* An app is what RunnableApp promises: start() resolves when it is ready, *)
(* it works until it is stopped, and stop(), where it has one, resolves    *)
(* when its work in hand is done (QueueConsumer) or rejects when it failed.*)
(***************************************************************************)
EXTENDS Naturals, Sequences

CONSTANTS App,        \* the registered services
          Order,      \* serviceNames()
          Stoppable,  \* the apps that have a stop()
          Signals     \* SIGINT and SIGTERM

ASSUME LauncherAssumption ==
    /\ Order \in Seq(App) /\ \A a \in App : \E i \in DOMAIN Order : Order[i] = a
    /\ Stoppable \subseteq App

VARIABLES
    names,     \* the services to run, none if the name is unknown
    boot,      \* how far each app has come
    launcher,  \* where runServicesRun() stands
    process,   \* whether the process lives, and how it ended
    handlers,  \* signals with a handler
    drain,     \* drainAndClose() of each signal: the app whose stop() it awaits
    stopping, busy, broken,  \* apps whose stop() was called, with work in hand, failed
    db         \* the pool: absent, open, or being destroyed

appVars == <<stopping, busy, broken>>
vars == <<names, boot, launcher, process, handlers, drain, appVars, db>>

Closing == Len(names) + 1
Rejected == Len(names) + 2
Drains == {s \in Signals : drain[s] # 0}
Up == process = "up"

Init ==
    /\ names \in {Order, <<>>} \cup {<<a>> : a \in App}
    /\ boot = [a \in App |-> "no"] /\ launcher = "selecting"
    /\ process = "up" /\ handlers = {}
    /\ drain = [s \in Signals |-> 0]
    /\ stopping = {} /\ busy = {} /\ broken = {}
    /\ db = "absent"

-----------------------------------------------------------------------------
(* Boot.                                                                    *)

\* selectServices(), and the start of Promise.all.
Selects ==
    /\ Up /\ launcher = "selecting"
    /\ launcher' = IF names = <<>> THEN "failed" ELSE "booting"
    /\ boot' = [a \in App |-> IF \E i \in DOMAIN names : names[i] = a THEN "starting" ELSE "no"]
    /\ UNCHANGED <<names, process, handlers, drain, appVars, db>>

\* bootService(): start() resolves or rejects, also after another one has.
Starts(a, how) ==
    /\ Up /\ boot[a] = "starting"
    /\ boot' = [boot EXCEPT ![a] = how]
    /\ UNCHANGED <<names, launcher, process, handlers, drain, appVars, db>>

AllReady ==
    /\ Up /\ launcher = "booting"
    /\ \A i \in DOMAIN names : boot[names[i]] = "ready"
    /\ launcher' = "waiting" /\ handlers' = Signals
    /\ UNCHANGED <<names, boot, process, drain, appVars, db>>

BootFails ==
    /\ Up /\ launcher = "booting"
    /\ \E a \in App : boot[a] = "failed"
    /\ launcher' = "failed"
    /\ UNCHANGED <<names, boot, process, handlers, drain, appVars, db>>

-----------------------------------------------------------------------------
(* The apps.                                                                *)

\* getDb() opens a pool where there is none; a query on a destroyed one fails.
TakesWork(a) ==
    /\ Up /\ boot[a] = "ready" /\ a \notin stopping
    /\ db # "destroying"
    /\ busy' = busy \cup {a} /\ db' = "open"
    /\ UNCHANGED <<names, boot, launcher, process, handlers, drain, stopping, broken>>

WorkEnds(a) ==
    /\ Up /\ a \in busy
    /\ busy' = busy \ {a}
    /\ UNCHANGED <<names, boot, launcher, process, handlers, drain, stopping, broken, db>>

\* The app's stream fails, with its work or beside it: a consumer goes on until it has
\* drained.
Breaks(a) ==
    /\ Up /\ a \in Stoppable /\ boot[a] = "ready" /\ a \notin broken
    /\ broken' = broken \cup {a} /\ busy' \in {busy, busy \ {a}}
    /\ UNCHANGED <<names, boot, launcher, process, handlers, drain, stopping, db>>

-----------------------------------------------------------------------------
(* Signals and shutdown.                                                    *)

\* drainAndClose() reaches the i-th app, or the pool.
Reaches(s, i) ==
    /\ drain' = [drain EXCEPT ![s] = i]
    /\ stopping' = IF i \in DOMAIN names THEN stopping \cup ({names[i]} \cap Stoppable)
                   ELSE stopping
    /\ db' = IF i = Closing /\ db = "open" THEN "destroying" ELSE db

\* process.once: the first signal of a kind runs shutdown(), also beside another
\* kind's; one without a handler kills.
Signalled(s) ==
    /\ Up
    /\ IF s \in handlers
       THEN handlers' = handlers \ {s} /\ Reaches(s, 1) /\ UNCHANGED process
       ELSE process' = "killed" /\ UNCHANGED <<handlers, drain, stopping, db>>
    /\ UNCHANGED <<names, boot, launcher, busy, broken>>

\* Seeded fault: stop() is not awaited.
StoppedAtOnce(a) == TRUE

Stopped(a) == a \in Stoppable => a \notin busy \cup broken

StopReturns(s) ==
    /\ Up /\ drain[s] \in DOMAIN names /\ Stopped(names[drain[s]])
    /\ Reaches(s, drain[s] + 1)
    /\ UNCHANGED <<names, boot, launcher, process, handlers, busy, broken>>

\* A stop() that rejects ends shutdown(): an unhandled rejection, which ends the
\* process or not, as the runtime is set.
StopRejects(s) ==
    /\ Up /\ drain[s] \in DOMAIN names /\ names[drain[s]] \in Stoppable \cap broken
    /\ drain' = [drain EXCEPT ![s] = Rejected]
    /\ process' \in {"up", "killed"}
    /\ UNCHANGED <<names, boot, launcher, handlers, appVars, db>>

\* Seeded fault: the process is not told to exit.
ExitsByItself(s) ==
    /\ Up /\ drain[s] = Closing
    /\ db' = "absent"
    /\ process' = IF \A a \in App : boot[a] # "ready" THEN "exited" ELSE "up"
    /\ UNCHANGED <<names, boot, launcher, handlers, drain, appVars>>

\* closeDb() resolves, and process.exit(0).
Exits(s) ==
    /\ Up /\ drain[s] = Closing
    /\ db' = "absent" /\ process' = "exited"
    /\ UNCHANGED <<names, boot, launcher, handlers, drain, appVars>>

-----------------------------------------------------------------------------
(* The end of index.ts, which a boot that failed reaches.                   *)

EndReached == launcher = "failed"

FinallyCloses ==
    /\ Up /\ EndReached /\ db = "open"
    /\ db' = "destroying"
    /\ UNCHANGED <<names, boot, launcher, process, handlers, drain, appVars>>

\* closeDb() resolves; an app that works on will open another pool.
FinallyClosed ==
    /\ Up /\ launcher = "failed" /\ db = "destroying"
    /\ db' = "absent"
    /\ UNCHANGED <<names, boot, launcher, process, handlers, drain, appVars>>

\* Nothing keeps the event loop alive.
EndsByItself ==
    /\ Up /\ launcher = "failed" /\ db = "absent"
    /\ \A a \in App : boot[a] \in {"no", "failed"}
    /\ process' = "exited"
    /\ UNCHANGED <<names, boot, launcher, handlers, drain, appVars, db>>

-----------------------------------------------------------------------------

Launch ==
    \/ Selects \/ AllReady \/ BootFails \/ FinallyCloses \/ FinallyClosed \/ EndsByItself
    \/ \E a \in App, how \in {"ready", "failed"} : Starts(a, how)

Shutdown(s) == StopReturns(s) \/ StopRejects(s) \/ Exits(s)

Next ==
    \/ Launch
    \/ \E a \in App : TakesWork(a) \/ WorkEnds(a) \/ Breaks(a)
    \/ \E s \in Signals : Signalled(s) \/ Shutdown(s)

Spec == Init /\ [][Next]_vars

\* Promises settle, and an app finishes the work it has in hand.
FairSpec ==
    /\ Spec
    /\ WF_vars(Launch)
    /\ \A a \in App : WF_vars(WorkEnds(a))
    /\ \A s \in Signals : WF_vars(Shutdown(s))

-----------------------------------------------------------------------------
(* Properties.                                                              *)

\* The variables have their types; stop() is called only where there is one.
TypeOK ==
    /\ boot \in [App -> {"no", "starting", "ready", "failed"}]
    /\ launcher \in {"selecting", "booting", "waiting", "failed"}
    /\ process \in {"up", "exited", "killed"}
    /\ handlers \subseteq Signals
    /\ drain \in [Signals -> 0..Rejected]
    /\ stopping \subseteq Stoppable /\ busy \subseteq App /\ broken \subseteq Stoppable
    /\ db \in {"absent", "open", "destroying"}

\* The pool of services that run is closed, and the process exits, only upon a signal
\* (the command's own `finally` is not reached) and when every app with a stop() has
\* finished its work, although two signals run two shutdowns at once.
DrainedFirst ==
    /\ TypeOK
    /\ launcher = "waiting" /\ (db = "destroying" \/ process = "exited") =>
         Drains # {} /\ busy \cap Stoppable = {}

\* To the launcher an app is what RunnableApp promises, and no more: it is told to stop
\* only once its start() has resolved, and what it may do then is the contract's.
AppLife(a) == IF boot[a] # "ready" THEN "down" ELSE IF a \in stopping THEN "stopping" ELSE "up"

Apps ==
    [a \in App |-> [life |-> AppLife(a), busy |-> a \in busy, broken |-> a \in broken]]

Contract == INSTANCE RunnableApp WITH app <- Apps, deaths <- 0

RunsApps == Contract!Spec

\* A signal ends the process, unless a stop() rejects.
ShutdownEnds == Drains # {} ~> ~Up \/ \E s \in Signals : drain[s] = Rejected
===============================================================================
