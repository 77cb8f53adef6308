------------------------------- MODULE RunnableApp -------------------------------
(***************************************************************************)
(* The launch contract of packages/backend/libs/runtime/src/application.ts *)
(* that every deployable app implements: start() resolves when the app is  *)
(* ready, and it works until it is stopped; stop() is a graceful drain.    *)
(*                                                                         *)
(* What a caller may rely on: an app that has been told to stop takes up   *)
(* no more work, and stop() resolves when the work in hand is done.  Only  *)
(* when the app has failed does it settle (it rejects) before that.        *)
(*                                                                         *)
(* QueueConsumer implements the contract, and ServicesLauncher needs no    *)
(* more of the apps that it runs.                                          *)
(***************************************************************************)
EXTENDS Naturals

CONSTANT App

VARIABLES app,    \* whether each app has been started and stopped, has work in hand,
                  \* and has failed
          deaths  \* grows when a process dies, and with it the app

State == [life : {"down", "up", "stopping"}, busy : BOOLEAN, broken : BOOLEAN]
Down == [life |-> "down", busy |-> FALSE, broken |-> FALSE]

Init == app = [a \in App |-> Down]

Becomes(a, state) == app' = [app EXCEPT ![a] = state]

Start(a) ==
    /\ app[a] = Down
    /\ Becomes(a, [Down EXCEPT !.life = "up"])

TakesWork(a) ==
    /\ app[a].life = "up"
    /\ Becomes(a, [app[a] EXCEPT !.busy = TRUE])

\* The work in hand ends, the app fails, or both: a job whose failure cannot be written
\* down ends the stream.
GoesOn(a) ==
    /\ app[a].life # "down"
    /\ \E busy \in {FALSE, app[a].busy}, broken \in {TRUE, app[a].broken} :
         Becomes(a, [app[a] EXCEPT !.busy = busy, !.broken = broken])

Stop(a) ==
    /\ app[a].life = "up"
    /\ Becomes(a, [app[a] EXCEPT !.life = "stopping"])

StopReturns(a) ==
    /\ app[a].life = "stopping"
    /\ ~app[a].busy \/ app[a].broken
    /\ Becomes(a, Down)

Dies(a) ==
    /\ deaths' > deaths
    /\ Becomes(a, Down)

Next ==
    \E a \in App : Start(a) \/ TakesWork(a) \/ GoesOn(a) \/ Stop(a) \/ StopReturns(a) \/ Dies(a)

Spec == Init /\ [][Next]_app
================================================================================
