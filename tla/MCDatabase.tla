-------------------------------- MODULE MCDatabase --------------------------------
\* The uses of libs/db side by side: the developer's commands, on the migrations of the
\* repository; the application's transactions, on the connections of its pool; and the
\* services that share the pool, which the launcher closes.  They share no state here,
\* and a behaviour is of one of them.
EXTENDS Migrations, TxContext, ServicesLauncher

VARIABLE part

all == <<commandVars, txVars, vars, part>>

Before(n) == {History[i] : i \in 1..n}
MCBranches == {Before(6), Before(5), {"rep-9", "rep-48"}}
MCMatches == {{"rep-50"}, {"rep-9", "rep-44"}}

\* The two registered services, of which the api has no stop(), and two consumers.
CONSTANTS api, worker, worker2

MCOrder == <<api, worker, worker2>>

MCInit ==
    /\ CommandsInit /\ TxInit /\ Init
    /\ part \in {"commands", "transactions", "services"}
    /\ part # "commands" => files = Before(6)
    /\ part # "services" => names = <<>>

\* A process that has ended stays so.
Ended == ~Up /\ UNCHANGED vars

MCNext ==
    \/ part = "commands" /\ CommandsNext /\ UNCHANGED <<txVars, vars, part>>
    \/ part = "transactions" /\ TxNext /\ UNCHANGED <<commandVars, vars, part>>
    \/ part = "services" /\ (Next \/ Ended) /\ UNCHANGED <<commandVars, txVars, part>>

\* The fairness of the launcher, of the behaviours that are about it.
LauncherFairness ==
    /\ WF_vars(part = "services" /\ Launch)
    /\ \A a \in App : WF_vars(part = "services" /\ WorkEnds(a))
    /\ \A s \in Signals : WF_vars(part = "services" /\ Shutdown(s))

MCSpec == MCInit /\ [][MCNext]_all /\ TxFairness /\ LauncherFairness
===================================================================================
