------------------------------- MODULE MCAccounts -------------------------------
\* One account there is, connected by s1 for l1 with an alias, and invocations that
\* name it, or connect what another of them may be connecting.
EXTENDS Accounts

CONSTANTS c1, c2, c3, s1, l1, a1

OneAccount ==
    [i \in Seed |-> [externalAccountId |-> l1, alias |-> a1, isActive |-> TRUE,
                     credentials |-> [opens |-> l1, from |-> s1]]]

Verbs ==
    [c \in Cli |->
       CASE c = c1 -> [name |-> "connect", alias |-> a1]
         [] c = c2 -> [name |-> "reconnect", token |-> [by |-> "alias", value |-> a1]]
         [] c = c3 -> [name |-> "rm", token |-> [by |-> "externalAccountId", value |-> l1]]]
===============================================================================
