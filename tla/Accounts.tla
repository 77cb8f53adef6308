--------------------------------- MODULE Accounts ---------------------------------
(***************************************************************************)
(* The provider accounts of an org and the verbs that change them          *)
(* (packages/backend/apps/cli/src/accounts and libs/accounts): connect     *)
(* authorizes and inserts, reconnect resolves a row, authorizes and        *)
(* replaces its credentials, rm resolves, asks and deactivates.  Each is   *)
(* one invocation of the command line; the operator may run several at     *)
(* once.  The authorization is that of OAuthLoopback.                      *)
(***************************************************************************)
EXTENDS OAuthLoopback

CONSTANTS Seed,      \* the ids of the accounts there are at the beginning
          Owned,     \* the row of each of them
          Alias, NoAlias, NoRow,
          VerbOf     \* the verb of each invocation, with what it is given

VARIABLES row,       \* the table: of each id its row, or NoRow
          seen,      \* the row a verb has resolved, and read before its OAuth
          outcome    \* how the verb ended

accountVars == <<row, seen, outcome>>

\* An account has the id of the invocation that inserted it.
Id == Seed \cup Cli

\* credentials: the mailbox they open, and who wrote them.
Row == [externalAccountId : Login, alias : Alias \cup {NoAlias}, isActive : BOOLEAN,
        credentials : [opens : Login, from : Id]]

\* What a verb keeps of the account it has resolved.
SeenRow == [id : Id, row : Row]

\* What an account is named by: its id, provider:externalAccountId, or an alias.
Token == [by : {"id"}, value : Id] \cup [by : {"externalAccountId"}, value : Login]
         \cup [by : {"alias"}, value : Alias]

\* The accounts there are were left by earlier verbs: each with the credentials of
\* its own mailbox, from no invocation that is still to come.
ASSUME AccountsAssumption ==
    /\ Seed \cap Cli = {} /\ Owned \in [Seed -> Row] /\ NoRow \notin Row \cup SeenRow
    /\ \A i \in Seed :
         /\ Owned[i].credentials.opens = Owned[i].externalAccountId
         /\ Owned[i].credentials.from \in Seed
    /\ \A i, j \in Seed :
         i # j => Owned[i].externalAccountId # Owned[j].externalAccountId
    /\ VerbOf \in [Cli -> [name : {"connect"}, alias : Alias \cup {NoAlias}]
                          \cup [name : {"reconnect", "rm"}, token : Token]]

Exists(i) == row[i] # NoRow
Verb(c, name) == outcome[c] = "none" /\ VerbOf[c].name = name
Finish(c, how) == outcome' = [outcome EXCEPT ![c] = how]

AccountsInit ==
    /\ Init
    /\ row = [i \in Id |-> IF i \in Seed THEN Owned[i] ELSE NoRow]
    /\ seen = [c \in Cli |-> NoRow]
    /\ outcome = [c \in Cli |-> "none"]

-----------------------------------------------------------------------------
(* resolveAccount().                                                        *)

Matches(token) ==
    {i \in Id : Exists(i) /\
        CASE token.by = "id" -> i = token.value
          [] token.by = "externalAccountId" -> row[i].externalAccountId = token.value
          [] token.by = "alias" -> row[i].alias = token.value}

NotResolved(c) ==
    /\ outcome[c] = "none" /\ VerbOf[c].name # "connect" /\ seen[c] = NoRow
    /\ LET n == Cardinality(Matches(VerbOf[c].token))
       IN n # 1 /\ Finish(c, IF n = 0 THEN "not found" ELSE "ambiguous")
    /\ UNCHANGED <<row, seen, vars>>

\* The row as it is now, kept under its id.
Resolves(c) ==
    /\ seen[c] = NoRow /\ Cardinality(Matches(VerbOf[c].token)) = 1
    /\ \E i \in Matches(VerbOf[c].token) :
         seen' = [seen EXCEPT ![c] = [id |-> i, row |-> row[i]]]

-----------------------------------------------------------------------------
(* The verbs.                                                               *)

ConnectBegins(c) ==
    /\ Verb(c, "connect") /\ Begin(c)
    /\ UNCHANGED accountVars

ReconnectBegins(c) ==
    /\ Verb(c, "reconnect") /\ Resolves(c) /\ Begin(c)
    /\ UNCHANGED <<row, outcome>>

\* The flow rejects: the verb is over.
FlowRejects(c) ==
    /\ outcome[c] = "none" /\ at[c] \in {"threw", "crashed"}
    /\ Finish(c, "no authorization")
    /\ UNCHANGED <<row, seen, vars>>

Authorized(c) == at[c] = "done" /\ outcome[c] = "none"
Fresh(c) == [opens |-> redirect[c].login, from |-> c]

\* There is no encryption key, or the statement fails.
WriteFails(c) ==
    /\ Authorized(c) \/ (Verb(c, "rm") /\ seen[c] # NoRow)
    /\ Finish(c, "failed")
    /\ UNCHANGED <<row, seen, vars>>

\* withDbErrorClassification() is around the service's function, whose catch
\* therefore sees the driver's error and not the class it looks for.
Classified(err) == IF err = "23505" THEN "DBUniqueViolationError" ELSE err
CaughtByService(err) ==
    IF err = "DBUniqueViolationError" THEN "DuplicateProviderAccountError" ELSE err
UniqueViolation == Classified(CaughtByService("23505"))

Taken(c) == \E i \in Id : Exists(i) /\ row[i].externalAccountId = redirect[c].login

\* addProviderAccount().
ConnectInserts(c) ==
    /\ Verb(c, "connect") /\ Authorized(c)
    /\ IF Taken(c) THEN Finish(c, UniqueViolation) /\ UNCHANGED row
       ELSE /\ Finish(c, "ok")
            /\ row' = [row EXCEPT ![c] =
                 [externalAccountId |-> redirect[c].login, alias |-> VerbOf[c].alias,
                  isActive |-> TRUE, credentials |-> Fresh(c)]]
    /\ UNCHANGED <<seen, vars>>

\* Seeded fault: the login is not compared.
AnyIdentity(c) == TRUE

\* The identity guard.
SameIdentity(c) == redirect[c].login = seen[c].row.externalAccountId

IdentityMismatch(c) ==
    /\ Verb(c, "reconnect") /\ Authorized(c) /\ ~SameIdentity(c)
    /\ Finish(c, "mismatch")
    /\ UNCHANGED <<row, seen, vars>>

\* Seeded fault: the row that was read is written back, with the new credentials.
WithSeen(c) == [seen[c].row EXCEPT !.credentials = Fresh(c)]

\* updateProviderAccountCredentials(): by id, one column.
WithCredentials(c) == [row[seen[c].id] EXCEPT !.credentials = Fresh(c)]

ReconnectUpdates(c) ==
    /\ Verb(c, "reconnect") /\ Authorized(c) /\ SameIdentity(c)
    /\ row' = [row EXCEPT ![seen[c].id] = WithCredentials(c)]
    /\ Finish(c, "ok")
    /\ UNCHANGED <<seen, vars>>

\* rm has found its account, and asks.
RmResolves(c) ==
    /\ Verb(c, "rm") /\ Resolves(c)
    /\ UNCHANGED <<row, outcome, vars>>

RmCancelled(c) ==
    /\ Verb(c, "rm") /\ seen[c] # NoRow
    /\ Finish(c, "cancelled")
    /\ UNCHANGED <<row, seen, vars>>

\* deactivateProviderAccount(), also of an account deactivated meanwhile.
RmDeactivates(c) ==
    /\ Verb(c, "rm") /\ seen[c] # NoRow
    /\ row' = [row EXCEPT ![seen[c].id].isActive = FALSE]
    /\ Finish(c, "ok")
    /\ UNCHANGED <<seen, vars>>

-----------------------------------------------------------------------------

Flow(c) == Step(c) /\ UNCHANGED accountVars

VerbStep(c) ==
    \/ NotResolved(c) \/ ConnectBegins(c) \/ ReconnectBegins(c) \/ RmResolves(c)
    \/ FlowRejects(c) \/ WriteFails(c)
    \/ ConnectInserts(c) \/ IdentityMismatch(c) \/ ReconnectUpdates(c)
    \/ RmCancelled(c) \/ RmDeactivates(c)

Next ==
    \/ \E c \in Cli : Flow(c) \/ VerbStep(c)
    \/ Outside /\ UNCHANGED accountVars

Spec == AccountsInit /\ [][Next]_<<vars, accountVars>>

\* Google answers, timers expire and promises settle; the operator need not act.
FairSpec == Spec /\ \A c \in Cli : WF_<<vars, accountVars>>(Flow(c))

-----------------------------------------------------------------------------
(* Properties.                                                              *)

\* The variables have their types, also those of the flow.
AccountsTypeOK ==
    /\ TypeOK
    /\ row \in [Id -> Row \cup {NoRow}]
    /\ \A c \in Cli : seen[c] # NoRow => seen[c].id \in Id /\ seen[c].row \in Row
    /\ outcome \in [Cli -> {"none", "ok", "not found", "ambiguous", "no authorization",
                            "failed", "mismatch", "cancelled",
                            "DBUniqueViolationError", "DuplicateProviderAccountError"}]

\* The credentials of an account open the mailbox the account is for, whoever
\* connected, reconnected or consented for what, in whatever order; and they come
\* from no flow that was refused, timed out or crashed.
CredentialsOpenTheirMailbox ==
    /\ AccountsTypeOK
    /\ \A i \in Id : Exists(i) =>
         /\ row[i].credentials.opens = row[i].externalAccountId
         /\ row[i].credentials.from \in Cli => at[row[i].credentials.from] = "done"

\* A verb changes nothing but what it is for: although reconnect writes minutes
\* after it has read its account, it does not undo what other verbs did to the
\* account meanwhile, and no verb touches owner, alias or identity.
OnlyWhatItIsFor ==
    [][\A i \in Id : Exists(i) =>
         /\ row'[i] # NoRow
         /\ row'[i].externalAccountId = row[i].externalAccountId
         /\ row'[i].alias = row[i].alias
         /\ row'[i].isActive => row[i].isActive
         /\ row'[i].credentials = row[i].credentials \/ row'[i].isActive = row[i].isActive]_row

\* service.ts catches a unique violation to report a duplicate, and the runbook says
\* that a second connect of a mailbox is answered so.
DuplicateReported == \A c \in Cli : outcome[c] # "DBUniqueViolationError"
===============================================================================
