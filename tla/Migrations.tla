-------------------------------- MODULE Migrations --------------------------------
(***************************************************************************)
(* The `db` commands of packages/backend/apps/cli/src/db, given one after  *)
(* the other in a worktree whose branch changes: migrations create, up and *)
(* down, status, nuke, codegen, dump and restore.                          *)
(*                                                                         *)
(* The files of the branch, the rows of pgmigrations and the objects of    *)
(* the database are three records of one thing.  generated.ts would be a   *)
(* fourth: nothing here reads it, and it is left out.                      *)
(*                                                                         *)
(* What node-pg-migrate does is modelled from the options that             *)
(* buildRunnerOptions() passes: direction, and a file or a count.  It is   *)
(* not told to check the order of the files against that of pgmigrations,  *)
(* nor to run all of them in one transaction: each migration commits alone.*)
(***************************************************************************)
EXTENDS Schema

CONSTANTS Branches,  \* sets of migration files that a checkout leaves
          Matches    \* for each [match] that is given, the names it is a substring of

ASSUME BranchesAssumption == Branches \subseteq SUBSET Migration

VARIABLES
    files,    \* the migrations in MIGRATIONS_DIR
    database, \* the database (Schema)
    runs,     \* the names in pgmigrations, in the order they ran
    archive,  \* what `db dump` wrote
    doing,    \* the command that has something left to do
    matched,  \* a [match] has run since the schema was created (history)
    last      \* how the last migration command ended: a `statement` failed without [match]

commandVars == <<files, database, runs, archive, doing, matched, last>>

NoArchive == [db |-> Failed, runs |-> <<>>, matched |-> FALSE]

Ordered(names) == SelectSeq(History, LAMBDA m : m \in names)

CommandsInit ==
    /\ files \in Branches
    /\ database = Nothing /\ runs = <<>>
    /\ archive = NoArchive
    /\ doing = "none" /\ matched = FALSE /\ last = "none"

-----------------------------------------------------------------------------
(* The helpers of lib/migrations.ts.                                        *)

\* partitionStatus(): what `db status` shows.
Status(names, ran) ==
    [applied |-> SelectSeq(Ordered(names), LAMBDA m : m \in Range(ran)),
     pending |-> SelectSeq(Ordered(names), LAMBDA m : m \notin Range(ran)),
     orphaned |-> SelectSeq(ran, LAMBDA m : m \notin names)]

Infinity == Len(History)
NoTarget == [names |-> {}, count |-> 0]

\* Seeded fault: `up` has the default of `down`.
ResolvedToOne(direction, match, base) ==
    IF base THEN [names |-> Migration, count |-> Infinity]
    ELSE IF match = <<>> THEN [names |-> Migration, count |-> 1]
    ELSE IF Cardinality(match[1] \cap files) = 1
         THEN [names |-> match[1] \cap files, count |-> 1]
         ELSE NoTarget

\* resolveMigrationMatch(): match is empty, or holds the names that contain it.
Resolved(direction, match, base) ==
    IF base /\ direction = "down" THEN [names |-> Migration, count |-> Infinity]
    ELSE IF match = <<>>
         THEN [names |-> Migration, count |-> IF direction = "up" THEN Infinity ELSE 1]
    ELSE IF Cardinality(match[1] \cap files) = 1
         THEN [names |-> match[1] \cap files, count |-> 1]
         ELSE NoTarget

-----------------------------------------------------------------------------
(* node-pg-migrate.                                                         *)

First(n, seq) == SubSeq(seq, 1, IF n < Len(seq) THEN n ELSE Len(seq))

ToRun(direction, target) ==
    IF direction = "up"
    THEN First(target.count, SelectSeq(Ordered(files \cap target.names),
                                       LAMBDA m : m \notin Range(runs)))
    ELSE First(target.count, Reverse(SelectSeq(runs, LAMBDA m : m \in target.names)))

\* To undo a migration it needs its file.
Refuses(direction, names) == direction = "down" /\ ~(Range(names) \subseteq files)

\* The databases that they make one after the other, each in a transaction of its own,
\* which writes its row of pgmigrations too.
Made(direction, names) ==
    FoldLeft(LAMBDA made, m : Append(made, Applied(Last(made), direction, m)),
             <<database>>, names)

Recorded(direction, names) ==
    IF direction = "up" THEN runs \o names
    ELSE SelectSeq(runs, LAMBDA m : m \notin Range(names))

-----------------------------------------------------------------------------
(* The commands.                                                            *)

Owners == {"org", "user", "provider_account"}
Mail == {"message_raw", "message"}
Synced == Mail \cup {"sync_job", "sync_task", "sync_task_event", "message_participant",
                     "job_queue"}

Idle == doing = "none"

Ends(how) == last' = how /\ UNCHANGED <<files, database, runs, archive, doing, matched>>

\* runMigrateUp() and runMigrateDown(), until the codegen, which is not reached when after
\* k migrations the next one fails, or the process ends.
Migrate(direction, match, base) ==
    LET target == Resolved(direction, match, base)
        names == ToRun(direction, target)
        made == Made(direction, names)
    IN /\ Idle /\ ~(base /\ match # <<>>)
       /\ IF target = NoTarget \/ ~database.ok \/ Refuses(direction, names) THEN Ends("refused")
          ELSE \E k \in 0..Len(names) :
                 /\ made[k + 1].ok
                 /\ database' = made[k + 1] /\ runs' = Recorded(direction, First(k, names))
                 /\ matched' = (matched \/ (match # <<>> /\ k > 0))
                 /\ UNCHANGED <<files, archive>>
                 /\ \/ /\ k = Len(names)
                       /\ doing' = IF match # <<>> THEN "matched"
                                   ELSE IF base THEN "base" ELSE direction
                       /\ last' = "running"
                    \/ /\ k < Len(names) /\ ~made[k + 2].ok
                       /\ last' = IF match = <<>> THEN "statement" ELSE "refused"
                       /\ UNCHANGED doing
                    \/ 0 < k /\ k < Len(names) /\ last' = "none" /\ UNCHANGED doing

\* nukeDatabase() drops the schema and creates an empty one, in two statements.
NukeDrops ==
    /\ Idle
    /\ database' = Failed /\ runs' = <<>> /\ doing' = "create" /\ last' = "running"
    /\ matched' = FALSE
    /\ UNCHANGED <<files, archive>>

NukeCreates ==
    /\ doing = "create"
    /\ database' = Nothing /\ doing' = "codegen"
    /\ UNCHANGED <<files, runs, archive, matched, last>>

CodegenBegins ==
    /\ Idle
    /\ doing' = "codegen" /\ last' = "running"
    /\ UNCHANGED <<files, database, runs, archive, matched>>

\* runCodegen(), of itself and after up, down and nuke.
Codegen ==
    /\ doing \notin {"none", "create", "restore"}
    /\ doing' = "none" /\ last' = "ok"
    /\ UNCHANGED <<files, database, runs, archive, matched>>

\* The command is interrupted, or what it shells out to fails.
Crash ==
    /\ ~Idle
    /\ doing' = "none" /\ last' = "none"
    /\ UNCHANGED <<files, database, runs, archive, matched>>

\* Bounds: one database is dumped in a behaviour, which has mail and all migrations.
Dump ==
    /\ Idle /\ database.rows \cap Mail # {} /\ runs = History /\ archive = NoArchive
    /\ archive' = [db |-> database, runs |-> runs, matched |-> matched]
    /\ UNCHANGED <<files, database, runs, doing, matched, last>>

\* pg_restore --clean drops what the archive has and creates it again, statement by
\* statement.  Of a database that has objects the archive lacks nothing is said, nor of
\* what half a restore leaves, but that it is not what the archive has.
RestoreBegins ==
    /\ Idle /\ archive.db.ok /\ database.ok
    /\ database.types \subseteq archive.db.types
    /\ DOMAIN database.tables \subseteq DOMAIN archive.db.tables
    /\ database' = Failed /\ runs' = <<>> /\ doing' = "restore" /\ last' = "none"
    /\ UNCHANGED <<files, archive, matched>>

RestoreEnds ==
    /\ doing = "restore"
    /\ database' = archive.db /\ runs' = archive.runs /\ matched' = archive.matched
    /\ doing' = "none"
    /\ UNCHANGED <<files, archive, last>>

-----------------------------------------------------------------------------
(* Around them.                                                             *)

\* runMigrateCreate(): the name has the time, and is the last of the files, which its
\* author writes for a branch that has all before it.
Create(m) ==
    /\ Idle /\ m \notin files /\ IsPrefix(Append(Ordered(files), m), History)
    /\ files' = files \cup {m} /\ last' = "none"
    /\ UNCHANGED <<database, runs, archive, doing, matched>>

\* git leaves the files of a branch.
Checkout(branch) ==
    /\ Idle /\ branch # files
    /\ files' = branch /\ last' = "none"
    /\ UNCHANGED <<database, runs, archive, doing, matched>>

\* The application, where its code and the schema are of one branch.
Fills(rows) ==
    /\ Idle /\ runs # <<>> /\ runs = Ordered(files)
    /\ ~(rows \subseteq database.rows)
    /\ database' = [database EXCEPT !.rows = @ \cup rows]
    /\ UNCHANGED <<files, runs, archive, doing, matched, last>>

Connects == Fills(Owners)
Syncs ==
    /\ files = Migration /\ Owners \subseteq database.rows
    /\ \E attached \in {{}, {"attachment"}} : Fills(Synced \cup attached)

-----------------------------------------------------------------------------

Given == {<<>>} \cup {<<match>> : match \in Matches}

CommandsNext ==
    \/ \E match \in Given, direction \in {"up", "down"}, base \in BOOLEAN :
           (base => direction = "down") /\ Migrate(direction, match, base)
    \/ NukeDrops \/ NukeCreates \/ CodegenBegins \/ Codegen \/ Crash
    \/ Dump \/ RestoreBegins \/ RestoreEnds
    \/ \E m \in Migration : Create(m)
    \/ \E branch \in Branches : Checkout(branch)
    \/ Connects \/ Syncs

CommandsSpec == CommandsInit /\ [][CommandsNext]_commandVars

-----------------------------------------------------------------------------
(* Properties.                                                              *)

\* The variables have their types; where there is no public schema there is no
\* pgmigrations either, which lists nothing but migrations.
CommandsTypeOK ==
    /\ files \subseteq Migration /\ runs \in Seq(Migration)
    /\ database.rows \subseteq DOMAIN database.tables
    /\ ~database.ok => database = Failed /\ runs = <<>>
    /\ doing \in {"none", "up", "down", "base", "matched", "create", "codegen", "restore"}
    /\ matched \in BOOLEAN
    /\ last \in {"none", "running", "ok", "refused", "statement"}

\* What up() makes of an empty database, for the migrations in each order.
Orders == UNION {SetToSeqs(set) : set \in SUBSET Migration}
Replayed == [order \in Orders |-> Replay(order)]

\* down() restores what was there before up(): however up and down have been run, cut
\* short or failed, the database has the objects that the migrations of pgmigrations make
\* of an empty one in the order they have run.  They can make it, as long as none was
\* picked by a [match].
SchemaIsReplay ==
    LET replayed == Replayed[runs]
    IN /\ CommandsTypeOK
       /\ database.ok /\ replayed.ok => Described(database) = Described(replayed)
       /\ matched \/ replayed.ok

\* Without mail every up and every down runs to its end, on whatever branch and after
\* whatever was cut short, where the migrations of pgmigrations make a database.
FailsOnlyWithMail ==
    last = "statement" => database.rows \cap Mail # {} \/ ~Replayed[runs].ok

\* Stored mail is lost to a nuke, a restore or a [match] only: every other up and down
\* keeps it, for rep-50 has no value for the columns its down() makes and fails, although
\* what ran before it in the same command has been committed.
StoredMailKept ==
    [][~(database.rows \cap Mail \subseteq database'.rows) =>
           doing' \in {"create", "restore", "matched"}]_commandVars

\* `db status` follows: a successful up leaves nothing pending, whatever the order; down
\* makes one migration pending, the last that ran; neither makes an orphan or takes one
\* away.  down --base leaves nothing applied and nothing orphaned.
StatusFollows ==
    [][LET before == Status(files, runs)
           after == Status(files, runs')
       IN Idle =>
           /\ doing' = "up" => after.pending = <<>> /\ after.orphaned = before.orphaned
           /\ doing' = "down" /\ runs # <<>> =>
                  /\ Range(after.pending) = Range(before.pending) \cup {Last(runs)}
                  /\ after.orphaned = before.orphaned
           /\ doing' = "base" => after.applied = <<>> /\ after.orphaned = <<>>]_commandVars
===================================================================================
