# Repel: a TLA+ verification project

Repel pulls a user's mail (and later calls, texts, …) into Postgres. A command
line connects accounts and creates *sync jobs*; a durable queue hands them to
workers; a worker drives a provider adapter, which lists and fetches messages with
bounded concurrency, and appends what happened to an event log from which the
status is derived. Developers change the database's schema with the same command
line.

What can go wrong is between the steps: promises that settle in an unexpected
order, several worker processes over one table, statements whose reply is lost,
processes that stop or die between two statements, a mailbox that changes while it
is listed, an operator who takes minutes to consent, a branch checked out over a
database that another one made. These modules model that, bottom up, as the code in
`src/` has it.

    ConcurrencyPool ──────── ConcurrencyPoolProofs
        │ INSTANCE (Pool)        │ INSTANCE (Proved)
    PoolStream ──implements── BoundedStream          PoolStreamProofs
                                   │ INSTANCE (Stream)
    GmailNormalize            GmailIngest ──implements── AdapterStream (and its throws)
                                   ┆ (what SyncExecutor takes an adapter to be)
                                   └──────────────── GmailIngestProofs
    JobQueue ─────────────── JobQueueProofs
        │ INSTANCE (Q)           │ INSTANCE (Proved)
    QueueConsumer ──implements── JobLifecycle        QueueConsumerProofs
        │                          │ INSTANCE (Queue: what SyncExecutor takes of it)
        │ implements               │
        │   MessageStore           │
        │       │ INSTANCE (Store) │
        │   SyncExecutor ──────────┘ ─────────────── SyncExecutorProofs (of the store too)
        │
    RunnableApp
        │ INSTANCE (Contract: what ServicesLauncher needs of an app)
    ServicesLauncher, TxContext ──────────────────── DbPoolProofs

    OAuthLoopback ──extended by── Accounts ───────── AccountsProofs (of the flow too)
    Schema ──extended by── Migrations

    MC<module>.tla, MC*.cfg    instances for TLC
                               (MCDatabase: Migrations, TxContext, ServicesLauncher)


## 1. Inventory of the system

Paths are under `src/packages/`. *Hard* names the behaviour tests hardly reach.
PROJECT.json lists the hazards one by one, each with its line.

| Component | State | Operations | Hard | What makes it correct |
|---|---|---|---|---|
| **Concurrency pool** `shared/concurrency/src/pool.ts` | slots held, FIFO of parked thunks, parked `whenCapacityAvailable()` and `onIdle()` callers | submit, settle (`run`'s `finally`), whenCapacityAvailable, onIdle | hand-over of a slot in the `finally`; wake-ups | bound kept, no idle slot beside queued work, FIFO, no lost wake-up |
| **Bounded stream, channel** `…/bounded-concurrency-pool-stream.ts`, `channel.ts` | buffer, closed, failure, waiter; `cancelled` | push, close, fail, iterate; pull, gate, submit, drain, leave | microtask order: a slot is free before its result is published; break and throw while the producer waits | no result or rejection lost, nothing started after leaving, the iteration ends |
| **runPool** `…/run-pool.ts` | results by index | parks all items at once, awaits idle | – | each item's outcome at its own index |
| **Job queue table** `backend/libs/queue/src/persistence` | `job_queue`: status, attempts, dedup key, lock, schedule | enqueue, claim, complete, reschedule, dead-letter, reap | SKIP LOCKED claims; updates by id alone; the partial unique index against a return to pending | one delivery at a time, deduplication, claims that share the front of the queue, attempts |
| **Queue consumer** `backend/libs/queue/src/client/consume.ts` | `running`, the claim loop's place, the batch, jobs in flight, reap timer | start, stop, claim loop, `process()`, reap | stop at any await; failing statements; crash between claim and verdict; several processes | exclusive delivery, at most `max_attempts` deliveries, one batch ahead of the pool at most, nothing left behind, stop() resolves |
| **Queue producer** `…/client/enqueue.ts` | – | `enqueue`, alone or in the caller's transaction | dedup; atomicity with the caller's rows | one live job per key |
| **Sync executor** `backend/libs/sync/src/async` | per task: processed, cursor, terminal | runSyncJob, runSyncTask, the event handler | redelivery by the queue; the best-effort failed event; a task's failure beside its siblings | result and event log agree; a task's failure is its own |
| **Sync persistence** `backend/libs/sync/src/persistence` | `sync_job`, `sync_task`, `sync_task_event`, the message graph | createSyncJob, persistMessage, create*Event, derived results | two syncs of one message; the status is the newest of completed and failed | each message once, with its children; status = fold of the log |
| **Gmail ingest** `backend/libs/adapters/src/gmail` | cursor, page token, counters | auth, list pages to a cap, fetch through the stream, normalize | cap and page boundaries; the cursor is read before listing; arrivals and deletions meanwhile; a token that grows old | started … one terminal event; nothing between listing and cursor missed |
| **OAuth2** `backend/libs/adapters/src/lib/oauth2` | one listener, one timeout, one verdict; token set | loopback, authorize, refreshIfExpired | redirect against timeout; a stray first request; a page that outlives its flow, at a port another flow has since got | a flow exchanges its own consent's code; it ends and gives back its port |
| **Transactions** `backend/libs/db/src/tx.ts` | the ambient transaction of an async context; pooled connections | runInOrgTx, runInTx: join, refuse, open | nesting; a statement that fails and is caught; connections that pass from one tenant to another | a tenant's statement runs under that tenant's scope only; what returns is committed |
| **Accounts** `backend/libs/accounts`, `backend/apps/cli/src/accounts` | `provider_account` rows | connect, reconnect, rm, list | the operator authorizes for minutes between read and write | an account's credentials are those last authorized |
| **CLI syncs** `backend/apps/cli/src/syncs` | – | run, run --enqueue, list, show | skeleton and enqueue in two transactions | an enqueued sync has a job, and the reverse |
| **Services launcher** `backend/apps/cli/src/services` | running services | boot, signal, drain, close the database | one service failing to boot or to stop | everything started is stopped, then the database is closed |
| **Migration tooling** `backend/apps/cli/src/db` | migration files, `pgmigrations`, the schema, generated types | create, up, down, status, nuke, codegen, dump, restore | commands interrupted between steps; branches; a `[match]` in the middle; nothing checks the order | the schema is what pgmigrations says; status says what up and down will do |
| **Schema migrations** `backend/libs/db/src/migrations` | tables, types, indexes, policies | up() and down() of six migrations | a down() that meets rows; a statement that depends on an index or a type | down() undoes up(); stored mail is not lost |
| **Worktree environment** `backend/apps/cli/src/env` | – | ports of a worktree | two worktrees in one band | disjoint ports |
| Crypto, HTTP client, logger, enums, slug, errors, env, API and web apps | none, or declarative | – | – | not modelled: see section 7 |

How they meet: the CLI calls accounts, sync persistence and the producer; the
launcher starts consumers; a consumer's handler is the sync executor, which runs
tasks through runPool and, for each, an adapter whose fetches go through a bounded
stream; consumer and adapter share nothing but the pool's code. All statements go
through the transactions of `tx.ts`.


## 2. The modules

### ConcurrencyPool — `pool.ts`

State: `active` is the closure's counter; `running` the thunks that hold the
slots (the code keeps only the counter: keeping both lets `OnePlace` say that they
agree); `queue`, `capacityWaiters` and `idleWaiters` are the closure's arrays.
Actions: `Submit(t)` (`Start` or `Park`), `Settle(t)`, which is the whole `finally`
of `run()` — release, hand over to the oldest parked thunk or tell the idle
waiters, then tell the capacity waiters on the counters that result —,
`WhenCapacityAvailable(w)` and `OnIdle(w)`. A promise's resolution and rejection
take the same path, so they are not told apart.

JavaScript runs each of these to its end without interruption, so an action is a
step. A thunk that was handed a slot starts within the same step.

### PoolStream, BoundedStream — `bounded-concurrency-pool-stream.ts`, `channel.ts`

PoolStream instantiates ConcurrencyPool and adds the producer, the channel and
the consumer's `for await` loop. Here the order of *microtasks* is the subject, so
it is explicit: `micro` is the queue of continuations, and while it is not empty
nothing else of the program may move. Only a thunk that settles, a source that
answers and a loop body that ends come from outside (`ThunkSettles`,
`SourceAnswers`, `BodyEnds`). `Init` is the state once both the producer and the
caller have run up to their first await.

BoundedStream is what a caller may rely on, without any of that: items are taken
in order, at most `Size` are in flight, each outcome is delivered at most once, a
rejection ends the iteration after what was produced before it, and after the
caller has left nothing more is started. `ImplementsBoundedStream` is the
refinement.

### JobQueue — the table and its statements

One variable per idea: `row` (the table), `due` and `ahead` (the poll order),
`locks` (the rows each open claim has locked). Time is abstracted to order: a
pending row becomes due when the clock passes its `scheduled_for`, so the order of
becoming due is the order `ORDER BY scheduled_for` selects by, and a completed row
may at any moment have outlived its TTL. One topic is modelled, as every statement
names one and rows of two topics share nothing. `last_error` and the payload are
left out: no statement reads them.

Every statement runs in a transaction of its own, and its effect is one step, but
for the claim: its subselect locks the rows it picks, and another claim that runs
before it commits skips them. So a claim is `ClaimSelect`, then `ClaimCommit` or
`ClaimRollback`. `Complete`, `DeadLetter` and `Reschedule` update by id alone, as
the code does: they ask neither for a status nor for `locked_by`, and a row that
was reaped is not updated. `Reschedule` is the one update that can put a row back
under the unique index, and it is then refused when the key was taken meanwhile.

`JobQueue!Next` runs the statements in any order, under callers that keep one rule
only: a transaction waits for rows another one has locked. What holds here holds
for any client of the table.

### QueueConsumer, JobLifecycle, RunnableApp — `consume.ts`, `runtime/application.ts`

Processes over one JobQueue (`Q == INSTANCE JobQueue`). A process's memory is a
record in `proc[c]`, whose fields are the variables of `consume()` and of the
stream it consumes: `life` is `running` and whether stop() is pending, `gen` the
place of `claimedJobs()`, `batch` and `full` the rows of the last claim, `producer`
and `held` the stream's producer, `work[j]` what `process(j)` awaits,
`attempts[j]` the count it was claimed with, `failed` and `left` the channel's
failure and the stream's `cancelled`, `reaper` the reap timer. Each action is the
code between two awaits.

The stream is taken at the level of BoundedStream, not of microtasks: the producer
takes a job into its hand, waits for a slot, submits, and asks the source again.

Faults. A statement may fail before it commits (`"fail"`), or commit while its
reply is an error (`"lost"`); either way its promise rejects, and the code's own
error path is taken. A process may crash at any point: its memory is gone and the
server rolls its open claim back. A statement that had committed when the process
crashed is the statement's success followed by the crash.

JobLifecycle says what one job is promised: enqueued, delivered at most
`MaxAttempts` times, ended completed or dead, retried only when attempts remain,
and removed only when completed. `ImplementsJobLifecycle` shows that the consumers
keep it for every job, whatever fails. With a lost reply a job may be completed and
then retried or dead-lettered; JobLifecycle has that too, and bounds it: `doubt` is
the set of jobs whose verdict was given by a consumer that has not heard of it
(`Unheard`, in the mapping), and only such a verdict is overruled, once.

RunnableApp is the launch contract of `application.ts`: between start() and stop() an
app takes up work, after stop() it takes up none, and stop() resolves when the work in
hand is done, or rejects when the app has failed. `ImplementsRunnableApp` maps a process
to such an app (a claim under way is work in hand, a failed stream a failed app).

### MessageStore — `persist-message.ts`

State: `table` holds the committed raw rows, messages and children (participants
and attachments), `noted` the committed message events, `tx[w]` the open
transaction of writer `w`: which statement it is at, the snapshot that statement
sees, whether it inserted the raw row.

The core is one statement with writable CTEs, and its two ways of looking at the
table differ: its insert meets the unique index as it is now (and waits for a
transaction that has the key open), while everything that *reads* sees the snapshot
of the statement's beginning. So `Begin` takes the snapshot, and the end of the
statement is one of `CoreInserts`, `CoreSkips` (the row is in the snapshot) and
`CoreFindsNothing` (the row is there but not in the snapshot, and
`executeTakeFirstOrThrow` throws). Then `InsertChildren`, then `Commit` or
`Rollback`. The unique index is per account, so one account is modelled.

`Next` lets any writers store any messages in any order.

### SyncExecutor — `sync/src/async`, the sync-worker, `cli/src/syncs`

State: `job[j]` is where a sync job is between the command line and the queue,
`log[t]` the rows of `sync_task_event` of a task (`created_at` order is the order of
appending, as a task runs in one delivery at a time), `exec[t]` the variables of
runSyncTask — what it awaits, the event in its hands, the last one handled
(`terminal`, once that is completed or failed), the messages its adapter still has —
and the store's three variables (`Store == INSTANCE MessageStore`, its writers the
tasks). The status of a task and of a job are operators on the log (`TaskStatus`,
`JobStatus`), as the views derive them, `Result` is the rollup that runSyncJob
returns.

Actions: the command line's `CreateSyncJob`, then `EnqueueSync` or `RunHere`, in
transactions of their own; `Deliver`, which parks every task in the pool;
`StartTask` within `TaskConcurrency`; loading the account; the adapter's events and
their writing; the catch block and its best-effort failed event (`FailureWritten`,
`FailureUnwritten`); and the end of the job in the command line (`RanHere`) or in
the queue (`Completes`, `CompleteThrows`). `Dies` is the death of the process that
has the job, in the command line between its two transactions included.

Two neighbours are taken by their contracts. The queue is JobLifecycle with at most
one delivery at a time, which QueueConsumer shows; `ImplementsJobLifecycle` (here with
`QueueJobs` as the table, where a job has no row before the enqueue commits and stays
processing when its worker has died) says that no more is taken of it. An adapter is
any stream of started, auth, the messages in any order, completed; or, on the way,
failed, a throw, or an end without a verdict. That is more than
`adapters/src/types.ts` promises, which knows of one throw only, and it is what
runSyncTask is written for: its catch block takes every throw, and its check of
`terminal` a missing verdict. The one adapter there is needs it (GmailIngest, and the
first item of section 4). Left out are the progress event and all payloads: nothing here
reads them.

### GmailIngest, AdapterStream — `gmail/ingress/ingest.ts`, `lib/oauth2/flow.ts`

One pull: the generator from its started event to its end, and the mailbox it reads.
Messages are numbered in the order of their arrival, which is the order of Gmail's
historyId, so a cursor is a number and "after the cursor" is `>`. The mailbox is
outside and moves at any moment (`Arrive`, `Delete`); so does time, in ticks
(`Tick`): `life` is what is left of the token, and every request needs some.

`at` is where the generator stands. Its first steps are `Started`, the token check
(`UsesStored`, `Refreshes`, `RefreshThrows`) and `CursorLoaded`. Then the listing —
`PageAnswers`, which may answer a short page, an empty page with a token (followed, as
often as `EmptyPages` allows) and a token to an empty last one, and `YieldsId`, which
counts against the cap —, the fetches (`FetchStarts`,
`FetchAnswers` for each of a message's requests, `FetchThrows`), and the loop that
yields them (`Emits`, `Handled`), `Completes` or `Throws`; `Leaves` is the runner's.
Between listing and loop is the bounded stream, and here its abstract specification
is the component: `Stream == INSTANCE BoundedStream`, whose refinement by PoolStream
is the run `stream`.

AdapterStream is what `adapters/src/types.ts` says of any adapter's stream: its `Spec`
ends with one terminal event, or is left by the runner, or throws when the refresh of
the credentials fails. Its `Throws` is no part of that: it is what the runner takes
besides. GmailIngest maps a message that is listed and not yet yielded to `due`, so that
`completed` may be said only when nothing is due, and two properties speak of the
mapped stream. `KeepsPromise` is `Spec`; the code violates it (section 4).
`StreamsOrThrows` is what holds: every step is one of `Spec`, or it throws where
`BreaksOff` says — a spec that is not full, the profile, or a listing or fetch that has
failed once all that was fetched has been yielded — and nowhere else.

### GmailNormalize — `gmail/normalize.ts`

Pure operators: `Walk` over a MIME tree (body, attachments), and the scanning,
splitting and parsing of address headers, whose characters are abstracted to the
ones the code looks for. In MCGmailIngest they are checked against reference
definitions — document order over the paths of the tree, and reading back what a
composer wrote — for every payload and address list of a small grammar. Each such
input is an initial state of a behaviour of its own, beside those that pull.

### OAuthLoopback — `lib/oauth2/loopback.ts`

Several invocations of the command line (`Cli`), each with one flow: bind a free
port, arm the expected state, open the browser, wait for the redirect under a
timeout, exchange the code, read the profile. `pages` are consent pages in the
browser, which outlive their flow; a port that was given back may be another flow's
by the time such a page is answered. `Requested` is what a listener does with any
request, `HandleRedirect` its verdict; the first one settles, the others are only
answered. State nonces and PKCE pairs are random, so they are identified with the
invocation they belong to.

### Accounts — `libs/accounts`, `cli/src/accounts`

EXTENDS OAuthLoopback with `row` (`provider_account` of one org), `seen` (what a verb
resolved and read) and `outcome`. connect authorizes, then inserts; reconnect
resolves, authorizes, compares the identity and updates one column; rm resolves,
asks and deactivates. The minutes between reading and writing are the flow's.

### ServicesLauncher — `cli/src/services/handler.ts`

`services run`: the boot of the services, the wait for a signal, `shutdown()` — once
for each kind of signal, so two may run at once —, the pool that all apps share and
that a query opens again when it was closed, and the end of `index.ts`. An app is what
RunnableApp promises, which QueueConsumer shows of the worker, and `RunsApps` says that
the launcher needs no more: an app whose stream has failed (`Breaks`) may still have
work in hand, which then outlives the stop() that rejects.

### Schema, Migrations — `libs/db/src/migrations`, `cli/src/db`

Schema has the six migrations, statement by statement. A table is the set of its
parts (columns with their nullability, enums, defaults, constraints, indexes, the
isolation policy) and a statement drops and adds parts; `Failed` is a database where
a statement failed. Which statements Postgres refuses (a dropped part that is not
there, a referenced table, NOT NULL on a table with rows, an enum changed under an
index that names its values) are operators over that. `rows` is the set of tables
that have rows.

Migrations has the commands, over three records that should say one thing: `files` of
the branch, `database` and `runs` (pgmigrations, in the order they ran). A command is
its migrations, then the codegen; `nuke` is two statements, then the codegen; `Crash`
may come between any two. A checkout replaces `files` and leaves the rest. generated.ts
would be a fourth record; nothing here reads it, and it is left out.

node-pg-migrate is external: its source is not in the repository. It is modelled from
the options that buildRunnerOptions() passes (migrations.ts:219), which are the
direction and a file or a count, and neither `checkOrder` nor `singleTransaction`. So
`up` runs whatever file has no row, also before or between those that have run; and
each migration, with its row, commits alone (`Made` has the databases in between):
a command whose third migration fails leaves two, and so may one that is interrupted.
To undo a migration its file must be there (`Refuses`). `matched` remembers that a
`[match]` has run, by which a developer picks a migration out of its order: then no
replay need be possible, and the properties say so.

A restore is two steps, as pg_restore is not given `--single-transaction`; what half of
it leaves is not said, only that no command but `nuke` goes on from there.

### TxContext — `libs/db/src/tx.ts`

Per task the stack of its calls in progress, per connection whose it is, the org that
is set, and whether its transaction has failed. The lowest call waits for a
connection, begins and scopes; those above it join it (`Joins`) or throw (`Refused`).
A statement that fails makes Postgres refuse the following ones and turn COMMIT into
a rollback, silently; the only operation that catches such an error (`Catches`) is
listApplied(), which writes nothing. A COMMIT's reply may be lost.

MCDatabase puts Migrations, TxContext and ServicesLauncher in one instance: they are
the uses of `libs/db` and share no state here, so a behaviour (`part`) is of one of them.

### Seeded faults

Definitions commented *Seeded fault* (`SlotFreeOffByOne`, `FirstDueLockedToo`, …)
are plausible bugs. No specification uses them; PROJECT.json's mutants put each in
the place of the definition it distorts, to show that the property at stake notices.


## 3. The runs

All bounds are CONSTANTs of the cfg or are named *BOUND* in a module. The project
keeps a handful of properties for each run; where two sentences are about
one hazard they are conjuncts of one property, and a module's type invariant is the
first conjunct of an invariant that is run or is proved.

| Run | Instance | Shows | Distinct states |
|---|---|---|---|
| `pool` | 5 thunks, 2 slots, 2 waiters | the bound, no lost wake-up, FIFO, no parked thunk starves | 1.5 k |
| `stream` | 4 items, 2 slots | the gate holds (a submitted thunk never parks), no result or rejection is lost and nothing is in flight at the end, the iteration ends, and BoundedStream is implemented (so nothing starts after leaving) | 105 k |
| `queue` | 3 rows, 1 key, 2 consumers, limits 1 and 2 | deduplication under any client; open claims take disjoint rows, the oldest first, and none is empty while a free row is due | 14 k |
| `consumer_faults` | 2 jobs, 2 processes, 1 fault of either kind or crash, 2 starts; a third job for one process without a fault | exclusive delivery with `max_attempts`, nothing orphaned or left in a process, no more than one batch claimed ahead of the pool | 1.07 M |
| `consumer_live` | 2 jobs under one key, 1 process, 2 faults of either kind, crash | stop() resolves also when the stream has failed and when the unique index refuses a reschedule; without a fault every job reaches a verdict; JobLifecycle and RunnableApp are implemented | 139 k |
| `sync` | 1 job of 2 tasks in one account, 1 message, 2 deliveries, 2 faults of either kind, crash | messages are stored whole and once, a completed task has stored its listing, result, derived status and queue agree, every run of a job ends | 185 k |
| `gmail` | 3 messages, cap 2, pages of 2, 2 fetches at once, a token of 2 ticks with a skew of 1, one empty page in between | no gap between what a pull emits and its cursor; no refused token within the skew; the adapter's promise but for the throws that are named; every pull ends; normalize() agrees with its reference | 184 k |
| `connect` | connect, reconnect and rm of one account, 2 ports, 2 logins | a flow exchanges its own consent; credentials open the mailbox they are stored for; no verb undoes another; every flow ends and gives back its port | 54 k |
| `database` | the 6 migrations, 3 branches, 2 matches; 2 tasks, 2 connections, 2 orgs, depth 2; 3 services, 2 of them with a stop(), both signals | the objects are what the migrations of pgmigrations make in the order they ran, up and down fail only with mail and do not lose it, status follows; a statement under its own org, success only when committed, nobody waits for ever; the pool of running services is closed upon a signal and after their work, a signal ends the process unless a stop() rejects | 20 k |
| `adapter_promise`, `select_back`, `duplicate` | as `gmail`; two jobs in one account; as `connect` | a sentence of a comment or a runbook which the code does not keep: section 4 | – |

**Why the bounds are enough.** *Pool:* three parked thunks behind two slots is
every relation a FIFO of more than one element has with a hand-over; the two waiters
allow both lists to be non-empty. *Stream:* with four items and two slots, two run,
one is in the producer's hand and the source still has one, which is every place an
item can be in when the caller leaves or something throws. *Queue:* two rows compete
for the key while a third does not, and a claim of two leaves one for the other
consumer; the state constraint `Bounded` of MCJobQueue cuts the attempts count, on which
no statement depends, and the properties are proved without it. *Consumer:* two
processes and two jobs give a claim by each, a batch with both, and a job that passes
from one to the other; a job's first delivery is retried and its last is not
(`MaxAttempts = 2`). That a batch may be claimed while another waits shows only with a
job more than the batches hold: `ThirdJobBound` lets a third one come to a single process
whose jobs are all on their first delivery; how far a process runs ahead does not depend
on the others, and the bound is proved without that constraint. One fault at each
statement is covered by one fault anywhere; two faults are needed for the lost reply to
complete() followed by the conflict of the reschedule, and `consumer_live` has them.
*Sync:* two tasks meet at one message in
every order of their statements; no transaction has more than one message open, so a
second message adds no way to wait. Two faults are needed for a job that is delivered
again and whose failed event is then not written: the case in which a log says
completed and the executor failed. `MaxStarts` counts the starts; after the last of
them no process is stopped or crashed, so a liveness property speaks of a program that
is eventually left alone, as it must.

*Gmail:* three messages and a cap of two make the cap bite within a page, at its end
and not at all; pages are short, full and empty, with a token and without; one empty page
that is followed is enough, as it changes nothing but the count of them; a message arrives before the cursor,
between cursor and listing, and after. A token of two ticks with a skew of one is good,
close to its end or expired at the check. *Connect:* three verbs on one account are
every pair that meets at a row; two ports are one that is taken and one that was given
back. *Services:* two apps to stop are one that is reached and one that is not yet;
more differ in number only. *Database:* the migrations are all there are. The branches
are the whole history, one that lacks the last migration and one that has a later
migration without an earlier one, so that a merge runs them out of order. The matches
are one that picks rep-50 from the middle and one that means two files on one branch and
one on another. `Dump` and `Fills` have bounds of their own, named there. Two tasks on two connections let a connection pass
from org to org and let both tasks hold one; depth two is a call inside a call, and a
third level does what the second does (the proofs are for any depth).

**Symmetry** permutes jobs and processes in `consumer_faults`, and rows and
consumers in `queue`: neither has a temporal property. `CHECK_DEADLOCK FALSE` is set
where the system stops: in `stream` (`Ends`), `sync` and `select_back` (`RunsEnd`),
`gmail` and `adapter_promise` (`PullEnds`), `connect` and `duplicate` (`FlowEnds`; a verb
without a flow may not start at all). In `database` a launcher whose process has ended
stutters (`Ended`).

**Fairness.** Pool: a running thunk settles (`WF` on Settle); nobody is obliged to
submit or to wait. Stream: continuations run (the event loop), thunks settle, the
source answers and loop bodies end; whether they succeed is free. Consumer: awaited
statements answer, handlers return or throw, timers expire, the clock reaches a
`scheduled_for` (weak fairness of each process's claim loop, stream, jobs in flight
and of `BecomesDue`); a process that is down is started again while starts remain,
and stop() returns once the stream has settled. Sync: the queue delivers and settles
a job, and each task's adapter and statements answer (`WF` of each job's and each
task's step); what they answer is free, and nobody is obliged to ask for a sync or
to enqueue its job. Gmail: the pull moves on as long as it can (`WF(Step)`): Google
answers or refuses, and the runner handles what it is given. Connect: each flow moves
on (`WF(Flow(c))`), above all its timeout; the operator need not answer. Services: the
boot and the shutdown go on, and an app finishes the work it has in hand. Database: an
operation makes only finitely many calls and statements, so an end that is enabled
again and again is taken (`SF` on JoinedReturns and Commits), and the client's pool
serves its waiters in turn (`SF` on Begins: a waiter sees a connection free again and
again, but not continuously); the rest is weak. Nothing is assumed fair about enqueue,
stop, crash, the faults, the reaper, signals, arrivals, ticks or a developer.


## 4. Where the code and its documents disagree

Three have a run whose property states the document's sentence, and a behaviour that
violates it.

* **ingest() throws, where it should say failed** (`adapter_promise`). types.ts:282 has
  it that ingest() throws only when a refresh fails terminally, and types.ts:217 that a
  stream ends with exactly one terminal event. The Gmail adapter never says `failed`: it
  throws when the profile cannot be read (ingest.ts:214), a page cannot be listed (115), a
  message cannot be fetched (141) or normalized (156) or an attachment not fetched (196),
  and for a spec that is not full (60). The runner catches all of these and writes the
  failed event itself, so the sync ends as failed; a runner written to types.ts would not.

* **The select-back does not always find the row** (`select_back`).
  persist-message.ts:90 says that on the conflict path it does. It reads the
  statement's snapshot, and a row that another sync commits during the statement is
  not in it: two concurrent syncs of one account meet, and one of the tasks fails.
* **A duplicate account is not reported as one** (`duplicate`). accounts/service.ts
  catches a unique violation to throw DuplicateProviderAccountError, and the runbook
  promises it. The decorator that classifies the driver's error is around the function
  with that catch, so the catch sees the driver's error and not the class it looks for:
  the operator reads a DBUniqueViolationError.

The following were seen while modelling and have no run.

* *The source is not suspended while the pool is saturated.* consume.ts:25 says that
  the consumer never claims ahead. The gate is asked after the next item has been
  pulled, so once the last job of a batch is submitted the next batch is claimed, its
  attempts counted, while every slot is taken (consume.ts:97). It goes no further than
  that: `OneBatchAhead` is the sentence that does hold.
* *process() can throw* (consume.ts:79), and consume.ts:129 says that it never does:
  when reschedule() or deadLetter() rejects, the stream fails, the consumer falls
  silent with `running` still true, and only stop() reports it.
* *A crash loses work.* ADR-004 wants a durable queue because an in-memory one loses
  jobs on restart. A row claimed by a process that dies stays processing for ever: no
  statement looks at `locked_at`, and its key stays taken.
* *The skeleton and its job are two transactions* (syncs/handler.ts:153), where ADR-004
  asks for one: a crash between them leaves a sync that nobody will run.
* *Leaving the stream does not stop the pulling* (bounded-concurrency-pool-stream.ts:45):
  `cancelled` is looked at after the source has answered, so one more batch may be
  claimed, whose rows stay processing. *A delay entered after stop() is not cut short*
  (consume.ts:48): stop() during a claim finds no sleep to end. *A job without tasks is
  completed and running*: the rollup (async/handler.ts:83) says the one, the fold of
  its log the other; nobody builds such a job.
* *A browser that cannot be spawned kills the command* (loopback.ts:165): spawn()
  reports it by an event without a listener, so no `finally` runs. *The page says that
  the account is connected before the code is exchanged* (loopback.ts:113).
* *Refreshed credentials are emitted and never stored*: each later run refreshes again.
* *A service that fails to boot leaves the others running*, and the `finally` of
  index.ts closes the pool under them; their next query opens another one.
* *Once mail is stored, some migrations cannot be undone and redone.* down() of rep-50
  restores NOT NULL columns without a value and fails; down() of rep-58 and rep-56
  succeeds, and up() of rep-56 then fails on the foreign key of
  `message_raw.sync_task_id`, as the tasks are gone. `down --base` does both: it commits
  the downs of rep-58 and rep-56 before that of rep-50 fails, and `up` fails from there.
  The mail stays (`StoredMailKept`), but only `nuke` leads on.
* *A `[match]` in the middle leaves a schema that no replay makes*, and nothing says so
  (migrations.ts:219 asks for no check of the order). `up`, `down rep-50`, `up` ends
  well, with all six in pgmigrations: but rep-50 has dropped and created `message_raw`
  again, so the foreign keys between it and `sync_task` and `sync_task_event` are gone. A
  later plain `down` comes to rep-56, which drops one of them, and fails. (This is read
  off the options; whether the library's own defaults add a check is not in `src/`.)
* *`db status` lists by file, `down` undoes by row.* Where a branch has merged a
  migration with an earlier timestamp, the last one that status lists as applied need not
  be the one that `down` takes.
* *The generated types can drift* (codegen.ts:22 says they never do): after `db
  restore`, and after a command interrupted before its codegen. *nuke is two statements*
  (admin-ops.ts:62): interrupted between them there is no public schema, and every
  command but nuke fails.
* *list-applied.ts:7 says that the surrounding transaction commits cleanly* after the
  error it catches. Postgres has aborted it, and COMMIT rolls it back without a word:
  harmless only because nothing was written (`SuccessMeansCommitted`).
* *Two bootstraps of one email* pass the check before either commits
  (accounts/service.ts:62), and the unique index is per org.


## 5. What is proved

TLAPS proves these for every value of the constants that satisfies the named
assumptions of the modules; `tlapm` checks every leaf. Every safety invariant and
action property of the runs is among them but for four of Migrations and the one of
GmailNormalize (the end of this section says why), and every refinement is. Each
inductive invariant was checked by TLC on the run's instance before it was proved.
Some properties are proved and have no run of their own: the pool's `TypeOK`, `OnePlace`,
`WorkConserving` and `IdleMeansDrained`, the table's `TypeOK`, `PollOrder`, `LocksDisjoint`,
`AttemptsCountDeliveries` and `DeadNotReaped`, the store's `NotedIsStored`, and
`TxTypeOK`.

**ConcurrencyPoolProofs** — for any set of thunks and of waiters and any
`Size \in Nat \ {0}` (`SizeAssumption`, the RangeError of createConcurrencyPool).
The invariant is

    IInv == TypeOK /\ IsFiniteSet(running)
            /\ OnePlace /\ Bounded /\ WorkConserving /\ NoLostWakeup

Finiteness is what lets `active = Cardinality(running)` survive a settle. The
parts need one another: a release keeps `Bounded` because the queue moves by one
thunk that `OnePlace` says does not run; `WorkConserving` is kept because the
hand-over happens in the same step as the release; and `NoLostWakeup` needs
`WorkConserving` to know that a capacity waiter's condition can only become true
in a settle. From it: `PoolTypes`, `PoolOnePlace`, `PoolBounded`,
`PoolWorkConserving`, `PoolNoLostWakeup`, and the action properties `PoolFifo` and
`PoolIdleMeansDrained`.

**PoolStreamProofs** — for any number of items and slots (`NAssumption`,
`SizeAssumption`). The invariant is about the queue of microtasks:

    IInv == TypeOK /\ Slots /\ Turn /\ Iteration
            /\ Apart /\ Once /\ Kept /\ PushedFirst /\ Over

`Slots` says that the pool's queue is never used and its counter is true. `Turn` says
that the producer is in one place, and that what it waited for still holds when its
continuation runs: the slot it was told of is free, because nothing else submits.
`Iteration` says the same of the consumer. `Apart` and `Once` say that an item is in
one place of the stream, and `Kept` that it is in one. `PushedFirst` is the reason why
a close before the last push loses nothing: the continuations that push a result stand
before the consumer's, which finds them in the buffer; `Over` is what that makes of an
iteration that returns. From it: `StreamTypes`, `StreamGateHolds`,
`StreamLosesNothing`, and the refinement `StreamImplementsBoundedStream`, in which a
continuation is one step of BoundedStream or none. And in the other direction
`StreamUsesPool` (`Spec => Pool!Spec`): every continuation is an operation of the pool or
leaves it alone, an item being submitted once because `Once` says so. The pool's theorems
hold of the stream by that (`Proved == INSTANCE ConcurrencyPoolProofs`), first of all
`StreamNoLostWakeup`: the producer is not left waiting beside a free slot.

**JobQueueProofs** — for any rows, keys, consumers and limits, from
`NullAssumption` (NULL is no key and nobody is no consumer) and `LimitAssumption`.
The invariant is

    IInv == TypeOK /\ PollOrder /\ LocksDisjoint /\ DedupUnique /\ AbsentUndelivered

`PollOrder` says that the due rows are pending and strictly and totally ordered;
`LocksDisjoint` needs it to see that a row locked by one claim, being due, is
outside the rows another one takes; `DedupUnique` needs both at a claim's commit,
where rows turn from pending to processing; `AbsentUndelivered` (an id not yet
inserted has no attempts) is what makes `AttemptsCountDeliveries` hold in the step
that inserts it. That a claim takes the oldest rows and as many as it may
(`QueueClaimsShareTheFront`) is `PollOrder` and a count: of the rows that are due and
free, totally ordered, those with fewer than n before them are n or all. From
it: `QueueTypes`, `QueueDedupUnique`, `QueuePollOrder`, `QueueLocksDisjoint`,
`QueueClaimsShareTheFront`, and the action properties `QueueAttemptsCount` and
`QueueDeadNotReaped`.

**QueueConsumerProofs** — for any jobs, keys, processes, limits, faults and starts,
from `ConfigAssumption`. The table alone does not keep two processes from working on
one row, as its updates go by id; that neither does rests on an agreement between the
rows and the memory of the processes:

    IInv == Proved!IInv /\ ProcTypes
            /\ \A c \in Consumer : WellFormed(c) /\ HeldRows(c)
            /\ Exclusive /\ AttemptsLeft /\ Unfailed

`Proved!IInv` is the table's invariant (`Proved == INSTANCE JobQueueProofs`): its
lemmas are used for every step that is a statement. `WellFormed` says that a process's
variables fit together (only a claim under way holds locks, a job is in one place).
`HeldRows` is the agreement: a job that a process holds is `processing` and has the
attempts it was claimed with, unless the reply to complete() was lost, in which case a
fault has happened and the process is about to overrule itself. `Exclusive` then
survives a claim because claimed rows were pending and held ones are not, and
`AttemptsLeft` a retry because the count in memory is the row's. `Unfailed` is what is
true until the first fault. From it: `ConsumerTypes`, `ConsumerExclusiveDelivery`,
`ConsumerNoOrphan`, and two refinements. `ConsumerImplementsQueue` (`Spec => Q!Spec`)
shows that the consumers keep the one rule of the table, so that the table's theorems
hold of them (`ConsumerDedupUnique`, `ConsumerAttemptsCount`).
`ConsumerImplementsLifecycle` shows that every step is, for every job, a step of
JobLifecycle or none; the bounded doubt about a lost verdict comes from `HeldRows`.

How far a process runs ahead is a second invariant, which stands on the first:

    Pacing == \A c \in Consumer : Rests(c) /\ WithinBounds(c)

`Rests` says that a process that is down has nothing at all, and `WithinBounds` bounds
the jobs in flight and those that wait, which are in a batch, in the producer's hand or
locked by the open claim. A claim is asked for only when nothing waits (`WellFormed`),
and the table gives it `BatchSize` rows at most (`QueueClaimsShareTheFront`, by way of
`ConsumerImplementsQueue`); every step between two claims only lets go, or admits one job
to a free slot (`Recedes`). From it: `ConsumerOneBatchAhead`, and, as a stream that
settles without a failure holds nothing, the refinement `ConsumerImplementsRunnableApp`.

**SyncExecutorProofs** — for any jobs, tasks, messages, concurrency, attempts and
faults, from `ConfigAssumption`. It has two parts. The first is the store's, for any
writers and messages, from no assumption:

    StoreInv == Store!TypeOK /\ Store!RawHasGraph /\ OpenInserts /\ Store!StoredOnce

`OpenInserts` says that a transaction has inserted a raw row only after its core
statement has answered: without it `Pending`, which looks at the statement a
transaction is at, would not see every open insert, and `StoredOnce` would not
survive a second one. From it: `StoreTypes`, `StoreRawHasGraph`, `StoreOnce`, and
`StoreNotedIsStored` (no event tells of a message that is not stored).
`SyncImplementsStore` (`Spec => Store!Spec`) shows that every step of the executor is a
step of the store or leaves it alone, a death being a rollback of all the job's
writers, so that all this holds of the executor: `SyncStoresWholeOnce`.

The second part is the executor's own, one conjunct for each task:

    IInv == Types /\ Deliverable /\ \A t \in Task : TaskInv(t)
    TaskInv(t) == Placed(t) /\ Handling(t) /\ Listing(t) /\ Saved(t)
                  /\ HasNewest(t) /\ Verdict(t)

`Listing` says that each message of the listing is yet to come, in hand, or noted, and
that `completed` comes when none is to come; `Saved` is what that makes of the log, over
all deliveries; with `StoreNotedIsStored` it gives `SyncCompletedMeansStored`.
`Verdict` relates what the executor remembers to the fold of the log, and counts the
faults it takes for them to differ: one for a failed event that is not written, two for
a log that says completed of a task that failed. From it `SyncVerdictLogged` and
`SyncRollupAgrees`. `HasNewest` is there because `Max` chooses. `ConfigAssumption` has
it that each sync job has a task: of one without, the rollup and the fold disagree
(section 4), and nobody builds one. The third result is about the queue:
`SyncImplementsLifecycle` shows that each step of the executor is, for each job, a step
of JobLifecycle or none. It needs that what is not in the queue has no attempts
(`Counted`), by which a job that dies in the command line is told from one that dies in
a worker.

**GmailIngestProofs** — for any mailbox, cap, page size, fetch concurrency, lifetime
and skew (`ConfigAssumption`). The invariant is

    IInv == TypeOK /\ Phases /\ Counted /\ Asked
            /\ Downwards /\ Roomy /\ Covered /\ Fresh

`Downwards` says that the listing goes down: what it has yielded lies above what the
page holds, and that above what the page token goes on below. `Covered` is the heart: a
listing that goes on has yet to come to every message up to the cursor that it has not
yielded, and one that is done was stopped by the cap, below everything it listed. At
the end what was listed was emitted (`Phases`), and `NoGap` follows. `Roomy` says that
the cap is looked at before an id is taken, `Counted` that the counters are the sizes of
the sets, and `Fresh` that what is left of the token and what has passed since its
check are together more than the skew. That a page of the newest k ids is an upper end
of the mailbox (`NewestAreNewest`) needs that a bounded set of numbers has a greatest
one, which is shown from the well-foundedness of finite sets. From it: `IngestTypes`,
`IngestLeavesNoGap`, `IngestNoEarlyExpiry`, and `IngestStreamsOrThrows`: every step of a
pull is a step of the stream that types.ts promises, or leaves it alone, or is a throw at
one of the points that `BreaksOff` names. `IngestUsesStream` (`Spec => Stream!Spec`) shows that
the pull keeps to the interface of the stream of fetches over all its pages, failures
and early returns, so that what BoundedStream promises of any caller holds of it:
`IngestFewFetches`, no more than `FetchConcurrency` messages fetched at once and one id
listed ahead of them.

**AccountsProofs** — for any number of invocations, logins and ports
(`NobodyAssumption`, and `AccountsAssumption`, which says that the accounts there are
already have credentials of their own mailbox). The flow and the verbs have a part each:

    FlowInv == TypeOK /\ Listening /\ AnswerTypes /\ Accepted /\ PastRedirect
    IInv == FlowInv /\ TableTypes /\ SeenRows
            /\ ResolvedFirst /\ InsertsAtTheEnd /\ Credentials

`Accepted` says that an answer taken as ok carries the flow's own state, `PastRedirect`
that nothing is exchanged before such an answer: together `FlowsOwnConsent`. `SeenRows`
says that the row a verb has read is there still, and is of the same mailbox: nothing
changes a row's identity and nothing deletes one. So the comparison that reconnect makes
with what it read minutes ago is a comparison with the row it writes, and `Credentials`
survives: `AccountsOpenTheirMailbox`. `VerbsDoOnlyWhatTheyAreFor` is the action property
that the same lemmas show of every step.

**DbPoolProofs** — the two sides of the pool of connections, which share no state and
have an invariant each. TxContext, for any tasks, connections, orgs and depth of calls,
from `TxAssumption` (the null values are none of the others):

    TxInv == TxTypeOK /\ \A t \in Task : Kept(t)
    Kept(t) == OneTransaction(t) /\ OwnConnection(t) /\ Honest(t)

`OneTransaction` says that a task's calls are one transaction: the lowest opened it,
those above have its connection and its org. `OwnConnection` says that the connection
is that task's and has its org once scoped; it needs `TxTypeOK`, by which a free
connection carries no org and no failed transaction. `Honest` says that a call reports
success only of what is committed, and that a task which has written is not running on
in a transaction that has failed. The argument is about one task at a time:
`OthersKeep` shows that a step of a task leaves the stacks of the others and the
connections they hold alone, and one lemma per kind of step shows that the task itself
is kept. From it: `TxTypesHold`, `StatementsRunUnderOwnOrg`, `ReturnsAreCommitted`.

ServicesLauncher, for any services, any order of them and any signals
(`LauncherAssumption`):

    LauncherInv == TypeOK /\ Booted /\ Closes /\ Drained

`Drained` says that a drain that has come to an app has told those before it to stop and
has seen their work end; as an app that was told to stop takes no work, that stays true
whatever the other signal's drain does. `Booted` says that what works is one of the
services to run, `Closes` that only a drain closes the pool of services that run. From
it: `ServicesDrainFirst`, and the refinement `LauncherRunsApps`: the apps of the launcher
do what RunnableApp lets them do, and nothing else. With `ConsumerImplementsRunnableApp`
both sides of that contract are proved.

**Model-checked only.**

* Liveness (`QueuedRuns`, `Ends`, `EveryJobEnds`, `StopEnds`, `RunsEnd`, `PullEnds`,
  `FlowEnds`, `ShutdownEnds`, `CallsEnd`) is beyond the prover, as is ENABLED.
* GmailNormalize is recursive: `NormalizeAgrees` is checked over every input of a small
  grammar.
* Of Migrations, `SchemaIsReplay`, `FailsOnlyWithMail`, `StoredMailKept` and
  `StatusFollows`. What a command does is a fold over the statements of the six
  migrations, and what it selects is a SelectSeq over their names: the prover knows
  nothing of either but their recursive definitions, and would need induction over data.
  The data are the six migrations of the repository and not a parameter, so the run
  leaves open only the branches, the matches and the rows.


## 6. Abstractions to know about

* A statement commits before its failure is reported, or never. A statement that
  commits after the process has moved on is not modelled.
* A claim's rows are yielded in any order, although the code keeps the order the
  statement returned them in: UPDATE … RETURNING promises none.
* The backoff of a retry and the poll interval are "later"; only their order with
  the other steps counts.
* The queue's handler is external to QueueConsumer: it returns, throws, or throws a
  permanent error. SyncExecutor has the one handler there is, and it never throws:
  runSyncTask catches, and runPool keeps every outcome apart.
* A Gmail list request goes on below the last message it answered, and every message
  older than that is reachable: Google's index is taken to be consistent.
* Rotated credentials (the auth event's payload) reach nobody that stores them, so
  they are not part of SyncExecutor's state.
* OAuth: the code of a consent can be exchanged by the flow with its verifier only;
  the path of a request is abstracted to what handleRedirect() makes of it.
* Schema leaves out plain SQL types, the order of columns and the text of
  predicates, and says nothing of a restore over objects that the archive lacks, nor of
  what half a restore leaves.
* A closeDb() that rejects is not modelled: the pool's destruction ends.
* Tenants' rows are not in TxContext: row-level security does what it promises with
  the org that is set, and the property is about that org.
* createSyncJob, and the writing of one event other than a message, are one step
  each: one transaction, of whose rows nobody else writes any.
* start() on a handle that was stopped before is not modelled: every start is a new
  process, as the launcher does it. A start() while it runs does nothing.


## 7. Not modelled, and why

* Crypto, the HTTP client, the logger, enums, slugs, errors and env are stateless
  helpers. The API is a health route and the web app an empty page. The worktree
  environment derives ports from a name and writes one file.
* Bootstrap (an org and its first user): two transactions with no promise beyond their
  own rows; what two at once do is in section 4.
* `db query` runs what the developer writes, and the databases of other branches
  (`db/lib/branch.ts`) share nothing with the one modelled.
* The read verbs of the command line return rows unchanged.
* enqueue() inside a caller's transaction (`opts.tx`) has no caller in the repository.
* That runPool keeps outcomes in the order of the inputs is one assignment by index.
* What consume() leaves to the runtime: an unhandled rejection of a reap (`void
  reap()`) ends a Node process with default flags, which for the models is a crash.


## 8. Where to go on

The components of section 1 are modelled as far as they keep state, each contract
between two of them is a module, and what the runs check of safety is proved where the
prover reaches it. What could be added:

1. **Composition.** JobLifecycle and RunnableApp are proved of both their sides, and
   BoundedStream of PoolStream and of the pull that drives it. SyncExecutor has its
   adapter built in; to write it over AdapterStream and its throws, as GmailIngest is
   over BoundedStream, would make the remaining contract an instance too.
2. **Migrations.** That the database is the replay of pgmigrations could be proved if
   what a command selects were stated by index instead of with SelectSeq, and a statement
   by what it leaves of each table.
3. **When the code changes.** A lease on claimed rows, with a statement that takes back
   rows of dead processes, would be a new action of JobQueue and would need `Exclusive`
   to count leases; an enqueue inside the skeleton's transaction makes `CreateSyncJob`
   and `EnqueueSync` one action.
