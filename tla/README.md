# A TLA+ verification of taskboss

taskboss is a job queue that lives in PostgreSQL: two tables and a handful of
SQL functions, two functions in Rust over SPI, a background worker, a Go client
that consumes jobs as they are announced, and a test runner for scenario files.
This directory models the parts that decide what happens to a job, checks them
with TLC on small instances, and proves the safety of most of them with TLAPS
for instances of every size.

## 1. Inventory

| Component | Source | State | Operations | What makes it hard | Correct when |
|---|---|---|---|---|---|
| SQL functions | `src/src/schema.rs` | tables `boss.queue`, `boss.job` | `send`, `fetch`, `complete`, `fail`, `maintain` | concurrent transactions, row locks, waiting and deadlock, `now()` fixed per transaction, NOTIFY at commit, two places that count retries | deliveries are exclusive, counted and bounded; finished jobs stay finished; order, delays, retention respected |
| Queue registry | `src/src/lib.rs:33-74` | `boss.queue` | `create_queue`, `delete_queue` | races with a `send` that has read the queue; integers of two widths | no job without a queue; options stored as given |
| Loading, maintenance worker | `src/src/lib.rs:76-146` | a process, its timer and its interval | register, connect, wait, check, `maintain` | reloads, SIGTERM, a missing database or extension, failure and restart | overdue jobs are swept in time; no crash loop |
| Go client, `Work` | `src/client/client.go:245-338` | position in the loop, job in hand, notifications buffered on the connection | LISTEN, drain, handle, report, sleep | lost wake-ups, death with a job in hand, replies lost at COMMIT | nothing sleeps beside work; completed means handled |
| Go client, other calls | `src/client/client.go` | none | one SQL statement each | `Send` inside the caller's transaction | as the SQL functions |
| Channel names | `schema.rs:62-72`, `client.go:133-143` | none | two computations of one name | bytes and characters, a limit of 63 | both name the same channel, and PostgreSQL accepts it |
| Scenario runner | `src/dsltest/src/runner.rs` | variables, pending threads, sessions | one per statement, `consume_wait`, cleanup | spawned threads, NOTIFY and polling, failure in the middle of a script | every scenario ends, joined, with nothing of its own left; no job overlooked |
| Command line, errors | `src/dsltest/src/main.rs`, `error.rs` | worst result so far | one scenario after the other | failures before and after the good ones, leftovers | the exit code tells the worst; scenarios do not meet |
| Scenario parser, AST | `src/dsltest/src/parser.rs`, `ast.rs` | line counter, statements so far | one per kind of line | hand-counted lines, keywords as names, optional parts, options that repeat | no command hides another, the right line blamed, options stored as written |
| Packaging, CI | `Dockerfile`, `.github`, `docker-compose*.yml` | - | - | - | not modelled |

Interaction: everything shares the two tables. Consumers and producers meet
only there and on the NOTIFY channel of a queue; the maintenance worker meets
consumers only through the rows it expires. A job moves
`created -> active -> completed | retry | failed`, `retry -> active`; no code
writes `cancelled`, which `maintain` would purge like the other final states.

The hazards, each at its line and with the properties that cover it, are listed
in `PROJECT.json`.

## 2. Modules

| Module | Models | Extends / instances |
|---|---|---|
| `JobRows` | a row of `boss.job`: what each function makes of it, which rows are due, overdue, expendable | - |
| `Boss` | the SQL functions and the queue registry, in transactions | `JobRows` |
| `BossProofs` | theorems about `Boss`, and what they give to its users | `Boss` |
| `JobLifecycle` | what the functions promise about a job, abstractly | - |
| `BossLifecycle` | the refinement mapping from `Boss` to it | `Boss`, instance of `JobLifecycle` |
| `RefinementProofs` | that `Boss` implements it | `BossLifecycle`, `BossProofs` |
| `Statements` | the same functions row by row, in the order of `fetch`, with waiting and deadlock; the mapping to `JobLifecycle` | `JobRows`, instance of `JobLifecycle` |
| `StatementsProofs` | theorems about `Statements` | `Statements` |
| `Work` | `Client.Work` with producers and maintenance | `Boss` |
| `WorkProofs` | theorems about `Work` | `Work`, `RefinementProofs` |
| `Maintenance`, `MaintenanceProofs` | loading and the background worker; theorems | - |
| `Channel`, `ChannelProofs` | the two channel computations and what PostgreSQL does with the name; theorems | - |
| `Scenario` | one scenario: the runner with its threads | `Boss` |
| `Suite` | the command line: scenarios one after the other | `Scenario` |
| `SuiteProofs` | theorems about `Suite` | `Suite`, `RefinementProofs` |
| `Options` | options of `create_queue` and `send` at their widths | - |
| `Dsl` | the parser line by line, and the options of a file on their way into the tables | `Options` |
| `DslProofs` | theorems about `Dsl` | `Dsl` |
| `MC...` | small instances of the module named | that module |

Operators whose name ends in a word after an underscore (`Retried_Uncounted`,
`Ready_Undated`, ...) are not used by any specification. Each is a plausible
mistake in the operator that follows it; replacing the operator by it must
violate the property that `PROJECT.json` pairs it with.

### JobRows and Boss

State: `queue` and `job` are the tables, functions from keys to a row or NULL;
`issued` are the uuids drawn; `notes[q]` counts the NOTIFYs committed on the
channel of `q`. Per session, `began` is `now()` of its open transaction,
`draft` the row variable `q` of a running `boss.send`, `hidden` the rows it has
inserted and not committed, `claim` the rows a running `boss.fetch` has locked.
`deliveries` is a history variable: how often a fetch has returned the job.

| Code | Actions |
|---|---|
| a statement on its own, `tx.Begin` | `Begin`, then the function, then `Commit` or `Rollback` |
| `boss.send` | `SendRead` (SELECT on the queue), `SendInsert` (defaults, INSERT, `pg_notify`), effect at `Commit` |
| `boss.fetch` | `FetchLock` for each row of the CTE with `FOR UPDATE SKIP LOCKED`, effect at `Commit` |
| `boss.complete`, `boss.fail`, `boss.maintain` | `Complete`, `Fail`, `Maintain`, which include the COMMIT |
| `boss.create_queue`, `boss.delete_queue` | `CreateQueue`, `DeleteQueue` |
| an error, a lost connection, ROLLBACK | `Rollback` |

Abstractions, and why they lose nothing the properties speak of:

* `complete`, `fail`, `maintain` and `delete_queue` are one step each, although
  they visit rows one after the other and may have to wait. `Statements` has
  those steps, and both modules implement the same `JobLifecycle`: for every single job the
  two are alike. That `maintain` treats all rows in one instant is an
  abstraction: another session could see some of its rows late. No property
  relates two rows that `maintain` has changed.
* `FetchLock` locks one row at a time, any of those that are due and free, and a
  fetch may commit with fewer than `batch_size`. The code looks at the rows in the
  order of `ORDER BY` and goes on to the limit, so this allows more than it does; the order
  and what a fetch may leave out are the matter of `Statements`, where rows are visited one
  by one in that order and passed over if locked. Nothing that `Boss` promises
  depends on the choice.
* A fetch finds nothing (`FetchEmpty` in `Work`, `ConsumeMisses` in `Scenario`) in one
  instant in which no row is due and free. The code may look at one row, locked, and then at
  the next one while the first is released. That matters only if it is released
  without having been taken, by a fetch that did not commit, which is the case of the run
  `lostrace` anyhow; or if it is put back meanwhile, by `fail`, which announces it to a consumer
  that has done its LISTEN, or by `maintain`, which announces nothing anyhow.
* A `Rollback` of a session with a locked row leaves the row as it was, so the
  new version written by `fetch` is not in `job` before the COMMIT: nobody else
  can see it, and nobody else can lock the row.
* `send` can be repeated in one transaction (`WithRowQuerier`); the other
  functions run in a transaction of their own, as every caller in the repository
  runs them.
* `DeleteQueue` waits for the foreign-key share locks of uncommitted inserts
  and for the row locks of running fetches, as DELETE with ON DELETE CASCADE does.
* Notifications carry the job id, which no listener reads; they are counted.
  PostgreSQL merges NOTIFYs with equal payloads only, and ids differ.
* Payload (`data`), `output` and the queue's `created_on` are left out: no guard reads them.
* Time is a number of seconds. Uuids are numbers, compared as numbers; their
  order says nothing about the order of creation, because `SendInsert` picks any that is free.
* Options are rows of integers here; how they become that is in `Options`.
  Errors in casting them are `Rollback`.

### JobLifecycle and BossLifecycle

A job is `none`, `waiting`, `active`, `completed`, `failed` or `gone`, with its
queue, its limit and the number of times it was handed out. There are no
transactions, locks, clocks or counters of retries: it is put back while it
has been handed out at most `limit` times and given up otherwise. `BossLifecycle` maps a
row to it: uncommitted rows are `none`, `attempts` are `deliveries`, `limit` is
the retry limit or 0 if it is negative. So `retry_count`, the time stamps and
the two places that decide about retries are all implementation.

### Statements

A call is a statement per session (`stmt`), the rows its snapshot selected and
it has still to visit (`todo`), the row it waits for (`want`), and the rows it
has locked and changed (`mine`), visible to others at `Commit`. `ChangeRow` is a visit:
the WHERE clause is looked at again with the row locked. A row that no longer
matches is passed over; one that another session holds is waited for, or skipped
by `fetch`. `maintain` and `delete_queue` go on with a second statement and a
new snapshot (`NextStatement`: the purge; the cascade). `DeadlockDetected`
makes one call of a circle fail, `Disconnect` any call. A `send` waits for a
`delete_queue` that holds the queue row, and a queue that is created anew is a row
that nobody has selected yet. `fetch` visits rows in the order of its `ORDER BY`
(`Turn`, `Better`) and locks or skips each before it looks at the next; the other
statements visit theirs in any order. `clear` is history: the rows a fetch selected
that no other session has held since its snapshot, that is, those it had no reason
to skip.

### Work

`pc`, `cur` and `seen` are a consumer's place in `Work`, the job in its
handler's hands, and the notifications it has consumed of those its connection
received since LISTEN (a position in `notes`). Actions follow the code: `Listen`,
`Call` (a statement opens its transaction), `FetchOne`, `FetchReturns`,
`FetchEmpty`, `HandlerReturns`, `Report` (`process`, which ignores the Boolean
of `complete` and `fail`), `Wake` (one notification for each
`WaitForNotification`). `Stop` is every way `Work` returns: cancellation, a lost
connection, an error; a transaction in flight is rolled back or, if only the
reply was lost, committed. `Restart` is the caller. Producers send in
transactions that may be rolled back; `JanitorStep` is the maintenance worker.

### Maintenance

The worker is `registered` by `_PG_init` if the library is preloaded, `Connect`s
(reading the setting, which it never does again), `Wake`s at the timeout or when a signal
sets the latch, `Check`s for the extension and runs `Maintain`, or dies of it
(`MaintainFails`) and is started again five seconds later. SIGTERM ends it for
good. Around it, `Reload`, `Terminate`, `ServerRestarts`, `CreateDatabase`,
`CreateExtension`, `DropExtension`. Of the jobs only the one that has been
overdue longest is kept (`overdue`); `setbacks` counts the starts of the worker
since then. Time stops while the worker can run: its steps take no time
compared with a second.

### Channel

A queue name is its length in characters and in bytes. `boss.channel` counts
characters, `Channel` of the client bytes; `pg_notify` raises an error over 63
bytes and LISTEN truncates the identifier. md5 is taken to be injective, and a
hashed name never equal to a plain one.

### Scenario and Suite

The main thread executes an arbitrary script, choosing each next statement;
`MaxSteps` bounds its length. `consume_wait` is `first` (fetch at once), `second`
(LISTEN and fetch again), `loop`, `wait`, `again` (check the deadline, wait for a NOTIFY or 50 ms, fetch), the
same for the foreground and for spawned threads. `timeout_iter` returns on a
NOTIFY or after the interval, so it may return at any time. A statement that
only reads is the failure it may end the script with. All clients `#N` of the
main thread are one session, as it uses one at a time. The errors of
`delete_queue` in a cleanup are ignored, as in the code: `spoiled` tells which
of the two cleanups may have left something. `named` are the queues that `collect_queues`
finds in the script, chosen when the file starts; a statement of a kind it
collects (`Collects`) is executed on those only, and the cleanups delete
only those. A queue that only an assert names is collected as well, so `named` may be
larger than what the other statements touch. A fetch whose connection breaks is rolled
back or, if only the reply was lost, committed (`ConsumeBreaks`).

`Suite` runs files one after the other: `FileFails` (unreadable, unparsable, no
database), `FileStarts` (a new Runner against the tables as they are, which
`standing` and `earlier` remember),
`ScenarioStep`, `FileEnds`, `MainReturns`. `MaxSteps` bounds the statements of all files
together. `~Respawn` restricts it to scripts that do not spawn
into a variable they have not awaited; what happens otherwise is the run
`respawn`.

### Options and Dsl

`Options`: `create_queue` converts with `as_i32`, which wraps an `i64` to 32 bits
(`Cast32`); `send` casts in SQL, which raises an error (`Castable`). The widths
are constants. `as_i32` also turns a string or a fraction into the default;
dsltest and the Go client never send one, so that is left out.

`Dsl`: a line is a sequence of tokens. `Grammar` is a table with the tokens each
command begins with and the items that may follow, in the order of `alt`. The
parser's actions are `SkipLine`, `ReadHeader`, `ReadStatement` and
`ParseError`; then the statements that touch options run (`CreateQueue`,
`DeleteQueue`, `Push`), and any other one succeeds or fails (`Other`). Every statement may
fail with an error of the database, which ends the run at its line (`Fails`).
Like the AST, a statement has for each option the number that came last;
the values of `message`, `data`, `within` and `output` and the variables of
`exactly_one_claimed` reach no column and are left out.
A file starts without queues: one that an earlier file left because its own
cleanup failed, with whatever columns, is the matter of `Suite`.

## 3. Runs

| Run | Instance | Shows |
|---|---|---|
| `transactions` | 2 sessions, 2 jobs, times 0..2, batches of 1 and 2; plain, delayed and never-retried sends | exclusive row locks, accounting, bound on deliveries, stamps, delays, final states, retention, NOTIFY at commit, no orphans; `Boss` implements `JobLifecycle` |
| `statements` | 4 calls of 2 sessions on 2 jobs, times 0..1 | one end per delivery, no orphans, a fetch takes the best of what nobody else touches, only sweeps are victims of a deadlock, `JobLifecycle` is implemented row by row |
| `prompt` | 2 consumers, 1 producer, 2 jobs, times 0..1, no failure | one holder, no lost wake-up, every job settled |
| `crash` | 2 consumers, producer, worker, 1 job, times 0..2, 1 stop | completed means handled, stuck jobs are released |
| `worker` | settings of 1 and 3 s, 20 s, 3 disturbances | overdue jobs are swept in time, no crash loop |
| `names` | 5 names that take 63 to 85 bytes with the prefix, 2 listeners, 2 sends to each | the two computations agree; only multibyte names are refused |
| `suite` | 2 files with 4 statements between them, main thread and 1 spawned thread, 1 job, times 0..1 | no job claimed twice or overlooked; every scenario ends, joined, with nothing left that it made or names; the next one is given no job of it; the exit code |
| `dsl` | files of up to 3 lines behind a header, single lines of every few tokens, numbers of 3 bits in columns of 2 | lines counted, every line read as the one command it can be, options stored as written |

Runs that show a disagreement between the code and what its comments say:

| Run | The code | The statement |
|---|---|---|
| `delayed` | `fail` announces a retry at once, when its delay has not passed; `Work` has no timer, so nobody takes the retry | `client.go:112` an error "fails it (which retries until the queue's retry limit is reached)" |
| `lostrace` | a fetch that skips a locked row ends the drain; the holder rolls back, and the job waits beside sleeping consumers | `client.go:263` "Drain everything currently available before sleeping." |
| `multibyte` | 40 two-byte letters pass the check on characters; `pg_notify` refuses the name and `send` fails | `schema.rs:62` "long queue names fall back to a hashed channel" |
| `respawn` | a second `spawn` into a variable drops the first handle; that thread is not joined | `runner.rs:62` "Always join leftover background consumers" |

The first two concern consumers in `Client.Work`. In both, any later send or
prompt retry on the queue wakes the consumers, and the scenario runner polls
because of them (`runner.rs:372`). That `maintain` puts jobs back without any
NOTIFY (`schema.rs:207`) has the same cause: nobody announces
a job when it becomes available by the passing of time. The run `delayed` has no
maintenance worker and does not show that case; the theorem about lost wake-ups
(`NoLostWakeup`) excludes it by its hypothesis.

### Bounds

* `JobIds`: a job never refers to another one, so two jobs show every interference
  between rows, and one of them passed over for the other; `BestFirst` is proved for any number.
* `Sessions`: two are a racing pair; every lock is between two sessions, and two
  sessions are enough for a deadlock. They
  are interchangeable in `Boss` (SYMMETRY); no liveness property is checked with symmetry.
* `Queues`: one. A queue can be deleted and created again. Jobs of different
  queues share no rows; the theorems hold for any number.
* `MaxClock`: delays, expiry and retention of 0 and 1 seconds give before, at and
  after each limit. `TypeOK` and all proofs leave time unbounded above.
  A deadline in `Scenario` that lies beyond `MaxClock` is `MaxClock`, so time-outs happen.
  The 20 seconds of `worker` are three restarts of 5 seconds and an interval.
* `MaxStops`: one death while another consumer lives on.
* `MaxCalls` (`Statements`): four calls are fetch, two competing reports or
  sweeps, and one more delivery; `transactions` and the proofs have no such bound.
* `MaxSteps` 4 over `MaxFiles` 2: send, spawn, consume and await in one file, or
  a job left by the first file and a consumer in the second.
* `MaxEvents` (`Maintenance`) bounds what disturbs the worker; `MaxSends` (`Channel`) the sends.
* `Half32` 2 and `Half64` 4: wrapping, and integers outside both types, with numbers from -5 to 5.
* `ProducerBegins` stops when the uuids are used up, otherwise a transaction could never insert.

Deadlock is checked in `Boss` and `Channel`. Elsewhere the system may rest (all
consumers asleep and all jobs sent; main has returned; the file is executed; the
clock at its bound and the calls used up), and the configurations say
`CHECK_DEADLOCK FALSE`.

### Fairness

`Work`: weak fairness of each consumer's `WorkerStep` (it runs; its handler
returns), of `JanitorStep` (the worker's loop; the postmaster restarts it if
it fails) and of time. No fairness for producers, for `Stop`, or for
`Restart`: nobody has to send, and nobody has to start a consumer again.
Locks need no strong fairness: `SKIP LOCKED` never waits.
`EventuallySettled` is checked without failures, with immediate retries, and
with no expiry within the bound, because `delayed` and `lostrace` show that it
is false otherwise.

`Suite`: weak fairness of the command line's own steps, of the main thread, of
each waiting consumer and of time. `DeleteQueue` waits for locks, but every
session that holds one commits or fails.

## 4. Proofs

All for constants of every size (`JobIds` finite), from the assumptions named in
the modules: NULL is no value of the tables, options are well typed, uuids are
natural numbers, the main thread and the threads it spawns have sessions of their own,
consumers use no session of a producer or of the background worker, a file is a
sequence of lines of tokens and the defaults of `create_queue` are SQL integers.

| Module | Theorem | States |
|---|---|---|
| `BossProofs` | `Invariance` | `Spec => []IInv` |
| | `TypeCorrect` | `[]TypeOK` |
| | `ExclusiveClaims` | `[]RowLocksExclusive` |
| | `EveryJobHasItsQueue` | `[]NoOrphans` |
| | `DeliveriesAccounted` | `[]DeliveryAccounting` |
| | `BoundedDelivery` | `[]DeliveriesBounded` |
| | `StampsCorrect` | `[]StampsMatchState` |
| | `DelaysKept` | `[]NotStartedEarly` |
| | `FinishedStaysFinished` | `TerminalIsFinal`, what no step may do to a finished row |
| | `NothingLost` | `RemovedOnlyWhenDue`, when a step may remove a row |
| | `NotifiedOnArrival` | `NotifyOnArrival` |
| `RefinementProofs` | `Refinement` | `Spec => ImplementsLifecycle` |
| `WorkProofs` | `WorkTypes` | `[]WorkTypeOK` |
| | `NothingCompletedUnhandled` | `[]CompletedOnlyAfterSuccess` |
| | `ExclusiveHolders` | `[]NothingOverdue => []AtMostOneHolder` |
| | `NoLostWakeup` | `[]Prompt => []NoSleepingOnWork` |
| | `PromptConsumers` | both, outright, under the options of `prompt` |
| | `ConsumersAreSafe` | every property of `Boss` above, of the consumers |
| | `ConsumersImplement` | `WorkSpec => ImplementsLifecycle` |
| `MaintenanceProofs` | `WorkerTypes` | `[]TypeOK` |
| | `MaintenancePunctual` | `[]SweptInTime` |
| | `CrashesHaveCauses` | `[]NoCrashLoop` |
| `ChannelProofs` | `ChannelTypes` | `[]TypeOK` |
| | `OwnQueueOnly` | `[]WokenForOwnQueue` |
| | `RefusalNeedsMultibyte` | `[]OnlyMultibyteRefused` |
| `StatementsProofs` | `StatementTypes` | `[]TypeOK` |
| | `DeliveriesEndOnce` | `[]OneEndPerDelivery` |
| | `CascadeMissesNone` | `[]QueueOutlivesJobs` |
| | `FetchTakesBest` | `[]BestFirst`, for any batch |
| | `ReportsNeverDeadlock` | `[]OnlySweepsDeadlock` |
| | `RowByRowRefinement` | `Spec => CallsImplementLifecycle` |
| `SuiteProofs` | `SuiteTypeCorrect` | `[]SuiteTypeOK` |
|  | `ClaimsAreExclusive` | `[]OneDeliveryOneVariable` |
|  | `ThreadsAreJoined` | `[]AllJoined` |
|  | `CleanupIsComplete` | `[]LeavesNothing` |
|  | `ScenariosDoNotMeet` | `[]OwnJobsOnly` |
|  | `ExitCodeTells` | `[]ExitTellsAll` |
|  | `ScenariosAreSafe` | every property of `Boss` above, of a run of dsltest |
|  | `ScenariosImplement` | `SuiteSpec => ImplementsLifecycle` |
| `DslProofs` | `ColumnsAreIntegers` | `[]TypeOK` |
| | `LinesCount` | `[]EveryLineCounts` |
| | `OptionsReachColumns` | `[]StoredAsWritten` |

**Boss.** Lemmas on the row operators (`NewJobSound`, `StartedSound`,
`CompletedSound`, `RetriedSound`, `GivenUpSound`, `UnfinishedSound`,
`ExpiredSound`) say that each keeps a row well formed and `RowSound`. `IInv` is
types, `SessionInv` (transactions began in the past; uncommitted rows are new
and belong to one session), `IssuedInv` (a uuid never drawn has no row and no
history), `RowLocksExclusive`, `NoOrphans`, and `RowSound` of every row. None of
these is inductive alone: that a fetch commits the rows it selected
needs `RowLocksExclusive` (nobody changed them), which needs that `complete`,
`fail` and `maintain` touch active rows only (`ActiveUnshared`); that a new row
starts with no delivery needs `IssuedInv`; that a rolled-back insert takes no
other session's row with it needs `SessionInv`; and that `started_on` is not in
the future needs `began <= clock`. There is one lemma for each action, `NextInv` joins
them, and `InvConsequences` derives the properties from `IInv`. The two action
properties follow from `IInv` and `RowStep`, which says for each action what it
can do to a row that is there.

`NotifyOnArrival` compares the growth of `notes` with the number of
rows that become visible in the same step; finiteness of `JobIds` carries the counting.

**Refinement.** `BossLifecycle!OnePurpose` is invariant with `IInv`: a
transaction of fetch inserts nothing and takes jobs of one queue, and nobody has
received an uncommitted job. Then `Commit` is at most one kind of abstract step,
for several jobs; `Complete`, `Fail` and `Maintain` put back or finish what
`deliveries` and the limit say they must (from `RowSound`), and every other
action leaves the abstract jobs alone.

**Statements.** `LockInv`: one session at a time holds a row, and what it has
made of it is what its statement makes of the row as it is committed (`Written`).
So a COMMIT never writes back an old version, and only a purge changes a row
twice (`WrittenTwice`). `CascadeInv`: a cascade holds its queue, which keeps `send`
away, and has visited or will visit every job of it. With these each COMMIT is one
step of `JobLifecycle` or none. The same promise is thus proved twice, of `Boss`,
where a function is one step, and here, where functions mix row by row.
`OrderInv` is about the rows in `clear`: nobody has changed them (`Untouched`), so they
still satisfy the WHERE clause when their turn comes, and those left out come after all that were
taken (`InOrder`). It must be about these only: a better row that was locked at its
turn and released just after is left behind, for a worse one. `CircleInv`: `fetch`
never waits, and `complete`, `fail` and the first statement of `delete_queue` have one
row to visit and hold none before; who is in a circle holds one and waits for another.

**Users of Boss.** `UsersAreSafe` and `UsersImplement` say that whatever starts from an
empty job table and takes only steps of `Boss` has all of the guarantees above.
The theorems about `Boss` are about callers that may do anything; these carry over to
the consumers of `Work` and to dsltest, whose modules are not instances of `Boss`'s
`Spec` but call its actions in an order of their own.

**Work.** `StepIsBoss` shows that every step of `Work` is one of `Boss` or
leaves its variables alone, so `IInv` is inherited. `HandInv` adds that a consumer
about to report success holds a job that some handler finished.
`AtMostOneHolder` is false without a hypothesis: a handler may outlive
`expire_seconds`, and then `maintain` gives its job to another. `NothingOverdue`
supposes just that it does not. What makes it inductive is `HoldersActive`, a job in
hand is active: then no fetch selects it, no report of another consumer touches it,
and only the holder or an expiry ends it.
`NoSleepingOnWork` is false when a job becomes due, or an overdue one is put back, with
nobody to announce it, or when a consumer stops in the middle of a fetch (runs `delayed`
and `lostrace`); `Prompt` excludes just these. The invariant is
`Watched`: for every free job some consumer is alert, that is, it will look at the
queue again before it sleeps, in a transaction that is late enough, or has a
notification it has not seen. It needs `ConnectionInv`: a consumer that waits has no
transaction open, and only consumers fetch. That a job cannot become free
without a notification is `Announces`, from the proof of `NotifyOnArrival`.
`PromptConsumers` shows that the two hypotheses are no wishes: without stops and delays,
and with expiry no shorter than the bound on time, `PromptInv` is inductive and
implies them. The constants of the run `prompt` are such.

**Maintenance.** `TimerInv` bounds `wakeAt` by the clock and the interval in
each place of the worker, and says how late the oldest overdue job can be when it
fires; `CrashInv`: a worker about to die of a missing
function owes its crash to an event that has been counted.

**Channel.** `ListenerInv`: a listener has been woken as often as there
were sends on the channel it computed since it listened.

**Suite.** Every step of a scenario is one of `Boss` or leaves its variables
alone (`ScenarioIsBoss`), so `IInv` is inherited. `JoinInv`, `WaitInv` and
`OutcomeInv` say who runs: a thread that is at work is in `pending`, once, and the
main thread consumes in a phase of its own. `HoldInv` is about all the places a job can be
in the hands of a scenario (a variable, the result of a thread that is awaited,
that of a consume in the foreground): two of them hold the same job only if it has
been retried, since a fetch commits rows that were not active, and
`retry_count` and `deliveries` never shrink. `LeavesNothing` needs two sides: what a
scenario makes is in the queues its script names (`MadeInv`, from `DraftInv` for a push whose queue
was read before), and those are gone after a cleanup without an error (`CleanInv`), with
their jobs (`NoOrphans`). Queues of earlier files that it does not name stay, with
their jobs, and it never gets one of these: `OwnInv` says that after the first cleanup no job older than
the scenario is in a queue it names, and `ClaimInv` that a consumer locks rows of its own queue only.
`VerdictInv` is about the loop of `main`. `Suite` assumes
`~Respawn`, no script spawns into a variable it has not awaited: without it
`AllJoined` is false, as the run `respawn` shows.

**Dsl.** `OptionsOfIs` says what
setting options one after the other comes to: the last number given for each. That
is an induction over the tokens of a line. No induction theorem that takes a
predicate can be used, so it goes by a least counterexample (`LeastNumber`, from the
well-foundedness of < in the library), which also gives the recursive function its
existence (`OptionsExist`). `Casts` is the arithmetic of `as i32`.
`IInv` then has a part for each stage. `FileInv` and `StatementsInv`: what has been
read are the lines of `Body` up to `pos`, statement n having n - 1 of them before it,
which is what makes the blamed line right. `DoneInv`: execution begins when all
is read. `QueueInv`: a queue is what some create made it that no delete has followed,
and one that is not there has been deleted since every create; the second half
is what the next create needs to be the first since. `JobInv`: the last job has what
its push said or what its queue still says, until that queue is deleted.

Only model-checked: all liveness (`EventuallySettled`, `StuckJobsReleased`,
`SuiteEnds`, `PollersTakeReadyJobs`), because fairness and ENABLED are out
of the prover's reach, and the counterexamples of the runs that expect one; and
`EveryReadingFound`, which is about the table of commands as it is: that none of them gets in the
way of another is no consequence of a general argument, and is checked on every line of up to four or
five of the tokens that can follow the first words of a group of commands (`Lines` of `MCDsl`). Every other safety
invariant and every action property that a passing run checks is stated by a theorem.

## 5. Not modelled

* Isolation levels other than READ COMMITTED, and functions other than `send` as
  parts of a longer transaction of the caller.
* Overflow of time stamps and durations.
* Options given as strings or fractions, which no caller in the repository sends.
* The connection pool, JSON encoding, logging, the characters inside a token.
* Packaging, CI, the regression tests and the scenario files themselves: they
  were read as statements of what the authors expect.

## 6. Plan

Done: `Boss`, `JobLifecycle`, `Work`, `Channel`, `Scenario` and the inductive
invariant of `Boss`; then `Options`, `Dsl`, `Maintenance`, `Statements`, `Suite`,
the refinement and the proofs about fetch, `Work`, `Maintenance`, `Channel`,
`Suite`, `Statements` and `Dsl`.

What could follow: the order of insertion (jobs of one transaction, and of
transactions that overlap), once the repository says what order it promises.
