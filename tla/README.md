# TLA+ models and proofs for the local ETL tool

The tool runs *pipelines*: graphs of sources, transforms, control nodes and
sinks, compiled to SQL and run by a DuckDB process on one machine. Around that
sit a store that remembers how far an incremental source has been read, a
scheduler, a history of runs, connectors to queues, streams and warehouses, a
command line, a small web console, a desktop application and self-contained
"artifacts" that carry a pipeline and its engine.

This directory models the parts where order, concurrency and failure decide
whether data is lost, read twice or acknowledged too early. `PROJECT.json` is
the index: every component, run, mutant, mapped definition, finding, hazard and
theorem. All source paths below are relative to the repository.

## 1. Inventory

| Component | State it keeps | Operations | What is hard about it |
|---|---|---|---|
| State store (`crates/state/src/lib.rs`, `crates/duckdb-engine/src/remember.rs`) | `.etl/state/<key>.json`, one temporary per key | load, fold a report into it, save by write and rename, forget | no lock: a run, a scheduled run, an artifact and a forget may interleave; crashes between any two system calls |
| Workspace lock (`crates/scheduler/src/lock.rs`) | lock file, status file | acquire, acquire with `--force`, drop | two operating systems' rules; a crash leaves a file on one of them |
| Executor (`crates/duckdb-engine/src/exec.rs`, `native.rs`) | relations, spills, staging files, outcomes, receipts | one script, or stage by stage through a session; deliver; settle | a failure anywhere; what may be acknowledged after it; skips through a graph; leftovers of earlier runs |
| Session (`crates/duckdb-engine/src/session.rs`) | child process, two pipes, two channels, a sequence number | open, prelude, execute, close | four parties, two streams without an order between them, timeouts with late answers, full pipes |
| Scheduler loop (`crates/scheduler/src/run.rs`, `every.rs`, `watch.rs`, `cron.rs`) | next due times, poll times, what a watch last saw | start, pass, run, sleep | runs hold each other up; restarts; the wall clock moves back; files that are still being copied |
| Cron (`cron.rs`, `crates/state/src/time.rs`) | five sets of numbers | parse, next minute after an instant | the calendar's edges; a search that jumps |
| Run history (`crates/state/src/runs.rs`) | one JSON-lines file per pipeline | append, read, prune | prune rewrites while others append; torn lines; one temporary name |
| Secrets (`crates/secrets/src/lib.rs`) | a key file, a store | init, set, remove, get | no lock, no temporary file, a race for the key |
| Parameters (`crates/duckdb-engine/src/params.rs`) | what was used | check a contract, resolve text | resolved at build and again where an artifact runs |
| Plan compiler (`crates/duckdb-engine/src/plan/`) | none | order, drop disabled nodes, choose materialisation, write SQL | pure |
| Queue connectors (`sqs.rs`, `pubsub.rs`, `rabbitmq.rs`, `lease.rs`) | receipts, a keeper thread, batches | receive, hold, acknowledge, release; send | a hold may lapse; batches settle and land partly |
| Stream connectors (`kafka.rs`, `nats.rs`, `kinesis.rs`) | a position per partition or shard | read a batch from the position; send | retention gaps, caps, shards that split; order by key |
| HTTP layer (`http.rs`, `rest.rs`, `graphql.rs`, `gcp.rs`) | attempts, pace, a token, a cursor | send with retries, sign in, page, write | Retry-After, lost answers, pages that happen to be full |
| Warehouses (`bigquery.rs`, `snowflake.rs`, `clickhouse.rs`, `sqlserver.rs`, `mongo.rs`) | a saved value, batches | read what is new; append, truncate, merge | a position that is a value; requests that take effect twice or late |
| Model calls (`ask.rs`, `crates/assistant/src/server.rs`) | a counter, a stop flag, a slot per row | ask every row from several threads | empty slots, the cost of calls, a child process |
| Runner (`crates/runner`) and `etl build` | the artifact's file, a shared cache directory | build, read, unpack, run | cut files, several artifacts unpack at once, platforms |
| Desktop (`apps/desktop/src/main.rs`) | busy and cancelled flags, a server in a slot | ask, cancel, exit | a lock let go while the model loads |
| CLI, console, MCP, frontend | little of their own | call the above | which of them run at the same time |

How they interact. `etl run`, the scheduler, the console and an artifact each
load the state, compile a plan with the marks found there, run it through the
executor, append to the history and, only after a success, fold the report into
the state *loaded again* and save it. Queues are settled by the executor itself
after delivery. The scheduler runs one pipeline at a time and is the only one
protected by the workspace lock: everything else may run beside it. The
executor either hands DuckDB one script, or drives a session when the plan has a
control node, a native transform or a stage policy.

What makes each part correct is stated as the properties of section 3; what can
go wrong is the `hazards` list of `PROJECT.json`, 40 entries, each at its line.

## 2. Modules

| Module | Models | Composition |
|---|---|---|
| `IncrementalLoad` | the abstract promise of incremental loading: marks claim only rows that landed | abstract specification |
| `StateStore` | the store and the processes that use it | refines `IncrementalLoad` |
| `StateStoreProofs` | | extends `StateStore` |
| `WorkspaceLock` | the scheduler's lock | stands alone |
| `QueueHold` | the queue sources, their receipts and the keeper | what `Executor` calls a receipt |
| `Executor`, `ExecutorProofs` | both ways of running a plan | takes any well-formed plan |
| `Session`, `SessionProofs` | the protocol with the DuckDB child | what `Executor` calls a statement |
| `Scheduler` | the scheduling loop | what starts `StateStore`'s runs one at a time |
| `Cron` | parsing a cron expression, the search for its next minute | what `Scheduler` takes as a set of instants |
| `KafkaRead`, `NatsRead`, `KinesisRead` | the stream readers over several runs | their saved position is a state of `StateStore` |
| `StreamProofs` | | extends `MCStreams` |
| `Deliver` | the stream and queue sinks | what `Executor` calls delivery |
| `Load` | the sinks to tables, collections and APIs | likewise |
| `Watermark` | incremental reads by a column's value | the abstract marks of `StateStore`, with the values that make them hard |
| `HttpCall` | one call through the HTTP layer, with a shared token | what `Load`, `Paging` and `Deliver` call a request |
| `Paging` | reading an API page by page | |
| `Ask` | rows put to a model by threads | |
| `ServiceProofs` | | extends `MCServices` |
| `RunHistory`, `SecretStore`, `RunnerCache` | three kinds of files that processes share without a lock | |
| `Artifact` | building, reading and cutting short an artifact | its file is what `RunnerCache` unpacks |
| `Params` | resolving a document, once or twice | |
| `ToolProofs` | | extends `MCTools` |
| `DesktopAssistant`, `DesktopAssistantProofs` | the desktop assistant's requests and its server | |
| `LocalProofs` | | extends `MCLocal`, instantiates `SessionProofs` and `DesktopAssistantProofs` |
| `MCStateStore`, `MCExecutor` | constants and symmetry for TLC | extend the module they are named after |
| `MCStreams`, `MCServices`, `MCLocal`, `MCTools` | several components in one state space | a behaviour is of the one that `which` names; the others' variables rest |

The last four give every component constants and variables of its own and let it
take all of its steps; a property of a component is stated under `which = ...`. Components
in one of these modules do not meet: they share a state space, and nothing else.
There, one property says of one component all that makes it correct, as a
conjunction of parts that are defined, and explained, in the component's module.

### StateStore

One pipeline; the rows of a source are numbered in the order of its incremental
column, so a mark `m` says that rows `1..m` are loaded. Per process: `pc`, the
marks read at start (`since`), what its probe saw (`seen`), the state about to
be saved (`stored`), where its open file is now (`handle`). On disk: `file` and
the one `tmp` that all writers share; each is absent, empty, cut short or whole.

- Actions are system calls: load, probe, sinks, record in the history, load
  again and fold (`remember`), create the temporary, write it, rename it;
  likewise for `etl state forget`. A process can be killed, or a call fail,
  anywhere. Rows arrive at any time.
- The watermark probe of a session-driven run returns nothing, as the code
  does (`NeedsSession`, finding `state_driven`).
- An open file follows its inode: a writer whose temporary was renamed by
  somebody else writes into the state file itself.

### WorkspaceLock

One action per system call of `acquire` and `Drop`. A behaviour happens at one
of the `Sites`, which says which operating system it is (a handle opened without
sharing on Windows, a file created exclusively elsewhere) and when people use
`--force`: as the refusal message advises, when nothing else runs ("alone"), or
at any time ("any").

### QueueHold

One run of one queue source, beside its keeper thread and another consumer.
`broker` is SQS, Pub/Sub or RabbitMQ. A message is visible, hidden for `left`
more ticks, or gone, and its last receiver is the one whose handle counts.
`phase` goes through `receive` (a call, its answer held and written row by row),
the run, and `settle`: the keeper is stopped and joined, and the handles go to
the broker in batches; RabbitMQ has one message and a closed channel instead. A
call may fail with or without having landed, SQS may refuse single entries, the
channel may be closed and the process killed. Time passes only as fast as
`CallTime` says that calls are; `HoldAssumption` is the exact condition under
which half a period is soon enough: a message that arrives just behind the
keeper's snapshot waits for the rest of its batch, the round under way, half a
period and the next round.

### Executor

The rows of a relation, a file or an output are the set of runs that read them:
`{run}` is fresh, an older number is left over, `{}` is nothing there. `plan` is
any member of `Plans`; a stage has a kind, inputs, retries, a continue-on-failure
flag and a materialisation. `pc` goes through preparing, reading native
sources, the script or the loop over stages (each an attempt with its
statement, probes and verdict), delivery of native sinks, settlement, and the
drop of staging files and receipts on every way out. The process may be killed
at any step.

All that one script tells of itself is two sequences on its stdout, `counted` and
`marks`; a value is written as the probe that printed it, a stage and a port. A
plan that loads an extension prints a count of no stage's first (`Prelude`), a
quality node (`splits`) prints two, and the watermark probe of an incremental
source prints none but a mark, with counts or without. The reader knows only the
plan and the sequences: it sets the prelude's count aside (`StageCounts`), pairs
the rest with `CountProbes` and `WatermarkProbes` by `Position`
(`PairedWith`, for the report), and blames the owner of the probe at the
position where the counts end (`Named`). `CountsTellWhose` says that both
come out right: `ReportsItsOwn` of every report, `BlamesTheCulprit` of every
failure.

### Session

The child writes its lines, then a marker to stdout and an error marker to
stderr; pipes hold `PipeSize` lines; each pump moves lines to an unbounded
channel; the driver reads stdout up to the marker and then stderr up to its own.
A timeout may come at any read; the kill that follows takes effect later. Whether
a child is `prompt` or may hang is chosen at the start. Each stream is a whole
history with two cursors, so that *whose line was read by whom* can be stated.

### Scheduler

`now` moves while a run is going, while the loop sleeps and while nothing
schedules; the loop's own steps take no time. A watched path is the second of
its last write, and a copy writes in every second that it takes. The variables
`landed`, `lastDue`, `lastEnd`, `missed`, `idleSince` and `grid` only record what
the properties speak of. A cron expression is the set of instants that it
matches. The properties about instants and latencies are stated for a clock that
was never set back (`Steady`); `NoOversleep` and `OnGrid` hold with any clock.

### Readers of streams

One module per connector, each over several runs: what the stream does between
and during runs (records arrive, expire, are compacted away or deleted;
partitions are added; shards split, merge and age out; the topic or stream is
made anew), one run with its calls, its cap and its failures, and the engine,
which keeps the position only when the whole run succeeds. A record is its
number. Records that vanish where nothing could tell, under a run or before
anything of a shard was read, are counted apart (`missed`).

### Sinks

`Deliver` has one action per call of the six stream and queue sinks, from the
batch through answers that are lost, refused in part or sent again to the
sentence the sink ends with. A batch is a set of rows, sent in the order they
were read; `log` is what the destination holds, each entry a row at a place in
a turn: the turns order what landed in different calls.
`Load` does the same for tables: a request whose answer was lost may have done
its work, may never, or may do it later (`late`), unless the service knows it by
an ID. Both keep the sink's own count beside the truth.

### Watermark, Paging, HttpCall, Ask

`Watermark` keeps only the order of values, nulls and ties; it has a run with or
without a cap and `start`, and a node that is pointed elsewhere and back.
`Paging` reads a list that changes under it through each style of pagination,
from an API with its own page limit and possibly useless cursors. `HttpCall`
counts every instant as ticks left or since; `Ask` has a step per atomic
operation of the threads, and classes of answers instead of texts.

### RunHistory, SecretStore, RunnerCache, Artifact

Actions are system calls, and processes die between any two. A history file is a
function from the places of its lines to the set of records written on each,
since a record may stand behind a torn one. A
sealed secret is its key, its name and its value. An artifact is a sequence of
units, so that offsets, lengths, a trailer and a file cut short mean what they
do in the code.

### Cron, Params

Pure algorithms, run step by step as the code's loops do, beside a reference
definition: `Means` and `FiresOn` for cron, `Meaning` for parameters. A cron's
fields are parsed from alternatives (`*`, a number, a range, a step), and the
calendar is computed in full. A text of `Params` is a sequence of symbols: a
character (one stands for a plain stretch) or a `{...}` that names a parameter, a
built-in, a variable of a context or of the environment, a secret, or nothing.
What texts, declarations and bindings there are is a constant; the runs take the
samples that the module defines. One symbol occurs in secrets only (`WellGiven`)
and tells where they have gone.

### DesktopAssistant

A request takes `busy`, clears `cancelled`, uses or spawns the server in the
slot, waits for it and completes a draft; the window cancels and closes at any
moment; the server may die. `doomed` are the requests that a cancel found.

## 3. Runs

Violations are findings: the code disagrees with a comment, a document or a test
of its own, quoted in `PROJECT.json`.

| Run | Bounds | Checks |
|---|---|---|
| `state_single` | 1 process, 1 watermarked and 1 positioned source, 2 rows each; crashes and failures anywhere | types; `NoRowLost`; `NeverTorn`; `SuccessIsRemembered`; `MarksOnlyGrow`; `CatchesUp` (liveness) |
| `state_race` | a run, an artifact and a forget; 2 rows | `ImplementsLoad`: the three implement `IncrementalLoad`, so no row is skipped |
| `exec` | graphs of 4 stages over the kinds in `MCExecutor`, 2 runs, driven without counts or as one script with them | types; `SettledRowsLanded`; `SkipsAreExplained`; `LeavesNothing`; `FreshRows`; `CountsTellWhose`; `RunsEnd` (liveness) |
| `streams` | 2 partitions, 3 shards, a cap of 1 record; 2 Kafka offsets, 3 NATS messages, 2 Kinesis records | `KafkaReads`, `NatsReads`, `KinesisReads` |
| `services` | *queues*: 2 messages in batches of 1, a hold of 8 ticks, three brokers. *Sinks*: 3 rows in batches of 2, one resend. *Loads*: 4 rows in batches of 2, one repeat. *HTTP*: 2 threads, 2 retries. *Watermark*: 4 rows, a cap of 1. *Paging*: 4 rows, pages of 2, 2 changes. *Ask*: 2 threads, 4 rows | `DeletedWereDelivered`, `QueueTells`; `SinksTell`; `LoadsTell`; `CallsSignedIn`; `WatermarkReads`; `PagesRead`; `ModelAnswers`; `ServicesEnd` (liveness of all of them) |
| `local` | *lock*: 4 starts; Windows with `--force` at any time, elsewhere as advised. *Session*: 3 statements, 2 lines per stream, pipes of 1. *Desktop*: 2 requests, cancels, the exit | `MutualExclusion`, `NobodyElseIsNamed`, `LockFileStays`; `SessionHears`; `AssistantHolds`; `LocalEnds` (liveness of all three) |
| `tools` | *scheduler*: an interval, a cron, a watch; 8 instants; 2 starts, or 1 and the clock set back once. *Cron*: 219 expressions from 4 instants at ends of hours, months, leap years and a century. *History*: 5 runs, 2 pruners that keep 2. *Cache*: 3 processes. *Secrets*: 2 commands, 2 names, a swap by hand. *Artifacts*: 2 builds, 2 platforms, 2 destinations. *Parameters*: texts of up to 3 characters | `Punctual`, `Watched`; `CronSearch`; `HistoryKept`; `CacheShared`; `SecretsStay`; `ArtifactsRead`; `ParamsMean` |
| `state_torn` | 2 runs | violates `NeverTorn` |
| `state_driven` | 1 run through a session | violates `SuccessIsRemembered` |
| `exec_counted` | a driven run with counts | violates `SettledRowsLanded` |
| `watermark_ties` | 4 rows and a cap of 1 | violates `NextRunCarriesOn` |
| `artifact_passes` | one parameter | violates `SecondPassFinishes` |

What the properties with parts consist of (each part is defined in the
component's module; the component's types go with them).

| Property | Parts |
|---|---|
| `LeavesNothing` | `NothingLeftHeld`: however a run ends, it holds no message; `NoLitter`: a run that reports leaves no spill |
| `KafkaReads`, `NatsReads` | `SkipsNothing`: the position never lies past a record that was there to be read and was not delivered; `ReadOnce`: successful runs deliver a record once |
| `KinesisReads` | `SkipsNothing`; `ParentsFirst`: a child shard after its parents |
| `QueueTells` | `ReportIsTrue`: what settle reports is so; `LapsesAreTold`: a message that somebody else received meanwhile is reported |
| `SinksTell` | `DeliveredAll`; `NeverOverclaims`: a failed sink's count; `KeyOrder`; `OnceUnlessInDoubt` |
| `LoadsTell` | `LoadedAll`; `NeverOverclaims`; `MergeIsWhole`: a MERGE happens or does not; `WrittenOnce` |
| `CallsSignedIn` | `FreshAfterBackoff`: no expired token behind a back-off; `OneTokenForAll`; `PacedStep`: two requests are `min_interval` apart |
| `WatermarkReads` | `SkipsNothing`; `ReadsOnce`; `CatchesUpStep`: an uncapped success has delivered all there was |
| `PagesRead` | `ReadsAll`; `LoopCaught` |
| `ModelAnswers` | `EveryRowAnswered`; `EarliestNamed`; `CallsBounded`; `ServerGone` |
| `ServicesEnd` | `ComesBack`: what a queue run has not deleted becomes visible; every delivery, load, read, stage and call ends |
| `SessionHears` | `Attribution`: lines are their own statement's; `LostForGood`; `PreludeHeard` |
| `AssistantHolds` | `ServerHeld`; `CancelHolds`; `BusyIsTrue`; `NothingOutlives` |
| `LocalEnds` | `NeverWedged`: on Windows a crash does not wedge the workspace; calls of execute, closings and requests end |
| `Punctual` | `FiresOnce`; `KeepsPace`; `OnGrid`; `NoOversleep` |
| `Watched` | `WatchLatency`; `NeverPartial` |
| `CronSearch` | `SearchAdvances`; `OverNothing`: no matching minute is stepped over |
| `HistoryKept` | `HistoryAccounted`: what may lose a record; `HalfFileTakesTwo`; `NewestStays` (if any are to be kept); `OldestFirst` |
| `CacheShared` | `EngineStays`: whoever runs the engine runs a whole one; `CleansUp`; `StaysInPlace` |
| `SecretsStay` | `KeyStays`; `ValueIsIts`; `SavedStays` |
| `ArtifactsRead` | `ReadsBack`; `OnePlatform`; `KeyMeansEngine` |
| `ParamsMean` | `SaysWhatItMeans`; `ArtifactAgrees`; `SecretsKept` |

Why the bounds are enough.

- *State store*: a lost row needs a mark above it and one save; two rows
  distinguish "all", "some" and "none". Three racing processes cover every pair
  of writers with a third that renames or removes; the theorems cover any number.
- *Lock*: a broken exclusion needs two holders and somebody to remove the file;
  a fourth start covers a recovery beside a fresh start.
- *Queues*: two messages and batches of one make every settlement and every
  round take two calls, either of which may fail; a hold of 8 is the smallest
  for calls of one tick.
- *Executor*: four stages are the smallest graphs with a source, a decision, a
  merge and a sink, with every choice of inputs that reads one or all earlier
  relations; the second run sees what the first left. The scripts have up to two
  incremental sources, an extension's prelude and a quality node, before and
  behind other stages. The theorems hold for plans of any size.
- *Session*: three statements put one before and one after the statement that
  is lost; a pipe of one line fills at once.
- *Scheduler*: an interval of three seconds, a cron of two instants and a poll
  every second collide, overrun and are overrun within eight seconds, with runs
  of up to two; a copy may span several polls.
- *Streams*: a skipped record needs a cap that falls before it and a later run;
  three shards are a parent and its two children, or two that merge.
- *Sinks and loads*: more rows than one batch holds and a number that does not
  divide, so that a last, short batch follows a full one; one repeat is enough
  for a row to land twice or late.
- *Watermark*: loads of one or two rows make a tie, a cap of one falls into it.
- *HTTP*: the margin is just above what the attempts, the pace and the back-offs
  of one call add up to, as it is in the code's defaults.
- *Paging*: a list of twice the page size ends with a full page.
- *Ask*: more rows than threads, so that a thread comes back for a second one.
- *History, cache, secrets*: a lost update needs two writers; the third process
  of the cache finds what the other two left.
- *Cron*: the expressions combine every form of part with days 29 to 31, months
  of each length and both day fields; the instants are the last minute of
  a year, the last day of February in a leap year and ends of months.
- *Parameters*: three characters are enough for an escape before a reference, a
  reference after a lone dollar and one that is not closed.
- *Desktop*: two requests, one of which finds what the other left.

Deadlock is checked except in the runs of `Executor`, whose last run may end or
be killed. A delivery, a read or a command that has ended stutters, by a step
of its own (`Ended` in the modules, `CommandsEnd` in `MCTools`).

Fairness, and why the code gives it.

- `StateStore!FairSpec`: a process that can take a step takes it (nothing in a
  run or a save waits for another process), the scheduler starts the pipeline
  again, and failures end some day (`TroubleEnds`). Without the last, no
  incremental load could catch up.
- `WorkspaceLock!FairSpec`: neither acquire nor Drop waits; a holder may hold
  for ever; crashes stop eventually.
- `QueueHold!FairSpec`: time passes, the keeper's thread and a settlement go
  on (each call has a timeout), and `recv_timeout` returns once the other end
  of its channel is gone, however often it timed out before.
- `Executor!FairSpec`: one thread that waits only for its child, bounded by the
  session's timeout.
- `Session!FairSpec`: the driver's loop and the pump threads run, and a kill
  takes effect. Only a `prompt` child has fairness, and only a child that may
  hang is timed out: a call of execute returns to the one by its answers and to
  the other by the timeout. That closing returns is stated for prompt children
  and for sessions that were lost, whose child has been killed.
- `Deliver`, `Load`, `Paging` and `Ask` take a step when they can: each call
  has a timeout, and what is repeated is counted.
- `HttpCall`: time passes whenever no thread would move without it (strong
  fairness, since a thread that moves holds time up for an instant), a sleep
  ends and a request has a timeout. Nothing is assumed about who gets the
  cache's mutex, so only a call that has its token is shown to end.
- `DesktopAssistant`: a request goes on, and loading and completing have a
  deadline each. The window need not close.
- `Scheduler` has only safety properties; what must happen in time is stated
  against its clock (`WatchLatency`, `NoOversleep`, `KeepsPace`).

Every property has a mutant, and so has nearly every part of one: an operator
beside the definition it changes, with the comment `Mutant:`, that makes a
plausible mistake.

## 4. Proofs

All by TLAPS, for every value of the constants.

**StateStoreProofs.** `TypeCorrect`; `NoRowLostTheorem`, `Spec => []NoRowLost`;
`ImplementsLoadTheorem`, that the racing processes implement `IncrementalLoad`.
`NoRowLost` speaks of the file alone and is not inductive: a mark travels from a
probe through a process's memory and the shared temporary. `IInv` says that
*every copy of the marks that can still reach the state file* claims only rows
that landed, in both files and in every process, and that a run which has not
failed has delivered all that its probe saw (`SeenLanded`). Writers may then
overwrite each other in any order: whichever copy wins is covered. The
refinement follows from `IInv`, before and after a step.

Three more hold only of commands that do not overlap, which is what the comments
of `crates/state` assume, and are proved as `Spec /\ []OneAtATime => ...`:
`NeverTornTheorem` (the state file parses, wherever a command fails or is
killed), `MarksOnlyGrowTheorem` (if nobody forgets) and
`SuccessIsRememberedTheorem` (likewise, off the session path). `SerialFiles`
says that the only writer's handle is on the temporary and that what it renames
is the whole document it means to save; `SerialMarks`, that the marks it read are
still in the file and those it saves are no less. The runs `state_torn` and `state_driven` show that neither
condition can be dropped.

**LocalProofs.** `MutualExclusionTheorem`, `LockFileStaysTheorem` and
`NobodyElseIsNamedTheorem`, assuming `Sound`: every site is on Windows, or uses
`--force` as advised. The invariant ties
holding to the open handle on Windows (`HandleIsLock`) and to one owner of an
existing file elsewhere (`FileIsLock`), through the steps of Drop, where the
file is still somebody's although nobody holds. Without the assumption two
schedulers can hold one workspace (section 5). `SessionHearsTheorem` and
`AssistantHoldsTheorem` carry the results of `SessionProofs` and `DesktopAssistantProofs` over to
`LocalSpec`, where the parts share variables.

**ServiceProofs.** `DeletedWereDeliveredTheorem`, for any number of messages,
any batch size, timing and failures. The invariant says that while a run
receives, what it holds is written or about to be (`Receiving`): Pub/Sub's
messages are held before a row is written, SQS's one by one. An acknowledged
receipt therefore holds only what was written.
`QueueTellsTheorem`: what settle reports is so, and a message that somebody else
received meanwhile is not kept from the report. Its invariant has three parts:
types and the pace of calls (`KInv`); that as long as nothing was refused, what
the settlement has left behind is settled (`SInv`); and the
race of the keeper against the broker's clock (`HInv`): each message's remaining
hold is at least what the rest of its batch, the round under way, half a period
and the next round can take, which is why `HoldAssumption` is the condition.
`WatermarkReadsTheorem`, for any number of rows, any cap and any start
(`RowsAssumption`: they are numbers). `MarkInv` says that nothing delivered lies
above the position, which some row has reached (`Reached`), so that a later load
lies above it; that what comes while a statement runs lies above all it could
see (`ComesLater`); and what the statement selected in terms of the position
(`Selected`). The step that needs them all is a run that succeeds
(`MarkFinishes`): a row at or below the new position was read, was delivered
before, or shares the value of the last row read, which is the exception.
`CallsSignedInTheorem`, for any number of clients that share one token and any
attempts, back-offs and pace under which `REFRESH_MARGIN` outlasts a call
(`CallsAssumption`; the code's five minutes against four requests of 30 s and
back-offs of 3.5 s). `CallInv` is an account of the margin: a token was fresh by
more than `Margin` when it was taken, and `Fresher` says how much of that each
step of each attempt may have used.
`LoadsTellTheorem`, for any rows, batch size and number of repeats
(`LoadAssumption`) and every sink and mode. `Placed` says that what is counted,
the statement under way and the batch follow on one another in the input;
`Bounded`, how often a row can be in the table, counting requests that may yet
take effect; `Inserted`, `Staging` and `Upserted`, what the table of each kind of
sink holds in terms of the rows that are counted.
`ModelAnswersTheorem`, for any finite set of threads (`WorkersAssumption`) and any
rows. `Held` says that no two threads have one row and that a row which was
taken is answered or in somebody's hands, unless the threads were told to stop;
`Spent` counts the threads that will take no row any more, which bounds the
counter, and those past their check of the flag, which bounds the calls after a
failure. `PagesReadTheorem`, for any list, page size, API limit and changes
(`PagesAssumption`: sizes are positive, as `positive` in `rest.rs:348` and
`graphql.rs:452` sees to). One that counts has exactly the first rows of a list
that holds still (`ReadByCount`); one that follows cursors has every row that
stayed and does not lie behind its cursor (`ReadByCursor`); a cursor that stands
still is found on the second page (`ReadInLoop`).
`SinksTellTheorem`, for any rows, batches, resends and places (`PlacesAssumption`,
`LoadAssumption`) and all six sinks. `SinkCounts` says that what is counted is
what was read and is not in hand any more, and that all of it has landed;
`StreamingHolds`, `CallingHolds` and `RabbitHolds`, that what is in hand has not
landed or is in doubt, which is why a resend writes nothing twice but what is in
doubt; `KeysInPlace`, that rows of one key are in one place, from which, with the
turn that every call takes, the order of a key follows.

**ExecutorProofs.** `ExecutorTypes`; `SkipsAreExplainedTheorem`: the outcomes,
derived from direct inputs only, are right about everything upstream, for every
graph; `SettledRowsLandedTheorem`: what is acknowledged or handed back has
landed in every sink that no branch decided against, assuming `Trusted` (no
counts, or one script), which `exec_counted` shows to be needed. The first is an
invariant about neighbours (`Local`), from which *upstream* follows because the
set of stages that neither failed nor were skipped for a failure is closed under
inputs. The second adds that a stage which ran left this run's rows where they
belong (`Left`), that delivery has got exactly as far as its loop (`Delivery`),
and that nothing is acknowledged before all have landed (`Done`).
`FreshRowsTheorem`: a stage that ran holds this run's rows only, assuming
`SpillsAreChecked` (no spills on the counted session path, where a left-over may
answer for a COPY that failed); the invariant `Fresh` exempts only views over
spills of stages that have not run. `LeavesNothingTheorem`, without assumptions,
from `Spilled`: rows on disk are of this run or an earlier one, and of this run
only between its first stage and the point where its path clears them.
`CountsTellWhoseTheorem`, without assumptions: what position alone puts to a
stage and port was printed by that stage's probe, and a failure is put to the
stage whose statement or count failed. Its invariant (`Attribution`) says of the
sequences that they enumerate the probes before the stage the script has come to
(`Enumerates`): as many values as there are probes before it, each at its own
position. A position is the number of probes that come before, so it grows from
probe to probe (`PositionGrows`), no two share one (`PositionTells`), and the next
value belongs at the end (`EnumeratesNext`); a quality node takes two such steps.

**ToolProofs.** `PunctualTheorem` and `WatchedTheorem`, for any number of
schedules, any periods and matching instants, any length of runs and any
restarts. `PInv` adds to `OnGrid` the order of what was due, started, ended and
is next (`InOrder`), and that a sleep ends before anything is due or polled
(`SleepIsShort`). `WInv` adds where a copy that ended stands with its watch
(`Noticed`: it is due, or not yet seen and polled within a period, or seen,
unsettled and polled within two), that a poll of this second saw a whole file
(`WholeFiles`), and that the loop looks in time (`LooksInTime`).
`CacheSharedTheorem` and `SecretsStayTheorem`, for any number of processes of one
artifact and of commands on any secrets (`ProcessAssumption`: a process is not
one of the marks that its fields may hold instead). `CacheInv` says that what may
be renamed into place is complete, and that only a place which began with an
unmarked directory is ever cleared. `VaultInv` rests on `InMemory`: a command that
has the store in memory has in it everything that was saved, but for the names
that an overlapping save has touched since it read; so its own save, which writes
all of it back, loses nothing else. `OneMakes` says that one command fills the key
and that nothing was saved before; `Sealed`, that what the workspace's key opens
was set under its name.
`HistoryKeptTheorem`, for any number of runs and of commands that prune at once,
and any `--keep` (`HistoryAssumption`). `CutsFit` accounts for the files that may
yet be renamed over the history, one in each pruner's hands and one on disk: what
such a file keeps, what it dropped as old and what was appended since it was read
are, together, all that the history has to show (`Fit`), and the newest run it
could know is among what it keeps. `TwoCross` says that a half-written file is
renamed only after two pruners have met.
`ArtifactsReadTheorem`, for any number of builds of any platforms that die or run
out of disk at any unit. The files' bytes follow from one fact: unless two builds
have written into it, a destination holds a beginning of one build's artifact
(`DestinationFits`, `IsBeginning`), and of an artifact only the last unit is the
magic number; so a file that reads as an artifact is a whole one.
`ParamsMeanTheorem`, for any texts, declarations and bindings (`ParamAssumption`:
they are sequences of symbols, and only a secret holds what tells one).
`RunMeans` says that what is written and the meaning of what is still to be read
are, joined, the meaning of the text; `Remembered`, that a secret which was
written is on the list. For artifacts, `BuildMeans` says what a build leaves to be
read a second time: no dollar before another or before an open brace, none before
braces but the built-in's (`Clean`), and that the artifact reads what is written
so far as it was meant, *whatever comes behind it* (`Means`); `ArtifactMeans`, that
reading it never comes to a reference it cannot resolve. `Meaning` is defined by
recursion over the text. That there is one such function and one only
(`RightExists`, `RightOnce`), and that it reads a rest or a plain stretch as it
should (`RestIsRead`, `PlainIsRead`), is shown by the least length for which it
might fail, since induction as a rule is out of the prover's reach.

**SessionProofs.** `SessionHearsTheorem`, for any number of statements and lines
and any pipe size (`Sizes`). `Written` describes both streams as whole histories:
the lines of each statement in turn, each closed by its marker. `InStep` says
where a driver that has not lost its session is in them; `Behind`, that once lost
one of its streams is a marker behind and can never catch up, so that no later
call can answer.

**DesktopAssistantProofs.** `AssistantHoldsTheorem`, for any number of requests
(`Named`: the mark of an empty slot is not a request). One request is under way
at a time (`OneAtATime`); a server belongs to the request that spawned it
(`OwnServer`) and is in the slot or in the hands of who stops it; a request that a
cancel found has the flag up for as long as it may look at it, and nothing to
draft with once the slot is emptied and Stop is through (`CancelledStay`); with
nothing under way at the exit, nothing fills the slot again (`Ending`).

**StreamProofs.** `NatsReadsTheorem`, `KafkaReadsTheorem` and
`KinesisReadsTheorem`, for any number of partitions, shards, messages and runs
and any `max_records` (`NatsSizes`, `KafkaSizes`, `KinesisSizes`: the constants
are sizes, with at least one partition, the two shards that a stream begins
with, and one record in NATS). The invariants say what a position means at every moment: what was delivered lies behind it
(`KafkaBehind`), a run starts from it, and everything readable between there and
where the run has got to is among its rows (`KafkaAt`), never past the end that
was recorded at the start (`KafkaAsked`). The step that needs work is one fetch
(`FetchFacts`): a broker answers with the first few of what it holds, the reader
writes the first few of those below its end (`FirstFacts`), and steps over what
was not written only if nothing readable is left below the end. In Kinesis a
position is kept for every shard and may be none at all: `Ahead` says of each
record still to be read that it is held, or lies behind a record that was read,
so that opening the shard finds out; `PassedFrom`, that what an iterator has
passed is delivered, given up or about to be delivered, counted from the first
row when the shard was opened at its end; `ReadingOf`, that the parents of an
opened shard were finished when it was opened and stay so. The checkpoint of a
shard that was opened and gave nothing needs `SinceStarted`.

Only model-checked: the liveness properties (`CatchesUp`, `RunsEnd`,
`ServicesEnd`, `LocalEnds`), which are out of the prover's reach; and
`CronSearch`, which would take a proof of the calendar's arithmetic.

## 5. What the checks found

1. `state_torn`: two runs of one pipeline share a temporary file; the state file
   may end up unreadable, although the comments promise at worst a re-read.
2. `state_driven`: on the session path the watermark is looked up in the array
   of rows instead of in the first row, so it is never remembered.
3. `exec_counted`: with counts on, a failed sink on the session path counts as
   having run, and the queue's messages are deleted.
4. `watermark_ties`: an incremental read of MongoDB under `max_records` that stops between
   two rows of one value saves that value, and the next run asks for what is
   above it; the documentation says that the next run carries on.
5. `artifact_passes`: a required parameter that was bound when an artifact was
   built is missing when the artifact checks the contract again.

Seen while modelling, and outside what the properties above promise:

*State, executor, session, scheduler*

- A forget is undone by a run of the same pipeline that is under way: the run
  saves its marks over the removed file.
- A watermark probe that fails inside a script is blamed on the stage after it,
  or on none if it was the last one's: its stage's counts have all arrived. The
  comment at `exec.rs:919-921` says that "the stage owning the next one is the
  culprit"; `BlamesTheCulprit` states what the code does, this case included.
- A driven run that fails early leaves its spills, and a driven run with counts
  whose statement fails may take such a spill for its own (`builders.rs:1398`).
- A sink stage that is retried after its effect appends twice.
- Closing a session waits without limit and never kills, although the comment
  in `shutdown` speaks of a kill.
- Away from Windows `--force` takes the lock of a live scheduler: the leftover is
  removed whether or not somebody holds it.
- A watch that settled and then waited for another pipeline's run is started
  without a second look, possibly in the middle of a new copy; `NeverPartial`
  is about the moment at which the loop decides.
- Missed ticks are counted by the length of the run and not by the ticks of the
  schedule. A clock set back during a run makes the same instant fire again;
  `FiresOnce` is stated for a steady clock.
- The comment on `SEARCH_YEARS` (`cron.rs:44-52`) contradicts itself about the
  longest gap.

*Queues, streams and sinks*

- When the first row of a batch from SQS does not decode, the messages behind it
  are not in the receipt yet; they come back when their visibility timeout has
  passed, not at once. (Pub/Sub holds the whole answer first.) A settlement that
  takes longer than the hold lets the last batches lapse, since the keeper stops
  before the first.
- An acknowledgement that RabbitMQ never took is reported as done when the
  connection is lost after it was sent: `Link::close` discards the answer.
- Under a cap smaller than the backlog of its first partitions a Kafka source
  may never come to the others, though `kafka.rs:10-12` says that they take turns.
- The resends of Kinesis and SQS lose the order of what was refused, and the
  Kinesis count may fall short of what landed.

*Tables, APIs and models*

- ClickHouse's first statement lacks the `IS NOT NULL` of the later ones; MongoDB
  saves a null as a position, and `$gt: null` matches nothing.
- A truncating BigQuery job or ClickHouse statement that is repeated after a lost
  answer may wipe what was written in between. A MERGE of SQL Server that times
  out is reported as "Nothing was merged", though it may have been; null keys
  are one group to `PARTITION BY` and none to the MERGE.
- An API whose own page limit lies below `page_size` ends an offset or page read
  after page one without a word; pagination by links has no check for loops.
- A retried request may carry a token that expired during a long `Retry-After`.
- A model stage that fails on a row may never have asked an earlier one.

*Files, secrets, artifacts, desktop*

- A record appended behind a torn line of the history is lost with it; two
  pruners write one temporary file.
- An artifact's start may clear a directory that another one has renamed into
  place and not yet marked (`extract.rs:196-198`).
- A crash between creating and writing the key file leaves an empty key, and the
  secret store is written in place.
- Two builds into one destination interleave. A download cut short of its
  trailer reads as a plain runner. `--runner` may name another platform's.
- An artifact reads `$$`, and a value that holds `${...}`, a second time.
- In the desktop application a Cancel between taking `busy` and clearing
  `cancelled` is lost (`main.rs:387-394`), a late one can hit the next request, a
  load that times out leaves its server in the slot, and a request under way at
  the exit can spawn a server afterwards.

## 6. Not modelled, and the plan

Not modelled because there is no state, or only I/O: schedule files, pipeline
metadata, the plugin SDK's traits, contexts, cloud signing and TLS, the XML and
embedding connectors, the MCP server, the console's pages and the frontend.
Inside modelled parts: the SQL that the plan compiler writes, its stage order and
lineage; the conversion of values to and from a service's types; previews and
the numbers of a report (executor); argument parsing and output (command line).
`fsync` is not called by the code and the models do not include power loss.

Next, in this order:

1. *Proofs*: the cron search.
2. *Plan compiler*: stage order and dropped nodes as operators beside a
   reference definition.
