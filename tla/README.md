# RowTrail in TLA+

RowTrail runs SQL, aggregations, conversions and exports over local files for
clients that come and go. One *workspace* is a directory with a SQLite
database, a `staging/` and a `store/` directory. One *coordinator* process per
workspace owns the database; it runs one job at a time in a *worker* process
and publishes what the worker produces as *revisions* a client can read while
the job still runs. This directory holds the TLA+ modules that describe that
system, the TLC configurations that check them, and machine-checked proofs.

Paths below are relative to `src/crates/runtime/src/` unless they say more.

## Inventory

| Part | State | Operations | Hard behaviour | What makes it correct |
|---|---|---|---|---|
| Durable state (`db.rs`, `prepare.rs`) | `jobs`, `results`, `revisions`, `parts`, `analysis_progress`, `dependencies`, `objects`, `events`, `idempotency` | `submit`, `queued`, `set_worker`, `stopping`, `cancel`, `set_schema`, `publish`, `finish`, `prepare::commit`, `recover` | a transaction and a rename that a crash separates; a stop against a completion; links of an export outside the transaction | what is visible is readable; final means complete; terminal states never change; a stop decides the outcome |
| Coordinator (`coordinator.rs`) | pooled worker, current job, timeout, grace period | `serve`, `scheduler`, `run_job`, `run_job_with_recovery`, `terminate` | killed at any point; a worker that hangs; reuse of a worker; errors of its own calls | every job ends; one worker computes at a time; nothing computes for a job that is over |
| Worker (`worker.rs`) | job, parts acknowledged, part staged, input lines | `run`, `execute_job`, `Output::publish`, `checkpoint`, `export` | outlives its coordinator; is stopped between two jobs; reports late | acknowledged means committed; it stages nothing after the end |
| Attempt cleaning and retention (`storage.rs`, `api.rs`, `results.rs`) | files in `staging/` and `store/`, expiry, releases, pins, quota, the collection lock | `clean_attempt`, `retain`, `gc`, `admission`, `read` | a collection interrupted between tombstone and unlink; readers and submissions against collection | an active job's inputs and a valid result's files are never removed; expired is never shown as empty |
| Events and waits (`api.rs`, `db.rs`) | `events`, cursors, the change notification | `events`, `wait_response` | a change between reading the row and waiting for the notification | no event is skipped, no wake-up is lost |
| Requests (`api.rs`, `src/crates/client/src/lib.rs`) | `idempotency`: key, hash, response | idempotent submission, retry after reconnect | the connection breaks between commit and answer | a retry returns the same job, another request under the same key conflicts |
| Start and stop (`coordinator.rs`, `src/crates/client/src/`) | lock file, socket, endpoint | lock, bind, serve, idle exit, connect with auto-start | two coordinators start; one leaves while a client connects | one coordinator owns a workspace; a client reaches one |
| Sources (`sources.rs`, `db.rs`) | fingerprints, dependencies, validity | `register`, `refresh`, `invalidate` | a source changes while a job reads it | results that depend on it are marked, expired ones stay expired |
| Paging (`results.rs`, `catalog.rs`) | none; cursors are values | `read`, `summary` | limits on rows and bytes, of which the cursor takes a part; what is committed between two pages | a walk sees every row of the fixed revision, or every entry there at its first page, once |
| Aggregation (`aggregate.rs`, `numeric.rs`) | accumulators, fragments done | `execute`, the accumulators of `SUM` | boundaries of `i128`, `i256`, decimals; a file that changes while it is read | fails instead of wrapping; a checkpoint is exact for the fragments it counts |
| Object store (`store.rs`) | files allowed, bytes reserved and read, verified parts | `new`, `get_opts`, `get_ranges`, `VerifiedCache::insert` | concurrent requests, dropped at an await or with a lock in hand; files that change or rot; one path under two names | the budget is never exceeded; nothing unverified is given out; a completed job saw only frozen bytes |
| Engine (`engine.rs`) | none of its own | plans and runs a query | partitions that read at the same time | as the object store; the plans are DataFusion's |
| Probe, CLI, MCP | none of their own | diagnostics, argument translation | | not modelled |

How they meet: clients talk to the coordinator in requests on a socket; every
request and the scheduler task share one SQLite connection behind a mutex; the
scheduler talks to a worker in JSON lines on its pipes, one line per schema,
part and report from the worker, one specification, acknowledgement or stop
towards it; part files pass from worker to coordinator by a rename from
`staging/` to `store/`; a coordinator finds the workers of its predecessor by
the token in the row and on their command line. Inside a worker, the partitions of a
query, or an analysis, read all input through one object store with one byte budget.

## Modules

| Module | What it is |
|---|---|
| `JobContract` | what a client may rely on about a job: its state and its revisions, nothing of how they come about |
| `JobExecution` | the workspace while jobs execute: rows, files, coordinator, workers and their pipes, clients, crashes |
| `Retention` | what the workspace keeps and forgets: inputs of active jobs, page reads, pins and releases, collection, quota |
| `Observation` | how callers watch jobs: the event log, long polls of it, waits, snapshots |
| `RequestContract` | what a client may rely on about a request with an idempotency key, nothing of processes, connections and tasks |
| `Service` | how clients reach a coordinator, and what a request with an idempotency key does |
| `ScanStore` | the object store of a worker: which files it opens, its byte budget, verified parts and their cache |
| `ScanJob` | `ScanStore` under a query on several partitions, or an analysis with its checkpoints |
| `CheckedSum` | the accumulators of `SUM`: batches, partitions, windows, groups |
| `Paging` | clients that page through a revision or the catalog while both grow |
| `MCJobExecution`, `MCRetention`, `MCObservation`, `MCService`, `MCScanJob`, `MCCheckedSum`, `MCPaging` | the instances TLC checks |
| `JobExecution_proofs` | theorems about `JobExecution` for any jobs, workers and bounds: who computes when; stops, revisions, history, files of an export, parts, the contract |
| `Observation_proofs` | theorems about `Observation` for any jobs, callers, windows and bounds: reads, waits, wake-ups; what the log tells of a job, and what a caller knows by it |
| `Retention_proofs` | theorems about `Retention` for any results, sources, requests, quotas and batches |
| `ScanJob_proofs` | theorems about `ScanJob` and its store for any files, manifests, partitions and limits |
| `CheckedSum_proofs` | theorems about `CheckedSum` for any widths, values, batches, accumulators and groups |
| `Service_proofs` | theorems about `Service` for any processes, clients, connections, keys and requests: who is reachable, what a key decides, the contract |
| `Paging_proofs` | theorems about `Paging` for any parts, labels, limits, budgets and lengths |
| `SumTheorems` | lemmas about sums over finite sets, and about what is defined step by step |

### JobExecution

*State.* Each variable is named in the module beside the column, directory or
local variable it stands for. Jobs are abstracted to a *kind*: `plain` and
`preview` queries, `aggregate` with and without `checkpoints`, `prepare`,
`export`. A part is its number, whether its bytes are stored inline or as a
file, and how much input an aggregate had read (`progress`). `staging` and
`store` are the sets of part files. `target` and `sidecar` are the two files an
export leaves at its destination; all exports of an instance share one
destination, so they can collide.

*Steps.* One step is one SQLite transaction, or one file operation that a
crash can separate from its transaction, or one frame on a pipe, or one step of
a worker that the coordinator can observe. `pc` says where the coordinator
stands, so a crash can come between any two of them:

- start and recovery (`Db::open`, `Db::recover`): `StartCoordinator`,
  `RecoverKill`, `RecoverKilled`, `RecoverFinish`, `RecoverClean`,
  `RecoverDone`, and `RecoverGivesUp`, `RecoverFails` for a start that fails;
- the head of `run_job`: `Queued`, `SpawnWorker` or `ReuseWorker`,
  `SetWorker`, `SendSpec`;
- its loop: `HandleSchema`; `PublishInline`, `PublishRename` and
  `PublishCommit`, `PublishReject`, `PublishFails`, then `AnswerOk` or
  `AnswerCancel`; `HandleCompleted`, `HandleFailed`, `HandleEof`; `Timeout`,
  `Signal`, `Kill`;
- its end: `Decide`, `Terminate`, `Finish`, or for an export `LinkSidecar`,
  `SidecarExists`, `LinkTarget`, `TargetExists`, `FinishExport`; `Tidy` and
  `Clean`; and `LostTerminate`, `LostFinish` for the error path;
- a worker: `Take`, `SendSchema`, `Stage`, `SendPart`, `ReadOk`,
  `StageExport`, `Complete`, `Fail`, `Stop`, `Exit`;
- clients and the world: `Submit`, `Cancel`, `ForeignTarget`;
- the process: `Crash` (killed; its worker lives on) and `Shutdown` (SIGTERM
  or idle exit; the worker is killed with it).

The database mutex is held from the rename of a part to its commit and over
both links of an export, so no client request falls in between (`Unlocked`).
Frames of the worker and the 10 ms tick compete in a `select`, so both are
enabled in `loop` at any time.

*Abstractions.* The scheduler's timers fire at any time. Parts have no content:
what they contain, and the digest that `publish` verifies, is not modelled. A
new worker takes a dead worker's identity only when no active row names it:
tokens are fresh UUIDs. `BUDGET_EXHAUSTED` and `RESOURCE_EXHAUSTED` lead to the
same state and are one code. Rows of `events` are in
`Observation`, those of `idempotency` in `Service`.

*Mistakes.* Some definitions have a neighbour marked as a mistake
(`RequestStopLast`, `RecoverEarly`, `LinkSidecarLater`, ...). They are not part of
the specification; each is that definition with one plausible bug, and
PROJECT.json says which property finds it.

### Retention

*State.* The rows of `results`, `objects`, `deps`, `retention`, `pins`, `parts` and
the quota, the files of each result, what each client's request has in hand, and
where a collection stands. A *reference* is a result, a managed dataset (the
dataset object and its manifest, which change together) or the manifest of a
source. How a job executes is `JobExecution`'s matter: here it is active, publishes
parts of one byte each and is over.

*Steps.* Every handler holds the connection's mutex; `workspace` also takes the
collection lock for writing, and `read`, `resolve`, `submit` and `retain` for reading.
So a handler is one step, with three exceptions that are taken apart:

- a page read (`StartPage`, `EndPage`) holds the read lock while it opens files;
- a submission lets go of both locks between `Resolve` and `Submit`;
- a collection is `GcSelect`, its transaction, then `GcUnlink`, `GcForget` and
  `GcMark` for one result after the other, then `GcSweep`. It holds both locks to the
  end, so nothing but a worker (`Stage`) and the end of the process (`Crash`) comes
  in between, or a directory that cannot be removed (`GcFails`).

The other steps are `Open`, `Invalidate`, `Refuse`, `Publish`, `CompleteQuery`,
`CompletePrepare`, `EndOtherwise`, `Retain` and `Configure`.

*Abstractions.* `retain` acts on the nearest result a reference is built from. A page
is of the head revision. Ids are random, so the batch a collection takes is any
set of the right size. After `Crash` a job that ran may go on in the model until
`EndOtherwise` ends it, where recovery would end it at once: more interleavings, not
fewer. Files without a row (see `orphan_after_recovery`) are in no quota and go with
their result's directory; they are left out. A dry run and `usage` change nothing.
`resolve` reads its bindings one by one; as `submit` looks at all of them again in one
transaction, one step stands for it.

### Observation

*State.* `job` has what a caller can see of the rows of `jobs` and `results`; `log` is
the table `events`, whose sequence numbers are its indices, because the table is
AUTOINCREMENT and nothing is ever deleted from it. `call` is where the request of each
client stands in `events` or `wait_response`, `fresh` whether the receiver it made by
`changed.subscribe()` holds a notification it has not seen, `late` whether its deadline
has passed. `follow` is what a client makes of the answers: the cursor it passes on and
the set of events it has received. `told` is the last terminal answer of a wait.

*Steps.* The transactions of a job (`Submit`, `Start`, `Cancel`, `Publish`, `Finish`,
`Invalidate`) commit a row with its events. They keep the connection's mutex until they
have sent their notification, so `unsent` locks it and `Notify` is a step of its own. A
call is `Subscribe`, a read of the database (`ReadEvents`, `ReadJob`), and then either
its answer or `Doze`, the way from the read to the await on which the mutex is free,
and `Wake`; `Expire` is its deadline. A caller follows the whole log (`FollowAll`) or a
job from a snapshot of it (`Snapshot`), polls (`Poll`) with the cursor it was given,
waits (`Wait`), and gets its answer (`Receive`) or loses it with its connection
(`LoseAnswer`). `Crash` takes the channel and all calls; `Recover` and `Serve` bring the
database back.

*Abstractions.* `job.completed`, `job.failed` and so on are one event type that
carries the state. Sizes are counted in units of a small event, a revision's event
takes two. `set_schema` changes only the phase of a row, writes no event and sends no
notification; `phase` is not modelled, and no answer depends on it. The page of rows and
the actions a wait adds to its answer are left out. What callers do with a cursor is
modelled from `rowtrail events --follow` and from the `snapshot` control action.
`NoLostWakeup` is stated for both kinds of call, `EventsOnceInOrder` for the filters of
both kinds of follower. The mutex is free whenever nothing is unsent.

### Service

*State.* `proc` is where each coordinator process stands in `serve`; who is in `Holding`
has the workspace lock. `socket` is the process whose listener the socket's path leads
to, `endpoint` the process that the descriptor names; both survive their process. `conn`
is a connection together with the task that serves it, `client` where a client stands in
`connect` and its call, `want` the request it has no answer to yet. `remembered` is the
table `idempotency`. `executed` counts what was executed under a key, and
`known`, in a connection, keeps what the table said when the request was sent: both only
for the properties.

*Steps.* A coordinator takes the lock or leaves (`TakeLock`), opens the database and binds
(`Bind`), publishes (`Publish`) and serves until it is idle or told to stop (`IdleExit`,
`Terminate`); then it removes both files (`RemoveFiles`), lets the lock go (`Unlock`) and
exits. `Crash` is a kill or a start that fails. Tasks of connections go on until the
process exits, after the lock too. A client connects (`Dial`) or starts a coordinator
(`Launch`) and connects to whoever is there, or gives up (`StartFails`). The connection is
accepted (`Accept`); handshake, check of the descriptor and request are one step (`Send`),
because nothing shared changes in between and a connection that fails there fails before
it as well. The task looks the key up (`Look`), reads what the request reads (`Resolve`)
and inserts the job in a transaction that looks the key up again (`Submit`). The client
reads the answer (`Receive`), gives up (`Abandon`: its call timed out or was cancelled, or
the connection failed) or notices that nobody is at the other end (`Break`). The task of
an abandoned call goes on.

*Contract.* `ImplementsRequestContract` shows `Service` to implement `RequestContract`, which
has a key's hash, the request a client waits with and the answer on its way to it, and nothing
else. `Execute` is the transaction of `Submit`; its other half, the answer, is given in the same
step, in a later one, or to nobody. A repetition that finds its key is a `Tell`. An answer
that was on its way when a call was given up is lost (`Lose`), and the client still waits. All
other steps of processes, connections and tasks are stutters. The contract has a request
executed only while some client waits for it: that a task outlives its call, and its coordinator the
lock, must not show.

*Abstractions.* A request is its key, its method and the parameters that the hash keeps.
What requests read expires all at once, in `Expire`. An answer is whether the request was
accepted, and with which job, refused, or in conflict. Requests without a key, `open`,
the quota, `control lookup` and sessions of several calls are left out, and so is the
socket below a client's own temporary directory, which `connect` tries second. A started
process gets an identity that nothing names any more. Coordinators share only the database
after `Unlock`; what the worker of a predecessor does then is in `JobExecution`.

### ScanStore and ScanJob

*State.* `ScanStore` has the files (`content`, and in `moved` those whose size, inode or
time is no longer what was frozen), what `CountStore::new` has taken in (`allowed`, the
digest and owner of each path), the verified parts with the lock on them (`holder`,
`cache`, `cached`), the counters (`reserved`, `sourceBytes`, `resultBytes`) and, for each
partition, where its request stands (`reader`). `delivered` keeps what requests were
given, for the properties. `ScanJob` adds the job that reads: its state, and for an
analysis the place in its loop (`at`), its accumulators (`states`), `progress` and the
`checkpoints` it published.

*Steps.* A step lies between two points where a request awaits, or where another thread
could see what it did; a blocking task reads byte by byte and cannot be interrupted:

- taking in the files: `Register`;
- an external file: `GetRanges`, then `ReadByte` and `EndRanges`; or `GetStream`,
  `NextChunk`, `EndChunk` and `EndStream`, where only the start looks at the file;
- a managed file: `GetPart`, then `TakeCached`, or `Load`, `Verify`, `Evict` and
  `Insert` under the lock;
- `ReadFails`, and `Drop`, when a query that needs no more, or that is over, drops its
  requests where they await;
- the world: `Change`, which moves the file, and `Rot`, a managed file whose bytes go bad
  unseen;
- a job: `Start` and `Complete` or `Finish`, which validate the sources, `Prepare`,
  `Stop`, `Abandon`; a query: `Ask` and `Work`; an analysis: `NextFile`, `Read`,
  `Receive`, `Await`, `Metadata`, `Accumulate`, `Advance`.

*Abstractions.* A file has its frozen bytes or others; a part of it that was read is the
set of what its bytes were. Changed bytes of a fragment stand for values one larger in the
same number of rows: other numbers of rows or row groups are refused, where the manifest
or the metadata of the file tells them. A change of an external file moves what its metadata
tells, as `docs/usage.md:154` assumes. What a query computes, requests that only ask for metadata
(`HEAD`), and the counters of cache hits are left out, and so are the schema checks
an analysis makes before its first fragment.

### CheckedSum

One accumulator of `SUM`, `SUM(DISTINCT ...)` or `SUM ... GROUP BY` per partition.
`acc` and `groups` are their states, and `given` and `held` the bags of rows that each
stands for. A batch is added up in lanes that spill into the state (`InLane`,
`AddFull`), or in one when it holds NULL (`AddSparse`); a row leaves a window (`Retract`),
partial states meet (`Merge`, `MergeGroups`), and rows travel as states of their own when
partial groups do not pay off (`MergeRow`). The plan may call these in any order. Widths
are constants, so that small values reach every boundary; counts of rows (`u64`) do not
overflow in the model.

### Paging

*State.* `objects` and `results` are rows of the database in the order of their rowid.
`reading` and `listing` are a client's walk: the cursor it was given and what it has got.
The coordinator keeps nothing between two pages.

*Steps.* `OpenDataset`, `Submit`, `Publish` and `Finish` are the transactions between
pages. `Read` is one page of a revision: the parts and rows that are passed over, the row
limit and the bytes of the page, its cursor included (`PageBytes`). `List` is one page of the
catalog. `Again` starts another walk, for other columns or another filter.

*Abstractions.* A row is the number of bytes it takes, and numbers are written to a small
base so that digits matter. A catalog page ends at any entry, because how long entries are when a page
is built is not modelled. The margins of 256 and 128 bytes that `read` keeps are the same here.
Results whose source changed or that were collected are refused, which is
`Retention`'s matter. A client has one walk at a time: walks share nothing.

### JobContract

A job is accepted, begins, shows previews and ends; a stop is asked for once and
decides how it ends; each revision shows at least what the one before showed;
only a completed job shows a final one, and nothing follows. `JobExecution`
implements it under `life <- state, asked <- stop, shown <- revs`
(`ImplementsContract`).

## What is checked

| Run | Instance | Question |
|---|---|---|
| `jobs_one` | one job of any kind, two workers, two parts, two fragments, one crash, one failing call | what the job shows, over every stop, crash, error and hang; that it ends; that the contract is implemented |
| `jobs_two` | two jobs, plain or export, two workers, one part each, one crash | one process computes at a time and only for the active job; two exports to one destination |
| `jobs_queue` | two plain jobs, one worker, two crashes | both end, also when a start of the coordinator gives up because a worker of its predecessor will not die |
| `retention` | two results of any kind, one input each, one source that may change, quotas off and of one byte, any number of crashes and of removals that fail | what reads as valid is whole; inputs of active jobs and pages keep their files; nothing expires that something retained is built from; expired is for ever; bytes stay within the quota; a collection takes what is out of use |
| `follow` | a query or an analysis, one caller of all methods, windows of two rows, one event a page, one lost answer, one crash | each event once and in order; no change slept through; a snapshot and its events are current; the log tells a job's life; followers catch up |
| `service` | two clients, one query and one inspection under one key; two processes, two connections; one coordinator that ends, one call given up | a key is executed once, a repeated request is found, who serves is reachable, whoever asks is answered; the contract of a request is implemented |
| `scan` | a query on two partitions with three requests, or an analysis in either unit, with and without previews; five manifests over four files, one of which may change or rot; four bytes of budget, a cache of one byte | nothing is read unreserved or given out unverified; what completes saw frozen bytes; checkpoints are exact; jobs end |
| `sums` | two accumulators or two pairs of groups, batches of up to five rows of three values or NULL, two lanes of two bits | a sum is exact, or an error where it must be |
| `pages` | two results of three parts, one or two rows each; two revisions and projections; limits 0 to 2; three byte budgets; up to seven catalog entries | a walk is given each row of its revision, or each entry there at its first page, once |
| `cancel_before_exit` | one plain job, no crash | a disagreement with the documentation, below |
| `orphan_after_recovery` | one plain job, two crashes | a disagreement with the documentation, below |
| `inspect_retry` | as `service` | a disagreement with the documentation, below |

*Why these bounds.* Two parts give a part that is published while another is
acknowledged, and a revision that extends one. Two fragments give a checkpoint
that is not the complete one. Two workers are needed for a worker that outlives
its coordinator while the next coordinator spawns its own; one crash makes that
happen, one failing call every error path, also after recovery. A third job or
worker would only repeat this: the scheduler has one job in hand, and recovery
kills every worker that active rows name before it does anything else - which is
what the proofs show for any number of them.

For `Retention`: two results give an input and its user, and with the dataset that a
result stores a chain of three references; a pin, a release or a job can hold any end of
it. A crash or a failing removal may interrupt a collection at any of its steps, as often as
it likes, and the next collection follows in the same run. One client is enough for each race: releases and
collections are requests of their own and can fall between the halves of its
submission. A quota of one byte is used up by one job, stored or reserved, and the
configuration may set it while a job is active. Chains of any length, several inputs and
partial batches of a collection are in the proofs, which are for any numbers.

For `Observation`: a window of two rows is exceeded by the events of one job and can be
filled by events a filter drops; room for two small events makes every kind of cut
and the refusal of an event that does not fit. One caller is enough, because callers
share nothing but the log; the proofs are for any number, and for any number of jobs and
filters.

For `ScanStore` and `ScanJob`: two partitions reserve, lock and are dropped beside each
other; a third would wait as the second does. Four bytes are less than what two
partitions may ask for, and one byte of cache makes every second part evict the first. The
manifests hold an external file, parts, a part that is also bound as a file, and two names
that contradict each other. One file has row groups of three values and of NULL, one has
none, one has a sum that fits and then does not, or an average that does not.

For `CheckedSum`: with two bits a lane overflows at its second value, in both
directions, and a state after five; five rows are two full chunks and a rest. Two
accumulators are a partition and its peer. For `Paging`: with a small base
the page's own numbers gain a digit within three rows, so that the byte budget is met
before, at and after its boundary, and three parts put each limit into the middle of a
part and between parts.

For `Service`: two clients start coordinators at once, and each can leave the other's
connection in the backlog. One call given up makes a task without a client beside the
repetition of its request; the other client's request takes the key from both. One
coordinator that ends is enough for a stale socket or for a successor beside open
connections. What a second key would do is what the first does: no two keys share a row.

*Fairness.* `Coordinate` is weakly fair: the scheduler task and the recovery
steps are not starved, and some client always starts a missing coordinator. So is
the exit of a worker whose coordinator is gone: its standard input is closed and
it runs a watchdog for that. Nothing is assumed of a worker that has a
coordinator: it may hang, which is why the timeout and the grace period exist.
There is no fairness in `Retention`: a collection happens when a client asks for it.
In `Observation` the runtime's tasks go on (`Subscribe`, `Doze`, `Wake`, `Notify`), a read
gets the mutex in the end although others take it again and again (strong fairness), a
coordinator is started again, waits reach their deadline, and a follower that can poll
again and again does so with room for an event. Deadlines of event polls are not
assumed: a poll that has something to return must return by itself.
In `ScanJob` the worker's runtime polls what is ready: `Start`, `Prepare`, the requests of
each partition, the analysis, the end of a query; and a job whose request failed, or whose
files contradict each other, stops. Readers share a lock, and each step of its holder is
fair, so nothing more is assumed of those who wait. There is none in `CheckedSum` and
`Paging`, which are about values.
In `Service` processes and tasks go on, and a client without an answer dials, starts a
coordinator and repeats its request with its key, as `docs/agent-guide.md:52` asks it to.
The liveness properties except the runs in which a call of the coordinator
itself fails (`faults > 0`), because `run_job_with_recovery` and the scheduler
drop the error of a failing `finish`: the row then stays active until the next
start.

`CHECK_DEADLOCK FALSE` is set because the bounds on crashes and the finite set of
jobs let the system come to rest.

### Disagreements found

- `cancel_before_exit`: `run_job` decides to keep its worker before it calls
  `finish`. A cancellation that commits in between is the outcome of the job
  (`StopDecides` holds), but the job is `cancelled` while its worker lives on in
  the pool, although `docs/usage.md:156` promises the worker's exit first.
- `orphan_after_recovery`: recovery finishes an active row, then cleans its
  attempt. Killed in between, the row is terminal at the next start and its
  orphaned part file stays, although `docs/decisions/003-demand-driven-storage.md:66`
  says recovery removes it.
- `inspect_retry`: an `inspect` that scans makes its query from the inspected object
  before it looks its key up. Repeated with its key after that object was collected, it
  is refused, while `docs/usage.md:127` says that a retried request refers to the same
  job. The other methods look the key up first (`AcceptedIsFound` holds).

## What is proved

The theorems are about `JobExecution`, for any sets of jobs and workers, any kinds, any
number of parts, fragments, crashes and failing calls; about `Observation`, for any
jobs, callers, windows, limits, sizes and filters; about `Service`, for any processes,
clients, connections, keys and requests; about `Retention`, for any results, sources,
clients, inputs, quotas and batches; about `ScanJob` with its
store, for any files, sizes, partitions, manifests, limits, requests and changes of files;
about `CheckedSum`, for any widths of lanes and states, any values, batches and accumulators;
and about `Paging`, for any parts, labels, columns, limits, budgets, bases and sizes of what a
page has besides its rows.
The assumptions are those declared with the constants: the absent job, worker and reader
are no members of their sets, nothing hashes to the absent hash, kinds are kinds, bounds are naturals. One says more:
`ManifestAssumption`, about what a job is given to read. A digest is of the bytes that
were frozen when the part was published; another one may stand beside it, and then
`CountStore::new` refuses both. And a managed file is opened as an external one only beside a
binding with its digest: opened alone it is an external file like any other, for which the
code promises no more than to notice that it moved (`docs/usage.md:154`), and whose rot
nothing could notice.

| Module | Theorem | States |
|---|---|---|
| `JobExecution_proofs` | `Inductive` | `Spec => []IInv` |
| | `TypeCorrect` | `Spec => []TypeOK` |
| | `NoComputationAfterTheEnd` | `Spec => []ExecutingIsActive` |
| | `OneJobAtATime` | `Spec => []SingleExecutor` |
| | `ResultsInductive` | `Spec => []RInv` |
| | `StopsDecide` | `Spec => []StopDecides` |
| | `RevisionsReadable` | `Spec => []ReadableRevisions` |
| | `FinalMeansCompleted` | `Spec => []FinalIffCompleted` |
| | `HistoryIsStable` | `Spec => HistoryStable` |
| | `NothingFollowsAStop` | `Spec => NothingAfterStop` |
| | `StagingEnds` | `Spec => NoLateStaging` |
| | `ExportsInductive` | `Spec => []XInv` |
| | `ExportsPaired` | `Spec => []ExportPair` |
| | `StoppedExportsLeaveNothing` | `Spec => []StoppedExportLeavesNothing` |
| | `PartsInductive` | `Spec => []PInv` |
| | `PreparationIsAtomic` | `Spec => []PreparedAllOrNothing` |
| | `PartsAgree` | `Spec => []AcknowledgedIsCommitted` |
| | `ContractHolds` | `Spec => ImplementsContract` |
| `Observation_proofs` | `ObservationInductive` | `Spec => []IInv` |
| | `ObservationTypeCorrect` | `Spec => []TypeOK` |
| | `NoWakeupLost` | `Spec => []NoLostWakeup` |
| | `EveryEventOnce` | `Spec => []EventsOnceInOrder` |
| | `TerminalAnswersStay` | `Spec => []TerminalAnswersHold` |
| | `ObservationLogInductive` | `Spec => []LogInv` |
| | `LogIsALife` | `Spec => []LogTellsEachJob` |
| | `MirrorStaysCurrent` | `Spec => []MirrorIsCurrent` |
| `Service_proofs` | `ServiceInductive` | `Spec => []SInv` |
| | `ServiceTypeCorrect` | `Spec => []TypeOK` |
| | `OwnerReachable` | `Spec => [](OneOwner /\ OwnerIsReachable)` |
| | `OncePerKey` | `Spec => []KeysDecideOnce` |
| | `RepeatedIsFound` | `Spec => []AcceptedIsFound` |
| | `ServiceContractInductive` | `Spec => []CInv` |
| | `RequestContractHolds` | `Spec => ImplementsRequestContract` |
| `Retention_proofs` | `RetentionInductive` | `Spec => []IInv` |
| | `TypeCorrect` | `Spec => []TypeOK` |
| | `TombstonesFirst` | `Spec => []TombstoneFirst` |
| | `InputsStay` | `Spec => []ActiveInputsKept` |
| | `PagesStay` | `Spec => []PageStaysReadable` |
| | `ExpiryIsFinal` | `Spec => ExpiredForever` |
| | `RetentionRespected` | `Spec => ExpiryRespectsRetention` |
| | `CollectionsComplete` | `Spec => CollectionCompletes` |
| | `QuotaIsKept` | `Spec => []QuotaHolds` |
| `ScanJob_proofs` | `ScanInductive` | `Spec => []ScanInv` |
| | `BudgetHolds` | `Spec => []BudgetKept` |
| | `OnlyVerified` | `Spec => []VerifiedOnly` |
| | `OnlyFrozen` | `Spec => []FrozenReads` |
| | `BudgetsHold` | `Spec => []WithinBudgets` |
| | `CheckpointsAreExact` | `Spec => []CheckpointsExact` |
| | `JobTypesHold` | `Spec => []JobTypeOK` |
| `CheckedSum_proofs` | `SumInductive` | `Spec => []IInv` |
| | `SumIsKeptExact` | `Spec => []SumIsExact` |
| `Paging_proofs` | `PagingInductive` | `Spec => []IInv` |
| | `WalksAreExact` | `Spec => []WalkIsExact` |

The argument. Neither `ExecutingIsActive` nor `SingleExecutor` is inductive: they
depend on what the coordinator knows. `IInv` adds

- `Present`, `CurActive`: what the coordinator's local variables hold at each
  place, and that the current job's row is active until its final transaction;
- `Owned`: a computing worker is the one its job's active row names. This is
  what lets recovery kill it: at `RecoverKilled` no live process is named, so
  nobody computes. It is also why `SetWorker` must come before `SendSpec`
  (`RecordedPool`);
- `PoolExecutes`: once killing is over, only the pooled worker computes, only for
  the current job and only between `SendSpec` and its report. So every
  final transaction, which happens outside of that interval, finds nobody
  computing;
- `ReportLast`, `QuietPipe`: a worker's report is the last thing in its pipe,
  and the pipe is empty when the worker gets its next job. Without them a late
  report of one job could be read as the end of the next one;
- `RenamedPart`, `StagedPart`, `DeadQuiet`, `TookSpec`: what a frame and a worker
  hold, needed for the types and for the steps of the worker.

Each part has a lemma that every step keeps it; the lemmas split along the
groups of `Next` and treat the actions that can disturb the part on their own.

The second half of `JobExecution_proofs` builds on that. Its first lemma, `JobSteps`, says that a step of
the system changes a job's row in one of five ways - accepted, asked to stop, taken,
given a part, ended - and under which conditions; what follows is argued over these
five. `RInv` adds to `IInv`

- `StopKnown`: no stop is recorded before one is possible, and a job that is over
  ended as its stop says;
- `PublishRunning`: between the rename of a part and its commit the job is running,
  because the mutex keeps a stop out. Without it a stopped job could gain a part;
- `FiledStored`, `CutoffsIn`: rows name files that are there, revisions name rows that
  are there. Together they are `ReadableRevisions`.

`XInv` is about the destination of exports: while the links are made the job is an
unstopped export whose worker reported completion (`Linking`), the sidecar is there
before the file and goes after it (`Links`), the error path never reports
completion (`LostReport`), a completed export has its file (`ExportsDone`), and as long
as no call of the coordinator fails only a crash leaves the file of a job that did
not complete (`Placed`).

`PInv` adds what coordinator and worker know of a part that is under way.

- `OneExchange`: the parts in the pipe, a part that was read and not answered yet, and an
  answer that was not read are one in all. `Awaited` says why: while it is under way its
  worker waits for the answer, or the coordinator has given the worker up (`GivenUp`): it is
  dead, or reported a failure, or the run is about to end it;
- `Early`, `Working`, `Waiting`: the parts a worker counts and the parts its row counts are
  the same, unless its part was committed and not acknowledged yet: then the row
  counts one more. `CompleteReport`: so a report of completion names the count of the row;
- `Unstarted`, `NewJob`, `IdleOutput`: a job begins at zero, and so does its worker;
- `StagedFits`, `SentFits`, `PreparedFiled`, `Datasets`: the parts of a preparation are
  files, and it has a dataset exactly when it completed. With `CompleteReport` and
  `FiledStored` this is `PreparedAllOrNothing`;
- `Covering`: only analyses cover input, and no revision covers more than the row tells.

`StopAsked` says of an active job that stops that somebody asked for it. Last in the module, the five
changes of a row are mapped to the steps of `JobContract` (`ContractStep`). Most map by what
`JobSteps` says of them; a revision that is appended must also show no less than the one
before, in parts (`PublishSeen`, `EndSeen`) and in coverage, which is what `Covering` is for. So
the contract is implemented for any jobs, workers and bounds.

`Observation_proofs` first shows what the operators of a read return. `Taken` chooses the
last row before the first that does not fit: that there is one is the least-number
principle (`LeastNatural`, from the well-foundedness of the naturals), so no window,
limit or size leaves it undefined, and `ReadStops` says that the cursor stays within the
window. `WorkCommits` says that every transaction appends to the log
and leaves a terminal row's state and revision alone, which keeps `Final` answers
final. The invariant adds to what is claimed

- `AsleepOK`: a call on its way from its read to the await, too, has nothing to return
  unless a notification is with it or still to be sent. This is where subscribing before
  the read matters;
- `PollOK`, `PageOK`, `FollowOK`: a poll starts at its follower's cursor, and the page it
  was answered continues what the follower holds;
- `StateOK`, `ToldOK`: what a wait answered, delivered or not, is final if terminal;
- that an active row shows at most as many revisions as it has parts, for the types.

Its second part is about the last event of a kind that a log holds of a job.
`Tells` and `Shows` say what state and what revision that event gives; both survive events
of other jobs and other kinds, and move with an event of their own. `WorkTells` shows that what each
step writes is what it did to the row. So a job's row is what the whole log tells
(`RowsTold`), and a caller knows what the log tells up to the place where it stands
(`ViewsOK`): with nothing left to read, both are the same.

`Service_proofs` treats the two halves of the state apart. `CoordinatorOwns` and
`LaunchOwns` are about processes and files: `OwnerIsReachable` follows once the lock has
one holder (`OneOwner`), because only its holder writes or removes the files. The rest is
about connections and the table. `SInv` adds `KnownStays`: what the table said when a
request was sent it says still, as rows are never changed or removed, and a task past its
first lookup knew of nothing. That is why `Submit` must look again: it inserts only where
the table has no row, and then no connection was ever told anything of that key
(`SubmitData`), so every answer given before stays true.

The contract needs more than `SInv`, because it looks from the clients. `CInv` has three parts.
`OwnersWait`: a connection has one client, which waits for the very request that was sent on
it. `Backed`: of a request that a task still works at, some client has no answer yet, or its key
is taken, or what it reads has expired; the task may have lost its own client long ago.
`AnswerGiven`: a refusal tells of expiry. When a client has its answer and waits no more,
the task of a call it gave up before may still be at work (`ReceiveContract`). It can no longer
execute anything: an answer that accepts, or tells of a conflict, is of a taken key, and a refusal of
something expired, and both stay so. With that every step is one of the contract or a stutter
(`StepContract`): a reply reaches the one client of its connection or nobody
(`ReplyReaches`), and an insertion has a client that waits for it (`Executes`).

`Retention_proofs` rests on two facts about the closures `Above` and `Below`. They are
intersections of closed sets, so that they are closed and contain where they start
without induction (`AboveClosed`, `BelowClosed`), and one is the mirror of the other:
what lies above nothing that is retained has nothing retained below it
(`BelowMeetsAbove`). `IInv` adds to the types

- `RowsOK`: a result that has not expired has the parts it names, while its job is active
  all it published; a dataset hangs on the result that stores it and expires with it; an
  active job hangs on its inputs by `deps`, and they have not expired. This edge is how a
  collection sees them, and is why `Submit` must look at the inputs again in the
  transaction that writes it;
- `ClientOK`: while a page is read no collection runs, and its result has not expired;
- `CollectionOK`: what a collection has still to remove has expired, and how far it is
  with the present result;
- `AllTaken`: every expired result that is over and not protected is in the hands of
  a collection that runs, or gone already. The condition `Cardinality(Results) <= Batch` of
  `CollectionCompletes` is used here: a collection that stops at its limit leaves the
  rest to the next.

`QuotaHolds` is about sums. `QuotaKept` bounds what the results may come to: all that its
job asked for while it is active, its rows afterwards. What is stored is less
(`SizesOK`); publishing leaves it alone, ends and collections lower it. Admission and
`configure` look at more, at what is stored and reserved (`ReservedCovers`), and hold
the mutex until they commit. `SumTheorems` has what sums over finite sets do when a
term or a set changes.

`ScanJob_proofs` keeps what a request has in hand apart by how it reads (`RequestOK`):
bytes of a ranges request or a stream that are not frozen are of a moved file, bytes of
a part that is to be cached match its digest. What was delivered is as the request had it
(`DeliveryOK`), and nothing is asked before all files are taken in (`Waiting`), so rules
that a later name of a path changes were never used. `JobInv` adds that a
job that completes validated its sources after its last request: a changed byte that was
delivered belongs to a file that is still moved, and by `ManifestAssumption` such a file is among
the sources.

`BudgetInv` is about the counters and the cache: what was counted as read and what requests
at work may still read is together no more than what was reserved (`CountsOK`). That the
cache holds a part once depends on its lock (`LockOK`): whoever loads a part has the
lock, and the part is not in the cache as long as it has.

`AnalysisInv` is about an analysis. Its place in the loops tells how many fragments are behind it
(`PlaceOK`); its accumulators are those of the cells of these fragments, and of the present one
once it was added (`StatesOK`); and bytes that are not frozen are only seen of a file
that moved (`SeenOK`), so that the fragment is not added. That the accumulators of a sequence
of values are those of its cells is shown along the steps of `Accumulated`. The average,
computed in two parts to avoid an overflow, is the exact one rounded towards zero, whatever the
signs.

`CheckedSum_proofs` follows a state through what is done with it. `Good` is the
invariant of one state: as long as it has not failed, its sum and count are those of the
rows it stands for; once it has failed, their values come to the bound of i256 (`Magnitude`).
The second half needs to be kept within a batch as well, where neither the state nor a lane
alone is the sum: `Carried` says that state and lanes have it together, and that their
distances from zero are together no more than the values are, so that a state which
fails when it takes up a lane had values at the bound (`InLaneCarries`). At the end of a batch
`Ending` says the same of the state and the lanes that it has not taken up yet. For
`SUM(DISTINCT ...)` the state is good for each value once (`Once`), which changes when the first
of its rows comes and the last one goes. A retraction takes out a row that the accumulator
has, as a window does: it asks of a state that it has not failed.

`Paging_proofs` has two halves. In both the database only grows: `Grows` says that entries,
parts and revisions are added and none of them changes. For the catalog, `Listing` says that
the entries of the first page are those within the bounds of the cursor (`ThenStays`).
They are finitely many in one total order, so a page is the first few of those ahead of
the cursor, and what was shown is what is behind it (`PageMovesCursor`); that
one more entry is fetched than asked for tells whether any is left (`FewMeansAll`).
For a result, `RevisionsCount` says that a revision shows parts that are committed and counts
their rows; without the count a page could not tell the end. `Reading` says that the
offset in the cursor is the number of rows the client has. `PageIsExact` follows the two
loops of `read`: after each row the page holds the rows from the offset on, what
`page_metadata_bytes` adds up is what is sent (`PageBytesAreSent`), and the page is refused
only if a page with the next row alone, or with none, is over the budget. So the last check of
`read`, on the page as it is sent, never refuses what the loop let pass.

`SumTheorems`. The prover cannot instantiate a theorem that is stated for every operator, so
induction is stated there about sets: a set of numbers that has zero and with every number
the next has all of them (`NumbersBySteps`), and the same for the subsets of a finite set
(`SubsetsBySteps`). From these come what `SumFunctionOnSet` is, although the community modules
define it by a choice among functions, and that functions defined step by step exist (`StepsExist`).

Only model-checked: liveness, which the prover cannot treat, and the three disagreements above.
Every invariant and action property that a passing run checks is a theorem. A few theorems
have no run of their own. Some say what follows from a property that is run, as `ImplementsContract`
has that stops decide and that only completed jobs have a final revision, which is the last;
`HistoryStable`, `NothingAfterStop` and `TerminalAnswersHold` are only proved.

## Plan

1. Done: `JobContract`, `JobExecution`, `Retention`, `Observation`, `Service` and
   `ScanJob` with their theorems; `CheckedSum` and `Paging`.
2. Done: `RequestContract`, and the proof that `Service` implements it.
3. More of `Service`: `open`, `control lookup`, sessions of several calls.

## Not modelled

- What a query computes: its plans are DataFusion's, a library. `ScanJob` has what the
  engine reads, `CheckedSum` the one aggregate the repository defines itself.
- How values, errors and events are worded and rendered, and schemas are inferred.
- `refresh`, which adds a manifest beside the old one, and `open` as a request.
- The startup probe, the command line and the MCP server: stateless translation of
  arguments into requests and of answers into text.
- Examples, packaging scripts and generated schemas.
