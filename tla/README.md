# StockStatistic: TLA+ models and proofs

StockStatistic computes indicators, back tests and statistics on market data,
in process or on a cluster of workers behind a dispatcher. This directory holds
TLA+ models of the parts whose correctness depends on the order of events or on
arithmetic at boundaries, the TLC configurations that check them on small
instances, and TLAPS proofs of the properties that matter most.

Paths below are relative to `src/packages/<package>/<python package>/`, and
`core.py:202` is a line of `dispatcher/stockstat_dispatcher/core.py`. Documents
named `DESIGN_*.md` and `USAGE*.md` are under `src/V31design/designV31` and
`src/docs`.

## 1. The system

### Components

| Component | State | Operations | How it interacts |
|---|---|---|---|
| Client library (`invocation`: `client.py`, `compute_api.py`, `data_access`) | a cache of data frames per `DataClient` | submit, wait, result, cancel, read bars | calls a compute backend and Storage |
| Local backend (`compute/backend/local.py`) | a table of `_LocalTaskState` (info, result, error, event `_done`), one daemon thread per submission | submit, get, wait, result, stream_results, cancel | executes handlers in process |
| Remote and auto backends (`backend/remote.py`, `auto.py`) | the route of an id | the same operations, by polling over HTTP | the dispatcher's routes |
| Dispatcher (`dispatcher/core.py`, `routes.py`) | per task: info, slices, `assigned_slices`, `partial_results`, merged result; a history | submit, cancel, assign_task, on_complete, on_fail, on_partial, and `_check_loop` | queue, registry, cache, Storage; called by clients and workers |
| Task queue (`queue.py`) | a heap of (-priority, sequence number, spec), or three Redis lists | enqueue, dequeue, clear | the dispatcher |
| Worker registry (`workers.py`) | per worker: status, active and total counts, last heartbeat | register, heartbeat, unregister, increment and decrement, check_timeouts | the dispatcher |
| Sharding and merging (`shard.py`, `merge.py`) | none | shard_task, merge_results | handlers run the slices |
| Data cache (`prefetch.py`) | entries with sizes and access times, `_total_size` | get_ref, fetch_bytes, put, invalidate, clear | `_prefetch_data` of the dispatcher |
| Worker (`compute/worker.py`, `executor.py`) | status, `_active_futures`, a thread pool, the thread of `start` and one for heartbeats | register, heartbeat, poll, execute, report, drain, stop | the dispatcher's routes |
| Handlers, indicators, estimators (`compute/...`) | none | pure computations over data frames | called by the executor or the local backend |
| Backtest engine, portfolio, broker, runners (`compute/backtest`) | cash, position, trades, equity points, during one run | run, reset, buy, sell; batch, grid, walk-forward | handlers; the client library |
| Protocol (`foundation/protocol`) | none | encode, decode, reply, to_dict, from_dict | every message |
| Transports (`foundation/transport`) | inboxes, reply events, replies | send, receive, request, reply, close | offered beside HTTP; only their tests use them |
| Storage (`storage/...`) | bars, metadata, a collector thread with subscriptions | ingest, fetch, list symbols, collect | the dispatcher and the client |
| DSL, plots, export, command line | none to speak of | evaluate, render | the client library |

### What is hard

* **Interleaving.** `Dispatcher._lock` is released in the middle of handlers
  (`on_complete` counts, then decrements the worker, then compares and merges;
  `cancel` writes without the lock). The local backend, the worker and the
  in-process transport share fields between threads without any lock. The data
  cache is locked per call only, the Redis queue is atomic per command only.
* **Failure.** Workers crash, fall silent, stop, drain; replies and
  acknowledgements are lost; the storage fetch raises after the dequeue; a
  writer dies between its two transactions; a strategy raises half-way.
* **Repetition.** Reassignment, retries and resubmission let one slice be
  executed and counted more than once; an assignment may give a worker a slice
  that it is executing.
* **Liveness.** A task has to end although its worker died: timeout,
  reassignment and another poll have to follow one another. Waits, drains,
  requests and background loops have to end.
* **Numbers.** Chunks with a remainder, windows at the end of the data, a size
  counter that has to match the entries it counts, load counters against a
  concurrency limit, two sets of books for one account.

`PROJECT.json` lists each hazard with its line and the properties aimed at it.

### What makes each part correct

* Dispatcher: every slice is executed until it completes; a completed task has
  the partial result of every slice, and its result never changes; a task
  follows the protocol's state machine and ends.
* Registry: a worker is `busy` exactly when its slots are taken.
* Local backend: `wait` returns and tells the truth; `result` is never empty;
  a task follows the same state machine.
* Remote and auto backends: a result is the task's result; the routing table
  finds the task; calls come back.
* Worker: the dictionary of futures counts the tasks in execution; a drained
  worker has reported all its results; draining ends.
* Data cache and prefetch: a size that is never too small, the right data, no
  needless loads.
* Sharding: the slices compute what the task would, once.
* Backtest: no short position unless allowed; the account reconciles with the
  profit and the fees; the engine carries nothing from one run to the next; no
  look-ahead.
* Messages: a task or an envelope arrives as it was accepted; a request gets
  its own reply, once, or ends; the queue keeps its order.
* Storage: an answer is made of committed ingests; metadata describes data; the
  collector tries what is subscribed and stops when told.

## 2. Modules

| Module | Models | Kind |
|---|---|---|
| `TaskQueue` | `MemoryTaskQueue` | operators of the queue, instantiated by `Dispatcher` |
| `WorkerRegistry` | `WorkerRegistry` | operators of the registry, instantiated by `Dispatcher` |
| `Dispatcher` | `core.py`, with `compute/worker.py` as environment | the composed system |
| `DispatcherProperties` | | properties, fairness |
| `TaskLifecycle` | the states of `contracts/compute.py` | abstract specification of a task |
| `LocalBackend`, `LocalBackendProperties` | `backend/local.py` | component and its properties |
| `ClientCalls` | what the calls of `client.py` and `compute_api.py` submit, and where | operators |
| `RemoteBackend` | `backend/remote.py`, `auto.py` | component, with the dispatcher as environment |
| `WorkerProcess` | `compute/worker.py`, `executor.py` | component, with the dispatcher as environment |
| `DataCache` | `prefetch.py` | operators of the cache, instantiated by `Prefetch` |
| `Prefetch` | `_prefetch_data`, `_prepare_assignment` | component, with Storage as environment |
| `Portfolio` | `backtest/portfolio.py` | operators of the account |
| `Backtest` | `backtest/engine.py`, `broker.py`, the models, the metrics, the loops of the runners | component |
| `Transport` | `transport/in_process.py`, `redis.py` | component |
| `RedisQueue` | `RedisTaskQueue` between processes | component |
| `Storage` | `storage/backend.py`, `orm.py`, both ingest routes, `data_access/ohlcv.py` | component |
| `Collector` | `scheduler/collector.py` | component |
| `Shard` | `shard.py`, and the expansion of a slice by the handlers | algorithm over bounded inputs |
| `Indicators` | the indicators of the registry, by what they read | algorithm over bounded inputs |
| `Windows` | how runners and estimators cut rows into windows | algorithm over bounded inputs |
| `Wire` | envelopes, and task dicts by the types of their fields | algorithm over bounded inputs |
| `MCDispatcher`, `MCPrefetch`, `MCShard`, `MCBacktest` | | instances for TLC |
| `MCBackends` | `LocalBackend` and `RemoteBackend`, side by side | instance for TLC |
| `MCMessages` | `Transport` and `RedisQueue`, side by side | instance for TLC |
| `MCStorage` | `Storage` and `Collector`, side by side | instance for TLC |
| `MCAlgorithms` | `Shard`, `Indicators`, `Windows`, `Wire`, case by case | instance for TLC |
| `DispatcherProofs` | | theorems about `Dispatcher` |
| `LocalBackendProofs` | | theorems about `LocalBackend` |
| `RemoteProofs` | | theorems about the two callers of a dispatcher, `WorkerProcess` and `RemoteBackend` |
| `PrefetchProofs` | | theorems about `DataCache` and `Prefetch` |
| `BacktestProofs` | | theorems about `Portfolio` and `Backtest` |
| `MessageProofs` | | theorems about `Transport` and `RedisQueue` |
| `StorageProofs` | | theorems about `Storage` |
| `AlgorithmProofs` | | theorems about `Shard`, `Indicators`, `Windows`, `Wire` |

"Side by side": the variable `subject` is chosen initially and says which of
the two moves in a behaviour, so that the state spaces add up and do not
multiply. The two never share state; nothing is lost by not interleaving them.

Operators whose comment says *mutant* are deliberately wrong variants of the
operator after them. No specification uses them; they are there to be put in
place of the right one, to see that a property notices.

### Dispatcher

An *item* is what the queue holds: a slice `<<t, k>>` or the whole spec
`<<t, 0>>`, which a retry enqueues. A handler is cut where the code takes or
releases a lock: each region is one action, and `thread[th]` is the program
counter with the handler's local variables.

| Code | Actions |
|---|---|
| `submit` | `Submit`, `PublishSlices`, `EnqueueSlice` once per slice |
| `cancel` | `Cancel` (lookup under the lock), `CancelWrite`, `CancelRecord` |
| `assign_task`, `_prepare_assignment` | `Poll`, `DequeueMatch` / `DequeueSkip` / `DequeueEmpty`, `Requeue`, `Prefetch`, `CommitAssignment`, `ActivateWorker`, `Reply` |
| `on_complete` | `CompleteSlice`, `ReleaseSlot`, `MergeIfComplete` |
| `on_fail` | `FailSlice` or `FailAfterComplete`, `ReleaseSlot`, `RetryOrRecord` |
| `_check_loop` | `CheckTimeouts`, `BeginReassign`, `ReassignItem`, `EndReassign`, which hold the lock in between |
| worker life cycle | `RegisterWorker`, `Heartbeat`, `Drain`, `LeaveLoop`, `CloseHttp`, `Crash`, `FallSilent` |

The routes are `async` functions that call the dispatcher without awaiting, so
an HTTP server runs them one after the other: `Threads` has one element. A
`Dispatcher` shared by threads of one process has several. The check loop is a
thread of its own in both. What a heartbeat carries may be older than what the
dispatcher has handled since: any number of active tasks up to the concurrency
("lateCount"), and a draining flag from before a drain that is over
("lateFlag").

Abstractions. Time is the bit `stale` per worker: no heartbeat for
`offline_timeout`. Payloads are the set of items whose partial results a result
contains. `priority` keeps its order, and sequence numbers become the order of
a FIFO per priority. `info.started_at` and other descriptive fields are left
out. `on_partial` only appends to a list that nobody reads. One call of
`_record_history` is one step, although the code appends and cuts in two, and
`cancel` runs it without the lock. `cancel`'s write is one step between lock
regions of other handlers; a thread switch in the middle of a region is not
distinguished from one at its border.

### Local backend

A *submission* is one `_LocalTaskState`; `table` maps an id to the latest one.
Each read or write of a shared field is a step. `exec` is the program counter
of an execution thread (`MarkRunning`, `Return` or `Raise`, `WriteCompleted` or
`WriteFailed`, `Finish`; `Escape` for what `except Exception` does not catch, and
which leaves the state running while `_done` is set) and `client` that of a
client's call. `info.progress`
and the timestamps are left out, and so is the data, with the `pop` of
`_inline_data` from the spec the caller still owns.

### Client calls, remote and auto backends

`ClientCalls` says of each family of client methods which params carry data,
which backend gets the task (`Target`: by type, then by the size of
`_inline_data`), whether the remote backend can post it (`Posts`) and whether
the handler accepts it (`HandlerAccepts`). In `RemoteBackend` one HTTP request
is one step:

| Code | Actions |
|---|---|
| `submit` | `SubmitTask`, which is `SubmitLocal`, `SubmitRemote` (whose answer may be lost) or `SubmitFails` |
| `wait` | `Ask`, `WaitPoll`, `WaitTimeout`, `FetchResult` |
| `stream_results` | `Ask`, `StreamPoll`, `FetchResult` |
| `cancel` | `CancelTask` |
| a request without an answer | `ConnectionFails` |
| the time of a wait | `Deadline` |
| the dispatcher, on its own | `RunTask`; `LateReport` (`on_complete` and `on_fail` do not look at the state), `Retry`; `Event`: others cancel or submit the task, or it restarts and forgets all |

A task the dispatcher does not know is `pending` to the backend, since
`TaskInfo.from_dict` reads the error payload so. `get`, which only reads, is
one poll of a wait. Of the local backend only the ids it knows are kept; module
`LocalBackend` has the rest.

### Worker

`main` is the program counter of the thread of `start()`, `at[f]` that of the
execution behind the Future `f`. `active` is `_active_futures`.

| Code | Actions |
|---|---|
| `start`, `_register` | `Register` (may fail), `LoopTest` (stopping; draining with nothing active), `Unregister` |
| `_poll_and_execute` | `PollNothing`; `Poll` (the slice is submitted to the pool), `StoreFuture` (the entry is stored) |
| `_execute` | `StartExecution` (the pool has a thread), `Run`, `SendComplete`, `SendFail`, `PopFuture` |
| `stop`, `drain` | `Stop`, `Drain` |

A heartbeat only reads (the load it reports is `Load`); what it does to the
registry is in `Dispatcher`. A Future is used again when nothing refers to it
any more, so the bound on Futures bounds how many are referred to at once, not
how long a worker lives.

### Data cache and prefetch

`DataCache` has one operator per method, since each runs under the cache's
lock. Access times become the order `lru`; `Put` evicts the shortest prefix of
it that makes room. `Prefetch` runs assignments on several threads: `Begin`,
`Lookup`, `Load` or `LoadFails`, `Store`, `Fetch`, while `Ingest` changes what
Storage holds. Eviction by equal access times is resolved as the order of the
calls.

### Backtest

`Portfolio` is the arithmetic of `execute_buy`, `execute_sell`, `update_on_buy`
and `update_on_sell` over integers: prices and quantities are whole, a purchase
the cash cannot pay for is cut to whole units, and the average price is kept as
`basis = avg_price * quantity`, so that nothing is divided. `Backtest` runs one
*cell* (a strategy under a fee model) after another. A strategy is an object
with a life: what it does in its first run, in its second and so on, which is
all that an object that keeps a state of its own can do, since it sees the data
and the context but neither the account nor the fees. `memory` counts the runs
an object has begun. The cells are run as `batch_backtest`, `grid_search` or a
caller with one engine do:

| Code | Actions |
|---|---|
| `run`, before its loop | `Begin` (the resets) |
| one bar of the loop | `HoldBar`; `TradeBar` (fill price, cost, size of the order, the trade log, then the point of the equity curve) |
| after the loop, `calculate_metrics` | `Finish` |
| a strategy that raises | `Raise`; the row has no curve then |
| a strategy the constructor refuses | `Refuse` |

Rates are percentages; products with them and a share of the equity are rounded
down. The properties are about sums and signs, which rounding in `FillPrice`,
`Cost` and `OrderQty` does not touch: the proofs use of these only that they
are integers.

### Transport and Redis queue

`Transport` has the steps of `request` (`Register`, `Send` / `SendFails`, `Wake`
/ `WaitTimeout`, `PopReply`, `DropEvent`, `DropReply`), of the thread that
answers (`Deliver`, `Receive`, `ReplyCheck`, `ReplyStore`, `ReplySet`;
`ReplyRedis`) and of `close` (`CloseSet`, `CloseWake` for each event,
`CloseSetEnds`, `CloseEvents`, `CloseReplies`; `CloseRedis`, under a lock), for
two requests on threads of their own. A thread switch is possible between any
two of them. `RedisQueue` has one action per Redis command (`Enqueue`, `Pop`,
`NextLane`, which finds a list empty) after `Dequeue` has begun; a `Pop` may be
the last thing its process does.

### Storage and collector

A writer is one call of a route: `POST /ohlcv` is `Merge` and `Commit`, `POST
/ingest` then writes the metadata with `Describe` and `Upsert`. `Merge` and
`Describe` read, `Commit` and `Upsert` write everything or, if a row was
inserted since, fail; `Die` may follow any of them. A row has columns, and of a
row that was there `Commit` writes those in which the record differs from the
row `Merge` had looked up (`Merged`). `Get`, `Remember` and `ClearCache` are the
client's `DataClient`, and `Edit` is a caller that changes the frame it was
given, which is the cached one. `Collector` has the four calls `Start`, `Stop`,
`Subscribe`, `Unsubscribe`, and for each thread that was ever started `Test`,
`Collect` (one subscription), `Sleep`, `Awake`. `subs` is a list, as in the
code, and may hold a subscription twice.

### Pure algorithms

`Shard`: `ShardTask` maps a spec to its slices, `Work` maps a spec to the list
of computations its handler does; a run compares the slices' work with the work
of the spec. `Indicators`: a cell of a series is the set of bars it `reads` and
whether it is `nan`; rolling, exponential, shifted and elementwise operations
compose to the twenty indicators. `Windows`: a window is its set of rows.
`Wire`: a field of a task is its JSON type and whether Python takes it for
false; `Read` and `Write` are what `from_dict` and `to_dict` do with it.

## 3. Runs

| Run | What it asks | Properties | Bounds |
|---|---|---|---|
| `d_faults` | Exactly-once execution, worker status and the life cycle, with thirteen kinds of faults | `TypeOK`, `BusyMeansFull`, `CompletedMeansWhole`, `NoSliceLost`, `LifecycleKept` | two tasks (two slices; unsliced), two workers of different capabilities and one slot, one thread, any two faults or late heartbeats, one timeout pass |
| `d_threads` | Counters and results when handlers interleave and ids are submitted again | `CountsCoverPartials`, `CompletedHasResult`, `ResultWriteOnce` | one task of two slices, one worker with two slots, two threads, two events, one timeout pass |
| `d_live` | A crash is recovered from, and every task ends | `CrashRecoverable`, `EveryTaskEnds` | two tasks, two workers, one crash, two timeout passes |
| `backends` | The local backend's promises; what polling over HTTP makes of a task that changes meanwhile; liveness of waiting | `ResultIsStored`, `WaitTellsTheOutcome`, `LifecycleUntilCancel`, `WaitComesBack`; `ErrorIsNoResult`, `RouteFindsTask`, `CallsComeBack` | local: one id submitted twice, two clients, two calls; remote and auto: one id submitted again and again, every kind of call on each of the three backends, any number of late reports, two retries, two events |
| `worker` | The dict of futures under its threads | `EntriesAreTasks`, `DrainKeepsResults`, `DrainEnds` | two slices, three Futures, two pool threads, registration and complete calls that fail |
| `cache` | Size counter, correct data, no needless load | `TotalIsHeld`, `LoadedOncePerHandler`, `StorageDataIsOwn` | two threads, three keys, five sizes of data, three loads of a key, one change of the environment |
| `v_inline` | A task with inline data is assigned with it (does not hold) | `InlineDataIsDelivered` | two tasks, one thread |
| `backtest` | The account, and one run after another | `LongOnly`, `PnlReconciles`, `SameOrdersSameRow`, `DrawdownsAgree` | price series of 3, 3 and 1 bars; every strategy of three steps over nine kinds of step, taken backwards in the second run of one object, and a refused one; one object for the cells or three; four fill models, two fee models, three cells, with and without shorts; initial cash 12 |
| `transport` | Requests, replies, timeouts, close; the order of the Redis queue | `WokenHasReply`, `ReplyIsOnce`, `RequestEnds`, `DequeueOrder` | two requests on either transport, with or without timeout; three tasks of any of three priorities, two processes |
| `storage` | Ingest transactions under a caching client; the collector's life cycle | `AnswerIsCommitted`, `MetadataHasData`, `LoopsEnd`, `SubscribedIsTried` | three writers, five kinds of jobs, two symbols by two times, two columns, one edit of each cached answer, one `clear_cache`; two subscriptions, four calls, a list of at most three |
| `algorithms` | Shards, indicators, windows and messages | `SameWork`, `SimulationsDiffer`, `NoLookAhead`, `WindowsFit`, `MessageArrives` | 246 specs (grids up to 9 or 4 x 3, 3 strategies x 3 fee models, 12 simulations, 0 to 4 workers); 20 indicators, 7 bars with up to two holes, windows 1 to 4; up to 24 rows; every envelope; task dicts with any two of nine fields at any JSON type, pairs included |
| `v_simulations` | A split Monte Carlo task runs all its simulations (does not hold) | `AllSimulationsRun` | up to 12 simulations on up to 4 workers |

Why the bounds are enough. A double count needs one slice executed twice, a loss
needs one item in hand, a premature merge needs two slices, and a race needs two
handlers, so two of each let every hazard of the list happen; two faults allow a
fault in the recovery of the first. `HistoryMax` is 2, below the number of ends
a run can have, so that the cut happens. In `worker` a third Future lets one
slice run twice while another takes the last slot. Two events in `backends` let
the dispatcher forget a task and others bring it back between two polls, and two
retries let one follow a late report. In `cache` the largest entry is above the
limit and two of the others are just at it. Three steps of a strategy open a
position, change it and end it, and 12 of cash is not enough for an order of the
whole equity at a higher price, so that orders are clipped. Two requests are
enough to see that one never takes what belongs to another, and that the dict of
events changes its size under `close`; what races (requester, answering thread,
close) races on one id. Three writers let two conflict after a first has
committed, and two records that differ from a third in one column each let a
mixture arise. Seven bars reach the first full cell of the longest look-back
(`dpo` with window 4), with two holes at any place. 24 rows pass the threshold
of 20 of the rescaled range and its first three chunk sizes, and 5 is the
longest train and test window, pattern and step. In `SameWork` the number of
combinations is below, at, above and a multiple of the number of workers.

Every bound on a counter is a constant: `MaxEvents` (optional events),
`MaxTimeouts` (passes of the check loop that time out a worker), `MaxCalls`,
`MaxRetries` (3 in the code, which starts again with a resubmission),
`MaxLoads`, `MaxChanges`, `MaxClears`, `MaxSubs`, for the algorithms `Bars`,
`Holes`, `Lookback`, `Rows` and `Longest`, and the sets `Futures` and
`Events`. Symmetry is used in `d_threads` and `cache` only, over threads and,
with equal capabilities, workers, and neither run checks liveness.

`CHECK_DEADLOCK FALSE` is set everywhere: with all tasks ended, all cells run
or all events used up nothing is left to do; there is no termination state.

### What the properties say

* `NoSliceLost`, `CompletedMeansWhole`, `CrashRecoverable` and `LifecycleKept`
  name the faults that excuse them (`Never(kinds)` over the history variable
  `happened`). They hold until the first such fault of a behaviour, and
  everything before it, beside it and of another kind is included. Two kinds
  are not faults but things the code does (section 4): "forget", a scan of the
  queue that drops the items it has skipped, which excuses `NoSliceLost` and
  `CrashRecoverable`, and "slowPrefetch", a prefetch that takes longer than
  `offline_timeout`, which excuses `CrashRecoverable`. In `d_faults` the sliced
  task comes first in the queue and one worker cannot run it, so that "forget"
  happens; in `d_live` the workers are alike, and it cannot.
* `CountsCoverPartials`, `BusyMeansFull`: whatever fails.
* `CompletedHasResult`, `ResultWriteOnce`: unless an id is submitted again.
* `LifecycleKept` and `LifecycleUntilCancel`: the detailed specification
  implements `TaskLifecycle` under the refinement mappings `Readable` and
  `Visible`, which hide a result until `get_result` hands it out. Both are
  statements about each step of a task, because both components overwrite ended
  states in some cases: after `cancel`, a retry or a repeated execution
  (dispatcher), after `cancel` (local backend).
* `TotalIsHeld`: `_total_size` is never too small, and exact until two handlers
  miss one key together; the second `put` then counts the size twice, for good.
* `StorageDataIsOwn` is about tasks whose data come from Storage, and excepts a
  key under which some task brings its own data (`OnlyFromStorage`): section 4.
* `EntriesAreTasks`, `DrainKeepsResults`, `DrainEnds` name the two ways the
  dict of futures goes wrong: a slice assigned while it runs (`again`), and an
  execution that ends before its Future is stored (`overtaken`).
* `ErrorIsNoResult`, `RouteFindsTask`, `CallsComeBack` name a task that was
  completed while the call ran and left that state again (a late report of a
  failure, a retry, a cancel, a resubmission, a restart), a submission of the id
  that raised, and a task the dispatcher does not know: outside of these the
  polling client is as good as the local backend.
* `PnlReconciles`: two books kept apart, cash and realized profit, agree to the
  last fee. `SameOrdersSameRow`: two runs in which the strategies did the same
  under the same fees have the same row, whatever another did in between, even
  when it raised half-way. What a strategy object itself carries over is not
  claimed away (section 4).
* `RequestEnds` makes no claim for a request without a timeout over Redis, and
  none for one that is registered while `close` is between two of its steps.
* `AnswerIsCommitted`: what the client caches, and no caller has edited, is
  accounted for by a number of whole ingests, no fewer than its last
  `clear_cache` saw: to the letter where the last one had looked the row up
  after the others, column by column where ingests overlapped. `LoopsEnd`
  includes loops that outlived a stop and a new start.
* `NoLookAhead`: the cell of a bar computed on all the data is the cell computed
  on the data up to that bar.

### Fairness

* `d_live`: a handler that has begun goes on (`WF` on `Advance`); a worker
  registers, polls whenever a poll is possible again and again (`SF`, since its
  loop polls every interval and waiting requests are served in turn), and an
  execution ends and is reported (`SF`, as the report has to find the server
  free); a dead worker falls silent; the check loop runs every 10 s in a daemon
  thread (`WF`). No optional event is fair.
* `backends`, local: a started thread goes on, the handler returns or raises, a
  call that can continue does. A wait's timeout is not fair: a wait without one
  has to come back all the same.
* `backends`, remote: polls and reads are done (`WF`), time passes (`WF` on
  `Deadline`: `wait` always has one, an hour if none was given), a task that is
  there is run (`WF` on `RunTask`). Submissions, late reports, retries,
  cancellations and events are not fair.
* `worker`: the thread of `start` and the executions go on, the pool starts what
  it was given. HTTP calls come back, since the client has a timeout of 30 s,
  and handlers end. Stop and drain are not fair. `DrainEnds` supposes that the
  dispatcher stops assigning to the worker, which nothing guarantees (section
  4).
* `transport`: a requester and the thread that answers take the steps they have;
  nobody has to make a request or to close.
* `storage`: a loop of the collector that can go on does, and its sleep ends;
  nobody has to call the collector. The writers need no fairness.

## 4. Where the code departs from its documents

With a run:

* `v_inline`: the cache key is made of `data_spec` alone (core.py:239), and
  inline data are stored under it, so that the second of two tasks with inline
  data is assigned with the data of the first.
* `v_simulations`: USAGE.md:518 splits the simulations of a Monte Carlo task
  across the workers; shard.py:61 gives each the quotient and drops the
  remainder, so that of 1000 simulations on three workers 999 are run.

Met while modelling. Where a property names an exception, this is the reason:

* A prefetch that outlives `offline_timeout` assigns its slice to a worker the
  check loop may have given up already: `_prepare_assignment` (core.py:165) does
  not look at the status of the worker again after the data have been fetched.
  If the worker is gone, the slice is never assigned again.
* A task may name symbols and bring inline data too (`remote` with `data_spec`
  and `data`, `grid_search` with `data` and `symbols`). Its data are stored under
  the key of the symbols, and handed to the tasks that want those from Storage.
* An `unregister` leaves the slices of the worker assigned to it: workers.py:86
  makes it `offline`, and `check_timeouts` looks only at workers that are
  `online` or `busy` (as it never does at `draining` ones), where
  DESIGN_PROT_V31.md:919 says that the tasks of a worker that goes offline are
  assigned again.
* A completed slice stays in `assigned_slices` (core.py:337). When its worker is
  timed out later it is executed and counted a second time, and the task may be
  merged without another slice; DESIGN_ARCH_DISPATCHER_V31.md:1021 merges the
  results of N slices.
* The specs a scan of the queue skips are put back only when the queue runs
  empty (core.py:153), not when a later item matches (core.py:158), and are then
  lost; DESIGN_ARCH_DISPATCHER_V31.md:321 puts them back.
* A chunk of several combinations becomes one list per parameter (shard.py:37),
  which the handler expands again (grid_search.py:43): 2 x 2 combinations on one
  worker are 16 back tests instead of 4; USAGE_CN.md:501 lets each worker run a
  part of the combinations.
* `cancel` (core.py:131), `on_fail` (core.py:215), `on_complete` (core.py:204)
  and `_run_local` (local.py:65, 83) overwrite terminal states;
  DESIGN_PROT_V31.md, 9.2, draws them as terminal.
* When only the answer to a `complete` is lost, the worker reports the slice it
  has completed as failed too (worker.py:195), which turns a completed task into
  a failed one; a client that has polled `completed` and then asks for the result
  is handed the error payload as the result (remote.py:82).
* A heartbeat built before a drain and handled after the worker has unregistered
  makes it `online` again (worker.py:167, workers.py:77). It then falls silent,
  and its slices are assigned again, the completed ones included.
* `batch_backtest` runs one strategy object under all fee models
  (batch_runner.py:45), and walk-forward one in all windows (walkforward.py:45).
  USAGE.md:351 offers `StrategyBase` for stateful strategies, and nothing resets
  one: the row of a fee model then depends on those before it.
* Two ingests that overlap on a row each write the columns in which their record
  differs from the row they have looked up (storage/backend.py:73), so that the
  row may end as a mixture that no order of the two gives.
* `DataClient` caches the frame it hands out (data_access/ohlcv.py:37, 55): a
  caller that changes it in place changes the answers of later callers.
* A handler that raises what is no `Exception` leaves a local task `running`,
  while `wait` comes back with `None` (local.py:85, 124).
* `InProcessTransport.close` goes through a dict that other threads change
  (in_process.py:78): it may raise `RuntimeError` half-way, with some requests
  not woken and nothing cleared.
* A `draining` worker that polls is assigned new work (core.py:148 does not look
  at the status); DESIGN_PROT_V31.md:918 says the dispatcher waits for its
  running tasks.
* A retry enqueues the whole spec (core.py:224), where DESIGN_PROT_V31.md:1075
  enqueues the slice.
* Progress may exceed 1 after repeated executions; USAGE.md:1112 gives 0.0 to
  1.0.
* `prefetch.py:57` stores an entry that is larger than the limit.
* Nothing invalidates the dispatcher's cache when new bars are ingested.
* An execution that ends before its Future is stored (worker.py:187) leaves a
  dead entry, which takes a slot for ever and keeps a draining worker from
  ending.
* `AutoComputeBackend` does not fall back to the local backend when a
  submission fails, as its docstring says it does.
* The auto backend has no `compute_indicator` (compute_api.py:100), so each
  indicator is submitted with its argument as `_arg_0` too (compute_api.py:114),
  for which no indicator has a parameter: the task fails.
* A dict of frames as inline data is neither encoded (remote.py:53) nor JSON.
* `result` returns the payload of an error as if it were the result
  (remote.py:89), and `stream_results` has no deadline (remote.py:113).
* A reply over Redis goes to a list that nobody reads (redis.py:70).
* Opening a short position takes its notional from the cash, and closing it adds
  it (portfolio.py:132, 112): the sign of a short's profit is inverted.
* Once one symbol has metadata, `list_symbols` shows only symbols that have some
  (backend.py:81).
* A collector that is stopped and started while its loop sleeps runs two loops
  (collector.py:46).
* A task whose `created_at` is a number is accepted by `from_dict` and cannot be
  written by `to_dict` (task.py:182).
* A test window of 0 or a negative step keeps `WalkForward.run` in its first
  loop for ever (walkforward.py:35).

## 5. Proofs

All theorems are proved for arbitrary constants under the named assumptions of
their modules: `SlicingAssumption` (slices are the spec itself, or numbered in a
row, as theorem `SlicesHaveIds` shows of `shard_task`), `SetsAssumption`
(finitely many tasks, typed constants), `NoneAssumption`, `LocalAssumption`,
`WorkerAssumption` (a pool of at least one thread), `PrefetchAssumption`
(finitely many threads, sizes that are natural numbers, and a key tells whether
symbols are named, since it is a hash of them among others), `StorageAssumption`
and `CollectorAssumption` (typed constants), `BacktestAssumption` (positive
prices and cash, slippage below 100 %, one life per strategy object, which tells
of every run and bar), `ShardAssumption` (specs have their fields; grid,
columns, strategies, symbols and fee models are lists, and no fee model is
`None`) and `AlgorithmsAssumption` (bounds are natural numbers). `Transport`,
`RedisQueue` and `RemoteBackend` need none. Every safety property and every
action property of a passing run is a theorem.

| Theorem | Property | Argument |
|---|---|---|
| `DispatcherProofs!TypeCorrect` | `TypeOK` | `TypeInv` adds that the loops over slices and skipped items stay in range, without which `Head` and `SliceList[t][k]` have no type |
| `DispatcherProofs!StatusMatchesLoad` | `BusyMeansFull` | inductive with `TypeInv`; every registry operation in turn |
| `DispatcherProofs!CountsCover` | `CountsCoverPartials` | inductive with `TypeInv`; finite cardinalities |
| `DispatcherProofs!CompletedTasksHaveResults`, `ResultsAreStable` | `CompletedHasResult`, `ResultWriteOnce` | `ResultInv`, below |
| `DispatcherProofs!NothingIsLost` | `NoSliceLost` | `LossInv`, below |
| `DispatcherProofs!CrashesAreRecovered` | `CrashRecoverable` | `CrashInv`, below |
| `DispatcherProofs!ExactlyOnce` | `CompletedMeansWhole` | `OnceInv`, below |
| `DispatcherProofs!LifecycleImplemented` | `LifecycleKept` | `PeaceInv`, below |
| `LocalBackendProofs!ResultsAreStored`, `WaitIsTruthful`, `ImplementsLifecycle` | `ResultIsStored`, `WaitTellsTheOutcome`, `LifecycleUntilCancel` | `LocalInv`, below |
| `RemoteProofs!ActiveFuturesAreTasks`, `DrainReportsAll` | `EntriesAreTasks`, `DrainKeepsResults` | `WorkerInv`, below |
| `RemoteProofs!ErrorsAreNoResults`, `RoutesFindTasks` | `ErrorIsNoResult`, `RouteFindsTask` | `RemoteInv`, below |
| `PrefetchProofs!SizeIsKept`, `LoadsAreBounded`, `DataIsOwn` | `TotalIsHeld`, `LoadedOncePerHandler`, `StorageDataIsOwn` | `SizeInv`, `LoadInv`, `VersionInv`, below |
| `BacktestProofs!NeverShort`, `BooksBalance` | `LongOnly`, `PnlReconciles` | `BacktestInv`, below |
| `BacktestProofs!RowsAreReproducible`, `DrawdownsOfResultAgree` | `SameOrdersSameRow`, `DrawdownsAgree` | `RunInv`, `CurveInv`, below |
| `MessageProofs!WokenFindsReply`, `RepliesAreTakenOnce` | `WokenHasReply`, `ReplyIsOnce` | `TransportInv`, below |
| `MessageProofs!QueueKeepsItsOrder` | `DequeueOrder` | `QueueInv`, below |
| `StorageProofs!AnswersCommitted`, `DescribedSymbolsHaveData` | `AnswerIsCommitted`, `MetadataHasData` | `StorageInv`, below |
| `AlgorithmProofs!IndicatorsLookBack` | `NoLookAhead` | each operation on series looks back, below |
| `AlgorithmProofs!WindowsOfDataFit` | `WindowsFit` | windows of any kind as growing sequences of starts, below |
| `AlgorithmProofs!SimulationsAreSplit` | `SimulationsDiffer` | whole chunks, seeds a chunk apart; the sum by minimal counterexample |
| `AlgorithmProofs!MessagesArrive` | `MessageArrives` | field by field |
| `AlgorithmProofs!SlicesHaveIds` | (a part of `SameWork`) | by the four ways of splitting |
| `AlgorithmProofs!SlicesComputeTheTask` | `SameWork` | chunks of a product of lists, below |
| `TypeCorrect` (`WorkerTypeCorrect`, `RemoteTypeCorrect`) of each component | | type correctness, inductive |

### Dispatcher

`ResultInv`. That a result never changes is not inductive: a late completion may
reach the comparison in `on_complete` again. It finds the count past `n_slices`,
because the count only grows, or it finds the count unchanged, and then no
partial has been added either and the merge gives the same result. The
invariant says so in `ResultsFinal`: a task with a result has counted at least
`n_slices` completions, and while the count is exactly that, the result is the
merge of all its partials. For this `n_slices` must be set before anything is
counted: every item in the queue, held by a worker or in the hands of a handler
belongs to a published task (`QueueKnown`, `HeldKnown`, `CallsKnown`,
`TasksKnown`). It is conditional on no id having been submitted twice, since a
resubmission does start a task from zero under the feet of running handlers.

`LossInv`. A slice is lost when a step takes it from one place and puts it
nowhere. The places are the partial results, the queue, a worker and what a
handler carries (`AllInSight`), and `AllUp` says that without a losing event
every worker is still there to be given one.

`CrashInv`. Here an execution may be gone, so that what counts is the entry in
`assigned_slices`: `AllComeBack`, a slice is on its way or is assigned to a
worker the check loop is going to give up. That the worker is `online` or `busy`
in the registry until then is `UpOrCrashed`; it needs that a worker being served
a poll has just been heard, which fails for a prefetch longer than
`offline_timeout`.

`OnceInv`. Nothing has repeated an execution, so a slice is in at most one place
(`OnePlace`) and there once (`OnceInLanes`, `OnceSkipped`, `OnceHeld`);
`completed_slices` then counts the partials exactly (`Counted`), and the count
reaches `n_slices` only with all of them. `NoRetry` and `Undisturbed` say what
keeps it so: no retry is under way and the check loop has nobody to give up. A
step either leaves the places of every item alone (`Stays`) or moves one item
from one place to another (`Moves`); each action is shown to be one of the two,
and only these two are shown to keep the invariant.

`PeaceInv`. The refinement of `TaskLifecycle`, step by step: a handler that
starts or ends an execution finds the task started (`StartedFirst`), no handler
is about to cancel or retry (`Calm`), and a task that failed has a slice that is
nowhere any more and cannot be completed by the others (`Ends`, with `OnceInv`).

### Backends and worker

`LocalInv`. What a reader may conclude from a state depends on where the
execution thread is: `COMPLETED` has been written only after the result,
`FAILED` only after the error, and `_done` is set before the end of the
execution only by a cancel. `StateKept` has one exception, an execution that
raised what is not caught, which ends in the state running. `LocalFacts` states
this per program counter, with what each waiting client has already seen.

`WorkerInv`. Two executions of one slice share its entry, and the first to end
removes it for both. `SharedMeansAgain` says that only a slice assigned while it
ran is shared, counting the Future that is not stored yet and may have ended
already. `LeftIsOut`: nothing is polled after the loop was left.

`RemoteInv`. `ReadsCompleted`: a call about to read a result was told that it is
there; it is there still, or `withdrawn` has noted that the task left that state
during the call. Every step of the dispatcher - running a task, a late report, a
retry, an event - is `Becomes`, which notes it.

### Data cache

`SizeInv` compares a counter with a sum over the order of accesses, which evicts
from the front, appends and removes from the middle. What the provers need to
know of that recursive sum is proved by minimal counterexample (`SumIs`, and a
lemma per operation on sequences). `LoadInv`: before a key is in the cache, its
loads are those of the threads about to store it; afterwards only the threads
that missed it before may still load it. `VersionInv` follows the data of a key
from Storage through handlers and cache to the answer.

### Backtest

`BacktestInv`. `Capital` is cash and basis less the realized profit; each trade
of a long-only account moves it by exactly the fee that no realized profit
accounts for. This needs `NothingHasNoBasis` (a closed position leaves no basis
behind), and for the steps of a clipped order that what is bought costs no more
than the cash (`Bought`) and what is sold is held (`Sold`). The arithmetic is in
lemmas about `Buy` and `Sell`, apart from the state machine.

`RunInv`. A run in progress has a history, a sequence of states of which each is
determined by the one before, what the strategy was `asked` in this run and the
fee (`History`, `Played`); two histories of equal steps agree as far as both go,
so they end with equal rows, whatever objects have taken the steps. `CurveInv`:
each point of a curve falls from the highest equity so far, where the initial
cash counts; the metrics, which look at the points alone, can find no deeper
fall.

### Messages

`TransportInv`. No lock orders the three parties, so each conclusion is tied to
a step: `StoredBeforeSet` (whoever is woken finds the reply, while nobody
closes), `AnsweredOnce` (a reply is stored by a thread that found the event, and
misdirected by one that did not, and each request has one such thread).

`QueueInv`. Each list is in the order of sending (`ListsInOrder`). A dequeue
looks at the lists one by one while others move them; a task that was there all
the time is in a list the dequeue has still to look at (`PresentIsAhead`).

### Storage

`StorageInv`. `TableIsExplained`: the committed ingests account for every row,
the last one to the letter or, if another had changed the row since it looked,
each column by some of them. That a mixture is one of rows needs `LoadedIsThere`:
a row that was looked up is never gone. An answer is such a table when it is
asked for and remains one, as later ingests come after it in the log
(`AnswersAreCommitted`).
`DataComesFirst`: a writer at its metadata has rows of its symbol in the table.
That the last of some ingests exists, which `CHOOSE` needs, is an induction over
naturals; it uses the well-foundedness of `<`.

### Algorithms

Each operation on series preserves a relation between a series on `n` bars and
the one on a prefix of `m` bars (`LooksBack`: equal where both are defined, made
of earlier bars only), and the twenty indicators are compositions. Windows are
described by a sequence of starts that grows by at least a step; that they are
disjoint, in order and leave less than a window follows from the starts for
walk-forward and folds alike. An ordinal pattern is full because its rows are
the image of an injection. The powers of two among the chunk sizes are a
recursive function, which exists by minimal counterexample, as do the sums of
the simulations. A message is the record of its fields, and each field arrives.

The slices compute what the task would because a product of lists holds exactly
the rows that take each value from its list (`Combines`, `ProductCombines`, by
minimal counterexample over the columns) and the chunks of a list hold exactly
its elements (`ChunksAre`). A chunk of a grid is a grid of the values in it, so
that its product lies between the chunk and the whole product; for a batch the
same holds of the strategies and of the fee models after the handler has
replaced `None` (`FeeOf`). That nothing is computed twice in small chunks is a
sum over the slices, each of which then computes one row, the one at its own
place (`OneEach`, `RunsOfEach`).

Only model-checked, because the prover cannot express it:

* liveness under fairness: `EveryTaskEnds`, `WaitComesBack`, `DrainEnds`,
  `CallsComeBack`, `RequestEnds`, `LoopsEnd`, `SubscribedIsTried`.

## 6. Not modelled, and the plan

Not modelled:

* The checkpoint store: a dictionary under one lock that no other code uses.
* Codecs, configuration, errors, logging, plugins: conversions by libraries and
  settings.
* HTTP, TCP and shared memory transports: wrappers of a library without a table
  of requests.
* The numbers: statistics, machine learning, signal processing, the values of
  indicators (that is, anything beyond which data they use), ratios of the
  metrics, the resampling of Monte Carlo. Floating point has no counterpart in
  TLC, and there is no control flow to check.
* Adapters to data sources, alternative data, deletion, the query cache of the
  storage package, which no route uses.
* The expression language, plots, exports, the command line: recursion over
  syntax trees, and presentation.
* Of modelled parts: `on_partial`, which appends to a list nobody reads; queries
  that only read; `size` and `peek` of the queues; hit and miss counters; the
  worker's `preempt` and `resume`, which change a set nobody reads;
  `execute_target_pct`, which has no caller.

Planned: the safety of `Collector` (its loops, its list of subscriptions), and
what a chunk of several combinations computes more than once.
