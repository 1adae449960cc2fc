# TLA+ models of the algo-trade-bot

This directory holds TLA+ specifications of the trading bot's backend
(`src/src/backend`, TypeScript on Node.js), the TLC configurations that
model-check them and proofs of their main theorems for TLAPS.

Node.js runs one thing at a time, so nothing here races on a word of memory.
What makes the code hard is what happens *between* two awaits: an order is
cancelled while its execution is suspended, an interval fires while its previous
tick is still waiting for an answer, `stop()` clears what `start()` looks at, a
request that was given up arrives after all. The models therefore follow one
rule: **an action is a maximal run of code without an await** — a whole handler,
or the part of an `async` function between two suspension points — and everything
that can run while it is suspended is another action.

## 1. Inventory

The path of a trade through the backend:

    strategies, indicators, signals        compute trade decisions
            |  executeTradeDecision()/executeBatch()
    StrategyExecutionEngine                queue, concurrency limit, circuit breaker
            |  orchestrateExecution()
    ExecutionOrchestrator                  risk, protection, capacity, execution plan
            |  executeOrder(plan)
    OrderExecutor                          order, slices, fill polls, expiry
            |  placeOrder(), getOrderStatus(), cancelOrder()
    DydxOrderClient                        retries, status monitor, mappings
            |  POST, GET, DELETE
    dYdX                                   external

Beside this path stand the parts that keep the bot running: `StrategyLoader` and
`HotReloadManager` exchange strategy classes while it runs, `EventManager` carries
the engine's events to their handlers, `DatabaseManager` keeps the connection to
PostgreSQL, whose schema `MigrationRunner` brings up to date.

Components call each other with promises and announce events through
`EventEmitter`, whose listeners run synchronously inside the emitting code (a
listener that throws throws into it).

### Modelled components

**Order executor** (`execution/OrderExecutor.ts`).
*State:* `activeOrders`, `orderHistory`, `orderSliceManagers`, the order objects
they share, `executionMetrics`, the monitoring interval. *Operations:*
`initialize`, `executeOrder` (single or sliced; paper, backtest, live with or
without a dYdX client), `cancelOrder`, the monitoring tick that expires orders,
`cleanup`. *Interactions:* awaits validation, submission and up to 60 fill polls
of the dYdX client; emits an event at every change. *Hard:* cancelling, expiring
and cleaning up do not stop the suspended execution, which later settles the same
order object again; slices run one after the other with pauses; the total and the
remainders of slices; throwing listeners. *Correct if:* every order is in exactly
one place and never comes back; the outcome of an execution wins over an interim
cancellation and is then final; counters and slice managers match the orders;
slices add up; every call returns and no order stays active.

**Strategy execution engine** (`execution/StrategyExecutionEngine.ts`).
*State:* the status, `executionQueue`, `activeExecutions`, `executionResults`,
the circuit breaker, the handle of the 10 ms queue interval. *Operations:*
`initialize`, `start`, `pause`, `resume`, `stop`, `executeTradeDecision`,
`executeBatch`, `clearResults`, the interval's `processQueue`. *Hard:* `stop()`
waits for executions while new requests are queued, started and completed; a
second `initialize()` leaves two intervals running; results of executions admitted
earlier reach a breaker that is open or half-open. *Correct if:* no promise is
lost or settled twice; the limits hold; priorities with first come first served
among equals; the breaker's state matches its count; while the engine keeps
executing every request settles.

**dYdX order client** (`dydx/orderClient.ts`).
*State:* `pendingOrders`, `activeOrders`, `orderMappings`, metrics, the status
interval, the rate limiter. *Operations:* `placeOrder` (validation, POST, retry,
first fetch), `cancelOrder`, `monitorOrderStatuses`, `cleanup`. *Hard:* requests
time out although the exchange got them, or gets them later; passes of the monitor
overlap and apply stale answers; a cancellation completes while a placement still
fetches. *Correct if:* what is tracked never runs ahead of the exchange, an open
order stays cancellable, a reported cancellation happened, retries are bounded,
every placement is counted once, every call returns, closed orders leave the
tracking.

**Concurrent data structures** (`data/ConcurrentDataStructures.ts`).
*State:* counters and wait queues of `AsyncMutex` and `ReadWriteLock`, the array
and positions of `LockFreeCircularBuffer`, the heap of `ConcurrentPriorityQueue`
behind its mutex. *Hard:* a release wakes the next task by `setTimeout(..., 0)` and
leaves the lock free until the timer fires. *Correct if:* no wake-up is lost, every
waiting task is served, writers are exclusive; the buffer is a bounded FIFO queue;
the heap is a bag that gives its highest priority first.

**Strategy loading and hot reload** (`engine/StrategyLoader.ts`,
`engine/HotReloadManager.ts`). *State:* the files on disk, the loader's record of
each, the loaded classes, the watcher's debounce timer, the loading queue; the
manager's reload queue and active reloads. *Operations:* the watcher's events,
`handleFileChange`, `loadStrategy`, `reloadStrategy`, `unloadStrategy`,
`processLoadingQueue`; `requestReload`, `cancelReload`, `processReloadQueue`,
`executeReload` with its phases. *Interactions:* both unload and load the same
classes, each suspended between the two. *Hard:* a file changes or vanishes at any
phase of a reload; a failed import leaves no strategy; changes of different files
share one timer. *Correct if:* no strategy disappears silently, what was written is
loaded in the end, started reloads end, the limit of reloads holds.

**Event manager** (`engine/EventManager.ts`). *State:* `processingQueue`, the
events' status and retry counts, the counts of active handler calls, pending retry
timers, the dead letter queue. *Operations:* `emitEvent`, `registerHandler`,
`unregisterHandler`, the interval's batches, `processEvent` with its handler calls,
retries, `retryDeadLetterEvents`, `cleanup`. *Hard:* batches overlap; handlers come
and go while events are handled; retry timers survive `cleanup()`. *Correct if:* no
event is lost or in two places, no slot of a handler leaks, completed events stay
completed, events settle.

**Database manager** (`database/DatabaseManager.ts`). *State:* the pool, the
circuit breaker, the reconnection timer and its attempts, the calls under way.
*Operations:* `initialize`, `query` with retries, `transaction`, `shutdown`, the
pool's events, the timer. *Hard:* queries that were let through earlier settle when
the breaker has moved on; everything that fails schedules reconnections.
*Correct if:* the breaker opens only with cause and closes again; reconnecting goes
on until it succeeds or its limit is reached.

**Migration runner** (`src/database/migrate.js`). *State:* the schema, the table
`schema_migrations`, an advisory lock of PostgreSQL, one process per command.
*Operations:* `migrate`, `rollback`, and the `UPDATE` by which the documentation
repairs failed rows. *Hard:* a migration commits before its row is inserted; a
process is killed, or times out, while the server goes on with its statement.
*Correct if:* records are true and in order, nothing recorded is executed again,
the lock is released.

### Components that are not modelled (yet)

| Component | State and operations | Hard behaviour |
|---|---|---|
| `execution/ExecutionOrchestrator.ts` | `ResourceMonitor.allocations` (reservations that only expire), `activeOrchestrations`; `orchestrateExecution` with awaits between the capacity check and the reservation | with the repository's `RiskController` every orchestration is rejected at its risk check |
| `orders/OrderManager.ts`, `OrderRouter.ts` | managed orders, rate-limit windows; create, submit, cancel, fill/cancel/reject handlers | `childOrders` is never filled, so that the cascades over children do not happen |
| `orders/OrderBook.ts`, `orders/ExecutionEngine.ts` | price levels and FIFO orders, batches; TWAP, VWAP, iceberg loops | stop orders during matching, loops that are cancelled between slices |
| `strategies/StrategyEngine.ts`, `engine/StrategyEngine.ts`, `StrategyExecutor.ts` | engine state, strategies, pending signals | the first calls methods its collaborators do not have, the others call a static factory method that does not exist: no strategy gets past its creation |
| `engine/RiskController.ts`, `ProtectionMechanisms.ts`, `risk/` | breakers, stops, cooldowns, emergency close | recovery and monitoring interval racing signals |
| `portfolio/` | positions per symbol | fills in parts, opposite fills, closing |
| `exchanges/`, `streaming/` | health of connectors, subscriptions, routes | failover and reconnection |
| other parts of `database/` | data migrators, orchestration of services, repositories | SQL text and its execution |
| `data/RollingWindow.ts`, `MarketDataBuffer.ts`, `ConcurrentMarketDataBuffer` | ring buffers, candles behind the read-write lock | wrap-around, eviction |
| signals, conditions, strategies, indicators, backtesting, analytics, ml | candle series | floating-point computation, out of TLC's reach |
| routes, frontend, services, deployment | — | handlers, user interface, configuration |

`PROJECT.json` lists all of them with their files and the hazards of this code at
the line where each of them bites.

## 2. Modules

| Module | What it is |
|---|---|
| `OrderExecutor` | the order executor |
| `OrderExecutorProofs` | its proofs |
| `StrategyExecutionEngine` | the engine's queue, breaker and life cycle |
| `StrategyExecutionEngineProofs` | its proofs |
| `DydxOrderClient` | the dYdX client and, external, the exchange |
| `DydxOrderClientProofs` | its proofs |
| `ReadWriteLock` | the read-write lock |
| `AsyncMutex` | the mutex |
| `ConcurrentPriorityQueue` | the heap behind the mutex; extends `AsyncMutex` |
| `PriorityBag` | abstract: a bag that gives its highest priority first, implemented by the heap |
| `LockFreeCircularBuffer` | the circular buffer |
| `BoundedQueue` | abstract: a bounded FIFO queue, implemented by the buffer |
| `ConcurrentDataStructures` | buffer, lock and priority queue side by side |
| `ConcurrentDataStructuresProofs` | proofs of all three, both refinements included |
| `StrategyLoader` | files, watcher, debounce, loading queue |
| `HotReloadManager` | reload requests on top of the loader; extends `StrategyLoader` |
| `HotReloadManagerProofs` | proofs of the manager and of the loader under it |
| `EventManager` | events, handlers, retries, dead letters |
| `EventManagerProofs` | its proofs |
| `DatabaseManager` | pool, circuit breaker, reconnection |
| `DatabaseManagerProofs` | its proofs |
| `MigrationRunner` | processes, schema and records of the migrations |
| `MigrationRunnerProofs` | its proofs |
| `MC...` | instances for TLC; each `.cfg` is one run |

Operators whose name ends in `_Something` and whose comment begins with "Mutant"
are deliberately broken variants of the definition that follows them: each is a
plausible bug that the properties are known to catch. They are not part of any
specification.

### OrderExecutor

A *plan* stands for one `executeOrder()` call; its order is `<<p, 0>>` and its
slices are `<<p, 1>>`, `<<p, 2>>`, ... `spec` says what the plan asks for: the
venue (paper, backtest, live over the built-in mock, live over dYdX), a quantity,
a number of slices, and whether validation accepts it. Prices are abstracted:
whether a simulated limit price is executable, and what the exchange answers to a
poll, is a choice.

`pc` is the await at which the call is suspended:

| `pc` | Suspended in |
|---|---|
| `validate`, `submit`, `monitor` | `LiveTradingExecutor.executeOrder`: `validateOrder`, the submission, the polls of `monitorOrderExecution` |
| `simulate`, `backtest` | `PaperTradingExecutor`, `BacktestExecutor` |
| `returned` | `executeSlicedOrder`, after the slice's `executeSingleOrder` settled |
| `pause` | the slice interval |

`ExecuteOrder` is the run up to the first await, `Settle` the run in which a
result reaches `executeSingleOrder`, `FinishParent` the end of
`executeSlicedOrder` with its `finally`. `CancelOrder`, `MonitorActiveOrders`,
`CleanupBegin`/`CleanupCancel` are the handlers that run between them.
`ToHistory` is the three statements (status, `activeOrders.delete`,
`orderHistory.set`) they all share. `exchangeOrderId` is never assigned by the
code, so `cancelOrder` has no await. Where a listener throws (`ListenerThrows`)
the code's `catch` is followed: `ExecuteOrderThrows`, the second disjunct of
`Settle`, the early end of the monitoring loop.

### StrategyExecutionEngine

A request's `fate` is what became of the promise given to its caller.
`Submit` is `executeTradeDecision` for a run of requests: the breaker is asked,
the queue limit is checked per request, `addToQueue` inserts behind the last item
of equal or higher priority. `ProcessQueue` is a tick of an interval (it has no
await, so its `isProcessingQueue` flag is never seen set); `Complete` is the end
of `executeRequest`, whose result the orchestrator and executor decide;
`StopBegin`/`StopEnd` and `InitializeBegin`/`InitializeEnd` are the two sides of
their awaits. Nothing keeps these calls apart: `initializing` counts the suspended
`initialize()`, `stopWaits` keeps for each call of `stop()` the executions it still
waits for. Time is two facts: `overdue` (queued for longer than
`queueTimeout`; earlier items are overdue first) and `retryDue` (the breaker's
recovery time is over).

### DydxOrderClient

The exchange is the part marked external: it accepts a POST under a fresh id,
orders close on their own, and a DELETE cancels an open order. Every request is
split in two, so that its effect and its answer can be separated: `PostArrives`
and `PostAnswered`, `CancelArrives` and `CancelAnswered`, `MonitorReads` and
`MonitorApplies`, `FetchRead` and `FetchAnswered`. `PostLost`, `CancelLost`,
`FetchFails`, `MonitorFails` are timeouts (each a bounded fault); a request that
was given up before it arrived may still arrive (`late`, `"lost"`).
`AttemptFails` is the `catch` of `executePlaceOrder` with its retry, which
`shouldRetry` allows or not by the text of the error;
`StatusApplied` is the body of the monitor's loop after its await.

The exchange's open statuses (OPEN, UNTRIGGERED, PARTIALLY_FILLED) are one, and so
are CANCELED and BEST_EFFORT_CANCELED: the client treats them alike. The rate
limiter only delays and is left out, as is the latency average.

### ReadWriteLock, AsyncMutex, ConcurrentPriorityQueue, LockFreeCircularBuffer

`Wake` is the callback of the `setTimeout` by which a release hands the lock on;
`timers` are the callbacks that are due, in the order in which Node.js runs
timers of equal delay. A timeout argument only has an effect when it is 0
(`AcquireWriteNow`), because it is compared once, when the call is made; a read
with timeout 0 that is refused changes nothing and needs no action.

The buffer's cells, positions and size counter are the code's. `Content` maps
them to the abstract queue: the cells from the read position to the write
position. `ImplementsQueue` is `BoundedQueue`'s specification under this mapping,
with one place less than the array has cells.

`AsyncMutex` is the same hand-over with one kind of task. `ConcurrentPriorityQueue`
puts the heap behind it: an operation runs to its end, release included, in one
step, as the code has no await inside the critical section; `TimerFires` therefore
waits until no operation is under way. `heapifyUp` and `heapifyDown` are the code's
recursion, written as functions of their calls (`HeapCalls`: a heap of n items and a
position), and `ImplementsBag` says that the heap behaves like the bag of its items
whatever their order in the array. The three structures share nothing:
`ConcurrentDataStructures` puts them side by side, each with variables of its own, and
`MCConcurrentDataStructures` lets one of them move at a time, so that their state
spaces add up.

### StrategyLoader and HotReloadManager

A *version* stands for the contents of a file; versions of `Broken` cannot be
imported. Tasks — calls of `handleFileChange` and reload requests — have a `step`
that names the await they are suspended in. `Unload` and `Load` are the two halves
of `forceReload`, which both kinds of task share; `HotReloadManager` adds the steps
of `executeReload` around them (`Prepare`: snapshot and the record; `Validated`;
`Drained`: the graceful timer; `Reload`; `Restore`; `Fail`). `Load` imports what is
on disk by then. Where a listener throws (`ListenerThrows`), 'reload_requested' leaves
a request in the queue without a run of it, and 'reload_started' leaves the entry of
the reload among the active ones, where nothing goes on with it (`"stranded"`).
`reported` and `overtaken` are history variables: failures that
were announced, and changes that the shared debounce timer dropped.

### EventManager

`processings` is the list of calls of `processEvent` under way, each with the state
of its handler calls. `Process` is the start of a batch: `processEvent` runs up to
its first await for all events before any handler ends, so the admissions to a
handler are folded over the batch. `CallEnds` is a handler that returns, throws or
is timed out; `Settle` is the rest of `processEvent` once all calls have ended.

### DatabaseManager

A *process* is a caller or a callback of the reconnection timer. `pc` names the
await: `connecting` and `testing` inside `initialize()`, `attempting` a query or
transaction on an open pool, `doomed` on an ended one, `backoff` between attempts
(or while the cache is read in vain). `Connected` is the pool's 'connect' event,
which the code takes for a successful connection. `withinTimeout` says whether the
breaker's timeout since the last failure is over.

### MigrationRunner

A *runner* is one process with one command. `executing`, `recording`, `failing`
name the statement it waits for. After `Timeout` the process waits for a ROLLBACK
that queues behind the SQL, so `SqlCommits` may still happen first. `Crash` ends
the sessions — the lock is free at once — and the last statement may stay in `sent`
and take effect later (`StatementEnds`). `Repair` is the documented `UPDATE`. A
second execution of a file fails because the files create tables without
`IF NOT EXISTS`; that PostgreSQL refuses a second row is `Insert`. Commands that
pass `--quiet` as the target version are `upTo = 0`.

## 3. Runs

Every run's bounds are in its `.cfg`; state counts are distinct states.

| Run | Instance | States | What it shows |
|---|---|---|---|
| `executor` | two concurrent plans (interchangeable), each a sliced dYdX order of 3 with a remainder, a paper order or one that validation refuses; 2 polls; every cancel, expiry and cleanup | 867 000 | `OneHome`, `InterimUntilSettled`, `MetricsMatchOutcomes`, `NoResurrection`, `OutcomeIsFinal` |
| `executor_live` | one plan on every venue with up to 3 slices, remainders, empty slices, slices above `maxOrderSize`; two intervals; throwing listeners; fairness | 79 000 | `SlicesAddUp`, `SliceManagersOfRunning`, `EveryCallReturns`, `ActiveOrdersDrain` |
| `engine` | three requests of two priorities, two of them in a batch, queue of 2, one at a time, breaker threshold 2, two `initialize()` and two `stop()`, each of which may overlap; fairness | 458 000 | `TypeOK` with the limits, `NoLostPromise`, `BreakerMatchesFailures`, `SettlesOnce`, `StartsInOrder`, `EveryRequestSettles` |
| `dydx` | a valid and an invalid client, two exchange orders, a retry, two faults, a cancellation, two overlapping passes of the monitor; fairness | 89 000 | `OpenOrdersCancellable`, `CancelledAtVenue`, `TrackingLags`, `CallsReturn`, `OpenTrackingEnds` |
| `dydx_closed_stays` | one pass, no fault; fairness | violation | `ClosedOrdersLeaveTracking` fails |
| `data_structures` | a buffer of four cells; the read-write lock with four tasks and two calls with timeout 0; the priority queue with three tasks and five items of three priorities; fairness | 36 000 | `ImplementsQueue`, `LockNoLostWakeup`, `LockServesWaiters`, `QueueImplementsBag`, `MutexServesWaiters` |
| `rwlock_exclusion` | the read-write lock, four tasks | violation | `ExclusiveWriters` fails |
| `hot_reload` | two strategies, three requests (graceful and immediate, with and without validation), two changes of files of which the first cannot be imported, one reload at a time, throwing listeners; fairness | 250 000 | `TypeOK` with the limit, `NoSilentUnload`, `StartedReloadsEnd`, `LatestVersionLoaded` |
| `events` | a critical and a normal event, a handler that is not concurrent, two attempts, batches of 2, dead letters up to 2; fairness | 25 000 | `TypeOK` with one place per event, `NoEventLost`, `NoSlotLeaks`, `CompletedStays`, `EventsSettle` |
| `database` | two callers, one callback of the timer, thresholds of 2, one retry, three faults; fairness | 502 000 | `BreakerHasCause`, `ReconnectsGoOn`, `BreakerRecovers` |
| `migrations` | three processes, two migrations, crashes and timeouts at every step; fairness | 153 000 | `RecordsAreTrue`, `RecordedNotRepeated`, `LockIsReleased` |
| `migrations_atomic` | the same | violation | `FailedIsRolledBack` fails |

**Why the bounds are enough.** Orders of different plans meet only in the maps,
the counters and the loops over all active orders, so two plans show every kind
of interference and the proofs cover the rest; three slices give a first, a middle
and a last one; two polls give one that continues and one that runs out. In the
engine three requests fill the queue while one executes, with an equal and a
higher priority to be confused; a threshold of 2 lets successes come between two
failures. Two faults allow a lost POST and a lost DELETE in one behaviour; two
passes of the monitor overlap. Four tasks allow a holder, a woken task, a waiting
one and one that slips in; four cells are the smallest array in which a wrapped
region, a full and an empty buffer differ; five items give a heap of three levels.
Two strategies compete for the debounce timer and the reload limit, and a broken
version followed by a good one shows both ends of an import. A critical and a normal
event share a handler of one slot. Three faults open the breaker and break its
half-open attempt as well. Three processes allow one that was killed, one at work
and one that is refused the lock; two migrations have an order.
The `Max...` constants that bound a counter of calls (`MaxTimers`, `MaxInits`,
`MaxStops`, `MaxCalls`, `MaxFaults`, `MaxChanges`, `MaxItems`, `ZeroTimeouts`) are
marked "bound" where they are declared, or bound the failures of the environment.
The breakers' failure counts and the announcements `closings` are capped where
nothing depends on larger values.

**Deadlock** is checked except where the system may stop: in the runs of the dYdX
client, of the events and of the reloads, where every bounded request may be through;
of the migrations, whose processes end; and of the data structures, where after a
refused call with timeout 0 all tasks may wait for ever (see section 5).

**Fairness.** Only steps that the event loop takes by itself are fair: callbacks
of timers and of settled promises (`Progress`, `Wake`, the intervals' ticks),
answers of the exchange (each request carries `AbortSignal.timeout`, so it
settles), handlers of events (each has a timeout), reads and imports of files, and
the `finally` in which holders of a lock release it. Calls by users, cancellations,
`start`, `stop`, changes of files, crashes, and closings at the exchange are never
fair. Fairness is weak, as each fair step stays enabled until it is taken, with two
exceptions. The engine's tick comes and goes with its interval; its property assumes
that the engine keeps executing. The mutex's timers are strongly fair: `TimerFires`
is disabled while an operation holds the mutex, and a timer that is due fires when
the event loop comes round. The engine's fairness for `Complete` is what
`EveryCallReturns` shows of the executor.
Three assumptions are about the environment and not the code: PostgreSQL ends every
statement (`LockIsReleased`; the runner's own timeout does not help, as its ROLLBACK
waits behind the statement); queries keep coming and faults are finitely many
(`BreakerRecovers`; without queries nothing tries an open breaker).

**What a property assumes** is in its comment. In particular `EveryRequestSettles`
says nothing of a low priority under an endless supply of higher ones (finitely
many requests are submitted), and `OpenOrdersCancellable` is about clients that
are placed once, which is how the executor uses the client: it draws a fresh id for
each order.

## 4. Proofs

TLC checks the instances above; the theorems below hold for every value of the
constants that satisfies the modules' named assumptions.

| Theorem | Says |
|---|---|
| `OrderExecutorProofs!TypeCorrectness` | `TypeOK` |
| `OrderExecutorProofs!OneHomeAlways` | every order is in exactly one place |
| `OrderExecutorProofs!NoResurrectionAlways` | an order never leaves the history |
| `OrderExecutorProofs!OutcomeIsFinalAlways` | an outcome never changes |
| `OrderExecutorProofs!SliceManagersAlways` | a slice manager is kept exactly while its sliced execution runs |
| `OrderExecutorProofs!InterimUntilSettledAlways` | if no listener throws, cancelled and expired are not final before the execution has settled |
| `OrderExecutorProofs!MetricsMatchOutcomesAlways` | the metrics count every outcome once |
| `OrderExecutorProofs!SlicesAddUpAlways` | a parent reports at most what its slices were filled with, and they at most what was asked |
| `StrategyExecutionEngineProofs!TypeCorrectness` | `TypeOK`, with the limits of the queue and of concurrent executions |
| `StrategyExecutionEngineProofs!NoLostPromiseAlways` | a promise is open exactly while its request is queued once or active |
| `StrategyExecutionEngineProofs!BreakerMatchesFailuresAlways` | the breaker is closed exactly below its threshold |
| `StrategyExecutionEngineProofs!SettlesOnceAlways` | no promise settles twice, results come from active requests |
| `StrategyExecutionEngineProofs!StartsInOrderAlways` | nothing starts ahead of what precedes it |
| `DydxOrderClientProofs!TypeCorrectness` | `TypeOK` |
| `DydxOrderClientProofs!CancelledAtVenueAlways` | a reported cancellation happened |
| `DydxOrderClientProofs!TrackingLagsAlways` | the client never runs ahead of the exchange |
| `DydxOrderClientProofs!OpenOrdersCancellableAlways` | if `MaxCalls = 1`, an open placed order keeps its mapping |
| `ConcurrentDataStructuresProofs!TypeCorrectness` | `TypeOK`, with the cells that hold items |
| `ConcurrentDataStructuresProofs!SizeIsCountAlways` | the size counter is right |
| `ConcurrentDataStructuresProofs!Refinement` | the buffer implements `BoundedQueue` |
| `ConcurrentDataStructuresProofs!LockNoLostWakeupAlways` | who waits for the read-write lock waits for somebody |
| `ConcurrentDataStructuresProofs!HeapInvariance` | the heap stays ordered |
| `ConcurrentDataStructuresProofs!QueueRefinement` | the priority queue implements `PriorityBag` |
| `HotReloadManagerProofs!TypeCorrectness` | `TypeOK`, with the limit of reloads |
| `HotReloadManagerProofs!UrgentFirst` | the reload queue is sorted by priority, without repetition |
| `HotReloadManagerProofs!NoSilentUnloadAlways` | somebody accounts for every strategy that is not loaded |
| `EventManagerProofs!TypeCorrectness` | `TypeOK`, with one place per event, two for a critical one |
| `EventManagerProofs!NoEventLostAlways` | an event is where its status says |
| `EventManagerProofs!NoSlotLeaksAlways` | a handler's count never exceeds its calls under way |
| `EventManagerProofs!CompletedStaysAlways` | events that are not critical stay completed |
| `DatabaseManagerProofs!TypeCorrectness` | `TypeOK`, with the limit of reconnections |
| `DatabaseManagerProofs!BreakerHasCauseAlways` | the breaker is not closed only after `FailureThreshold` failures |
| `DatabaseManagerProofs!ReconnectsGoOnAlways` | a reconnection is pending or under way until the limit is reached |
| `MigrationRunnerProofs!TypeCorrectness` | `TypeOK`, with one process at work, the holder of the lock |
| `MigrationRunnerProofs!RecordsAreTrueAlways` | recorded migrations are in the database, without a gap |
| `MigrationRunnerProofs!RecordedNotRepeatedAlways` | only late records are about migrations that are executed |

**Executor.** `OneHome` is not inductive: whether a settlement may overwrite a
status depends on whose call is suspended. `IInv` adds `CallInv` — what a
suspended call knows of its order objects: its current order is still pending,
cancelled or expired, the parent too, later slices exist and are unsent, a plan
that has not been executed has no objects — and `TrackedWasSent`: only orders that
were sent are in `activeOrders`. `ToHistoryStep` is the one lemma about moving
orders to the history; settlements, cancels, expiries and cleanup are applications
of it. The two action properties follow from `IInv` step by step
(`EveryStepIsFinal`): whoever writes a status writes it to an active order, or is
the call that owns an order which was not settled yet.

The other properties each need a fact about what a step is (`StepKinds`: it resumes a
call, retires orders, settles one, begins or ends an execution, or does nothing here):
`RunningOrders` for `InterimUntilSettled`, the cardinalities of `WithStatus` for the
metrics, and `SliceInv` for the sums. A sum over slices is `PartialSums`, a function on
`0..MaxSlices`; what it bounds is shown by a least counterexample. `Reported` adds to
the parent's total the fill that has returned but is not counted yet, so that no step
between the two breaks the inequality; the shares of the slices add up to the
quantity because the last one takes the remainder.

**Engine.** `NoLostPromise` is not inductive: it counts on the queue being in order
and free of repetitions (`InOrder`: by priority, then by arrival), on admitted
requests not being new any more (`ArrivalInv`), and on the part of a batch that
`executeBatch` has not reached being new (`BatchInv`). What `addToQueue` does is
shown for one request (`AddToQueue` inserts behind the last one of equal or higher
priority, so that order is kept) and then for any run of requests by a least
counterexample over `Queued`. `BreakerMatchesFailures` is inductive with
the types: every statement that changes the state sets or keeps the count with it.
However calls of `initialize()` overlap, the intervals that run and those that will be
started are bounded together (`InitializingInv`).
The action properties follow from `IInv` per step: only requests taken off the head of
the queue start, so all that still waits comes after them.

**dYdX client.** `IInv` says that what is under way lags behind the exchange
(`LagInv`: a closed status that was read, stored or is on its way is the order's
final one), that placements, mappings and cancellations are about orders of their
client (`PlacementInv`, `MappingInv`, `CancelInv`), and that no more requests are
late than faults happened. Because closed orders never reopen, `Lags` survives
every step of the exchange, so stale answers of any number of overlapping passes
are harmless to `TrackingLags`. `OpenOrdersCancellable` needs `OnceInv` on top: a
client that is placed once has one placed order, and its mapping is only removed
when that order is closed.

**Buffer.** `Wrap` reduces `%` to a case distinction, once; after that the
positions are linear arithmetic. `CellsMatch` says that the used cells are those
between the positions (`Used`), and `ContentFacts` that the mapping yields a
sequence whose elements are those cells. A push appends to it, a pop removes its
head, position by position (`PushRefines`, `PopRefines`).

**Read-write lock.** `LockNoLostWakeup` says that somebody is there to wake who waits.
It needs to know where tasks stand: in the line of their kind or among the timers that
are due, once (`LinesInv`); that the counters are the numbers of tasks in each mode
(`CountersInv`) as long as no refused call with timeout 0 has spoiled `waitingWriters`;
and that readers wait only for writers (`WaitsForWriter`). `writers` says less than
it seems to: as two writers may write at once (section 5), it is only known that
somebody writes if it is not 0.

**Priority queue.** The invariant is that the heap is a sequence of priorities in heap
order (`HeapInv`). `heapifyUp` and `heapifyDown` call themselves last: as each call
comes closer to the end of its chain, the recursion defines a function
(`TailRecursion`), and what passes from a call to the next holds of the last one, which
is the result (`TailRecursionEnds`). What passes is that the heap is ordered but for one
item, whose children are in order with its parent (`OrderedAbove`, `OrderedBelow`), and
that it holds the same items (`SameItems`: a swap is a bijection of the positions).
The bag of the refinement counts these items, and the root of an ordered heap is the
least of them by a least counterexample (`RootIsLeast`). The mutex plays no part in the
theorem, because an operation has no await between taking the heap and leaving it.

**Hot reload and loader.** `IInv` has three parts. `LoaderInv` is the loader's state:
no record is newer than the file ever was, tasks under way have their strategy.
`QueueInv` is the manager's queue. `Accounted` strengthens `NoSilentUnload`, which is
not inductive: a handler that is analyzing a file gives up when the record is up to
date, so it only counts for a strategy while `strategyFiles` and `disk` differ
(`YetToBeSeen`), whereas a task past that point loads whatever it finds (`BeingLoaded`).
Most steps are one lemma, `MoveKeepsAccount`: a task that is not at work on a strategy
may move without changing who accounts for it.

**Events.** Where an event is, is a matter of counting: `Places` adds its positions in
the queue, its calls of `processEvent`, its retry timers and its positions among the dead
letters. `EventInv` bounds the sum, by 2 for critical events since these are processed
at once and queued as well, and says which of the summands its status makes
positive. `SlotsInv` compares a handler's count with the calls that run; it is only `<=`,
since `processEvent` takes a refused handler off a count it was never added to. What
appending, removing, cutting and filtering do to such counts are lemmas on their own.

**Database manager.** `BreakerHasCause` and `ReconnectsGoOn` are inductive together
with the types and `RetriesLeft` (a query under way has counted at most `MaxRetries`
failures). The breaker's part rests on the order of statements: a count that reached
the threshold is only reset together with the state (`CountFailureShared`,
`SuccessShared`). For the other, every failure leaves a timer behind while attempts
are left (`ErrorTimer`, `ErrorGoesOn`); the timer's callback is itself under way when
the timer is gone, and every other place that clears the timer resets the attempts or
shuts down.

**Migration runner.** `RecordsAreTrue` is inductive with two more facts. `Knows`:
the rows a process has read are there for good, everything before the version it works
on is done, what was recorded since it looked is late, and a version it is about to
record is in the schema. `SentInv`: the row that a killed process leaves on its way is
as true as if it were there. A process's own record keeps what it knows
(`RecordInv`); the others are not at work, because the lock has one holder
(`OnlyHolder`); a row that is inserted late breaks nothing, because `version` is unique and
the row says what its sender knew (`InsertKeeps`, `StatementEndsInv`).

**Induction.** The theorems of the library that take an operator as a parameter cannot
be instantiated by the provers at hand. Where a fact is about all the elements of a
recursive function on `0..n` or on a chain of calls, the proof takes a least
counterexample instead (`Least`, from the well-foundedness of `<` on the naturals). The
model is written so that this is possible: `Queued` and `Started` (the admission of a run
of requests, the start of a batch) and the repairs of the heap are recursive
functions, and the module reaches no `RECURSIVE` operator.

**Assumptions.** The proofs use the named assumptions of the modules and no others:
sizes and limits are natural numbers, names that stand for "none" are not members of the
set they are added to, handlers and reload requests are different tasks, priorities are
integers. TLC evaluates each of them on the instances of section 3.

**Only model-checked:** the liveness properties, since the provers have no means for
`ENABLED` and fairness: `EveryCallReturns`, `ActiveOrdersDrain`, `EveryRequestSettles`,
`CallsReturn`, `OpenTrackingEnds`, `LockServesWaiters`, `MutexServesWaiters`,
`StartedReloadsEnd`, `LatestVersionLoaded`, `EventsSettle`, `BreakerRecovers` and
`LockIsReleased`. Every invariant and every other property that a passing run checks is
a theorem above.

## 5. Where the code and its comments disagree

* **Closed orders that stay** (`orderClient.ts:792`, run `dydx_closed_stays`).
  "Remove from active tracking if filled or cancelled" is reached only when a status
  *changes*; an order whose first fetched status is already FILLED, the usual case
  of a market order, stays in both maps and its fill is never announced.
* **Two writers** (`ConcurrentDataStructures.ts:133`, run `rwlock_exclusion`).
  "Exclusive writers": between a release and the wake-up timer a call takes the free
  lock, and the woken writer writes beside it.
* **Failed but applied** (`migrate.js:266`, run `migrations_atomic`). "All migrations
  run within transactions for atomicity", "If anything fails, entire migration rolls
  back" (`database/README.md:305`, `:310`): the files commit their effects themselves.
  After a timeout the ROLLBACK comes too late, and the migration is recorded as failed
  although it is applied; its row is unique, so it can never be recorded as applied.

Observations that no run states, by component:

*Strategy execution engine*

* "Ensure queue processor is running" (`StrategyExecutionEngine.ts:511`): `stop()`
  clears the interval and keeps its handle (`:546`), so `start()` after `stop()` starts
  no interval; the engine says 'executing', accepts requests and serves none.
* Two overlapping `stop()` each wait for what was active when they began, and the later
  one rejects once more whatever was queued meanwhile; two overlapping `initialize()`
  leave two intervals (`:372`).
* `config.enableCircuitBreaker` is read nowhere; the engine's breaker is always on.
* `ExecutionOrchestrator.validateRisk` passes one object to
  `RiskController.calculatePositionRisk(size, signal)`; the call throws and the
  orchestration is rejected.

*dYdX client*

* "Check for status changes" (`orderClient.ts:780`): a pass that finds the order gone
  because an overlapping pass removed it takes this for a change and announces the
  fill a second time.
* A POST that timed out is sent again (`orderClient.ts:547`) although the exchange may
  have accepted it: of several exchange orders of one client order the mapping knows the
  last one answered.
* Re-placing a client while its first order is being cancelled can remove the new
  order's mapping (`orderClient.ts:419`): `OpenOrdersCancellable` fails with
  `MaxCalls = 2`.

*Concurrent data structures*

* `AsyncMutex` hands over as the lock does and has the same gap.
* A refused `acquireWrite` with timeout 0 uncounts a waiting writer it never
  counted; with a waiting writer it lets readers overtake it, and once the count has
  gone below 0 readers wait for nobody (`data_structures` states the lock's properties
  with this exception: `Unspoiled`).
* `executeBatch` of `ConcurrentDataStructures.ts` starts all operations of a batch
  at once, whatever its comment on limited concurrency (`:859`) says.
* `ConcurrentMarketDataBuffer` evicts its oldest symbol also when it updates one that
  is there.

*Strategy loading and hot reload*

* The tests expect a second reload of a queued strategy to be refused
  (`StrategyLoader.test.ts:441`); `requestReload` only looks at active reloads
  (`HotReloadManager.ts:266`).
* "Continue processing if there are more requests" (`HotReloadManager.ts:437`): the
  condition is the loop's own, which has just become false. What is queued at the
  limit waits until somebody requests another reload.
* `unloadStrategy` deletes the record of the file, and `forceReload` does not restore
  it: the second reload of a strategy fails until its file is written again.
* A listener of 'reload_started' that throws (`HotReloadManager.ts:456`) does so before
  the `try` of `executeReload`: the entry in `activeReloads` is never deleted, counts
  against the limit and lets every later reload of the strategy be refused.
* A rollback always throws, as no version ever carries rollback data.
* All files share one debounce timer (`StrategyLoader.ts:661`), so that the change of
  one drops the pending change of another; a removed file without a record is not
  noticed.

*Event manager*

* "Maximum concurrent events" (`EventManager.ts:91`): a call that is refused at the
  limit passes the `finally` (`:791`), which takes one off a count it never added to;
  the next call is admitted beside the one under way. A handler that was timed out
  goes on uncounted.
* `retryOnError` and `deadLetterQueue` of a handler are read nowhere; a retry calls all
  handlers again, those that succeeded too.
* A listener of 'event_dead_letter' that throws (`:846`) throws into the `catch` of
  `processEvent` (`:741`), which fails the event again: it is dead-lettered twice.
* "Process any remaining events in queue" (`:987`) processes one batch.
* Critical and emergency events are handled twice, at once and from the queue.

*Database manager*

* "Graceful shutdown of all connections" (`DatabaseManager.ts:458`): two overlapping
  `initialize()` create two pools, of which the first is overwritten and never ended.
* A cache hit leaves an open breaker half-open; `transaction()` never tries an open one.
* A reconnection timer that is pending when `initialize()` succeeds later replaces a
  healthy pool; the pool's 'connect' event clears the timer of a reconnection that is
  still needed; "Attempt reconnection if not shutting down" (`:539`): the callback's own
  error path reschedules also after `shutdown()`.

*Migration runner*

* "advisory locks to prevent concurrent migrations" (`database/README.md:287`): when
  the runner is killed the lock is free while the server may go on with its statement,
  next to that of the following runner.
* `rollback` never works: the rows it takes have no `filename` (`migrate.js:217`), and
  the row it inserts would violate the unique version.
* The documented recovery, `UPDATE ... SET success = TRUE` (`database/README.md:487`),
  leaves the checksum 'error', which makes every later `migrate` without `--force` fail.
* `migrate --quiet`, which `MigrationManager.migrate()` runs, and `migrate --dry-run`
  take the option for a target version, apply nothing and report success.
* `002_add_indexes.sql` uses `CREATE INDEX CONCURRENTLY` inside a transaction, which
  PostgreSQL refuses.

*Execution algorithms (not modelled)*

* A TWAP execution that is cancelled executes one more slice and ends as 'completed';
  VWAP and iceberg loops go on after a cancellation; an iceberg order executes only
  `totalSize - visibleSize`.

## 6. Not modelled

*Inside the modelled components:* prices, commissions, latencies and their averages;
the wording of errors, except where the code decides by it (`shouldRetry` is a choice
of the error's text); event payloads; listeners that throw, except in `OrderExecutor`
and those of 'reload_requested' and 'reload_started' in `HotReloadManager`: the engine,
the dYdX client, the loader and the event manager are modelled with listeners that do
not, and a throw from the manager's other events could only make a reload fail; the
event manager without its dead letter queue (`enableDeadLetterQueue` is on by default);
the rate limiter of the dYdX client; the contents of an execution inside the engine, which
is a result that arrives after some time; `ConcurrentMarketDataBuffer`; versions,
rollbacks and monitoring of the hot reload; `loadStrategy()` and `unloadStrategy()`
called from outside; subscriptions, streams and analytics of the event manager, and two
`cleanup()` at a time; health monitoring and the Redis cache of the database manager; creation
of the table `schema_migrations`, `status`, `create` and dry runs of the migration
runner. The exchange, PostgreSQL and the file watcher are modelled as far as the code
relies on them.

*Whole components:* those of the second table in section 1. Strategies, indicators,
back-testing and machine learning are floating-point computations over candle series.
The strategy engines and the execution orchestrator fail before they reach the
behaviour one would model, as the table says. Repositories and database services are
SQL text.

## 7. Plan

In this order:

1. **Proofs** of more than the runs check: that `AsyncMutex` forgets no task, and
   which of the interim facts of the proofs (`RunningOrders`, `LinesInv`) deserve to be
   properties of their own.
2. **`LiveExecution`**: `OrderExecutor`'s live path over `DydxOrderClient` and the
   exchange. Abstract specification: one order per plan at the exchange, whose
   outcome the executor reports; where polls run out or a lost POST is repeated the
   composition shows what remains open. Theorem: the client's part refines
   `DydxOrderClient`.
3. **Rate limiter** of the dYdX client, and an abstract lock that `ReadWriteLock`
   implements when critical sections never span a macrotask, as those of
   `ConcurrentMarketDataBuffer`.
4. **Pure algorithms** checked against reference definitions over bounded inputs:
   matching in `OrderBook`, updates of positions in `PositionTracker`, the logical
   operators of the condition evaluator, the ring buffer of `RollingWindow`.
5. **Execution algorithms** of `orders/ExecutionEngine.ts` and **`OrderManager`**, once
   their cascades exist in the code.

Components that share nothing share a run, as the data structures do, so that each
run keeps answering one question about the system.

## 8. Running

    tlc -config MCOrderExecutor.cfg MCOrderExecutor
    tlapm OrderExecutorProofs.tla

and likewise for the other configurations and proof modules.
