# Algotradify: specifications of the order path

Algotradify is a trading bot in Python: strategies propose trades, gates decide
whether a trade may be placed, an execution engine places it with the broker,
and daemons reconcile what the bot believes with what the broker reports. This
directory holds TLA+ models of the parts on which money and recovery depend,
TLC configurations that check them, and proofs checked by TLAPS.

All paths below are relative to the repository (`src/` is its root).

## 1. Inventory

### 1.1 The order path (modelled)

| Component | State | Operations | Correct when |
|---|---|---|---|
| Order state store, `core/orders/state_machine.py` | SQLite tables `order_states` and `order_state_events` | `create_or_get_order`, `transition`, `set_filled_quantity`, `list_orders` | keys are unique, moves follow the transition table, terminal states are final, the log explains the row |
| Order reconciliation daemon, `core/order_reconciliation_daemon.py` | one cycle's book, positions and listing, in local variables of a thread | `run_cycle_once` in a loop | a closed order ends with the broker's outcome and fill; nothing is invented from a stale snapshot |
| Execution engine, `core/execution_engine.py` | failure counters and the kill switch, in memory | `place_order`, `transition_order_state`, `execute_with_network_retry`, `register_failure` | one submitter per order, no order acknowledged that was not placed, no order stuck |
| Order intent store, `core/orders/intent_store.py` | SQLite table `order_intents` | `get_intent`, `upsert_intent` | a SUBMITTED intent stands for a real order |
| Pre-trade risk engine, `core/pretrade_risk_engine.py` | SQLite table `pretrade_signal_registry` | `evaluate`, `record_decision` | a signal seen in the window is refused |
| Order approvals, `core/approval_store.py`, with its gates `core/execution/chokepoint.py` and `core/execution_guard.py` | SQLite table `order_approvals` | create, approve, reject, arm, consume, approve-and-consume | one use per human decision, used is final, arming ends in time |
| Session instance lock, `core/instance_lock.py` | a lock file and its `flock` | `acquire`, `release` | one LIVE/PAPER session at a time; a killed session does not block the next |

How they interact:

- Two paths lead to the order store and neither calls the other.
  `ExecutionRouter.execute` (1.2) opens a row, has the approval gate consume an
  approval (`require_approval_or_abort`) and simulates the fill;
  `ExecutionEngine.place_order` submits to a broker.
- `place_order` reads the intent, writes it NEW, creates or finds the order
  row, asks the pre-trade engine, moves the row to SENT, submits to the broker
  with retries, moves the row to ACKNOWLEDGED or REJECTED and writes the
  intent. Every arrow is a transaction of its own in one of three stores.
- The daemon shares the order store with `place_order`, and nothing else.
  `core/orchestrator.py:1872` starts one daemon, `main.py:466` another, each
  on an engine of its own over the same database. The constructor of every
  engine (`_bootstrap_order_storage`, `core/execution_engine.py:357`) and the
  orchestrator (`core/orchestrator.py:1877`) run one more cycle,
  `reconcile_orders_once`, on the thread that starts up. More than one
  reconciliation over one store is therefore a normal configuration.
- `main.py` and `runtime_native/tradebot_main.py` take the instance lock
  before any of this and release it at exit.

Hard behaviours: transactions of several threads interleave between any two of
these steps; the process may die between them; the broker's answers are stale
by the time they are used; a submission that raises may have been accepted.

### 1.2 Controls around the order path (modelled)

| Component | State | Operations | Correct when |
|---|---|---|---|
| Execution router, `core/execution_router.py` | an order, its approval, the report to the trading cycle | `execute`: open, send, consume the approval, acknowledge, simulate, confirm or abort | nothing is acknowledged without its approval; the report agrees with the store although a daemon works on it |
| Broker truth reconciler, `core/broker_truth_reconciler.py` | one cycle's snapshot of orders, positions and fills | `run_once` in a loop: compare with the event log, halt, flatten | drift is judged as if the readings were of one moment, and halts entries; flattening closes positions and never reverses them |
| Risk halt, `core/risk_halt.py`, cleared by `core/session_guard.py`, `core/db_guard.py`, `core/auth_health.py` and `core/orchestrator.py` | a file, rewritten in place | `set_halt`, `clear_halt`, `is_halted` | a halt stands until a caller who may clear it clears it; the halt for missed service levels is lifted again |
| Feed breaker, `core/feed_circuit_breaker.py`; restart guard, `core/feed_restart_guard.py` | two state files | `trip`, `clear`, `maybe_auto_clear`; `allow_restart`, `reset` | a standing trip is kept; no trip blocks for ever |
| Run lock, `core/run_lock.py` | a JSON file with pid and age | `acquire`, `release` | one live holder; a dead holder does not lock the others out |
| Depth feed, `core/kite_depth_ws.py` | module globals: ticker, watchdog, stop event, latch, restart limits | `start_depth_ws`, `stop_depth_ws`, `restart_depth_ws`, callbacks, `_watchdog` | one connection, watched while it is up; restarts are bounded and end; a refused session stays refused |
| Monitor of open trades, `core/orchestrator.py`; position engine, `core/position_state_engine.py` | open trades and their remaining units in memory, position states on disk | `_track_open_trade`, `_check_open_trades`, daily reset, `apply_exit_action` | a result is booked once; both records agree; a trade at its stop is closed |

How they interact:

- The trading cycle (`core/orchestrator.py`) takes the run lock, checks the
  risk halt, and per symbol passes the gates, monitors open trades and routes
  new ones through `ExecutionRouter.execute`, which uses the order store and
  the approvals of 1.1. The reconciliation daemon of the same process sees
  these orders too, and no broker knows them.
- The broker truth thread, the feed thread and the cycle all rewrite the halt
  file; so do the checks that clear it.
- The feed is started and repaired by the cycle, by its own watchdogs and by a
  thread that a callback schedules. `restart_depth_ws` asks the feed breaker
  and the restart guard.

Hard behaviours: files read and rewritten in separate steps by threads and
processes that know nothing of each other; module globals that a new start
replaces under the feet of an old thread; several remote calls compared as if
they were one moment; joins under a lock, which time out on a busy thread;
exceptions in the middle of a scan or of a route.

### 1.3 The rest (not modelled)

Section 5 gives the reasons: `core/circuit_breaker.py`,
`core/trade_state_machine.py`, startup recovery and runtime lifecycle, the
remaining orchestrator, `paper_trading/`, `agent_system/`, the signal, scoring
and analytics packages, the dashboard and the API.

## 2. Modules

| Module | Models | Extends |
|---|---|---|
| `OrderStates` | the transition table, the row and the three ways to write one | |
| `OrderLifecycle` | abstract: what any reader of the order table may rely on | `OrderStates` |
| `OrderStore` | the store with arbitrary callers, with its audit log | `OrderStates` |
| `OrderReconciler` | daemons, the store's rows and the broker's book | `OrderStates` |
| `OrderPlacement` | `place_order`, intents, risk registry, failure counters, with the daemons | `OrderReconciler` |
| `OrderRouting` | `ExecutionRouter.execute`, with the daemon | `OrderReconciler` |
| `ApprovalStore` | the table `order_approvals` and all who write it | |
| `InstanceLock` | `acquire` and `release` of the session lock, over files and locks | |
| `RunLock` | `acquire` and `release` of the run lock | |
| `RiskHalt` | the halt file, who raises and who clears it, session starts | |
| `FeedBreaker` | the breaker file and its users | |
| `DepthFeed` | the threads around the websocket | |
| `BrokerTruth` | the reconciler of positions, orders and fills | |
| `TradeMonitor` | open trades, exits and booking | |
| `Stores_proofs` | theorems | `OrderStore`, `ApprovalStore`, `InstanceLock` |
| `OrderReconciler_proofs`, `OrderPlacement_proofs`, `OrderRouting_proofs` | theorems | the module they name; the last two also `OrderReconciler_proofs` |
| `Controls_proofs` | theorems | `RunLock`, `RiskHalt`, `FeedBreaker`, `DepthFeed` |
| `Trading_proofs` | theorems | `BrokerTruth`, `TradeMonitor` |
| `MCTrading_proofs`, `MCControls_proofs` | theorems about the composition | the module they name and the proofs of its parts |
| `MCStores` | side by side: `OrderStore`, `ApprovalStore`, `InstanceLock` | these |
| `MCTrading` | side by side: `OrderPlacement`, `BrokerTruth`, `TradeMonitor` | these |
| `MCControls` | side by side: `RunLock`, `RiskHalt`, `FeedBreaker`, `DepthFeed`, `OrderRouting` | these |
| other `MC...` | definitions that give constants their values for TLC | the module they name |

The three side-by-side modules check modules that share no state in one run: a
variable `part` picks the module that runs, the variables of the others stand
still, so the state space is the sum and not the product. Each fairness
condition is asked only of the part it belongs to, as `WF_v(part = "x" /\ A)`.

`OrderLifecycle` is the one abstract specification. `OrderStore` implements it
(by proof and by TLC) with arbitrary callers. `OrderReconciler`,
`OrderPlacement` and `OrderRouting` write the same rows through the same
operators (`NewRow`, `MovedRow`, `RefilledRow`, `ValidTransitions`), with the
callers the program really has. `recon` checks every step of racing
daemons against the same abstraction (`StepsFollowLifecycle`), which is proved
too; that placement and routing, beside their daemons, implement the abstraction
is proved. The mapping is the same in each: the status of an order is the `state` of its row, its owner the
`key`; broker ids and fills are hidden.

### OrderStates, OrderStore

`rows` is `order_states` and `events` is `order_state_events`. A row keeps the
four columns the code branches on. An absent row is the record `AbsentRow`, so
that every order id has one. `CreateOrder`, `Transition` and
`SetFilledQuantity` are the three writers; each is one action because each is
one `BEGIN IMMEDIATE` transaction under `_write_lock` and rolls back when it
raises. A refused call changes nothing, so it is a stutter and not an action.

### OrderReconciler

`dm[d]` is the stack frame of `run_cycle_once` in daemon `d`: the snapshot of
the book, whether positions were open, the rows listed and not yet handled,
and the order in hand. Reading the book, reading positions, listing the store
and each store transaction are separate actions: between any two of them the
broker, another daemon or a placing thread may act. `_move_to_state` computes
a path of at most two edges from the *listed* state and applies it to the
*current* one: `SyncState` is the first edge, `BridgeMove` the second,
`SyncFillAfterMove` the call of `set_filled_quantity` that follows when the
move did not carry the fill. `book` is external: entries fill one unit at a
time, close with any outcome, or change between an open status and one the
daemon does not know.

`ReconSpec` starts after a restart: rows in every state that a previous
process can leave behind, each known to the broker or not. `PlaceSpec` starts
from empty stores and reaches such rows by itself.

### OrderPlacement

`th[t]` is the frame of `place_order` in thread `t`; `pc` names the next store
transaction or broker call. The early returns are the branches of `Call`,
`CreateOrGet`, `RiskRefuses` and `RiskAllows`; the exceptions are
`MoveOrRaise` (an illegal transition raises out of the call) and the exits of
`SubmitFails`. A submission may be accepted, refused, or raise. A refusal may
or may not carry the id of an order, which the broker may or may not list; a
submission that raises may or may not have reached the broker. `placedFor` is
a history variable: which order each broker id was issued for. An order is its
own idempotency key, because both are hashes of the same request.

The failure counters saturate one above their threshold: the code compares
with `>` only. Network failures leave their window in `FailuresAge`, signals
leave theirs in `SignalAges`; both are environment steps and may come at any
time, which covers every window length.

### ApprovalStore

`appr` is the table. `approve_intent`, `arm_order_intent`,
`consume_valid_approval` and `approve_and_consume_order_intent` read the clock
and then wait, possibly several times, for the database lock: `StartCall`
takes the time stamp, the other actions are the transactions that use it. A
call that gives up is `CallGivesUp`. `create_order_approval` reads the status
on one connection and writes on another transaction: `CheckCreate` and
`WriteCreate`. `credit` is a history variable that counts what the human
decisions have paid for.

### InstanceLock

`path` is the inode that the lock path names, `holder` the lock of each inode,
`fd` the inode each process has open. `release` unlocks and closes, and then
unlinks whatever the path names by then: two actions.

### OrderRouting

One order is in `hand` at a time, as the trading cycle is one thread;
`routeStage` is the place in `execute`. Every store transaction is an action
and may find that the daemon has closed the order: `MoveRaises` is the
exception that then leaves `execute`. `ExecuteFails` stands for every other
one, which may come at any stage: the quotes, the execution guard, the approval
store and the order store's own transactions are called without a handler. The
order then stays as it is and the cycle is told nothing (`outcome` is
"raised"). What follows a transition in `transition_order_state` and in the
audit log is caught there, so no exception comes between a move and the end of
its stage. The gates before the send, the approval's state and
the simulator's verdict decide among `SendOrder`, `AbortOrder`, `Simulate`.
LIVE mode consumes the approval and then always aborts, which is a behaviour of
the same actions. `ProcessDies` stops the call and the daemon together.

### BrokerTruth

`FetchOrders`, `FetchPositions` and `FetchFills` are the three calls of
`_fetch_broker_truth`; `Compare` reads the event log, which has no event for
the fill of a flatten order, and decides; `Flatten` is one row of
`_flatten_positions`. Orders of the program are an input that reaches the
broker, fills and is logged in this order; a stranger may trade on the account.

There are two kinds of broker. One has a method `open_orders` and lists the
orders that wait. The other has only `orders`, to which `_call_broker_rows`
falls back: it lists every order of the day (`OrderRows`), and `_open_order_ids`
looks at no status. `KiteConnect`, the broker that `_cli` and `main.py` pass, is
of the second kind. `listsOpen` is either for the whole behaviour.

`_flatten_positions` reads a row differently from the comparison: where the
quantity is 0 it takes what was bought less what was sold today, even if the 0
is explicit (`RowQty`). The two differ by what was carried from earlier days,
`Carried`, so a position closed today may be flattened once more and given
back. `KiteConnect.place_order` takes keyword arguments and not the dict it is
given here, so with it every flatten order raises: one of the two outcomes of
`Flatten`.

`undisturbed` and `excused` are history variables: whether anything moved
during the cycle, and for which symbols a flatten order was pending or the
position moved after it was read.

### RiskHalt, FeedBreaker

Both files are rewritten by `Path.write_text`, which truncates and then writes:
two actions, and whoever reads between them sees an unreadable file, which both
readers take for "no halt" and "not tripped". A decision to clear is a third
action before them. `RiskHalt` has the thread of the trading cycle (`stage`),
other threads that raise halts, the auth check, and session starts with
`ensure_db_ready` and `auto_clear_risk_halt_if_safe`. `owed` and `hidden`
record which halts nobody has cleared and which of these a later halt has
overwritten. In `FeedBreaker` trips are numbered, so that a property can tell
an old trip from a new one.

### RunLock

`TryAcquire` reads the file and decides; `WriteTmp` and `Replace` are
`_atomic_write`. All processes use one temporary file, as the code does. The
history variable `calm` stays true while calls do not overlap, no claim
expires and nobody releases twice (`TwiceReleased` are the processes in which
the depth feed registers `release` both with `atexit` and with the lifecycle).

### DepthFeed

`at[t]` is where thread `t` is in `restart_depth_ws` and `start_depth_ws`; the
threads are the trading cycle, the scheduled restart and the watchdogs
themselves. `_RESTART_LOCK` is `holder`; what happens under `_KITE_TICKER_LOCK`
is one action. A watchdog sleeps ("idle"), tests the event and begins an
iteration ("busy"), in which it reads the database, asks the broker and may
restart the feed (`BeginIteration`, `EndIteration`). It ends when the *current*
`stopEvent` is set at a test, whoever created it. `JoinOver` is the join of a
stop, which waits three seconds: it may time out on a watchdog in an iteration
or a restart, however long these take, and on one whose event a start has
replaced. On a watchdog that sleeps it does not: the sleep is one second, and
the event is tested after it. A watchdog that restarts the feed cannot join
itself and goes on.

### TradeMonitor

A scan of `_check_open_trades` visits `tracked` trade by trade (`cursor`) and
collects `kept`, which replaces the list at the end (`EndScan`). `ExitRaises`
is an exception on the way, before or after the booking. `metaLeft` and
`legUnits` are the trade's own record, `engine` that of the position engine,
which receives a fraction and rounds it back into units. The gates in front of
the scan are `GatesOpen`. `gone` and `cutShort` are history variables for the
two ways in which the program loses count, which `BookedOnce` excepts by name.

## 3. Runs

The longest runs take about two minutes on two workers.

| Run | Configuration | Instance | Shows | States |
|---|---|---|---|---|
| `stores` | `Stores.cfg` | 2 orders, 2 keys, 1 broker id, quantities -1 and 2, 3 events per order; 1 intent, 2 creators, 2 callers, approval lasts 2, arming 1, time to 3; 3 processes, 4 inodes | order store: unique keys, faithful audit trail, refinement of `OrderLifecycle`; approvals: one use per grant, arming within validity, used is final; session lock: one holder of the named file, a refusal needs a live holder | 881 k |
| `recon` | `Recon.cfg` | lot of 3; either 2 daemons, one crash, 1 order, or 1 daemon, no crash, 2 orders (one linked by broker id, one found under its own id) | no closed order contradicts the broker, no fill is invented, every step follows the lifecycle, however stale the snapshots; a daemon alone repairs closed orders for good | 450 k |
| `place_race` | `PlaceRace.cfg` | 1 or 2 callers, 2 timestamps of one signal, 2 attempts, 3 broker ids, one restart | the broker sees at most one call's attempts for an order, acknowledged orders were placed, broker ids belong, SUBMITTED intents are backed, one uninterrupted caller is acknowledged once | 4.1 M |
| `trading` | `Trading.cfg` | 1 thread and 1 daemon, one restart; 1 order and 1 strange trade, 2 flatten orders, 1 outage, either kind of broker, 1 unit carried; 2 trades of 3 units, 2 a day, 1 exception | types; no order stays in flight; a quiet cycle judges one moment, drift halts again, flattening does not reverse; results are booked once, records agree, overdue trades are closed | 405 k |
| `controls` | `Controls.cfg` | 3 processes, one releasing twice; 3 threads and 2 halts, streak of 2; 2 trippers, 2 clearers, 3 trips; 2 tickers, 2 restarts per hour; 2 routed orders, 1 daemon, one death | types; lock, halt, breaker, feed and router keep what they promise (section 1.2) | 288 k |
| `recon_two_daemons` | `ReconTwoDaemons.cfg` | 2 daemons, no crash | **violation** of `ClosedOrdersRepaired` | |
| `place_retry` | `PlaceRetry.cfg` | 1 thread, 2 attempts | **violation** of `IdempotentPlacement` | |
| `place_vs_daemon` | `PlaceVsDaemon.cfg` | 1 thread and 1 daemon, no restart | **violation** of `CompletedOrdersRecorded` | |
| `drift_not_real` | `DriftNotReal.cfg` | 1 order, nothing else, either kind of broker | **violation** of `DriftIsReal` | |
| `lock_unlinked` | `LockUnlinked.cfg` | 3 processes, 4 inodes | **violation** of `MutualExclusion` | |
| `feed_watchdogs` | `FeedWatchdogs.cfg` | 2 tickers | **violation** of `OneWatchdog` | |
| `exits_gated` | `ExitsGated.cfg` | 1 trade, 1 a day | **violation** of `ExitsAreChecked` | |

The type invariant of every module is proved (section 4). Two runs join modules
that share no state and check the conjunction of their types, as
`TradingTypeOK` and `ControlsTypeOK`.

### Conditions in the properties of `controls` and `trading`

Several of these promises hold only under conditions, and the property names
them; each is a place where the code's protection ends.

- `HaltStands` excepts writes that overlap or are cut short: the file is then
  unreadable and the halt is gone. `ClearsOnlyItsReason` excepts halts raised
  after the clearer had read the file, and reasons that a later halt had
  overwritten. The start of a session is outside of it: with the default
  settings it clears a halt of any reason when there are no positions.
- `StandingTripIsKept` excepts a save that overlaps another one.
- `ExclusiveWhenCalm` is the lock's promise without overlapping calls, expiry
  and double release; `acquire` is not atomic.
- `NoOrphanConnection` and `RefusalIsFinal` except a stop that comes in the
  middle of another thread's start: that start then connects a ticker which
  `_KITE_TICKER` does not name.
- `JudgesOneMoment` is about cycles during which nothing moved: the others may
  raise false alarms. It speaks of the books as the broker showed them, so it
  says that four readings do as well as one and not that the orders listed are
  open: that is `DriftIsReal`, which finding 7 refutes. `FlattenNeverReverses`
  excepts symbols that moved after they were read or had an earlier flatten
  order pending when they were read: a drift that outlasts a cycle is flattened
  twice. It also names what the explicit 0 does: a closed position is given back
  at most what was carried into the day.
- `ReportAgreesWithStore` says in which way report and store may differ: after
  an exception an order may be in flight, or rejected by the daemon, and an
  order that the daemon has rejected while its fill was under way is in the fill
  log and REJECTED in the store.
- `BookedOnce` excepts trades in a scan that an exception has ended (booked
  again by the next one) and trades lost by a restart.

### Bounds, and why they are enough

- *Orders.* No operation of the store, the daemon, the router or `place_order`
  relates two orders except through a key or a signal. Two orders are enough to
  contend for either, and one is enough where a property is about one order.
- *Lot of 3 or 2.* With three, a partial fill can grow into another one, which
  the daemon repairs in place (`recon`); with two, a partial fill exists between
  nothing and all (the router in `controls`, `recon_two_daemons`). In
  placement `Lot` is 1: a partial fill changes nothing in `place_order`.
- *MaxEvents = 3.* Creation, a move, and a fill, another move or a close after
  it, for each of two orders. The theorems about the store have no such bound.
- *A daemon alone* (`alone` in `MCRecon`). The order without a broker id is SENT,
  the other one acknowledged or partly filled: a row gets the id with its
  acknowledgement. Two rows in one listing, so that one is old when it is handled.
- *Two daemons, two threads, one crash.* One actor with a stale view and one
  that made it stale; a crash between two transactions of one of them.
- *MaxAttempts 1 or 2, thresholds 0 or 1.* The last attempt and one that is
  not the last; a threshold that is reached and one that is passed.
- *BrokerIds.* One id for each submission the run can make. Where there are
  fewer, as in `trading`, a submission finds the book full and only the failing
  outcomes remain, which the liveness property covers too.
- *MaxTime = 3, Ttl = 2, ArmTtl = 1.* A call can hold a stamp that is older
  than the whole validity of the approval it meets, and an arming can end
  before, with and after the approval.
- *Four inodes for three processes.* A process holds at most one, and the
  path may name a fourth; a creation always finds a fresh one.
- *Run lock: three pids, one of which releases twice.* A dead holder, a
  survivor and a third process that comes between them. The proof covers any
  number.
- *Risk halt: three threads, `MaxRaises` 2, `Streak` 2.* A halt, and another
  that overwrites it or is lost in its rewriting; a streak that is broken once.
- *Breaker: two that trip, two that clear, `MaxTrips` 3.* The trip a clear has
  read, one that comes before its save and one after it.
- *Feed: `MaxTickers` 2, `StormMax` 2, `GuardMax` 2.* The ticker that is being
  stopped and the one that replaces it, each with its watchdog, and the restart
  that a limit refuses. A third ticker repeats the second's case, because only
  the current one is named by a global.
- *Broker truth: `MaxStrange` 1, `MaxFlats` 2, `MaxFailures` 1, `Carried` 1.*
  One trade the event log does not know, the flatten order it causes and the
  second one of the next cycle, one call that raises; a carried unit that makes
  the two readings of a row differ.
- *Monitor: `Qty` 3, `MaxPerDay` 2, `MaxErrors` 1.* Three units allow two
  partial exits before the last, the smallest number whose fractions round;
  two trades, so that one is booked before an exception in the other.

Symmetry is used only in `stores` and `place_race`, which check no liveness.
Deadlock is not checked where a bounded part may stop: in `stores` (full logs,
end of time), in `trading`, `controls`, `feed_watchdogs`,
`drift_not_real` and `exits_gated` (the last ticker, trip, halt, trade or crash has been used). It is checked in the
others.

### Fairness

- `DaemonStep(d)` is weakly fair: `_run_forever` catches every exception and
  runs the next cycle until the process stops. A stopped process is a crash,
  of which there are at most `MaxCrashes`, followed by a new start.
- `FetchBrokerPositions(d)` is strongly fair: the step is interrupted for ever
  only if the broker's API never answers again, and then nothing can be
  promised. `SnapshotFails` may still happen any number of times.
- `Continue(t)`: a call of `place_order` that has started runs on. Nothing
  makes a thread call it.
- `CallStep(p)` of the run lock: a call of `acquire` or `release` that has
  begun runs on, and a live process without the lock asks for it. The depth
  feed does so at every start; `live_monitoring` returns when it is refused, so
  for it this says that the program is run again.
- `CycleStep` of the risk halt: the trading loop catches the exceptions of a
  cycle and starts the next one. `FinishWrite` and `BeginClear`: a thread that
  has truncated the file, or decided to clear it, goes on.
- `BlockTimePasses` and `Check(u)` of the breaker: time passes, and the feed
  gate and the dashboard look again; both are called in loops.
- `RestartStep(t)`, `TakeRestartLock(t)`, `EndWatchdog(w)` of the feed: a thread
  inside a start or stop runs on, a free lock is given to who waits for it, an
  iteration of a watchdog ends (`EndIteration(w)`), and a watchdog looks at its
  stop event. Nothing makes a watchdog or the cycle ask for a restart.
- `TruthStep`: `_run_loop` catches every exception and runs the next cycle.
- `BeginScan`, `ScanStep`, `NewDay` of the monitor: the trading loop visits the
  symbol again, a scan that has begun goes on, and days end.
- The broker, the market, crashes and calls are not fair: no property relies
  on an order ever filling. No liveness is asked of the router.

### Findings

1. `recon_two_daemons`. `set_filled_quantity` checks no state, so a second
   daemon with an older snapshot overwrites the fill of an order the first has
   just closed, and closed orders are not listed again
   (`core/order_reconciliation_daemon.py:546`). One daemon has the same gap
   when it dies between the move to a closed state and the correction of the
   fill (`:545`): `ReconTwoDaemons.cfg` with one daemon and
   `MaxCrashes = 1` shows it.
2. `place_vs_daemon`. From SENT until the acknowledgement the row has no broker
   id. A cycle of the daemon that lists it in between, before the submission or
   after it, finds no broker entry under the order's own id and rejects it
   (`:496`); the caller submits regardless, hears the acceptance, and its
   acknowledgement raises. The order completes at the broker and stays REJECTED.
   `CompletedOrdersRecorded` is asked of an order whose caller holds the
   acceptance with the id in its hand, so that a lost response, which nobody
   could repair, cannot violate it.
3. `place_retry`. A submission whose response is lost is sent again, with no
   key the broker could deduplicate by: two broker orders for one idempotency
   key, in a function documented as idempotent
   (`core/execution_engine.py:1291`, `:678`).
4. `lock_unlinked`. `release` unlinks after it has unlocked: a process that
   took the lock in between holds a file without a name, and the next one
   creates a new file and holds that (`core/instance_lock.py:101`).
5. `feed_watchdogs`. The watchdog's loop tests the module variable
   `_WATCHDOG_STOP` and not the event of its own start
   (`core/kite_depth_ws.py:3839`), while `stop_depth_ws` (`:3020`) says it stops
   the watchdog. It needs a stop and a start of the feed between two tests of
   the old watchdog: it then comes back to a fresh event and runs on beside its
   successor. The join of the stop is there to prevent that and does not when
   it times out after three seconds (`:3050`): on an iteration with slow database
   or REST work (`:3847`, `:3903`, `:4079`), or on a watchdog that waits for the
   restart lock; nor when the watchdog restarts the feed itself, since a thread
   cannot join itself (`:2727`). And a callback that refuses the session while a
   restart is about to stop the feed sets `_WATCHDOG_THREAD` to None: the restart
   joins nobody, and its start does not look at the latch.
6. `exits_gated`. The entry gates of a symbol end its work with `continue`
   (hard halt at `core/orchestrator.py:4509`, trades per day at `:4518`) before
   "Check exits for any open trades on this symbol/instrument" (`:4546`,
   `:4560`): after the last entry of the day nobody watches the stops of the
   open trades until the next day.
7. `drift_not_real`. At a broker without `open_orders` the list of open orders
   is that of all orders (`core/broker_truth_reconciler.py:179`), and no status
   is looked at (`:271`). Once an order has filled and is logged, every cycle of
   the rest of the day reports OPEN_ORDER_EXTRA_IN_BROKER (`:356`) and halts
   entries, although positions, fills and open orders agree.

What remains true in the presence of the first two is what `recon`
checks: the outcome recorded is never a wrong one for an order the daemon has
matched, and the fill is never above the broker's.

## 4. Proofs

All proofs are hierarchical, one step per action. They hold for every value of
the constants that satisfies the named assumptions.

**Stores_proofs**, for what a restart finds on the disk.

- *Order store*, assumptions `OrderStatesAssumption` (the two "no value"
  constants are not values) and `OrderStoreAssumption`. `StoreInvariant`
  proves the conjunction of the types (`StoreTypes` on their own), the
  blankness of absent rows, unique keys and the audit trail. The blankness of
  absent rows is what makes the conjunction inductive: without it a freshly
  created row could share a key with a row that does not exist.
  `StoreKeysUnique` and `StoreAuditTrail` follow from it, and
  `StoreImplementsLifecycle` maps each of the three writers to `Appear`,
  `Advance` or, for fills, a stutter. The audit trail holds for logs of any
  length; TLC sees three events.
- *Approvals*, assumption `ApprovalAssumption`. `UsesArePaidFor` needs the
  strengthening `Funded`: an approval that is APPROVED has a credit of one,
  and no credit is ever negative. `ArmingEndsInTime` is inductive with the
  types. `UsedStaysUsed` is an action property, proved action by action from
  the types. They cover any number of concurrent operators and callers and any
  durations.
- *Session lock*, assumption `LockAssumption`. `LockTypeInvariant`;
  `RefusalNeedsHolder` (from the invariant that the holder of a lock is past its
  `flock` and has that file open); `NamedFileHasOneHolder` (from the converse: a
  running session holds the lock of the file it has open).
  `KilledSessionsExclude` proves `MutualExclusion` for any number of processes
  under the extra hypothesis `Releasers = {}`: as long as nobody runs `release`,
  the path, once created, names one file for ever and every descriptor is open
  on it. This pins finding 4 down: the unlink of `release` is the only step that
  breaks the lock.

**OrderReconciler_proofs.** Assumptions `OrderStatesAssumption` and
`OrderReconcilerAssumption`; of the latter's parts, that every order left behind
was created under a key of its own is what `OrderStore` proves as
`StoreKeysUnique`. The types (`ReconTypes`) need to know what is in a
daemon's hand between the transactions of one repair (`EntryInHand`,
`ListingInCycle`) and that the broker closes an order when the last of its lot
fills (`OpenHasRest`). `ReconFollowsLifecycle` (`StepsFollowLifecycle`) follows
from them: whatever a daemon writes, however stale its listing, the guard
`CanMove` looks at the current row. `ReconFillNeverInvented` and
`ReconTerminalAgrees` need `ReconInv`. A row may have got its broker id from a
match by key, a listing may still lack it, and a snapshot is older than the
book; so the invariant names the one entry an order belongs to (`Home`), says
that every copy of its row leads there (`RowsAtHome`, `ListedAtHome`) and that
no snapshot is ahead of the book, its closed entries being final
(`SnapsBehind`). Both properties are then about the row and its `Home`
(`FillsFromHome`, `EndsFromHome`). Any number of daemons, orders and crashes,
any lot.

`ReconClosedHaveFill` is the safety half of `ClosedOrdersRepaired`, which
finding 1 refutes: if there is one daemon at most and it never crashes, a row
that is closed has the broker's fill, or the daemon is between the move and the
correction of the fill (`ClosedHaveFill`). What makes it work is that a row
which a lone daemon has listed and not yet handled is still open
(`OpenUntilHandled`), and that the correction follows the move to the very
state its snapshot asks for (`InHandAtTarget`). TLC refutes it as soon as either
hypothesis goes, so a second daemon and a crash in the middle of a repair are
the two ways to a closed row with an old fill, and there is no third.

**OrderPlacement_proofs.** The assumptions above and `OrderPlacementAssumption`;
no broker id is an order id, because an order id is `ord_` and a digest.
`PlaceInv` has a part for each thread (`ThreadOK`: by stage, how many
submissions its order has seen, against its count of attempts), a part for each
order that outlives the thread (`OrderOK`), and `OneInside`: the thread that
inserted the row is the only one past that point, for ever, because a row never
disappears. `ListedBelong` carries the broker ids through daemons with old
listings. From it: `PlaceSubmissionsBounded`, `PlaceAcknowledgedWasPlaced`,
`PlaceBrokerIdBelongs`, `PlaceIntentIsBacked`, `PlaceTypes`, and
`PlaceImplementsLifecycle`: `CreateOrGet` maps to `Appear(o, o)`, every move by
a thread or a daemon to `Advance`, the rest to stutters. TLC does not check
this refinement with the daemons' listings; the proof does. Any number of
threads, orders, attempts and crashes.

`PlaceFillNeverInvented` carries `FillNeverInvented` from daemons alone to
daemons beside callers. Here a row gets its broker id at any time, from the
caller or from a match, while listings and snapshots of before are in use.
`FillInv` says that a row without an id has no fill and a caller on its way to
the acknowledgement has such a row (`Unlinked`), that a row with an id is not
ahead of its entry (`FilledAtBroker`), that a listing which has an id has the
row's (`ListedAtBroker`), that no snapshot is ahead of the book
(`SnapsNotAhead`), and that an id nobody was given has no entry
(`UnissuedUnlisted`). From the same invariant, `PlaceBrokerIdKept`: the id of a
row is written at most once, although `transition` overwrites it whenever it is
given one.

Two theorems say how far two of the findings go. `PlaceIdempotentOnce`: with
`MaxAttempts = 1` the documented idempotence holds (`IdempotentPlacement`), for
any threads, daemons and restarts, so the retry is the only cause of finding 3.
`PlaceEndsAsAtBroker`: a row that is FILLED, CANCELLED or EXPIRED has the
broker's own end of its order, in every race; of all the ends only REJECTED can
be wrong, which is finding 2.

`PlaceOneAcknowledged` is about `RaceSpec` of `MCPlaceRace`, where only some of
the threads call: with finitely many threads and without daemons, one caller
that was not interrupted by a restart gets a signal acknowledged under one
timestamp at most (`OneAcknowledgedPerSignal`), for any number of orders,
signals and failures. The invariant (`AcknowledgedAreClosed`) says that an
acknowledged order whose signal is still open is the one its thread is about to
mark, and that no call is under way on a signal that has one. Daemons are
excluded because one may acknowledge, from a match by key, an order whose call
gave up.

**OrderRouting_proofs.** Assumptions `OrderStatesAssumption` and
`OrderReconcilerAssumption`; the routing module adds none of its own. The
router's orders are simulated, so the broker's book stays empty
(`BrokerUnaware`) and the only write a daemon can do is a rejection
(`DaemonRejects`). `RoutingInv` says for each order what the row, the approval
and the fill log can be at each stage of the route (`InHand`) and after each
outcome (`Rested`): where a call raised or was lost, that the order is unfilled
and in flight or rejected, and acknowledged only with its approval spent
(`LeftInFlight`). `RoutingReportsAgree` and `RoutingNeedsApproval` follow, and
`RoutingImplementsLifecycle` with the help of `OwnKeys`, that the row of an
order carries its own key.

**Controls_proofs**, for the controls that stop a session or a connection.

- *Run lock*, assumption `RunLockAssumption`. `RunLockTypes`, and
  `RunLockExcludes`: at most one live process holds the lock as long as `calm`
  holds. The strengthening `CalmInv` says what the file and the temporary file
  contain at each point of a calm call, in particular that the claim of a live
  holder stands in the file. Any number of processes and pids.
- *Risk halt*, assumption `RiskHaltAssumption`. `HaltTypes`, `HaltPersists`
  (`HaltStands`) and `HaltClearsItsReason` (`ClearsOnlyItsReason`). The file is
  rewritten in place, so it says nothing while it is being written: `HaltInv`
  follows the write. While nothing is spoiled one thread at most writes, and a
  clear that is being written wipes out everything that is owed (`OneWriter`);
  when it is finished the file tells whether something is owed
  (`FileTellsOwed`). For a thread that has read the file and is about to clear,
  the invariant says what it may have read (`LoadedItsReason`), that it still
  stands unless somebody wrote since (`LoadedStands`), and that the reasons owed
  are the one in the file and the ones it hides (`RestHidden`). Any threads and
  reasons, any streak.
- *Breaker*, assumption `BreakerAssumption`. `BreakerTypes`, and
  `BreakerKeepsTrips`: a standing trip is ended only by the clear of a check
  that had read it, or by a save that overlaps another. It needs `BreakerInv`,
  whose parts say that every trip that anybody holds in hand was counted
  (`Counted`) and that what a user has loaded is still the current state unless
  somebody has saved meanwhile (`LoadedIsCurrent`). Any number of users and
  trips.
- *Feed*, assumption `FeedAssumption`. `FeedTypes`, which says that
  `_RESTART_LOCK` is held exactly by a restart past its limits.
  `FeedRestartsBounded` needs the account of the restart under way, which has
  stopped the feed but is not counted yet (`RestartsAccounted`): a restart is
  let through only below the limit and is counted under the same lock.
  `FeedIsWatched` needs `UpIsWatched`: the event is set only by a stop, which
  takes the ticker down under the same lock, so a watchdog that finds it set
  leaves nothing unwatched. `FeedNoOrphan` and `FeedRefusalIsFinal` need what
  holds as long as no stop has overtaken a start (`InTurn`): one thread starts
  at a time, the ticker it has created is the one the module names, and no start
  is past its beginning while the latch is set. A refused feed at rest is then a
  state no step leaves (`ShutDownStays`). `FeedOneWatchdog` proves `OneWatchdog`
  under two hypotheses: every join comes back because the watchdog has ended
  (`[][JoinsInTime]_feedVars`), and the session is not refused. Then the watchdog
  that was named is waited for and the start that follows finds none
  (`WatchdogsInTurn`), whatever the watchdogs do in their iterations. This pins
  finding 5 down: a second watchdog needs a join that is given up, or a
  refusal; without either hypothesis TLC finds one. Any number of tickers, any
  limits.

**Trading_proofs**, for what follows a fill.

- *Broker truth*, assumption `TruthAssumption`. `TruthKeepsTypes`,
  `TruthJudgesOneMoment` (`JudgesOneMoment`) and `TruthFlattens`
  (`FlattenNeverReverses`). `TruthInv` says which readings of the cycle still
  stand: all of them while nothing was disturbed (`ReadingsStand`), and that of
  a symbol's position from the reading to the flattening unless the symbol is
  excused (`PositionRead`, which also says that no order waits for it); an order
  that waits is then alone for its symbol and closes the position, or gives a
  closed one back what was carried (`FlatsClose`). Any symbols, orders,
  strangers, failures and carried quantities, either kind of broker.
- *Monitor*, assumption `MonitorAssumption`. `MonitorKeepsTypes`,
  `MonitorBooksOnce` (`BookedOnce`) and `MonitorEngineFollows`
  (`EngineFollowsTrade`). `MonitorInv` keeps the account of an open trade (its
  legs and its remainder are its size, `OpenAccount`) and knows in the middle of
  a scan which trades are still open: the new list holds trades already visited,
  each once (`KeptInOrder`). That turning the units of an exit into a fraction
  of the position and rounding back loses nothing is the lemma `RoundsBack`, for
  every size; TLC sees three units. Any trades and size.

**MCTrading_proofs, MCControls_proofs**, for the compositions that the runs
check. While one part runs the variables of the others stand still, so every
step of the composition is a step or a stutter of each part (`EachPartSteps`,
`EachControlSteps`) and the invariants of the parts hold together
(`TradingInvariant`, `ControlsInvariant`). `TradingTypes` and `ControlsTypes`
are `TradingTypeOK` and `ControlsTypeOK` of the runs, under the assumptions of
all their parts. The parts share no state in these models, so this says nothing
of one part disturbing another; it ties what the runs check to what is proved.

Each strengthened invariant was run through TLC on the bounds of its run before
it was proved.

Only model-checked:

- liveness (`ClosedOrdersRepairedAlone`, `NoOrderStuckInFlight`, `DriftHaltsAgain`,
  `OverdueIsClosed`, `SurvivorAcquires`, `SloHaltLifts`, `BlockEnds`,
  `RestartEnds`) and anything that depends on `ENABLED`, which are out of reach
  of the proof system.

Every other property of a passing run is the statement of a theorem.

No module uses recursion, so nothing is lost to induction over data.

## 5. What the models leave out

Whole components:

- *Signals, strategies, scoring, analytics, learning, research* (most of the
  repository's lines): functions from data to data, without state that two
  actors share. What can be wrong in them is numeric and is better tested.
- *Dashboard and API*: presentation; where they write (the breaker, approvals)
  they appear as callers.
- *Paper trading*: pure reducers over a journal with one writer.
- *Agent task system*: a tool for developers, driven by one command line.
- `core/circuit_breaker.py`: an error window in the memory of one thread.
- `core/trade_state_machine.py`: a pure table; its tests enumerate it.
- *Startup recovery and runtime lifecycle*: run before and after everything
  else, in one thread.
- *Orchestrator*: what the modelled parts do not contain of its cycle passes
  data from one pure function to the next.
- *Depth feed*: token selection, rebalancing, soft resubscription, parsing and
  storage of ticks.

In the modelled components:

- Payload: amounts of money, instruments, sides, prices, timestamps of rows, reasons, log files,
  and the triggers that mirror `order_states` into `orders`.
- The bounded listing: `list_orders` returns at most the 2000 rows updated
  last. The models list every live order.
- The day's end: the broker's book forgets orders overnight.
- A broker that lists an order later than it accepts it.
- The limits of the pre-trade engine other than the duplicate signal: any of
  them is a possible refusal.
- The older `approvals` table of `core/approval_store.py`, and the regime and
  survival conditions of the execution guard.
- Failure of a store transaction other than by an illegal transition (a locked
  database). In the router it is one of the exceptions of `ExecuteFails`. In
  `place_order` and in the daemon it ends the call, or the cycle, as a crash of
  that thread would; in the other components it is not modelled, except where an
  approval call gives up.
- An exception that leaves the loop of a watchdog of the feed and ends its
  thread: the restart and the refresh of subscriptions catch their own, the rest
  of an iteration is taken to.
- The directory that `RunLock` falls back to after a `PermissionError`.
- The payload that the session lock's `acquire` writes into its file, which is only shown to
  a refused process.

## 6. Plan

Done, in this order: `OrderStates`, `OrderLifecycle`, `OrderStore` and its
proofs; `OrderReconciler`; `OrderPlacement`; `ApprovalStore` and its proofs;
`InstanceLock` and its proofs; `OrderRouting`; `BrokerTruth`; `RiskHalt`;
`FeedBreaker` and its proofs; `RunLock` and its proofs; `DepthFeed`;
`TradeMonitor`; the proofs about `OrderReconciler`, `OrderPlacement`,
`OrderRouting`, `RiskHalt`, `DepthFeed`, `BrokerTruth` and `TradeMonitor`; the
proofs that bound findings 1, 2 and 3; the proofs about the compositions. No
safety property of the runs is left without a proof.

Next, extending the model:

1. `OrderReconciler`: the listing of 2000 rows and the book of the day.
2. `RunLock`: `reap_stale_runtime_locks` of startup recovery.
3. `TradeMonitor`: the amounts of capital and result, as quantities.
