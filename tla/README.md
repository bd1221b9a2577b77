# Verification of the trading engine

TLA+ models, model-checking runs and machine-checked proofs about the platform
in this repository: the order lifecycle and the LIVE loop that drives it against a
broker, the hard stop, the decisions of one cycle, what the service learns and
which model it trusts, its audit trail, and the services around it, through
crashes, failing stores, lost answers and operators.

Paths below are relative to `src/`.

## 1. The system

| Component | Code | State it keeps | Operations | What makes it correct |
|---|---|---|---|---|
| Order lifecycle | `execution/order_lifecycle.py` | a dictionary of order records: status, approved and filled quantity, seen fill ids, broker id | create, transition, record_fill, reconcile_broker_fill, resync, prune, snapshot, restore | fills counted once, finished orders stay finished, open orders are never forgotten |
| Order manager | `execution/order_manager.py`, `broker_adapter.py` | an outbox of discovered fills | place, reconcile_open_orders | every broker answer leads to a status that says what is known |
| Engine, STEP 11 and 12 | `core/engine/engine.py`, `execution/execution_engine.py` | the lifecycle, the submit gate | plan deltas against held plus in-flight, slice, block, submit, prune, achieved book | no stacking, no overtrading |
| Decision engine, STEP 1 to 10 | `core/engine/engine.py`, `core/crisis_manager.py`, `core/meta_labeler.py`, `core/risk_manager.py`, `data/feature_store.py` | none between cycles | validate, assess, score, admit, size, gate | what is traded is approved, within the budget, and backed by something validated |
| Portfolio optimiser | `core/engine/optimizer.py` | none | mix views, solve, cap, ramp, limit the tail | the envelope the market calls for |
| Run loop | `ops/run_loop.py` | held book, reconciliation items, resync flag, kill latch, peak NAV; `loop_state.json` | run_once, resync, resolve_reconciliation, restore, persist, reset_kill_switch | a restart neither loses nor repeats anything that happened at the broker |
| Kill latch, drawdown governor | `ops/run_loop.py`, `core/risk_manager.py` | latch, peak NAV, last drawdown | measure, engage, reset | a hard stop survives restarts and clears only on a reset |
| Brokers | `broker/alpaca.py`, `ibkr.py`, `paper.py` | the session, the last submit's ids | connect, submit, open_orders, account_state | failures are told apart from answers |
| Ledger | `ops/ledger.py` | hash-chained events, `ledger.jsonl` | append, correct, verify, replay | append-only, the file is the memory, replay gives the book |
| Broker reconciliation | `ops/reconciliation.py` | none | compare positions and cash | every break is real, every real one is seen |
| Learning state | `learning/performance_tracker.py`, `core/ml_return_model.py`, `ops/persistence.py` | predictions, prices, outcomes; the training buffer and the fitted learners | record, evaluate, prune, predict, refit, save, restore | an outcome is learned once, an answer is of one fit |
| Model governance | `ops/model_registry.py`, `ops/state_store.py` | models, flags, the live pointer, a rollback stack | register, promote, rollback, save, restore | one live model, validated; retries are safe |
| Regime detection | `core/regime_engine.py` | scaler, HMM, state map, a cycle counter | fit, detect | an answer is of one fit |
| API security | `ops/api_security.py` | hits of a bounded map of callers, counts of repeated alerts | check, filter | no alert is lost from the counts, nobody is charged for another |
| API routes | `ops/api.py` | a limiter per bucket | throttle, authenticate, gate by mode, call the service | what runs was asked for by whoever may, and alone |
| Secrets vault | `core/vault.py` | the ciphertext and its metadata, their backups | create, open, set, delete, rotate | one passphrase the operator knows opens it |
| Walk-forward validation | `research/validation.py` | none | split, purge, embargo | no training label touches a test bar |
| Backtester | `backtesting/harness.py` | book, equity and peak of a run | replay cycles over rebalance dates, reset the engine | no decision depends on the future or on the run before |
| Strategies, data, NLP, analytics, monitoring | `strategies/`, `data/`, `nlp/`, `execution/tca.py`, `ops/monitoring.py` | caches | numerical, or output | numerical |
| Research, scripts | `research/`, `scripts/` | none | offline studies | not part of the service |

How they interact. `run_forever` calls `EngineService.run_once` on a cadence; an
API thread may call `try_run_once`, `resolve_reconciliation` and
`reset_kill_switch`. One reentrant lock serialises them. A cycle reads the
broker's orders (`_maybe_resync`), sets the engine's submit gate, pulls prices,
runs the engine (which calls `OrderManager.place` for each slice, which calls the
broker), moves the held book, saves the learning state, writes the ledger, and
only then writes `loop_state.json`. Every one of these effects can fail or be the
last before the process dies, and the broker fills and closes orders the whole
time. That order of effects is where the hard behaviour lives, and it is what
`LiveTrading` keeps step by step.

## 2. The modules

    OrderContract   <--refined by--  OrderLifecycle  --EXTENDS-->  OrderRecord
                                                                      ^
    LiveBroker      <----EXTENDS----  LiveTrading  ----EXTENDS--------+

    Halt            <--refined by--  HardStop  ----EXTENDS-->  RiskGate
                                                                  ^
    MarketState, Admission, Optimizer  <--EXTENDS--  DecisionCycle

    Learning  --EXTENDS-->  OutcomeTracker, ReturnModel
    Governance  --EXTENDS-->  ModelRegistry
    ApiGuard, ControlApi  --EXTENDS-->  RateLimiter
    AuditTrail, RegimeFit, WalkForward, Backtest, Vault

    OrderLifecycleProofs, LiveTradingProofs, HardStopProofs, DecisionCycleProofs,
    LearningProofs: each EXTENDS the module it is named for;
    LivePositionProofs  --EXTENDS-->  LiveTradingProofs
    ServicesProofs  --EXTENDS-->  Governance, AuditTrail, RegimeFit, WalkForward,
                                  ApiGuard, ControlApi, Vault, Backtest
    SumLemmas: sums over finite sets, used by all of them but the order and the
    hard-stop proofs
    MCLiveTrading, MCHardStop, MCDecisionCycle, MCLearning, MCVault: values of the
    constants for TLC;  MCEngine: OrderLifecycle and DecisionCycle side by side;
    MCServices: the services side by side

### Orders and the LIVE loop

**OrderRecord** is one order: the status graph (`_ALLOWED`) and what each method
does to a record, as pure operators (`WithFill` is `record_fill`,
`ResyncStatus` is what `resync` does to one status, `Restored` is `to_json`
followed by `from_json`). Both state machines are built from these operators, so
what is proved of a record in one holds of the same operator in the other.

**OrderLifecycle** is the class: a function from tracked ids to records and one action per
method, called in any legal order. `OrderManager.reconcile_open_orders` is one action over
all the tracked orders (`ReconcileOpenOrders`): an entry of the broker's list may carry the
broker's own id, which `_map_broker_open_orders` writes onto the record, a filled quantity,
and a status, which `resync` then applies. The history variable `heard` is what the broker
ever reported about an order (its fills, its quantity, its id, and whether any status said
that it had the order at work); it exists to state that the book-keeping agrees with it.
`AlwaysNamed` says whether the broker's entries always carry its id. Those of both adapters
do; the method also takes entries without one and plain maps of statuses.

**OrderContract** is what the engine relies on: an order is unknown, open or done;
open orders are never forgotten, done orders never reopen, the size is fixed, the
filled quantity only grows up to it. `OrderLifecycle` implements it under the
mapping `phase`, `approvedQty`, `filledQty`.

**LiveBroker** is the broker as the adapters show it: orders it was sent, fills
and closes at any time, a session that drops, and what `open_orders` returns. An answer
(`Reported`) has every resting order and, where `ListsClosed`, any of the closed ones:
Alpaca's adapter asks for those of the last day, at most a hundred, in a query of its own
that may fail (`alpaca.py:266-272`), so each of them may be missing from each read;
IBKR's asks for none (`ibkr.py:250`). What can go wrong is the constant `Faults`; each
fault names the place in the code that makes it possible:

| Fault | In the code |
|---|---|
| `disconnect`, `unsent` | the session drops; after `OrderManager` probed it, `submit` returns `[]` (`alpaca.py:131`, `ibkr.py:157`) |
| `timeout`, `refused` | `submit` raises although the order was taken, or because it was not (`order_manager.py:101`) |
| `raised`, `swallowed` | `open_orders` raises (no adapter in `broker/` does on a failed query); fails and returns `[]`, as both adapters do (`alpaca.py:272`, `ibkr.py:262`) |
| `pieces` | a resting order fills in several pieces |
| `price`, `state_store`, `ledger`, `disk` | the price provider, `state_store.save`, a ledger append or the write of `loop_state.json` raises |
| `reject` | the operator rejects a fill that did happen |

**LiveTrading** is the loop. The lock makes it one thread with a program counter:

| `pc` | The thread is | Actions that leave it |
|---|---|---|
| `idle` | between cycles, the lock is free | `SkipResync`, `Resync`, `Accept`, `AcceptUnaudited`, `Reject` |
| `synced` | after `_maybe_resync` | `PriceFails`, `PlanNothing`, `Plan` |
| `submitting` | in STEP 12's loop | `PlaceDisconnected`, `PlaceUnsent`, `PlaceRaises`, `PlaceAccepted`, `FinishOrders` |
| `ran` | after `run_cycle`, the book has moved | `StateStoreFails`, `RecordCycle` |
| `recorded` | after `record_cycle` | `Persist` |
| `resolving` | an ACCEPT, after its ledger append | `FinishAccept` |
| `down` | dead | `Start`, `StartRefused` |

`Crash` leaves any point of `CrashPoints`; broker actions interleave everywhere.
The state follows the code's: `orders` (the engine's lifecycle), `booked`
(`current_book`), `items` (`open_reconciliations`), `needsResync`,
`wasConnected`, `todo` and `fills` (STEP 12's locals), `disk` (`loop_state.json`),
`ledger` (`ledger.jsonl`) and `journal` (what `_events` holds beyond it). `append`
adds to `_events` first and writes second, so a write that raises leaves an event
that only the memory has; the next event that is written follows a gap in the
sequence, and a file with a gap stops the next start.

What is abstracted, and why it is harmless for the properties:

- The price is constant, one unit of capital per share. Weights become share
  counts, so the dust threshold and valuation drift are out of the model; every
  property is about which fills are counted, not what they are worth.
- `current_book` is kept per order (`booked`), so that the book of a symbol is the
  signed sum the code keeps (`Held`). The finer state lets a property say which
  fill is missing or counted twice.
- Quantities are whole shares; a delta whose slices would be fractional is not
  planned in that cycle.
- The executions returned by one submit are one fill of their total. Their
  deduplication and clamping are `record_fill`'s, checked in `OrderLifecycle`;
  the broker of `LiveBroker` does not overfill.
- Cancelled, expired and rejected after the ack are one way to close
  (`CANCELLED`): resync and everything after it treats them alike.
- Positions are long only (targets from 0 to `MaxTarget`), both sides are traded.
- A graceful `stop` writes what the last persist wrote, so a crash at `idle`
  covers it. An ACCEPT refused for its price changes nothing, so it is not a step.
- A ledger write that raises has written nothing (not half a line, and not a
  line whose fsync failed). The audit notes of one resync are one append.
  Commissions and cash are events nothing here depends on.
- A restart finds `loop_state.json` readable, and the connection comes up.
  `Reconnects` is external: nothing in the loop reopens a session by itself.

### The hard stop

**RiskGate** has the drawdown of a NAV against its peak as an exact fraction, the
levels of the governor, the kill-switch battery and the verdict of STEP 10, as
operators. `HardStop` and `DecisionCycle` share them.

**Halt** is what the platform promises about a hard stop: while it lasts nothing is
traded, and only a reset ends it. **HardStop** is `EngineService` around one
decision cycle, with the order of effects of `_run_once_impl`:

| `pc` | What happens next | Actions |
|---|---|---|
| `idle` | the lock is free | `StartCycle`, `ResetNothing`, `ResetLatch` |
| `measure` | prices, then the NAV and the peak | `PricesFail`, `MeasureDrawdown` |
| `decide` | STEP 10 and the orders | `RunEngine` |
| `save` | the learning state | `SaveLearningState` |
| `record`, `reconcile` | ledger, broker account | `RecordCycle`, `Reconcile` |
| `engage`, `persist` | the latch, then `loop_state.json` | `EngageLatch`, `PersistCycle` |
| `resetting` | a reset, after its ledger line | `PersistReset` |
| `down`, `refused` | the process is gone; the ledger did not load | `Restart`, `RestartRefused` |

`AskReset` is the operator who waits for the lock, `Crash` loses the memory and may
tear the line being written, and `Interrupt` is the Ctrl-C of `main`, whose
`finally` persists whatever is in memory in the middle of a cycle. Of the orders of
a cycle only whether there are any is kept (`submitted`). `stop` is history: a hard
stop is first found by STEP 10 and becomes durable with the write that holds the
latch. The proofs and `Halt` are about the durable stop;
`NoAutomaticReenable` is about the one that was only found.

### The decisions of a cycle

**DecisionCycle** is `_run_cycle` as a pipeline with one action per group of steps:

| `pc` | Action | Steps |
|---|---|---|
| `ingest` | `IngestAndValidate` | 1: a contract that does not validate blocks LIVE |
| `market` | `BuildMarketState` | 2: regime, crisis, execution regime, and what a failure of each means |
| `signals` | `ScoreSignals` | 4, 5: sleeves weighted by their validation, order-flow filter |
| `admit` | `Admit` | 6 to 8: features, prediction, meta-labeller |
| `optimise` | `Optimise` | 9: admitted names, baseline or cash; the optimiser; conviction |
| `gate` | `PretradeRiskGate` | 10: hard limits, kill triggers, drawdown |
| `execute` | `ExecuteNothing`, `ExecutePaper`, `ExecuteLive` | 11, 12: deltas, slices, fills, achieved book |

**MarketState** (crisis detectors, severity, scalars, execution regime),
**Admission** (sleeve weights, the feature store, trade and size rules) and
**Optimizer** (cap and its relaxation, dust, volatility target, leverage ramp, CVaR
limit) hold what each step computes. Weights are whole basis points of capital,
percentages and scores whole numbers, rounded down; thresholds are the code's. The
solver is left open: any feasible book of a grid, or equal weights. Each step's
`_safe` default is a choice the model always has. What the numerical parts return (a
prediction, a tail, a volatility, a cost) is chosen from small sets. The held book
is drawn at STEP 9, where it is first read, so that the steps before it are explored
once. A cycle is explored from each held book; a chain of cycles carries `achieved`
as the next `held`, and no property needs two. Contract sizes and kill contexts are
inputs: the gate's reading of them is modelled, although `build_cycle_inputs`
(`ops/run_loop.py`) supplies neither, which is why `HardStop` has no kill trigger.

### Learning and model governance

**OutcomeTracker** and **ReturnModel** are operators over the tracker and the model
of one symbol: predictions, recorded bars and the outcomes of each horizon;
retention, dump and restore; the training buffer, the drift monitor, and a fit as
the parts it replaces, each carrying the number of the fit it comes from.
**Learning** is STEP 7 (`AnchorPrior`, `PredictStep`, `NoRefit`, `SpawnRefit`), STEP
13 (`PostTradeLearning`), the save (`SaveTracker`), `CrashRestart`, and the thread
that refits in LIVE without the lock: `CheckSize`, three passes over the buffer
(`ReadRows`), and the replacement of the parts one after the other. Outside of
LIVE the same fit runs inside STEP 7 (`RefitNow`). A price is the time of its bar, a
feature row is good, absent, or one the learners refuse.

**ModelRegistry** is register, promote and rollback over a registry record;
**Governance** says who calls them and when it lasts: operators, the save that ends a
cycle, the JSON file or the SQL tables, the death of the process, and the start that
restores.

### Audit trail, guards, vault, validation

**AuditTrail** is the ledger in two steps, as the code has them: `ChainEvent` puts an
event with its number and its predecessor's hash in memory, `PersistEvent` writes the line
or raises. Two threads append, the cycle and an operator's request, under the service lock.
A hash is the sequence of events it commits to. `BeginCycle` and `EndCycle` bracket
`record_cycle` and the reconciliation of shares and cash against a broker with fills
and commissions the trail may lack. A line cut exactly before its newline, fees and
corrections, the NAV leg (no caller passes it), and the halted cycle, which records
nothing, are left out.

**RateLimiter** is the sliding window of a bucket with its bounded map of callers, as
operators on a record; `Within` is the loop that pops the expired hits off the front of a
deque. **ApiGuard** is one such limiter and the aggregator of repeated
alerts; the eviction of alert kinds beyond 64 is left out. **ControlApi** is a request on
its way through `create_app`: `Receive` (throttle, 429), `Admit` (bearer 401, mode gate
403), `TriggerRefused` (409) or `EnterService` and `LeaveService`, beside the scheduled
loop that takes the same lock (`LoopEnters`, `LoopLeaves`). Of the endpoints a read,
one that gives up on a busy lock and one that waits for it stand for all; addresses
behind a proxy, serialisation and the security log are left out.

**RegimeFit** is the HMM's refits, with the scaler, the model and the state map each
named by its fit. **WalkForward** is the loop of the purged, embargoed splitter.
**Vault** is the commands on the two files that only open together, write by write,
with the roll back of an interrupted rotation; a key is a passphrase with a salt, a
ciphertext opens with the pair that made it.
**Backtest** is `Backtester.run`, twice in one process on two price frames. The engine
is any function of what a cycle is given and of what its singletons remember: what it
answers to a view is drawn when the view first occurs and kept (`answers`), so a
difference between two runs can only come from what the harness shows it, carries from
bar to bar (`account`) or fails to reset (`singletons`). The bars a run decides on are
the last of each period, without the ones inside the warm-up, and the partial last period
ends with the frame (`RebalanceDates`).

## 3. The runs

`tlc -config <cfg> <module>` in this directory; each finishes within five minutes.

| Run | cfg | What it shows |
|---|---|---|
| `engine` | `Engine.cfg` | any legal order of calls on two orders, with a broker that names its orders: types, fill accounting, safe resubmission, the refinement of `OrderContract`, and the invariant the proofs use; and one decision cycle, whatever falls back on the way: risk budget, approval, backing of a purchase, direction of a trade, explained breaches |
| `live_faults` | `LiveFaults.cfg` | crashes between any two effects, failing stores, every way a submit or a read can mislead: no stacking, no fill lost between resync, book and operator, the book never ahead of the broker |
| `live_whole` | `LiveWhole.cfg` | misleading submits and reads, sliced orders that fill in one piece, crashes between cycles or between the two effects of an ACCEPT: resting orders stay tracked, the real position stays in the target range, between cycles the durable ledger is between the book and the broker |
| `live_progress` | `LiveProgress.cfg` | a confirmed order the broker no longer rests eventually stops freezing its symbol, although submits and reads fail, if the adapter lists closed orders for a while; with an operator who rejects, every fill stays accounted for |
| `hard_stop` | `HardStop.cfg` | a durable hard stop ends only with a reset, the audit trail tells of it, the peak is never lowered, and an operator who asks is served |
| `services` | `Services.cfg` | model governance, the two-threaded audit trail and its reconciliation, throttling and alerts, the control API, regime refits, walk-forward splits, backtests, the learning loop, the vault |

The bounds.

*Orders.* Two orders and two fills are enough in `engine` for every interaction its actions
have: pruning compares two orders, everything else acts on one, and two fills of 1 and 2
against an approved 2 give a partial fill, an exact fill, an overfill and every redelivery.
The live runs have one symbol (`live_gate` has two) because symbols meet only in the resync
gate and in the lock (each guard of STEP 12 is per symbol), two planning cycles because
stacking, overtrading and a restart followed by a new plan each need an earlier order and a
later one, and targets of up to two shares because a partial fill and a two-piece fill need
two. `MaxAsof` bounds only the cycles that place orders; empty cycles, resyncs, crashes and
restarts go on for ever, and so do appends. `live_whole` has two slices, so that two orders
of one symbol are in flight together. `MaxTerminal` is 0: pruning happens at once, the most
it can do.

*Hard stop.* Three cycles and two resets: a stop, a reset, another stop, and a
cycle that must not trade. The NAVs are on both sides of the KILL level against a peak
that a later NAV and the starting capital can raise. Every fault is in the run but
the unreadable `loop_state.json`, after which the code starts without a latch by
choice.

*Decisions.* The leverage ramp is off, as the platform ships (`core/config.py:156`), or on
with the step of 25 percent its comment names (`LeverUpSteps`). Three symbols, one held book
of each kind (none, one name, over-levered), limits scaled so that each rule has books on
both sides of it (one name is too few for the cap of 50 percent, and three are for the
crisis cap of 25), market readings from calm to a full crisis, both sleeves, all three
modes. Orders and decisions share no variable either: with both, `engine` has about 675,000
states.

*Services.* The services share no variable, so a behaviour runs one of them (its `scene`)
and the run is the sum of their state spaces, about 1.7 million states. Governance: three
models of which two pass validation and a stack of three, so that a rollback has one to
return to and one beyond it. Audit: three fills of two symbols (buy, sell, one that comes
with its commission), one write that raises, no new cycle after five events. Guard: three
callers for a map of two, a clock of twice the windows. API: three clients, of which one
shares the operator's address, three requests, one or two allowed per window of two ticks.
Backtest: frames of three or five bars in two-bar periods, so that the last period of a
frame is a partial one, two prices, four ways a cycle may end. Regime: eight calls, a refit
every second one. Study: every splitter with sizes up to three on up to eight bars.
Learning: two horizons, four days, a buffer of two rows (its cap is reached), two fits, one
crash. Vault: two passphrases, two values, three salts, one interruption.

Which faults a run leaves out, and why. They are those under which its properties
are not true of the code. Each of the following was found with the model, as a
counterexample; where a run keeps it, the run is named:

- A crash between STEP 12 and the persist forgets an order (`live_forgets`), and a
  store that fails after the book moved leaves the ledger behind it. `live_whole`
  leaves out both. Its crashes are those at `idle` and at `resolving`; what
  `LedgerIsBetween` says of the other points, and of a `loop_state.json` that cannot be
  written, is proved (section 4).
- Accepting the first of two items of one order frees its symbol while the second is
  unbooked, and sizing is then wrong: `live_whole` leaves out `pieces`, and
  `NeverOvertrades` is about orders that fill in one piece only.
- That nothing is sent before the broker's order book was read (`SubmitsAfterTruth`) holds
  only of an adapter that raises when a query fails, and neither does: it is
  checked by `live_gate` alone, with `swallowed`, and violated. `NoStacking`,
  `BookIsReal`, `RestingIsTracked` and `NeverOvertrades` hold with `swallowed`.
- An order never sent or never taken freezes its symbol for ever. So does one that closed
  while the adapter lists resting orders only (IBKR's), with no fault at all, although
  `execution/order_lifecycle.py:325` leaves a WORKING order resting "so it stays
  resync-recoverable" and `broker/alpaca.py:249` calls the query of closed orders
  essential for this. What holds (`ConfirmedOrdersLeave`, `live_progress`) is
  about orders the broker has confirmed or whose fill waits for the operator
  (`Recoverable`) and an adapter that lists closed orders, with every fault on but a
  dropped session, which nothing in the loop brings back, and failing stores.
- `ops/run_loop.py:519` says of an ACCEPT that "an audit failure leaves the item OPEN (no
  unaudited change)". The first call does. But the append that raised left its event in
  `_events`, so a second ACCEPT finds the id, appends nothing and moves the book: the
  FILL is in no file (`AcceptUnaudited`). `live_whole` is without failing appends.
- `ops/run_loop.py:513` says that "a re-resolve never appends a second FILL (no
  double-count)". An item raised in a cycle whose prices then raised is in memory
  only. Accepted, it has its FILL written; a crash before the persist forgets the item; if
  the order filled further, the resync raises one item for all of it, under another
  id, and its FILL contains the first again. `live_whole` is without `pieces`.
- `execution/order_lifecycle.py:299` says of `can_resubmit` that only an order "REJECTED
  before reaching the broker" is cleared. The code asks for the broker id and the fills.
  Entries without an id (`AlwaysNamed = FALSE`: a plain map of statuses, as
  `tests/test_order_manager.py:78` uses it) can say WORKING and later REJECTED of one order,
  and it is cleared. `engine` has the entries of the shipped adapters, which carry the id.
- With the leverage ramp on, `optimizer.py:738` takes for the previous book the part of it
  that is in the new universe, and an unlevered book where that part is empty. A held 0.6 of
  one name and then 1.125 of another is within a step of 0.25 for the code, but neither
  "1.25x the previous book's gross" (line 607) nor "up to 1.0 (unlevered)"
  (line 735). No property bounds what one rebalance adds to the leverage.
- `core/engine/engine.py:267-269` says of the conviction multiplier that it "cannot breach
  the CVaR limit enforced inside optimise_portfolio". Names are multiplied each by its
  own, so a hedge can shrink more than what it hedges, and STEP 10 compares the CVaR
  from before. `WithinEnvelope` excepts the tail of a hedged admitted book.
- Rejections are left out of `live_faults` because with a failing
  ledger and crashes they multiply the states; `FillsAreAccountedFor` is checked with them in
  `live_progress`.
- The service of `Vault` does not run in `services`: one that starts while the operator
  rotates takes the backups in flight for those of an interrupted rotation and rolls
  the files back under it (`VaultOpens` then fails without any interruption). The
  container of `docs/DEPLOY.md` mounts the directory read-only, which turns this
  into a failed start.

Six runs are expected to end in a violation. Each checks one thing that the
code's own words say and the code does not do; `PROJECT.json` quotes them.

| Run | The disagreement |
|---|---|
| `live_forgets` | a crash between STEP 12 and the cycle's persist forgets a resting order |
| `live_gate` | a failed read that the adapter turns into an empty answer opens the gate after a restart, and orders go out before the broker's order book was read |
| `hard_stop_reenabled` | a hard stop whose cycle loses the state-store write never latches, and the next cycle trades |
| `decisions_stale` | in LIVE a stale universe is refused, the refusal becomes an empty frame, and the cycle buys on it |
| `learning_refit` | a refit that raises has already replaced the model that was to keep serving |
| `vault_lockout` | two interrupted rotations leave a vault that no passphrase opens |

Seen while modelling, and not claimed by any document:

- At the cap of the training buffer the trim keeps the lengths equal while a LIVE
  refit reads it in three passes: features and labels shift by one row. That is why
  `ShortBuffersFitAligned` is about shorter buffers. In the middle of a LIVE refit
  `predict` mixes the parts of two fits. A row with an infinite value makes every
  refit raise for as long as the buffer holds it. The buffer and the model die with the process.
- A label may use the same bar at both ends when bars are late.
- The hard limits of STEP 10 can block the book STEP 9 itself made (`BreachIsExplained`
  says when); an optimiser that raises gives an empty book, and an approved cycle then
  sells what is held.
- A stressed market halves exits as well as entries. The participation cap of PAPER is per slice.
- `SqlStateStore.restore` on an empty database raises `ValueError`, and `start` catches
  `FileNotFoundError` only: the first start on SQL is refused (`Governance`, `serving`).
- A ledger write that raises leaves a gap, and the next start refuses the file. A cash
  event that raises skips the rest of `record_cycle`. A commission that comes after its
  fill is never recorded, and shows as a break.
- Purge and embargo overlap: the longer of the two is what separates a fold.

Fairness. `LiveTrading!FairSpec`: `run_forever` catches whatever a cycle raises and
starts the next one, so the loop's own steps are weakly fair (`Cycle`); broker moves
and rejections are not, and the run has no crashes. Two assumptions are about the
outside and stated as strong fairness, because each is interrupted by other steps.
The operator accepts an item that stays open. And a read lists the order, for each order by
itself (`ResyncLists`): of the reads that could list it, taken while it rests or while
the adapter still lists it, one does. For Alpaca this means that one read of
the closed orders succeeds within the day, and that fewer than a hundred others closed
since; reads may fail and leave any order out before it. It is not assumed of IBKR's
adapter, which cannot list a closed order (`ListsClosed = FALSE`). Nothing is
assumed of the broker: orders may rest for ever, which is why the properties are about
those that do not.
`HardStop!FairSpec`: the lock holder runs on (weak fairness of `CycleStep` and
`PersistReset`), and a waiter gets the lock because the loop sleeps between cycles
without it, again and again rather than for ever (strong fairness of the resets). New cycles,
crashes and restarts are not fair, and `OperatorIsServed` ends when the process does.
The other specifications state safety only.

Every property has a mutant in `PROJECT.json`: a plausible bug, written next to the
definition it replaces ("A bug: ..."), that makes TLC report that property. Runs whose
cfg turns deadlock checking off have bounds at which the model stops.

## 4. The proofs

`tlapm <module>` for the eight modules that hold theorems: the seven whose names end in
`Proofs`, and `SumLemmas`. All are complete, for every value of the constants that
satisfies the named assumptions. Every safety property that a passing run checks is
stated by a theorem; a hypothesis that a theorem needs beyond the assumptions is written
out in its statement, and explained below.

*Sums.* The books, the positions, leverage and the reconciliation are sums over finite
sets (`SumFunctionOnSet`). Such a sum is a fold, and a fold is a `CHOOSE` of a recursive
function, of which nothing is known until some function satisfies its equation.
`SumExists` builds that function: the collection of subsets of `S` for which it exists
contains a set as soon as it contains its proper subsets, and the strict subsets of a
finite set are well founded (`SubsetInduction`). `SumOneMore` then says that a sum
is one term and the rest, whichever term, and the other lemmas (bounds, monotonicity,
scaling with rounding down, sums of disjoint sets) follow by the same induction. `UpTo` is
its form for `0..n`.

*OrderLifecycle.* `FilledIsReported` is not inductive: that a redelivered fill is ignored
needs the duplicate filter to hold exactly the fills delivered, and that a new order starts
clean needs that nobody has reported an id before it is created. `HistoryMatches` adds both
(and that the broker id is set exactly when it was acknowledged). `IInv` is their
conjunction with `TypeOK`; TLC checks it, and `Invariance` proves it, one lemma per record
operator and one step per action. `TypeCorrect` and `FillAccounting` follow.
`SafeResubmission` assumes `AlwaysNamed` and needs an invariant of its own: whatever
confirmed an order left the broker's id on its record, through every later status, fill and
restart. Without the assumption it is false (section 3). `ContractKept` maps every step to a
step of `OrderContract` with the invariant in hand: a record operator makes `Progress`,
create makes `Open`, prune and restart make `Forget` of terminal orders only, because the
status graph has no edge out of a terminal status. `HistoryIsKept` states `HistoryMatches`
by itself.

*LiveTrading, no stacking.* `NoStacking` needs more than the planner's guard. The
proof's invariant says that outside of STEP 12 the orders in flight of a symbol are
of one cycle; that inside it, what is still to be placed carries the current
`asof`, and its symbol has no order in flight of another cycle; and that the disk
holds such a set too, so that a restart comes back to one. It rests on two facts
of the code: every state that is not terminal and that an order has outside of
`place` blocks its symbol (`Settled`), and no move of the graph leads back to a
state that does not.

*LiveTrading, the books.* `TypesHold`, `FillsAreAccountedForEver` and `BookIsRealEver` have
no hypotheses: they hold for every set of faults and of crash points. `AccountInv` is
their inductive invariant. Its core, `Books`, says of an order that what its record
counts as filled is what its book took, plus its items that are open or were refused, plus
what this cycle filled and has not booked yet; and that book, open items and unbooked
fills never exceed what the broker filled. It says so of the memory and of the disk
at once, each with its own orders, items and book, because a restart swaps one for the
other; what was only in memory is then found again at the broker by the next resync, and
becomes an item. `PcInv` says which of the loop's parts are empty at each `pc`,
`FreshInv` that an order still to be placed has an identifier nobody knows yet.

*LiveTrading, the position and the ledger.* Three theorems need something of the
environment, each shown to be needed by a violated run or by the facts of section 3.
`live_whole` satisfies the hypotheses of all three.
- `RestingIsTrackedEver` (`RestInv`) under `OrdersAreWritten`: the process does not die
  between placing an order and persisting it, the state store and `loop_state.json`
  are written, and pieces and rejections do not come together. `live_forgets` is the
  counterexample otherwise.
- `LedgerIsBetweenEver` (`LedgerInv`) under `AppendsSucceed`: the ledger and the state store
  can be written, and a resting order fills in one piece. The process may die anywhere,
  between the append and the persist too, and `loop_state.json` may fail to be written. A
  crash there leaves the ledger ahead of the disk; what keeps it from counting a fill twice
  is that a reconciled order is asked about once more, finds its id on the ledger, and gets
  booked without a second FILL. `InStep` says this of the memory and of the disk: of an
  order without a reconciliation on the ledger, the book that still tracks it has exactly
  what is due, and its item asks for the rest; of one with a reconciliation, the ledger has
  all the broker filled. `Whole` says that fills come whole.
- `NeverOvertradesEver` (`SettleInv`, `ReachInv`) under `FillsAreWhole`: `OrdersAreWritten`,
  and orders fill in one piece and no fill is rejected. `SettleInv`: of an order that left
  the flight, everything the broker filled is booked, so sizing may forget the order.
  `ReachInv` sums, per symbol, the worst each order at the broker or in `todo` can still do,
  upwards and downwards; a plan is made only when nothing of its symbol is in flight, from a
  held book that is then the position.

*HardStop.* That `HardStop` implements `Halt` needs to know where a durable stop is:
on disk, and in the memory of whoever runs (`LatchInv`). It is kept because a cycle
in flight started without the latch, because the write that ends a hard stop's cycle finds the
latch engaged, and because the write that ends a reset finds it cleared; an
interrupt in between persists whatever of this is true at that point. `PeakInv` adds
that memory and disk hold numbers, `AuditInv` that whoever is about to persist a
stop has already written, or failed to write, its line. All three theorems assume
`"unreadable" \notin Faults`: a service that cannot read its state starts without a
latch and says so in its log.

*DecisionCycle.* `TradesAreApproved` says nothing before STEP 12 and is not inductive:
`ApprovalInv` keeps the verdict empty until STEP 10 writes it, from a flag STEP 1 can no
longer change, and the order flag down until STEP 12 acts on the verdict. `BackedInv`
carries provenance instead: in LIVE every scored symbol is backed by a sleeve that passed,
every name of the optimiser's book and of the target is admitted or scored outside a crisis,
and a name outside the target is only sold, which needs `BooksAssumption` (the held book is
long-only). The other three theorems rest on `BudgetInv`. `OptFits` and `TargetFits` say
what STEP 9 guarantees of its book, and hand it through the gate to the target: long-only,
total under the leverage limit, and a tail within the limit. Weights are whole basis points
and every scaling rounds down, by less than one basis point per name; that is the slack that
`WithinEnvelope` has in its tail limit (each weight is scaled twice). A hedged admitted book
is not in it: the comment at `core/engine/engine.py:267-269` says that conviction cannot
breach the CVaR limit, and by undoing a hedge it can. `BreachesAreExplained` needs
`LimitsAgree` (a leverage limit of at least one, a position limit of at least the crisis
weight): the gate reads the limits as configured, STEP 9 as it raises them, and nothing
validates that they agree.

*Learning.* `DataInv`: nothing is predicted, recorded or learned ahead of time, every
outcome once, in the tracker, in what is saved of it, and in the training buffer, whose
rows are of predictions that are marked or pruned. `FitInv` follows the replacement of the
parts of the model, one at a time: what is of the new fit, what of the old one, and which
part is untrained after a raise. `ReadInv` is about the thread that reads the buffer in
three passes without the lock: below its cap the buffer only grows, so passes that read
equally many rows read the same ones.

*Governance.* `RegistryOK` adds to `OneLiveModel` that retired models passed
validation and that the stack never holds the same model twice in a row, nor the live
one on its top (promoting the live model again is a no-op): without this a repeated
rollback could find the model it expects. A save and a restore keep it because the dump is of a
registry that has it.

*AuditTrail.* `ChainInv`: only who holds the lock of a running service is in the middle of
an append, and the memory is the file followed by the line being written. From these an
append extends the chain that is on disk and no other. `AuditInv` is for `BreaksAreReal`:
what the reconciliation compares differs exactly by the fills that were executed and are not
recorded, and by the commissions the trail lacks, as sums over those two sets, whatever
write raised and whenever the process died. Quantities are signed by their side, and a
commission is a cost (the replay takes its absolute value).

*Services.* `RegimeInv`: the scaler may be newer than the model, but then the next
answer fits again. `StudyInv`: every fold lies in the windows before `start`, so test
bars are apart, and what is purged or embargoed is clear of them for every length of
history. `AlertsInv`: told and pending counts add up. Each service is proved of its own
specification, and the composition `MCServices` gives it nothing but stuttering, since
no variable is shared.

*The limiter and the API.* The hits of a key may be forgotten, when the map is full, so
the limiter alone does not know what it granted. `LimiterOK` says that the map is in the
order of the last hits, and `BudgetInv` that a caller who is still due a count is in the map
(`Hotter`: one is evicted only when `MaxKeys` others came after it) with hits that cover
everything granted in the window (`Covers`). For `AnswersAreEarned` each hit of a key is
backed by a request of its own that was admitted under that key at that time (an injective
choice), so that a full window has `Limit` of them; and who holds the service lock is the
only one inside.

*Vault.* `VaultInv` says, for each step of the one command, which of the two files and of
their backups open with a passphrase the operator knows; a crash at any of them leaves a state
from which the next command starts well (`CutOff`). It assumes `OneInterruption`: one
process, and one interruption in the vault's life. `vault_lockout` shows that two break
it, and section 3 what a second process does.

*Backtest.* `BacktestInv` carries a trace of each run: the account, the memory, the view
and the result of each of its decisions. The harness is deterministic between two decisions
and the answers are a function, so by induction over the dates two traces agree as long as
the prices do; that a run starts from a fresh account and an empty memory is what makes
the second one begin like the first.

Only model-checked: liveness under fairness (`ConfirmedOrdersLeave`, `OperatorIsServed`),
which is out of the prover's reach, and the six properties that are violated, of which
`VaultOpens` is proved for one interruption.

## 5. What is not modelled, and the plan

Not modelled at all, and why:

- Strategies, features, cost models, shrinkage, the HMM's inference, the learners and
  the metrics are stateless floating-point numerics; where a step depends on one, the
  model lets it return anything of a small set.
- `nlp/` scores text, `ops/monitoring.py`, observability and `execution/tca.py` report:
  nothing in the trading state reads them back. Vendor ingestion is I/O.
- `research/` (but for the splitter) and `scripts/` are offline studies of an
  analyst, with no state between runs. They, with the strategies, are most of the
  repository's lines; the map covers a small share of the whole for that reason, and most of
  the control of the service itself.
- `learning/adaptive_weights.py` is a validation-gated set of sleeve weights with a freeze
  that nothing outside of its tests calls. (Promotions and rollbacks of the registry are
  called by operators only, too; they are modelled because they are durable and serve retries.)
- In the Backtester, the metrics, and prices between two rebalance dates: the book does not
  drift with them in the code either.
- `ops/run_loop.py`'s halted results, snapshots for the dashboard and status payloads.

Work that would add to this:

1. Proofs: `RestingIsTracked` and `NeverOvertrades` for orders that fill in pieces, which
   needs an invariant about which of several items of one order is still open; a form of
   `LedgerIsBetween` for them that says what an item of a part may repeat.
2. The alignment of feature and label frames (`data/`), as a pure check over small calendars.
3. `learning/adaptive_weights.py` and the status payloads of `ops/run_loop.py`, once
   something in the service depends on them.
