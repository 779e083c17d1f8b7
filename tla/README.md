# TLA+ models of Polara Quant

Polara Quant runs trading strategies against Interactive Brokers: strategies
turn bars into signals, an order manager turns signals into orders, a broker
adapter sends the orders through the Client Portal Gateway and follows them,
and a dashboard shows what came of it.  It is one Python process, one asyncio
event loop and one SQL database (SQLite while it trades on paper, PostgreSQL
before it goes live).  Nothing in it takes a lock: every `await` is a point
where another task may change the state that a call has just read, and the
broker is a third party that changes state at any time.  That is what these
modules are about.

Paths below are relative to `src/src/polara/`.

## The system

| Component | State | Operations | Hard behaviour | What makes it correct |
|---|---|---|---|---|
| Order manager (`order_manager/manager.py`) | `_pending`: quantity in flight by symbol, in memory | `process_signal` | shared without a lock by the scheduler task and `POST /strategy/run`; eight awaits; state read before an await and used after it | never orders more than is missing; no order after a halt or a demotion but those under way; every order accounted for |
| Risk guard (`risk_guard/guard.py`) | `_halted`, `_halt_date`, in memory | `check_daily_loss`, `check_position_size` | the latch opens by itself at a date boundary and at a restart; judged on a cached account | a halt lasts to the end of the UTC day |
| Broker adapter (`broker/adapter.py`) | tables `orders`, `bracket_orders`, `account_snapshots`; `_known_filled` and `_account_cache` in memory | `place_order`, `place_bracket_order`, `cancel_order`, the order poll (5 s), the P&L loop (60 s), `get_account` (cached 300 s) | the broker acts before the row is written; the poll races placing and cancelling; its transaction is open while the trade service writes | rows and trades are true of the broker, and catch up with it |
| Trade ledger (`dashboard/trade_service.py`) | tables `trades`, `daily_summary` | `open_trade`, `close_trade`, `record_nav` | called from inside the poll, on a session of its own | one trade per filled order, closed by its exit |
| Client Portal session (`broker/cp_client.py`, `broker/client.py`) | `_account_id`, `_conid_cache`, the tickle task | `start`, `stop`, tickle (55 s), reconnect with backoff (15 s doubling to 120 s) | login may be lost at any time; a failed start leaves no task | connected again once the gateway is, and not before |
| Promotion gate (`research_engine/promotion.py`, `status_service.py`) | table `strategies` | `promote`, `demote`, `set_status`, `ensure_registered` | check, await, then write; restarts register again | only a validated strategy becomes live; a demotion holds |
| Strategy scheduler (`research_engine/scheduler.py`) and `api/routes/strategy.py` | none | one round over the strategies every minute; one strategy on request | shares order manager and strategy objects with the routes | no signal from stale bars; one failing strategy stops no other |
| Confluent and intraday schedulers (`research_engine/confluent_scheduler.py`, `intraday_scheduler.py`) | the bias, during a round | like the scheduler, filtered by the bias of long-term strategies | not started at this commit; the round takes its time twice | no signal against the bias |
| Calibration (`calibration/`) | parameters of the live strategy objects, table of results that nothing reads | grid search in a worker thread, apply, save | the thread changes objects the event loop reads; a candidate raises; a save fails | a strategy runs with one whole set of parameters; every strategy has its turn |
| Backtester (`backtester/`) | cash, position, equity curve; table of results | `run`, metrics, `has_passing_result` | the window grows from bar to bar, unlike a live one; rounding and commissions | its accounts agree; a pass means profit; what it validated is what trades |
| Market data (`market_data/`) | DuckDB table of bars | `upsert`, `query`, `get_bars` with fallback | an answer is awaited and then stored, so it may be stored late or after a newer one; bars still forming; periods that cover too little | whoever gets an answer has a window without gaps as of when it was formed |
| Strategies (`research_engine/strategies/`) | parameters | `on_bars` | boundaries of windows and sessions; crossings through equality; units of exits | no crossing is missed; exits that are measured exist, on their sides |
| API, dashboard, migrations, scripts | wiring, reads, schema | | | |

How they interact: `api/main.py` builds everything and starts four tasks (the
order poll, the P&L loop, the strategy scheduler, the calibration); the session
has a fifth.  The scheduler and the route
`POST /strategy/run` call `OrderManager.process_signal`; it reads the status
table, calls the adapter for account and positions, the guard (synchronously)
and the adapter again to place the order, and writes `signal_orders` on the
session on which the adapter wrote `orders`.  The poll reads the broker's list
of orders, updates `orders`, and calls the trade service for each fill.  Manual
orders (`POST /broker/orders`) go to the adapter directly, without the manager
or the guard.

## Modules

| Module | What it is |
|---|---|
| `RiskGuard` | the latch and the two checks, as functions of the latch, the date and the account |
| `PositionSizing` | the abstract promise of delta sizing: an order is only for what is missing |
| `OrderManager` | `process_signal` for any number of concurrent callers; EXTENDS `RiskGuard`, refines `PositionSizing` |
| `OrderTracking` | placing, cancelling and polling orders and recording trades, from the adapter's side |
| `CPSession` | the session with the gateway: start, tickle, reconnect, stop |
| `StrategyRound` | a round of the schedulers with the bar store, the clock and the routes; EXTENDS `CPSession`, which it leaves as it is |
| `Lifecycle` | the life of the registered strategies: validate, promote and demote, calibration, restarts |
| `Strategies` | `on_bars` of the eleven strategies, as functions of bars |
| `ExitPrices` | the stop and take-profit prices the order manager makes of a signal |
| `Backtester` | the replay of a strategy, one action for each bar; EXTENDS `Strategies` and `ExitPrices` |
| `MC...` | constants for TLC |
| `FoldLemmas` | induction and recursion over sets and sequences, as facts about sets; no part of the system |
| `OrderManager_proofs`, `SerialSizing_proofs`, `OrderTracking_proofs`, `StrategyRound_proofs`, `Lifecycle_proofs`, `Backtester_proofs` | the theorems; those of `CPSession` are in `StrategyRound_proofs` |
| `Strategies_proofs` | lemmas about sums, averages, windows, sessions and exits, for `Backtester_proofs` |

A definition that the comments call a faulty variant is the body a plausible
bug would give the definition that follows it: it is not part of the model, it
serves to see that the properties notice such a bug.

### OrderManager

`call[c]` holds the local variables of the `process_signal` of caller `c`; its
`pc` names the await the call stands at.  What the code does between two
awaits is one action, as nothing can come between on one event loop:

| Action | Code |
|---|---|
| `CheckStatus` | the signal arrives and `get_status` answers (152-159); a strategy that is not live changes nothing |
| `GetAccount` | `get_account`: the cached record, or a fresh one that is cached (`adapter.py` 113-142). The age of the cache is not counted: either answer is possible |
| `GetPositions` | `get_positions` (163) |
| `Evaluate` | everything synchronous from `_reconcile_pending` to the decision (164-194), with the guard's latch, the sizing and every early return |
| `Submit`, `SubmitTimesOut`, `SubmitRefused` | `cp.place_orders`: taken and answered; taken and the answer lost; answered without an order id, in which case the code writes its rows all the same |
| `RecordOrder`, `RecordSignal`, `WriteFails` | the two inserts, each committed by itself |
| `CountPending` | `_pending` grows (221): only now |
| `Abort` | `_require_connected` or a request before the order raises |

The broker is what the manager can see of it: `held` and `working` (unfilled
quantity by symbol and side), changed by `Fill`, `Die` (cancel, reject, expiry)
and `Close` (an exit child).  `SetStatus` is promote and demote as this
component sees them, `RefreshCache` is the P&L loop, `Restart` clears what is
in memory.  Quantities are in the smallest unit an order can have
(`QuantaPerShare` to a share; the program rounds down to 0.01), money in whole
units, percentages as integers; comparisons are cross-multiplied so that no
quotient is rounded except the one the code rounds.  `haltDay`, `late` and
`stray` are history: they count orders taken after a halt and after a demotion
and no action reads them.  The exit prices (107-145) are computed between two
awaits and change no state; they are the operators of `ExitPrices`.

### OrderTracking

An order has an entry leg and, as a bracket, an exit leg (the stop or the
take-profit child, whichever fills); a leg stands for its id at the broker.
`place`, `cancel` and `poll` are the local states of the calls and of the poll.
The poll's session is explicit: `poll.writes` are its uncommitted updates and
`poll.wrote` says that it holds the write lock.  `WriteLock` chooses the
database: TRUE is SQLite, one writer at a time; FALSE is PostgreSQL, row locks.
`PollRecord` merges the trade service's commit with the `_known_filled.add` that
follows it, a restart between the two being the same as one after both but for
`known`, which a restart empties anyway.  `Fairness` is weak fairness of the
poll alone: it is a task that loops for ever and swallows every exception
(505-513), and the models assume that its gateway is connected again and again.
Nothing else is fair: the broker need not answer, move or list anything.

### CPSession

`task` is the request the tickle task makes next: `tickle`, `status`, `reauth`
and `accounts` in the keepalive loop (75-94), `reauthAgain` and `accountsAgain`
in the reconnect loop (96-112).  A sleep is merged with the request after it,
since only the gateway and `stop` can come in between either way.  `connected`
is the one thing the rest of the program reads, "`_account_id` is not None".
The gateway is external and moves at will; it answers when it is reachable and
may raise whenever it is not ready; it lists accounts for whoever is logged in,
authenticated or not, and the code takes that list for proof of a session.
`phase` follows `IBClient`: a start that fails leaves no task and the client
disconnected until the program is restarted (`client.py` 37-48).  `Fairness` is
weak fairness of the task: sleeps end and requests have a timeout of 30 s.

### StrategyRound

`round` is the scheduler's task: it asks the long-term strategies for the bias
(`bias`), evaluates the others in turn (`fetch`) and stands at `process_signal`
(`hand`).  `StrategyScheduler` and `IntradayScheduler` are the case without
long-term strategies, whose bias is neutral; the session guard of the intraday
round is a round that finds nothing recent.  The clock counts bars.  `traded`
holds the times at which the market was open, `stored` the bars of the store in
the state of the answer stored last: `forming` or `complete`.

`fetch_bars` awaits the gateway (`fetcher.py` 54-57) and the upsert follows
(`service.py` 24-25), so an answer is formed in one step and stored in another.
In between bars begin, other answers are stored, and the gateway may be lost.
`round.answer` is the answer the scheduler awaits, `routed` are those on their
way to routes; as the past of the market does not change, an answer is known by
whom it is for and when it was formed.  `upsert` does not compare: the answer
that is stored last wins, not the one formed last, and one that was overtaken
takes bars back to `forming`.

| Action | Code |
|---|---|
| `Launch`, `Cancel` | `create_task` after `connect`, and `cancel` before `disconnect` (`api/main.py` 333-374) |
| `Begin`, `BiasDone`, `Finish` | the round starts, takes its time again after the bias (`confluent_scheduler.py` 39-41), and sleeps |
| `GatewayAnswers` | the answer to the request of the strategy whose turn it is, formed at the gateway |
| `Ask` | `_compute_bias` of one strategy, once its answer is there or its request raised: bars, their age, `on_bars` |
| `Evaluate`, `Skip`, `HandedOver` | the body of the loop, likewise: bars, age, `on_bars`, filter, `process_signal`; whatever is raised, the next strategy has its turn |
| `AnsweredToRoute`, `FetchedByRoute` | `POST /strategy/run`, validate and `GET /market-data/bars` fetch into the same store, with an await of their own |
| `Tick` | a bar begins, in which the market is open or not |
| `SessionStep` | any step of `CPSession` |

`GetBars` is the fallback of `get_bars` (`service.py` 18-30): `Fetched` stores
the answer that has come, `Cached` goes without when a request raises, as it
may still do after the answer was formed.  `fetch_bars` asks for a
period that is meant to cover the bars needed; `Covers` says how many it does
(`_cp_period` asks for 2 days, 26 bars, when it needs 40 of 30 minutes).

### Lifecycle

`request[r]` stands at the awaits of a request to validate, promote or demote;
`calib` is the calibration task, whose grid search runs in a worker thread, so
each field of a strategy is set in a step of its own.  `Startup` and `Stop` are
`_lifespan` (and a crash): the tables stay, the objects with their parameters
are made anew.  A result that says the strategy passed is possible for any
strategy at any time: what a pass means is in `Backtester`.  `Raising` are the
strategies with a field that is None: the grid's value keeps its type, and
arithmetic with it is a TypeError, which `_run_backtest` does not catch
(`engine.py` 33-46) and which ends the round.  `stopped` is history.

### Strategies, ExitPrices, Backtester

A signal is its strength: 1, -1, or 0 for None.  Bars are records of integers.
Averages and ratios are fractions compared by cross-multiplication, and an
exponential average is kept in units in which each of its steps is exact, so no
comparison is rounded; the program uses Decimal with 28 digits.  Times are
counted in bars since the exchange opened, which is all that
`market_data/session.py` asks of them.  The day of a bar is its date in New
York.  What the code takes for granted of bars and parameters, and some
theorems need, is stated by `ClosesInRange` and `Unbroken` in `Strategies` and
by `FastIsFaster`, `ClosesAreInRange` and `SessionsAreUnbroken` in `Backtester`.

The kinds of `Strategies` are twelve, as VWAP has two modes: by a share of the
average (`vwap`, `std_mult` None) and by standard deviations (`vwapBands`).
Entries compare squares and take no root; the exits of the second mode do, and
`Deviation` rounds it down to the units of the average.  `SignalExits` is what
a signal says of its stop and its take-profit, for each kind.

`Backtester` has one action for each kind of turn of the loop (`EnterLong`,
`ExitLong`, `Hold`) and `Finish`.  `MayPass` is the verdict of 283-285; its
Sharpe ratio is modelled by its sign, and as the least ratio is configured and
positive, a replay that may pass may also fail.

## Runs

| Run | Instance | Shows |
|---|---|---|
| `serial` | one caller, two symbols (one only bought, one bought and sold, one signal without a price), 6 orders | types; `SizingBound`; `ExposureBound`; `OrderManager` implements `PositionSizing` |
| `concurrent` | two callers, one symbol, two days, an account on either side of the loss limit, promote and demote, one failure, one restart, 2 orders | `HaltBoundsLateOrders`, `DemotionBoundsLateOrders`, `AuditTrail` |
| `tracking` | one bracket order, row locks, one fault, one restart | `TradesBounded`, `TradeForFill`, `FilledRowIsTrue`, `FillNotReopened`, `StatusConverges`, `FillsRecorded` |
| `session` | every state of the gateway, the last delay of the code, two long-term strategies and one that trades on one feed, one answer on its way to a route, three bars | `ConnectedIsWatched`, `Reconnects`, `NoticesOutage`; `FreshHandedOver`, `BiasRespected`, `WholeWindow`, `Resumes` |
| `lifecycle` | two strategies, one of which raises, two requests, a grid of two fields | `LiveWasValidated`, `DemotionHolds`, `StatusMovesByRequest`; `SettledParams`, `UnsavedIsInForce`, `CalibratedAgain` |
| `replay` | each of eleven strategies, VWAP in both modes, on all histories of seven to nine bars of two or three prices | `Reconciled`, `OnePositionAtATime`, `DrawdownIsDeepest`, `PassedTraded`; `ExitsBracket`, `CrossoverSide`, `LiveAgrees`, `LiveBreakoutIsFirst`, `SupertrendSilent` |
| `concurrent-sizing-claim`, `short-sizing-claim` | one or two callers, two orders | where delta sizing does not do what its docstrings say |
| `known-filled-claim`, `sqlite-trade-claim`, `exit-fill-claim` | one order | where fill recording does not do what its comments say |
| `fixed-stop-claim` | as `replay`, without a multiple of the range | where a stop is not as far as its docstring says |

What they show:

* **Sizing.** The promise holds under conditions that are all needed: one call
  at a time, targets that do not move, positions closed whole, no lost answer
  and no restart, and only buys.  With a second caller (`concurrent-sizing-claim`)
  both order the whole target.  With a target that moves with the price the
  entry of a working order would be deleted, as shares held before it was sent
  are taken for its fill (`_reconcile_pending`, `manager.py` 84-93; no run has
  such a target).  With sells (`short-sizing-claim`) the formula counts
  a short position as a lack.  What bounds a short is the position check:
  `ExposureBound`, one target beyond the limit.
* **Halt and demotion.** Neither stops a call that passed its check.  At most
  one order per caller gets through, and none of the caller that found the loss.
* **Audit trail.** An order at the broker without a row has a fault or a
  restart to blame, each for one order per caller at most.
* **Rows.** A filled row is true in every interleaving and is never taken back
  to submitted or error, and a row ends up with the broker's word even when
  `cancel_order` wrote over it, as long as the order stays listed.
* **Trades.** At most one trade per order and one more for each restart; none
  without a fill.  Every fill with a row becomes a trade -- on PostgreSQL, and
  unless there is a fault, be it before the fill or after it, or the order
  leaves the list.  On SQLite none does (`sqlite-trade-claim`): the poll's open
  UPDATE holds the write lock that the trade service waits for, so each attempt
  fails after its timeout.  A fill polled before its row is committed is
  remembered as recorded and lost (`known-filled-claim`), and an exit leg has no
  row, so no trade is ever closed (`exit-fill-claim`).
* **Session.** A client that has started reconnects once the gateway stays
  ready, however often attempts failed, and loses its account id when the
  gateway stays down; it is connected only while a task watches.  Both are
  conditional on a start that succeeded: a program started before its user has
  logged in never connects, though `IBClient.connect` only warns and asks for a
  login.
* **Rounds.** A signal rests on a bar no older than the limit plus the time a
  part of the round takes, wherever an outage falls and whether the bars are
  from the gateway or the store.  It is not handed over against long-term
  strategies that agree.  After an outage every strategy is evaluated again and
  again, though others raise.  Whoever gets an answer has a window without gaps
  as of when the answer was formed, if its period covers it, and otherwise may
  not.  Of what happened while the answer was on its way nothing is promised: a
  bar that began is missing, the one that was forming stays so, and what another
  task fetched and stored meanwhile is taken back to what it was, until the next
  fetch.  `POST /strategy/run`
  has no such bound: it does not look at the age of the bars.
* **Strategies' lives.** What is live was validated once, over any
  interleaving and any restart; a demotion holds unless a promotion that had
  already read the status overwrites it.  That the result is recent, or of the
  present parameters, is not promised and not true.  A strategy runs with its
  own parameters or one whole combination of its grid, except while the worker
  thread sets them.  A strategy whose candidates raise ends the round for all
  strategies after it, every time: `CalibratedAgain` holds of those before it.
* **Replays.** Cash, trades and commissions agree; the profits of the trades
  add up to more than the return, by the commissions of the entries.  A replay
  passes only with trades and a rise.  A replay and a live round agree for the
  four strategies whose signals depend on a bounded number of bars, whatever the
  bars, and for the two that look at the session before, if no bar of a session
  is missing and the live window reaches back to it (`LiveAgrees`; the 40 bars
  of the previous day breakout do not for bars of 15 minutes).  The others differ: averages of RSI, MACD and the bounce start
  with the window, that of VWAP is cut by it, and a live breakout of the opening
  range can only be seen on the first bar after it (`LiveBreakoutIsFirst`).  With the defaults of
  `supertrend.py` (10 and 3) no bars make it signal (`SupertrendSilent`).
* **Exits.** The filters of `on_bars` let a signal pass only when there is room
  for the exits it measures off the bars: the stop of a breakout and of the VWAP
  bands, and the take-profit of a reversion, are there and strictly on their
  sides of the price, whatever is rounded, and the stop of an opening range is
  never nearer than the narrowest range and the buffer (`ExitsBracket`).  But
  their distance is not what is meant: `_compute_exit_prices` takes percentages
  and divides by 100, while some strategies state fractions (0.01 for one
  percent).  The stop that `prev_day_breakout.py` 5 calls a fixed one percent is
  one hundredth of a percent away (`fixed-stop-claim`), and the range stops, the
  multiples of the average range and the exits of VWAP and of the gaps are a
  hundredth of what they measure.  A replay does not see it, as it ignores exits.

### Bounds

`MaxOrders`, `MaxFaults`, `MaxRestarts` and `MaxDay` bound the counters, by
guards on the actions that would raise them.  They are small because each
property needs few events to fail: two orders let one overtake the other, two
callers make every race of the code (all are between two calls, or a call and
the environment), one failure and one restart at any point cover each crash
window once, and a midnight needs two days.  Six orders in `serial` let every
symbol fill, be closed, and be ordered again.  Callers are symmetric; the
symmetry is used only in a run of invariants.  The OrderManager runs stop when
the bounds are used up and every call is idle, so they do not check deadlock;
the tracking, session and lifecycle runs do.

`CPSession` and `Lifecycle` have no bound.  `StrategyRound` is bounded by
`MaxClock` and by `MaxDrift`, the time the gateway can stretch a part of a
round; with an age of 0 and a drift of 1, three bars hold one that is recent,
one that became too old during the round and one that always was, and let an
answer be overtaken by one formed a bar later.  `MaxRouted` is one: with the
scheduler's own that makes two answers under way, and a bar can only be taken
back by the second of two.  The session run has the last delay of the code only
(120 s), since the ones before it differ in length alone, and the proofs are for
all.  In `replay` the periods are 1 to 3 bars, so that seven bars hold a
warm-up, a crossing and its reversal; three days of three bars each give
sessions with a day before them, and the prices are chosen for ranges, gaps and
breakouts to occur.  These bars are unbroken and close in their ranges, and the
fast period is the shorter one (`MCBacktester` assumes so, and TLC evaluates
it): the hypotheses of the theorems hold of them.  A replay ends, so that run
does not check deadlock.

## Proofs

For every value of the constants, checked by TLAPS:

| Theorem | Statement |
|---|---|
| `TypeCorrect`, `TrackingType` | `Spec => []TypeOK` |
| `HaltBound` | `Spec => []HaltBoundsLateOrders` |
| `DemotionBound` | `Spec => []DemotionBoundsLateOrders` |
| `AuditBound` | `Spec => []AuditTrail` |
| `SerialSizing` | `SerialEnvironment => (Spec => []SizingBound)` |
| `SerialRefinement` | `SerialEnvironment => (Spec => SizingSpec)` |
| `SerialExposure` | `ExposureEnvironment => (Spec => []ExposureBound)` |
| `TradesBound`, `TradeSound`, `FilledSound` | the safety properties of `OrderTracking` |
| `FillStays` | `Spec => FillNotReopened` |
| `SessionType`, `Watched` | `[]TypeOK` and `[]ConnectedIsWatched` of `CPSession` |
| `RoundKeepsSession`, `RoundWatched` | `RoundSpec => Spec`: the composition implements the session; so `[]ConnectedIsWatched` |
| `RoundTypes`, `HandedOverFresh` | `RoundSpec => []RoundTypeOK`, `RoundSpec => []FreshHandedOver` |
| `WindowIsWhole`, `BiasKept` | `RoundSpec => WholeWindow`, `RoundSpec => []BiasRespected` |
| `LifecycleType`, `LiveIsValidated`, `DemotionStays`, `StatusByRequest` | types, and the safety of live trading in `Lifecycle` |
| `ParamsSettle`, `UnsavedInForce` | the safety of calibration |
| `ReplayType`, `OneAtATime` | `[]TypeOK` and `[]OnePositionAtATime` of `Backtester`, for all eleven strategies |
| `BooksAgree`, `DrawdownDeepest`, `PassMeansTrades` | `[]Reconciled`, `[]DrawdownIsDeepest` and `[]PassedTraded`, likewise |
| `NoCrossingMissed` | `Spec => []CrossoverSide` |
| `LiveWindows`, `LiveSessions` | `FastIsFaster => (Spec => []LiveWindowsAgree)`, `SessionsAreUnbroken => (Spec => []LiveSessionsAgree)` |
| `LiveAgreement` | both: `FastIsFaster /\ SessionsAreUnbroken => (Spec => []LiveAgrees)` |
| `LiveBreakout` | `ClosesAreInRange /\ SessionsAreUnbroken => (Spec => []LiveBreakoutIsFirst)` |
| `SupertrendNeverSignals` | `ClosesAreInRange => (Spec => []SupertrendSilent)` |
| `ExitsOnTheirSides` | no exit price crosses the price, for any price and percentage |
| `ExitsAreBracketed` | `Spec => []ExitsBracket`: the measured exits of all eleven strategies' signals are there, strictly on their sides |

Every invariant and action property that a run checks is stated by one of them.
They rest on the named assumptions on the constants, which TLC evaluates in the
runs, and on the hypotheses they state.  `FastIsFaster` is one: periods come
from the environment and nothing checks them, but the defaults and the grids
are so; with a longer fast period, `bars_needed` would be too few.
`ClosesAreInRange` and `SessionsAreUnbroken` are about bars: the program's `Bar`
only checks that prices are positive.  A close outside its bar can make
Supertrend signal; a missing bar or one from before the open moves the session
out of the live window, or a later bar next to the opening.

The arguments:

* *Halt.* The day a halt falls on is the latch's own date while it is down, and
  a caller that passed its checks before the halt stands at `submit` with
  nothing late; after its submission it has to pass `Evaluate` again, which
  raises.  The invariant says of every caller that it either has no late order
  or does not stand at `submit`, and of one caller (the one that found the
  loss) that it has none and does not stand there.
* *Demotion.* A caller beyond `CheckStatus` while the strategy is not live has
  no stray order yet, because it read 'live' before the demotion; sending one
  takes it back past `CheckStatus`.
* *Serial sizing.* `SizingBound` is not inductive: it does not exclude a state
  in which an order works and nothing is pending.  `SizingInv` says of a symbol
  that is only bought that its entry is empty or the whole target, and that
  unless an order is pending or about to be counted the symbol is settled:
  nothing works, and all or none of the target is held.  It says too what the
  positions a call read still mean, as they age while orders fill and exits
  close, and that a call that is about to submit submits the whole target of a
  symbol nothing is held of.
  `SerialEnvironment` names what it rests on (one caller, no faults, no
  restarts, whole exits, `Quantity = Target`); dropping any one of them lets
  TLC violate the bound.  The refinement follows: the one visible step, the
  acceptance of an order, is an `Order` for at most what is missing.
* *Audit.* `AuditInv` adds that a call has no id before its order is sent and
  an id with a row once the first commit is done.  So a step loses no id, loses
  the one of a call that fails, or loses at a restart those of the calls under
  way, which are no more than the callers.
* *Exposure.* `ExposureInv` counts what `_pending` has of a symbol and is about
  to get.  What is counted covers all that is held, long or short, and all that
  works on either side, until a position as large as the entry deletes it; then
  nothing works.  An order is sized to bring what is counted to a target beyond
  the size of a position that passed the check, so nothing grows past that.
  `ExposureEnvironment` is `SerialEnvironment` with one NAV and shares that cost
  something; an account whose NAV falls has a lower limit than the positions
  taken before.
* *Tracking.* `TrackInv` says that what the poll saw of a leg is still true
  when it is 'filled' (a dead leg does not move), that whatever it is about to
  write was seen, that a row with an id belongs to an order the broker took,
  and that every trade is counted by `known` or by a restart.
* *Session.* There is a task exactly while the client runs; only the task and
  `start` set the account id, and each way out of the keepalive loop clears it.
* *Composition.* No step of a scheduler, a route, the store or the clock
  touches the session, and the shutdown only delays one of its steps.
* *Freshness.* While a part of a round runs, the time its ages are judged by is
  the time it began, and the clock is at most `MaxDrift` beyond it.  Bars are
  never removed, so the recent one that let the strategy be called stays; and
  since fetches by routes only add later ones, the latest bar of the window is
  at least as recent.  That a set of times has a latest one rests on
  well-foundedness of the naturals.
* *Lives.* A promotion beyond its first check has found a passing result, and
  results stay.  A strategy that is demoted for good is promoted by nobody
  until the next request.
* *Calibration.* While fields are set, those done have the values of the best
  combination; with the last one they are the combination.  The strategies of
  the results to be saved lie before the present one in the registry, and no id
  is registered twice (`LifecycleAssumption`: a second one makes the start
  fail), so no later assignment touches them.
* *Replays.* `OneByOne` adds that nothing was entered or sold at a bar the loop
  has not come to.  That prices are positive is what `BarType` takes from the
  checks of the program's `Bar`.
* *Windows.* An answer holds the newest times of the market as of when it was
  formed (`AnswersOK`: answers are no younger than the clock, so the market's
  times up to then do not change while they are on their way).  Storing it adds
  those and removes none, and the window takes the newest of what is stored.
  Of the times up to the answer's, the newest of what is stored are the newest
  of the market (`NewestOfStore`), and as the period covers the window, all were
  in the answer; so those before its time are complete.
* *Bias.* A signal that stands at `hand` has passed the bias of the votes of the
  round.  If each vote lies beyond the least bias on one side, so does their sum
  against as many times the bias (`VotesSum`), and the filter has let pass only
  that side.
* *Books.* A trade adds what it gained less what it lost to the sums, which is
  its profit (`TradeMore`); `Books` is kept turn by turn, and the last sale
  keeps it too.
* *Crossings.* Between two signals the fast average does not get beyond the slow
  one without a crossing in the loop's own step, as the averages of a window
  without its last bar are those of the window before.  `Sided` says so of the
  sums multiplied out, and needs that the signal is that of the present window
  (`SignalOK`).
* *Drawdown.* `Deepest` is the invariant of the fold over the curve: the peak is
  its highest value so far, and the worst fall is one of a pair of values and at
  least that from any earlier value to any later one that is not below 0.  Below
  0, falling further from a low value is relatively worse than from the peak,
  which is why the property asks for an account that is not overdrawn.
* *Verdict.* Without an entry the curve does not move (`CurveOK`).  A curve with
  no rise has no return above 1, so the mean of its returns is not positive
  (`NoGain`, induction over the set of returns).  A curve that passes is nowhere
  below 0, since it would have fallen by more than its peak.
* *Live windows.* The last elements of the last `bars_needed` bars are the last
  elements of all bars (`LastOfWindow`), so averages, bands, rates and ranges
  over a bounded number are the same.  For sessions, the bars kept of a window
  are those kept of the whole, when nothing before the window is kept
  (`KeptTail`); in unbroken sessions two bars a session apart lie on different
  days (`DaysInOrder`), so nothing of the last two days lies further back than
  two sessions.  A gap is a matter of the last two bars (`GapOfTwo`).  A live
  window is one bar longer than the opening: a breakout needs all of it to be of
  the day, and all but its last bar to be of the opening (`BreakoutIsFirst`).
* *Exits.* The distance of an exit is its share of the price rounded up, so it
  is at least a cent when the share is positive (`DistanceIs`).  That it is
  positive is what the filters leave: a close beyond the opening range is
  further from its far side than the range is high (`BreakoutStop`), a gap or a
  deviation that made a signal is more than the least one (`GapTakeType`,
  `VwapTakeType`), and a close whose squared distance is beyond that of the
  band is beyond it also when the root is rounded down (`BandExitsType`).
* *Supertrend.* To signal, two bars in a row must leave their bands on opposite
  sides, and closes inside their bars do so only if the offset of the bands is
  less than either of the two last true ranges (`LeavesBand`).  But both are part
  of the average that the offset is a multiple of, so it is at least the smaller
  of them (`WideBand`).

The provers have no induction over data: the library's theorems take an
operator as a parameter.  `FoldLemmas` states induction for a set instead
(`AllNaturals`, `AllUpTo`, `AllSubsets`) and proves that a fold has a recursion
(`FoldExists`, `LeftRecursion`).  The sums, averages and filters of sequences of
the models are folds, and what the theorems say of them is proved from that.

Only model-checked: the liveness properties `StatusConverges`, `FillsRecorded`,
`Reconnects`, `NoticesOutage`, `Resumes` and `CalibratedAgain`, since liveness
under fairness is out of the prover's reach; and what the six claim runs show,
which are counterexamples.

## Not modelled, and the plan

Left for later, in this order:

1. `TradeLedger`: realised profit and loss, the daily summary and NAV, refining
   a ledger that counts each closed trade once.  Nothing closes a trade at this
   commit.  When something does, a trade closed on a later day than it was
   opened is one to look at: the summary of its entry day is made from the
   rows of another (`trade_service.py` 38).
2. The bar store with several feeds and time zones, and the calendar.

Seen while modelling, and stated by no run: calibrated parameters are forgotten
at a restart, and neither the saved results nor the size multiplier are read by
anything; validate runs its backtest in a thread on the object whose fields the
calibration sets; a bar age of two hours means that strategies on daily bars
are only evaluated near the times their bars are stamped with; a symbol in two
of the lists of Bollinger bands makes the start fail; VWAP raises on an empty
list of bars, which only `POST /strategy/run` can hand to it, and its stop
without bands is `stop_loss_pct`, where its docstring says `deviation_pct`.

The dashboard's queries, the migrations' text and the scripts hold no state
that the running program shares.  The other ratios a replay reports (Sortino,
Calmar and the size of the Sharpe ratio) decide nothing but are compared by the
calibration, where any combination may win.
