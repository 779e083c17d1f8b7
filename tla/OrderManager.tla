---------------------------- MODULE OrderManager -----------------------------
(***************************************************************************)
(* OrderManager.process_signal (src/src/polara/order_manager/manager.py)   *)
(* run by several callers at once: the scheduler task and any number of    *)
(* POST /strategy/run requests share one OrderManager, one event loop and  *)
(* no lock.  A call gives up the loop at each await, so it is a step per   *)
(* await; what lies between two awaits is one action.                      *)
(*                                                                         *)
(*   idle --CheckStatus--> account --GetAccount--> positions               *)
(*        --GetPositions--> evaluate --Evaluate--> submit --Submit-->      *)
(*   record --RecordOrder--> signal --RecordSignal--> count                *)
(*        --CountPending--> idle                                           *)
(*                                                                         *)
(* The broker is seen as the OrderManager sees it: a position and the      *)
(* unfilled quantity of the working orders of each side, per symbol.       *)
(***************************************************************************)
EXTENDS RiskGuard, FiniteSets

CONSTANTS
    Callers,            \* tasks that call process_signal
    Symbols,
    Strategies,
    Signals,            \* [strategy, symbol, strength (percent), price (0: none)]
    NoSignal, NoAccount,
    AvgCost,            \* average cost per share of a position, by symbol
    PositionSize,       \* position_size_usd, 0 when it is not set
    MinOrderQuantity,
    Target,             \* the quantity each symbol should have: only properties use it
    WholeExits,         \* TRUE: a position is always closed in one fill
    MaxOrders, MaxFaults, MaxRestarts    \* bounds

Sides == {"buy", "sell"}

ASSUME ManagerAssumption ==
    /\ NoSignal \notin Signals
    /\ NoAccount \notin Accounts
    /\ Signals \subseteq [strategy : Strategies, symbol : Symbols,
                          strength : -100 .. 100, price : Nat]
    /\ AvgCost \in [Symbols -> Nat]
    /\ PositionSize \in Nat
    /\ MinOrderQuantity \in Nat \ {0}
    /\ Target \in [Symbols -> Nat]
    /\ WholeExits \in BOOLEAN
    /\ MaxOrders \in Nat /\ MaxFaults \in Nat /\ MaxRestarts \in Nat
    /\ IsFiniteSet(Callers)

VARIABLES
    status,      \* the strategies table: TRUE when the status is 'live'
    account,     \* the account as the broker knows it
    cache,       \* BrokerAdapter._account_cache
    held,        \* the position of each symbol, negative when short
    working,     \* unfilled quantity at the broker, by symbol and side
    pending,     \* OrderManager._pending, 0 for a missing key
    call,        \* the local variables of each caller's process_signal
    issued,      \* number of order ids made so far (uuid4)
    atBroker,    \* ids of the orders the broker accepted
    rows,        \* ids with a row in orders
    signalRows,  \* ids with a row in signal_orders
    faults, restarts,
    \* History: the last day this process halted, how many orders of each
    \* caller the broker took later that day, and how many for each strategy
    \* since it stopped being live.
    haltDay, late, stray

broker == <<held, working, atBroker>>
database == <<status, rows, signalRows>>
history == <<haltDay, late, stray>>
counters == <<issued, faults, restarts>>
vars == <<guardVars, account, cache, pending, call, broker, database, history, counters>>

Steps == {"idle", "account", "positions", "evaluate", "submit", "record", "signal", "count"}
Flat == [s \in Symbols |-> 0]
Idle == [pc |-> "idle", sig |-> NoSignal, account |-> NoAccount,
         positions |-> Flat, delta |-> 0, order |-> 0]

CallType == [pc : Steps, sig : Signals \cup {NoSignal}, account : Accounts \cup {NoAccount},
             positions : [Symbols -> Int], delta : Nat, order : Nat]

CallTypeOK ==
    /\ call \in [Callers -> CallType]
    /\ \A c \in Callers :
          /\ call[c].pc # "idle" => call[c].sig \in Signals
          /\ call[c].pc \notin {"idle", "account"} => call[c].account \in Accounts

TypeOK ==
    /\ GuardTypeOK
    /\ CallTypeOK
    /\ status \in [Strategies -> BOOLEAN]
    /\ account \in Accounts
    /\ cache \in Accounts \cup {NoAccount}
    /\ held \in [Symbols -> Int]
    /\ working \in [Symbols -> [Sides -> Nat]]
    /\ pending \in [Symbols -> Nat]
    /\ issued \in Nat
    /\ atBroker \subseteq Nat /\ rows \subseteq Nat /\ signalRows \subseteq Nat
    /\ faults \in Nat /\ restarts \in Nat
    /\ haltDay \in Days \cup {NoDate}
    /\ late \in [Callers -> Nat]
    /\ stray \in [Strategies -> [Callers -> Nat]]

NoneLate == [c \in Callers |-> 0]

Init ==
    /\ GuardInit
    /\ status \in [Strategies -> BOOLEAN]
    /\ account \in Accounts
    /\ cache = NoAccount
    /\ held = Flat
    /\ working = [s \in Symbols |-> [d \in Sides |-> 0]]
    /\ pending = Flat
    /\ call = [c \in Callers |-> Idle]
    /\ issued = 0 /\ atBroker = {} /\ rows = {} /\ signalRows = {}
    /\ faults = 0 /\ restarts = 0
    /\ haltDay = NoDate
    /\ late = NoneLate
    /\ stray = [k \in Strategies |-> NoneLate]

----------------------------------------------------------------------------
\* Sizing, in units of 1/QuantaPerShare share.

\* _compute_quantity before its minimum test: a notional over the price,
\* rounded down, or one share when the signal has no price.
Quantity(sig, a) ==
    IF sig.price = 0 THEN QuantaPerShare
    ELSE IF PositionSize > 0 THEN (PositionSize * QuantaPerShare) \div sig.price
    ELSE LET strength == IF sig.strength < 0 THEN -sig.strength ELSE sig.strength
         IN  (a.nav * MaxPositionPct * strength * QuantaPerShare) \div (10000 * sig.price)

\* Faulty variants of the next definition: the entry shrinks by what is held,
\* and an entry goes as soon as anything is held.
ReducedByHeld(p, positions) == [s \in Symbols |-> p[s] - positions[s]]
ClearedByAnyFill(p, positions) ==
    [s \in Symbols |-> IF positions[s] > 0 THEN 0 ELSE p[s]]

\* _reconcile_pending: entries no larger than the held quantity are deleted.
Reconciled(p, positions) ==
    [s \in Symbols |-> IF positions[s] >= p[s] THEN 0 ELSE p[s]]

\* A faulty variant of the next definition: in-flight orders do not count.
MissingFromPosition(target, holding, inFlight) ==
    IF target > holding THEN target - holding ELSE 0

\* _compute_delta
Delta(target, holding, inFlight) ==
    IF target - holding > inFlight THEN target - holding - inFlight ELSE 0

Side(sig) == IF sig.strength > 0 THEN "buy" ELSE "sell"

----------------------------------------------------------------------------
\* process_signal, await by await.

\* Every early return and every exception ends the call; nothing is undone.
Return(c) == call' = [call EXCEPT ![c] = Idle]

At(c, step) == call[c].pc = step

\* A faulty variant of the next definition: the status is not looked at.
AnyStatus(k) == TRUE

MayTrade(k) == status[k]

\* A signal reaches process_signal and its strategy's status is read.
CheckStatus(c) == \E sig \in Signals :
    /\ At(c, "idle")
    /\ MayTrade(sig.strategy)
    /\ call' = [call EXCEPT ![c] = [Idle EXCEPT !.pc = "account", !.sig = sig]]
    /\ UNCHANGED <<guardVars, account, cache, pending, broker, database, history, counters>>

\* get_account: the cached record while it is young enough, else a request
\* whose answer is cached.
GetAccount(c) ==
    /\ At(c, "account")
    /\ \E a \in {cache, account} \ {NoAccount} :
          /\ call' = [call EXCEPT ![c].pc = "positions", ![c].account = a]
          /\ cache' = a
    /\ UNCHANGED <<guardVars, account, pending, broker, database, history, counters>>

\* get_positions: what is held when the broker answers.
GetPositions(c) ==
    /\ At(c, "positions")
    /\ call' = [call EXCEPT ![c].pc = "evaluate", ![c].positions = held]
    /\ UNCHANGED <<guardVars, account, cache, pending, broker, database, history, counters>>

\* The synchronous middle of process_signal: pending entries are reconciled
\* with the positions read, the risk checks run, the order is sized.
Evaluate(c) ==
    LET sig == call[c].sig
        a == call[c].account
        s == sig.symbol
        holding == call[c].positions[s]
        target == Quantity(sig, a)
        delta == Delta(target, holding, pending'[s])
        passes == /\ ~DailyLossRaises(a)
                  /\ ~PositionRaises(holding, AvgCost[s], a)
                  /\ target >= MinOrderQuantity
                  /\ delta >= MinOrderQuantity
        halts == guard' # guard /\ guard'.halted
    IN  /\ At(c, "evaluate")
        /\ pending' = Reconciled(pending, call[c].positions)
        /\ guard' = AfterDailyLoss(a)
        /\ haltDay' = IF halts THEN today ELSE haltDay
        /\ late' = IF halts THEN NoneLate ELSE late
        /\ \/ passes /\ call' = [call EXCEPT ![c].pc = "submit", ![c].delta = delta]
           \/ ~passes /\ Return(c)
        /\ UNCHANGED <<today, account, cache, broker, database, stray, counters>>

\* The broker takes the order of caller c.
Accept(c) ==
    LET sig == call[c].sig
    IN  /\ At(c, "submit")
        /\ issued < MaxOrders
        /\ issued' = issued + 1
        /\ working' = [working EXCEPT ![sig.symbol][Side(sig)] = @ + call[c].delta]
        /\ atBroker' = atBroker \cup {issued + 1}
        /\ late' = IF today = haltDay THEN [late EXCEPT ![c] = @ + 1] ELSE late
        /\ stray' = IF status[sig.strategy] THEN stray
                    ELSE [stray EXCEPT ![sig.strategy][c] = @ + 1]
        /\ UNCHANGED <<guardVars, account, cache, held, pending, database, haltDay, restarts>>

\* cp.place_orders answers with the broker's id.
Submit(c) ==
    /\ Accept(c)
    /\ call' = [call EXCEPT ![c].pc = "record", ![c].order = issued + 1]
    /\ UNCHANGED faults

\* The broker takes the order and the answer is lost: the request raises.
SubmitTimesOut(c) ==
    /\ faults < MaxFaults
    /\ Accept(c)
    /\ Return(c)
    /\ faults' = faults + 1

\* The answer holds no order_id (an error body, a second confirmation): the
\* adapter goes on as if the order had been taken.
SubmitRefused(c) ==
    /\ At(c, "submit")
    /\ faults < MaxFaults /\ issued < MaxOrders
    /\ faults' = faults + 1
    /\ issued' = issued + 1
    /\ call' = [call EXCEPT ![c].pc = "record", ![c].order = issued + 1]
    /\ UNCHANGED <<guardVars, account, cache, pending, broker, database, history, restarts>>

\* A faulty variant of the next definition: the insert is not committed.
RecordOrderUncommitted(c) ==
    /\ At(c, "record")
    /\ call' = [call EXCEPT ![c].pc = "signal"]
    /\ UNCHANGED <<guardVars, account, cache, pending, broker, database, history, counters>>

\* place_order and place_bracket_order insert into orders and commit.
RecordOrder(c) ==
    /\ At(c, "record")
    /\ rows' = rows \cup {call[c].order}
    /\ call' = [call EXCEPT ![c].pc = "signal"]
    /\ UNCHANGED <<guardVars, account, cache, pending, broker, status, signalRows, history, counters>>

\* process_signal inserts into signal_orders and commits.
RecordSignal(c) ==
    /\ At(c, "signal")
    /\ signalRows' = signalRows \cup {call[c].order}
    /\ call' = [call EXCEPT ![c].pc = "count"]
    /\ UNCHANGED <<guardVars, account, cache, pending, broker, status, rows, history, counters>>

\* The session is closed; only now does the order count as in flight.
CountPending(c) ==
    /\ At(c, "count")
    /\ pending' = [pending EXCEPT ![call[c].sig.symbol] = @ + call[c].delta]
    /\ Return(c)
    /\ UNCHANGED <<guardVars, account, cache, broker, database, history, counters>>

\* The gateway is not connected, or a request before the order is sent fails.
Abort(c) ==
    /\ call[c].pc \in {"account", "positions", "submit"}
    /\ Return(c)
    /\ UNCHANGED <<guardVars, account, cache, pending, broker, database, history, counters>>

\* An insert or commit raises: the order stays at the broker.
WriteFails(c) ==
    /\ call[c].pc \in {"record", "signal"}
    /\ faults < MaxFaults
    /\ faults' = faults + 1
    /\ Return(c)
    /\ UNCHANGED <<guardVars, account, cache, pending, broker, database, history, issued, restarts>>

Process(c) ==
    \/ CheckStatus(c) \/ GetAccount(c) \/ GetPositions(c) \/ Evaluate(c)
    \/ Submit(c) \/ SubmitTimesOut(c) \/ SubmitRefused(c)
    \/ RecordOrder(c) \/ RecordSignal(c) \/ CountPending(c)
    \/ Abort(c) \/ WriteFails(c)

----------------------------------------------------------------------------
\* What goes on around the calls.

Signed(d, q) == IF d = "buy" THEN q ELSE -q

\* Some of the working quantity is filled.
Fill(s, d) == \E q \in 1 .. working[s][d] :
    /\ working' = [working EXCEPT ![s][d] = @ - q]
    /\ held' = [held EXCEPT ![s] = @ + Signed(d, q)]
    /\ UNCHANGED <<guardVars, account, cache, pending, call, atBroker, database, history, counters>>

\* Some of it is cancelled, rejected, or expires at the end of the day.
Die(s, d) == \E q \in 1 .. working[s][d] :
    /\ working' = [working EXCEPT ![s][d] = @ - q]
    /\ UNCHANGED <<guardVars, account, cache, held, pending, call, atBroker, database, history, counters>>

\* A stop or take-profit child reduces the position.
Close(s) ==
    LET size == IF held[s] < 0 THEN -held[s] ELSE held[s]
    IN  \E q \in 1 .. size :
          /\ WholeExits => q = size
          /\ held' = [held EXCEPT ![s] = IF @ < 0 THEN @ + q ELSE @ - q]
          /\ UNCHANGED <<guardVars, account, cache, working, pending, call, atBroker, database,
                         history, counters>>

\* PromotionGate.promote and .demote, as process_signal sees them.
SetStatus(k) ==
    /\ status' = [status EXCEPT ![k] = ~@]
    /\ stray' = [stray EXCEPT ![k] = NoneLate]
    /\ UNCHANGED <<guardVars, account, cache, pending, call, broker, rows, signalRows, haltDay,
                   late, counters>>

\* Profit and loss move.
MoveAccount ==
    /\ account' \in Accounts
    /\ UNCHANGED <<guardVars, cache, pending, call, broker, database, history, counters>>

\* The P&L loop replaces the cached account (get_account, force_refresh).
RefreshCache ==
    /\ cache' = account
    /\ UNCHANGED <<guardVars, account, pending, call, broker, database, history, counters>>

Midnight ==
    /\ NextDay
    /\ late' = NoneLate
    /\ UNCHANGED <<guard, account, cache, pending, call, broker, database, haltDay, stray, counters>>

\* The process stops at any point and starts again: what was in memory is gone.
Restart ==
    /\ restarts < MaxRestarts
    /\ restarts' = restarts + 1
    /\ guard' = Unhalted
    /\ cache' = NoAccount
    /\ pending' = Flat
    /\ call' = [c \in Callers |-> Idle]
    /\ haltDay' = NoDate
    /\ late' = NoneLate
    /\ UNCHANGED <<today, account, broker, database, stray, issued, faults>>

Environment ==
    \/ \E s \in Symbols : Close(s) \/ \E d \in Sides : Fill(s, d) \/ Die(s, d)
    \/ \E k \in Strategies : SetStatus(k)
    \/ MoveAccount \/ RefreshCache \/ Midnight \/ Restart

Next == Environment \/ \E c \in Callers : Process(c)

Spec == Init /\ [][Next]_vars

----------------------------------------------------------------------------
\* Properties

BuySymbols == {s \in Symbols : \A g \in Signals : g.symbol = s => Side(g) = "buy"}

\* What is held and what is still working to be bought never exceeds the
\* target of a symbol that is only bought: _compute_delta orders only what is
\* missing, and an order in flight is in _pending until it shows in held.
SizingBound == \A s \in BuySymbols : held[s] + working[s]["buy"] <= Target[s]

Sizing == INSTANCE PositionSizing WITH
    Symbols <- BuySymbols,
    held <- [s \in BuySymbols |-> held[s]],
    open <- [s \in BuySymbols |-> working[s]["buy"]]

\* The whole promise of delta sizing: every step of the OrderManager is an
\* order for no more than is missing, a fill, the death of an order, an exit,
\* or invisible.
SizingSpec == Sizing!Spec

\* The same promise for a symbol that is sold short.
ShortSizingBound == \A s \in Symbols : working[s]["sell"] - held[s] <= Target[s]

\* The most check_position_size lets a position be when an order is sent.
PositionLimit(s, nav) == (MaxPositionPct * nav * QuantaPerShare) \div (100 * AvgCost[s])

\* Both sides are sized by one formula that ignores the side: a sell adds to
\* _pending and a short position counts as a lack, so each fill of a short
\* makes room for another sell.  What stops it is the position check: no
\* position and its working orders go past the limit by more than one target.
ExposureBound == \A s \in Symbols : \A a \in Accounts :
    /\ held[s] + working[s]["buy"] <= PositionLimit(s, a.nav) + Target[s]
    /\ working[s]["sell"] - held[s] <= PositionLimit(s, a.nav) + Target[s]

\* A call that passed the risk checks before the daily loss halt may still
\* submit afterwards, at most one order per caller, and the caller that found
\* the loss submits none: with one caller a halt is immediate.
HaltBoundsLateOrders ==
    today = haltDay => /\ \A c \in Callers : late[c] <= 1
                       /\ \E c \in Callers : late[c] = 0

\* A call that read 'live' before a demotion may still submit afterwards, at
\* most one order per caller until the strategy is live again.
DemotionBoundsLateOrders ==
    \A k \in Strategies : ~status[k] => \A c \in Callers : stray[k][c] <= 1

\* The tables account for the broker's orders: a signal_orders row has its
\* orders row, and an order the broker has and orders lacks is still on its
\* way there or was lost to a failure or a restart.
AuditTrail ==
    /\ signalRows \subseteq rows
    /\ Cardinality(atBroker \ (rows \cup {call[c].order : c \in Callers}))
          <= faults + restarts * Cardinality(Callers)
=============================================================================
