----------------------------- MODULE Backtester -----------------------------
(***************************************************************************)
(* The replay of a strategy over stored bars: Backtester.run of            *)
(* src/src/polara/backtester/engine.py, one action for each bar of its     *)
(* loop.  The window handed to on_bars grows from bar to bar, orders fill  *)
(* at the open of the next bar, and only long positions are taken.  The    *)
(* verdict of the run takes the Sharpe ratio, of which only the sign is    *)
(* modelled; the other ratios reported beside it decide nothing, and only  *)
(* what they are made of is.                                               *)
(***************************************************************************)
EXTENDS Strategies, ExitPrices

CONSTANTS
    Histories,      \* Histories[kind]: the stored bars a replay may be given
    Capital,        \* STARTING_CAPITAL
    SideFee,        \* commission_per_side
    ShareFee,       \* IBKR_COMMISSION_PER_SHARE
    PositionSize,   \* position_size_usd, 0 for None
    MaxFall         \* max_drawdown_pct

ASSUME BacktestAssumption ==
    /\ Capital \in Nat \ {0} /\ SideFee \in Nat /\ ShareFee \in Nat
    /\ PositionSize \in Nat /\ MaxFall \in 0 .. 100
    /\ \A k \in Kinds : BarsNeeded(k) \in Nat /\ Histories[k] \subseteq Seq(BarType)

VARIABLES
    kind,       \* the strategy
    bars,       \* what the store answered
    seen,       \* the length of the window handed to on_bars next
    cash,
    position,   \* the open position, or Flat
    trades,     \* the trades closed so far
    equity,     \* the equity curve
    entryFees,  \* the commission of each entry so far: a history variable
    signal,     \* what on_bars answers to that window
    lastSignal, \* the last signal that was not None: a history variable
    passed,     \* the verdict
    phase

inputs == <<kind, bars>>
account == <<cash, position, trades, equity, entryFees>>
vars == <<inputs, account, seen, signal, lastSignal, passed, phase>>

Flat == [shares |-> 0, price |-> 0, at |-> 0]

Positions == {Flat} \cup [shares : Nat \ {0}, price : Nat, at : Nat]

TradeType == [entry : Nat, exit : Nat, price : Prices, exitPrice : Prices, pnl : Int]

TypeOK ==
    /\ kind \in Kinds /\ bars \in Seq(BarType)
    /\ seen \in Nat
    /\ cash \in Int
    /\ position \in Positions
    /\ trades \in Seq(TradeType)
    /\ equity \in Seq(Int)
    /\ entryFees \in Seq(Nat)
    /\ signal \in {Buy, Sell, NoSignal} /\ lastSignal \in {Buy, Sell, NoSignal}
    /\ passed \in BOOLEAN
    /\ phase \in {"replay", "refused", "done"}

Init ==
    /\ kind \in Kinds
    /\ bars \in Histories[kind]
    /\ phase = IF Len(bars) < BarsNeeded(kind) + 2 THEN "refused" ELSE "replay"
    /\ seen = BarsNeeded(kind) + 1
    /\ cash = Capital
    /\ position = Flat
    /\ trades = <<>>
    /\ equity = <<Capital>>
    /\ entryFees = <<>>
    /\ signal = OnBars(kind, SubSeq(bars, 1, seen))
    /\ lastSignal = NoSignal
    /\ passed = FALSE

----------------------------------------------------------------------------
\* _compute_max_drawdown, a fraction of the peak: each value is compared with
\* the highest one so far.

\* The peak and the deepest fall once v is on the curve too.
Fallen(acc, v) ==
    LET peak == Max({acc.peak, v})
        fall == Frac(peak - v, peak)
    IN  [peak |-> peak,
         worst |-> IF peak > 0 /\ Lt(acc.worst, fall) THEN fall ELSE acc.worst]

\* A faulty variant of the next definition: the peak is the first value.
DrawdownFromStart(curve) ==
    LET Deeper(worst, v) ==
            IF curve[1] > 0 /\ Lt(worst, Frac(curve[1] - v, curve[1]))
            THEN Frac(curve[1] - v, curve[1]) ELSE worst
    IN  FoldLeft(Deeper, Frac(0, 1), curve)

MaxDrawdown(curve) ==
    FoldLeft(Fallen, [peak |-> curve[1], worst |-> Frac(0, 1)], Tail(curve)).worst

\* The returns of the curve from bar to bar, by the bar they start from, each as
\* new value over old one.  A curve that goes below 0 needs none: it has fallen
\* by more than its peak, and may not pass.
Growth(curve) ==
    [i \in {j \in 1 .. Len(curve) - 1 : curve[j] # 0} |-> Frac(curve[i + 1], curve[i])]

Plus(a, b) == Frac(a.num * b.den + b.num * a.den, a.den * b.den)

MeanIsPositive(growth) ==
    Lt(Frac(Cardinality(DOMAIN growth), 1), FoldFunction(Plus, Frac(0, 1), growth))

\* A faulty variant of the next definition: returns that do not vary will do.
SharpeNotNegative(curve) ==
    LET growth == Growth(curve)
    IN  Le(Frac(Cardinality(DOMAIN growth), 1), FoldFunction(Plus, Frac(0, 1), growth))

\* _compute_sharpe is above 0: there are returns, they vary, and their mean is
\* positive.
SharpeIsPositive(curve) ==
    LET growth == Growth(curve)
    IN  /\ Len(curve) >= 3 /\ Cardinality(DOMAIN growth) >= 2
        /\ \E i, j \in DOMAIN growth : Lt(growth[i], growth[j])
        /\ MeanIsPositive(growth)

\* The Sharpe ratio reaches min_sharpe, which is positive, and no fall of the
\* curve goes beyond max_drawdown_pct.
MayPass(curve) == SharpeIsPositive(curve) /\ Le(MaxDrawdown(curve), Frac(MaxFall, 100))

----------------------------------------------------------------------------
\* _get_commission
Fee(shares) == IF PositionSize = 0 THEN SideFee ELSE Max({SideFee, ShareFee * shares})

\* A faulty variant of the next definition: none when the price is too high.
WholeShares(price) == IF PositionSize = 0 THEN 1 ELSE PositionSize \div price

SharesFor(price) == IF PositionSize = 0 THEN 1 ELSE Max({1, PositionSize \div price})

Window == SubSeq(bars, 1, seen)
FillPrice == bars[seen + 1].open

\* Marked at the close of the bar of the signal, also when the position was
\* entered at the open of the bar after it.
Marked(money, held) == money + (bars[seen].close - held.price) * held.shares

\* A faulty variant of the next definition: any signal to buy enters.
EntersAgain == signal = Buy

Enters == signal = Buy /\ position = Flat
Exits == signal = Sell /\ position # Flat

\* A faulty variant of the next definition: the sale is free.
GrossProfit(price) == (price - position.price) * position.shares

\* What a position earns when it is sold, less the commission of the sale.
Profit(price) == (price - position.price) * position.shares - Fee(position.shares)

TradeAt(at, price) ==
    [entry |-> position.at, exit |-> at, price |-> position.price,
     exitPrice |-> price, pnl |-> (price - position.price) * position.shares
                                      - Fee(position.shares)]

Remembered == IF signal = NoSignal THEN lastSignal ELSE signal

\* One turn of the loop, which goes on while there is a bar to fill at.
Turn ==
    /\ phase = "replay" /\ seen < Len(bars)
    /\ seen' = seen + 1
    /\ signal' = OnBars(kind, SubSeq(bars, 1, seen + 1))
    /\ lastSignal' = Remembered
    /\ UNCHANGED <<inputs, passed, phase>>

EnterLong ==
    /\ Enters /\ Turn
    /\ position' = [shares |-> SharesFor(FillPrice), price |-> FillPrice, at |-> seen + 1]
    /\ cash' = cash - Fee(position'.shares)
    /\ entryFees' = Append(entryFees, Fee(position'.shares))
    /\ equity' = Append(equity, Marked(cash', position'))
    /\ UNCHANGED trades

ExitLong ==
    /\ Exits /\ Turn
    /\ trades' = Append(trades, TradeAt(seen + 1, FillPrice))
    /\ cash' = cash + Profit(FillPrice)
    /\ position' = Flat
    /\ equity' = Append(equity, cash')
    /\ UNCHANGED entryFees

Hold ==
    /\ ~Enters /\ ~Exits /\ Turn
    /\ equity' = Append(equity, Marked(cash, position))
    /\ UNCHANGED <<cash, position, trades, entryFees>>

\* After the loop the position that is left is sold at the last close.
Finish ==
    /\ phase = "replay" /\ seen = Len(bars)
    /\ phase' = "done"
    /\ position' = Flat
    /\ IF position = Flat THEN UNCHANGED <<cash, trades>>
       ELSE /\ trades' = Append(trades, TradeAt(Len(bars), Last(bars).close))
            /\ cash' = cash + Profit(Last(bars).close)
    /\ equity' = Append(equity, cash')
    /\ passed' \in {FALSE, MayPass(equity')}
    /\ UNCHANGED <<inputs, entryFees, seen, signal, lastSignal>>

Next == EnterLong \/ ExitLong \/ Hold \/ Finish

Spec == Init /\ [][Next]_vars

Gained(trade) == Max({trade.pnl, 0})
Lost(trade) == Max({-trade.pnl, 0})

\* What a result reports, but for quotients of these.
Report ==
    [numTrades |-> Len(trades),
     winning |-> Cardinality({i \in DOMAIN trades : trades[i].pnl > 0}),
     losing |-> Cardinality({i \in DOMAIN trades : trades[i].pnl < 0}),
     profit |-> Total([i \in DOMAIN trades |-> Gained(trades[i])]),
     loss |-> Total([i \in DOMAIN trades |-> Lost(trades[i])]),
     gain |-> Last(equity) - Capital]

----------------------------------------------------------------------------
\* What some of the properties need of the parameters and the bars, and the
\* code takes for granted.

\* The fast average is the one over fewer bars: so it is in every grid and by
\* default.
FastIsFaster == Params.fast <= Params.slow

ClosesAreInRange == \A k \in Kinds : \A b \in Histories[k] : ClosesInRange(b)

SessionsAreUnbroken == \A k \in {"orb", "gap", "prevDay"} : \A b \in Histories[k] : Unbroken(b)

----------------------------------------------------------------------------
\* Properties

\* The money a replay ends with is what its trades earned, less the entry
\* commissions, which no trade's profit includes: the profits a result
\* reports (profit factor, average trade) add up to more than its return.
Reconciled ==
    /\ cash = Capital + Report.profit - Report.loss - Total(entryFees)
    /\ phase = "done" => Report.gain = Report.profit - Report.loss - Total(entryFees)

\* The trades of a replay never overlap, none is entered before a signal could
\* be had, and none is left open when the replay is done: one position at a
\* time, each entry sold exactly once, at a later bar or at the last close.
OnePositionAtATime ==
    /\ \A i \in DOMAIN trades :
        /\ BarsNeeded(kind) + 1 < trades[i].entry /\ trades[i].entry <= trades[i].exit
        /\ i > 1 => trades[i - 1].exit < trades[i].entry
    /\ position # Flat /\ trades # <<>> => Last(trades).exit < position.at
    /\ Len(entryFees) = Len(trades) + (IF position = Flat THEN 0 ELSE 1)
    /\ phase = "done" => position = Flat /\ Last(equity) = cash

\* The drawdown a result reports is a fall from a value of the curve to a later
\* one, in terms of the earlier one, and the deepest of them: following one
\* peak misses nothing, as long as the account is not overdrawn.  (Below 0 a
\* lower value falls further than the peak, in its own terms.)
DrawdownIsDeepest ==
    LET worst == MaxDrawdown(equity)
        Fall(p) == Frac(equity[p[1]] - equity[p[2]], equity[p[1]])
        pairs == {p \in (DOMAIN equity) \X (DOMAIN equity) : p[1] <= p[2] /\ equity[p[1]] > 0}
    IN  phase = "done" =>
            /\ (\A i \in DOMAIN equity : equity[i] >= 0) => \A p \in pairs : Le(Fall(p), worst)
            /\ \E p \in pairs : Le(worst, Fall(p))

\* Nothing passes by doing nothing: a result that lets a strategy be promoted
\* has trades, and a curve that somewhere rose and nowhere fell too far.
PassedTraded ==
    LET fell(i, j) == 100 * (equity[i] - equity[j]) > MaxFall * equity[i]
    IN  passed =>
            /\ Report.numTrades > 0
            /\ \E i \in 2 .. Len(equity) : equity[i] > equity[i - 1]
            /\ ~\E i, j \in DOMAIN equity : i < j /\ equity[i] > 0 /\ fell(i, j)

\* A signal that measures its exits off the bars has them, on their sides of the
\* price and not at it, whatever is rounded: what the filters of on_bars let
\* through leaves room for a stop and, where the strategy aims at a price, for a
\* take-profit.  The stop of a breakout is never nearer than the narrowest
\* opening range that is accepted, and the buffer.  (Exits that are settings are
\* wherever they are set.)
ExitsBracket ==
    LET side == IF signal = Buy THEN "buy" ELSE "sell"
        exits == SignalExits(kind, Window, signal)
        price == 100 * ReferencePrice(kind, Window)
        stop == StopPrice(side, price, exits.stop)
        take == TakePrice(side, price, exits.take)
        narrowest == Frac(Params.minRange + Params.stopBuffer, 1000)
    IN  phase = "replay" /\ signal # NoSignal =>
            /\ kind \in {"orb", "prevDay", "vwapBands"} => signal * stop < signal * price
            /\ kind \in {"vwap", "vwapBands", "gap"} => signal * price < signal * take
            /\ kind = "orb" => Le(narrowest, exits.stop)

\* "Falls back to fixed 1% stop": the stop of a breakout of the previous day's
\* range, without a multiple of the average range, is 1% from the price.
FixedStop ==
    LET side == IF signal = Buy THEN "buy" ELSE "sell"
        price == 100 * ReferencePrice("prevDay", Window)
        stop == StopPrice(side, price, SignalExits("prevDay", Window, signal).stop)
    IN  phase = "replay" /\ kind = "prevDay" /\ signal # NoSignal /\ Params.atrStopTenths = 0
            => 100 * Abs(price - stop) >= price

\* A crossing is never missed, not even one that passes through equality: as
\* long as the last signal of a crossover strategy was to buy, its fast series
\* has not fallen below the slow one, and the other way round.
CrossoverSide ==
    LET closes == Closes(SubSeq(bars, 1, seen - 1))
        fast == Sma(closes, Params.fast)
        slow == Sma(closes, Params.slow)
    IN  kind = "ma" /\ phase # "refused" =>
            /\ lastSignal = Buy => Le(slow, fast)
            /\ lastSignal = Sell => Le(fast, slow)

\* Strategies whose signal depends on a bounded number of bars.
WindowKinds == {"ma", "momentum", "bollinger", "supertrend"}

LiveWindowsAgree == kind \in WindowKinds /\ phase # "refused" => Live(kind, Window) = signal

\* The window holds the sessions that two other strategies look at: that of the
\* day and the one before it.  (The 20 bars of GapFill hold the last bar of the
\* day before; the 40 bars of PrevDayBreakout hold two sessions of 30 minute
\* bars, not of 15.)
SessionsCovered ==
    /\ kind = "gap" => Params.gapBars >= 2
    /\ kind = "prevDay" => Params.prevDayBars >= 2 * SessionLength

LiveSessionsAgree ==
    kind \in {"gap", "prevDay"} /\ phase # "refused" /\ SessionsCovered
        => Live(kind, Window) = signal

\* What the replay validated is what trades: on_bars answers the same to the
\* growing window of the replay and to the bars_needed latest bars of a live
\* round, for the first strategies whatever the bars, for the other two if no
\* bar of a session is missing.  (It does not for the rest: their averages and
\* sessions start with the window.)
LiveAgrees == LiveWindowsAgree /\ LiveSessionsAgree

\* Live, a breakout of the opening range is only ever seen on the first bar
\* after it: the window holds no more bars, and later ones push the opening
\* out of it.
LiveBreakoutIsFirst ==
    kind = "orb" /\ phase # "refused" /\ Live(kind, Window) # NoSignal
        => Last(Window).time = Params.openingBars

\* With a multiplier this large against the period no two consecutive bars can
\* both leave their bands, since their ranges are part of the average the
\* bands are made of: Supertrend never signals, whatever the prices.  The
\* defaults, period 10 and multiplier 3, are such.
BandsTooWide(period, tenths) == 2 * tenths * (2 * period - 1) >= 10 * period * period

SupertrendSilent == \A period \in 1 .. seen - 2, tenths \in {3, 7, 10} :
    kind = "supertrend" /\ phase # "refused" /\ BandsTooWide(period, tenths)
        => Supertrend(Window, period, tenths) = NoSignal
=============================================================================
