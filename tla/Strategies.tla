----------------------------- MODULE Strategies -----------------------------
(***************************************************************************)
(* The signal generators of                                                *)
(* src/src/polara/research_engine/strategies: what on_bars of each one     *)
(* makes of a sequence of bars, oldest first.  A signal is its strength:   *)
(* 1 buys, -1 sells, 0 stands for None.  The exits a signal carries, which *)
(* the backtester does not look at, are operators of their own.            *)
(*                                                                         *)
(* A bar of a sequence is [open, high, low, close, volume, day, time]:     *)
(* prices are integers, day is the date in New York, and time counts bar   *)
(* lengths since the exchange opened (market_data/session.py).             *)
(*                                                                         *)
(* Decimal quotients are kept as fractions with a positive denominator, so *)
(* every comparison is exact.                                              *)
(***************************************************************************)
EXTENDS Integers, Sequences, SequencesExt, FiniteSetsExt

CONSTANTS
    Params,         \* the parameters of the strategies, a record
    SessionLength   \* bars from the open to the close of a session

ASSUME SessionAssumption == SessionLength \in Nat \ {0}

\* Counts of bars are positive; the other parameters, in their units, are not
\* negative.
ASSUME ParamsAssumption ==
    /\ \A p \in {"fast", "slow", "signal", "period", "bandPeriod", "atrPeriod",
                 "openingBars", "gapBars", "prevDayBars"} : Params[p] \in Nat \ {0}
    /\ \A p \in {"threshold", "oversold", "overbought", "numStd", "touch", "volumeTenths",
                 "multiplierTenths", "minRange", "deviation", "stdMult", "minGap", "maxGap",
                 "stopPct", "takePct", "vwapStop", "stopBuffer", "atrStopTenths"} :
            Params[p] \in Nat

Prices == Nat \ {0}

BarType == [open : Prices, high : Prices, low : Prices, close : Prices,
            volume : Nat, day : Nat, time : Int]

\* The strategies; vwapBands is VWAP with std_mult set.
Kinds == {"ma", "momentum", "rsi", "bollinger", "macd", "emaBounce",
          "supertrend", "orb", "vwap", "vwapBands", "gap", "prevDay"}

Buy == 1
Sell == -1
NoSignal == 0

----------------------------------------------------------------------------
\* Arithmetic.

Frac(n, d) == [num |-> n, den |-> d]
Lt(a, b) == a.num * b.den < b.num * a.den
Le(a, b) == a.num * b.den <= b.num * a.den
Abs(n) == IF n < 0 THEN -n ELSE n
Add(a, b) == a + b
Total(values) == FoldLeft(Add, 0, values)

\* Python's values[-n:].
LastN(seq, n) == SubSeq(seq, Max({1, Len(seq) - n + 1}), Len(seq))
Closes(bars) == [i \in DOMAIN bars |-> bars[i].close]
Volumes(bars) == [i \in DOMAIN bars |-> bars[i].volume]

\* A faulty variant of the next definition: a touch does not count as below.
CrossingStrict(prevA, prevB, nowA, nowB) ==
    IF prevA < prevB /\ nowA > nowB THEN Buy
    ELSE IF prevA > prevB /\ nowA < nowB THEN Sell ELSE NoSignal

\* The first series crosses the second one on the last bar.
Crossing(prevA, prevB, nowA, nowB) ==
    IF prevA <= prevB /\ nowA > nowB THEN Buy
    ELSE IF prevA >= prevB /\ nowA < nowB THEN Sell ELSE NoSignal

----------------------------------------------------------------------------
\* Indicators.

Sma(values, period) == Frac(Total(LastN(values, period)), period)

\* Wilder's average: the mean of the first values, then
\* avg = (avg * (period - 1) + v) / period.
Wilder(values, period) ==
    LET Smooth(avg, v) == Frac(avg.num * (period - 1) + v * avg.den, avg.den * period)
    IN  FoldLeft(Smooth, Frac(Total(SubSeq(values, 1, period)), period),
                 SubSeq(values, period + 1, Len(values)))

TrueRange(bar, prevClose) ==
    Max({bar.high - bar.low, Abs(bar.high - prevClose), Abs(bar.low - prevClose)})

TrueRanges(bars) == [i \in 1 .. Len(bars) - 1 |-> TrueRange(bars[i + 1], bars[i].close)]

Atr(bars, period) ==
    IF Len(bars) < period + 1 THEN Frac(0, 1) ELSE Wilder(TrueRanges(bars), period)

\* An exponential average in units of 1/EmaScale, where every step is exact:
\* the mean of the first values, repeated, then e + 2/(period + 1) * (v - e).
EmaScale(values, period) == period * (period + 1) ^ (Len(values) - period)

Ema(values, period) ==
    LET scale == EmaScale(values, period)
        seed == Total(SubSeq(values, 1, period)) * (scale \div period)
        Next1(series, v) ==
            Append(series, (Last(series) * (period - 1) + 2 * v * scale) \div (period + 1))
    IN  FoldLeft(Next1, [i \in 1 .. period |-> seed], SubSeq(values, period + 1, Len(values)))

\* The index as a fraction, 100 when nothing was lost.
Rsi(bars, period) ==
    LET closes == Closes(bars)
        change == [i \in 1 .. Len(bars) - 1 |-> closes[i + 1] - closes[i]]
        gain == Wilder([i \in DOMAIN change |-> Max({change[i], 0})], period)
        loss == Wilder([i \in DOMAIN change |-> Max({-change[i], 0})], period)
    IN  IF loss.num = 0 THEN Frac(100, 1)
        ELSE Frac(100 * gain.num, gain.num + loss.num)

\* The sign of close - (middle + k * deviation), for k = num or -num standard
\* deviations of the last closes: 1 above that band, 0 on it, -1 below it.
\* Both sides are squared, so no root is taken.
BandSide(closes, period, k) ==
    LET window == LastN(closes, period)
        total == Total(window)
        excess == period * Last(closes) - total
        spread == period * Total([i \in DOMAIN window |-> window[i] * window[i]]) - total * total
        distance == (IF excess < 0 THEN -1 ELSE 1) * excess * excess
        width == (IF k < 0 THEN -1 ELSE 1) * k * k * spread
    IN  IF distance > width THEN 1 ELSE IF distance < width THEN -1 ELSE 0

----------------------------------------------------------------------------
\* Sessions of the exchange (market_data/session.py).

IsSessionBar(bar) == 0 <= bar.time /\ bar.time < SessionLength

\* The bars of a sequence that are among the wanted ones, in their order.
Kept(bars, wanted) ==
    LET Keep(kept, bar) == IF bar \in wanted THEN Append(kept, bar) ELSE kept
    IN  FoldLeft(Keep, <<>>, bars)

SessionBars(bars, day) == Kept(bars, {b \in ToSet(bars) : b.day = day /\ IsSessionBar(b)})

\* The bars of the latest earlier day that has any.
PrevSessionBars(bars, day) ==
    LET days == {b.day : b \in {c \in ToSet(bars) : c.day < day /\ IsSessionBar(c)}}
    IN  IF days = {} THEN <<>> ELSE SessionBars(bars, Max(days))

\* What the bars of an exchange are like, though nothing checks it: they close
\* between their low and their high, ...
ClosesInRange(bars) ==
    \A i \in 1 .. Len(bars) : bars[i].low <= bars[i].close /\ bars[i].close <= bars[i].high

\* ... and are those of whole sessions, none of which is missing.
Unbroken(bars) ==
    /\ \A i \in 1 .. Len(bars) : IsSessionBar(bars[i])
    /\ \A i \in 1 .. Len(bars) - 1 :
        /\ bars[i].day <= bars[i + 1].day
        /\ bars[i].day = bars[i + 1].day => bars[i + 1].time = bars[i].time + 1

Highest(bars) == Max({b.high : b \in ToSet(bars)})
Lowest(bars) == Min({b.low : b \in ToSet(bars)})

----------------------------------------------------------------------------
\* on_bars of each strategy.  Every one of them answers None to fewer bars
\* than it needs.

MaCrossover(bars) ==
    LET closes == Closes(bars)
        fast == Sma(closes, Params.fast)
        slow == Sma(closes, Params.slow)
        fastPrev == Sma(Front(closes), Params.fast)
        slowPrev == Sma(Front(closes), Params.slow)
    IN  Crossing(fastPrev.num * Params.slow, slowPrev.num * Params.fast,
                 fast.num * Params.slow, slow.num * Params.fast)

Roc(closes, period) ==
    LET prior == closes[Len(closes) - period]
    IN  IF prior = 0 THEN Frac(0, 1) ELSE Frac((Last(closes) - prior) * 100, prior)

Momentum(bars) ==
    LET now == Roc(Closes(bars), Params.period)
        prev == Roc(Front(Closes(bars)), Params.period)
        up == Frac(Params.threshold, 1)
        down == Frac(-Params.threshold, 1)
    IN  IF Le(prev, up) /\ Lt(up, now) THEN Buy
        ELSE IF Le(down, prev) /\ Lt(now, down) THEN Sell ELSE NoSignal

RsiReversion(bars) ==
    LET now == Rsi(bars, Params.period)
        prev == Rsi(Front(bars), Params.period)
        oversold == Frac(Params.oversold, 1)
        overbought == Frac(Params.overbought, 1)
    IN  IF Lt(prev, oversold) /\ Le(oversold, now) THEN Buy
        ELSE IF Lt(overbought, prev) /\ Le(now, overbought) THEN Sell ELSE NoSignal

Bollinger(bars) ==
    LET closes == Closes(bars)
        p == Params.bandPeriod
        k == Params.numStd
    IN  IF BandSide(Front(closes), p, -k) >= 0 /\ BandSide(closes, p, -k) < 0 THEN Buy
        ELSE IF BandSide(Front(closes), p, k) <= 0 /\ BandSide(closes, p, k) > 0 THEN Sell
        ELSE NoSignal

\* The average of fast closes less that of slow closes, and its own average.
Macd(bars) ==
    LET closes == Closes(bars)
        fast == Ema(closes, Params.fast)
        slow == Ema(closes, Params.slow)
        line == [i \in DOMAIN closes |-> fast[i] * EmaScale(closes, Params.slow)
                                         - slow[i] * EmaScale(closes, Params.fast)]
        signal == Ema(line, Params.signal)
        scale == EmaScale(line, Params.signal)
        n == Len(line)
    IN  Crossing(line[n - 1] * scale, signal[n - 1], line[n] * scale, signal[n])

\* Touching is close to the slow average, within Params.touch per mille.
EmaBounce(bars) ==
    LET closes == Closes(bars)
        volumes == Volumes(bars)
        n == Len(bars)
        fast == Frac(Last(Ema(closes, Params.fast)), EmaScale(closes, Params.fast))
        slow == Frac(Last(Ema(closes, Params.slow)), EmaScale(closes, Params.slow))
        touches == 1000 * Abs(closes[n] * slow.den - slow.num) <= Params.touch * slow.num
        busy == Total(volumes) > 0
                /\ 10 * n * volumes[n] > Params.volumeTenths * Total(volumes)
    IN  IF slow.num = 0 \/ ~touches \/ ~busy THEN NoSignal
        ELSE IF Lt(slow, fast) /\ closes[n] > closes[n - 1] THEN Buy
        ELSE IF Lt(fast, slow) /\ closes[n] < closes[n - 1] THEN Sell
        ELSE NoSignal

\* A faulty variant of the next definition: the bands have no width.
NoOffset(atr, tenths) == 0

\* multiplier * average, in units of 1/20 of the average's denominator.
BandOffset(atr, tenths) == 2 * tenths * atr.num

\* One average serves the bands of both bars, and the direction of the earlier
\* bar is judged by its own bands.
Supertrend(bars, period, tenths) ==
    LET window == LastN(bars, period + 2)
        atr == Atr(window, period)
        offset == BandOffset(atr, tenths)
        Upper(b) == 10 * (b.high + b.low) * atr.den + offset
        Lower(b) == 10 * (b.high + b.low) * atr.den - offset
        At(b) == 20 * b.close * atr.den
        prev == window[period + 1]
        curr == window[period + 2]
        upper == IF At(prev) <= Upper(prev) THEN Min({Upper(curr), Upper(prev)}) ELSE Upper(curr)
        lower == IF At(prev) >= Lower(prev) THEN Max({Lower(curr), Lower(prev)}) ELSE Lower(curr)
        dirPrev == IF At(prev) > Upper(prev) THEN Buy
                   ELSE IF At(prev) < Lower(prev) THEN Sell ELSE NoSignal
        dirCurr == IF At(curr) > upper THEN Buy
                   ELSE IF At(curr) < lower THEN Sell ELSE dirPrev
    IN  IF atr.num = 0 \/ dirPrev = NoSignal \/ dirCurr = dirPrev THEN NoSignal ELSE dirCurr

\* A faulty variant of the next definition: the first bars of the window.
FirstBars(session) == SubSeq(session, 1, Min({Params.openingBars, Len(session)}))

\* The bars before opening_range_end_utc.
OpeningBars(session) == Kept(session, {b \in ToSet(session) : b.time < Params.openingBars})

\* The first close outside the range of the first bars of the session.
OpeningRange(bars) ==
    LET session == SessionBars(bars, Last(bars).day)
        range == OpeningBars(session)
        last == Last(session)
        prev == session[Len(session) - 1]
        wide == last.close > 0 =>
                    1000 * (Highest(range) - Lowest(range)) >= Params.minRange * last.close
        busy == 10 * Len(range) * last.volume >= Params.volumeTenths * Total(Volumes(range))
    IN  IF Len(session) < Params.openingBars + 1 \/ Len(range) < Params.openingBars
        THEN NoSignal
        ELSE IF ~wide \/ ~(Total(Volumes(range)) > 0 => busy) THEN NoSignal
        ELSE IF last.close > Highest(range) /\ prev.close <= Highest(range) THEN Buy
        ELSE IF last.close < Lowest(range) /\ prev.close >= Lowest(range) THEN Sell
        ELSE NoSignal

\* Three times the typical price of a bar.
Typical(bar) == bar.high + bar.low + bar.close

\* The average price of the session weighted by volume, how far the last close
\* is above it, both in units of 1/(3 * volume), and the variance of the typical
\* price, in units of 1/(9 * volume^3).
SessionVwap(bars) ==
    LET session == SessionBars(bars, Last(bars).day)
        volume == Total(Volumes(session))
        vwap == Total([i \in DOMAIN session |-> Typical(session[i]) * session[i].volume])
        Square(b) == (Typical(b) * volume - vwap) * (Typical(b) * volume - vwap)
    IN  [count |-> Len(session), volume |-> volume, vwap |-> vwap,
         excess |-> 3 * volume * Last(bars).close - vwap,
         variance |-> Total([i \in DOMAIN session |-> session[i].volume * Square(session[i])])]

\* Back to an average price that the close is far from.
Reverting(v, far) ==
    IF v.count < 3 \/ v.volume = 0 \/ v.vwap = 0 \/ ~far THEN NoSignal
    ELSE IF v.excess < 0 THEN Buy ELSE Sell

\* By Params.deviation per mille, when std_mult is None.
Vwap(bars) ==
    LET v == SessionVwap(bars)
    IN  Reverting(v, 1000 * Abs(v.excess) > Params.deviation * v.vwap)

\* By stdMult standard deviations; both sides are squared.
VwapBands(bars) ==
    LET v == SessionVwap(bars)
        width == Params.stdMult * Params.stdMult * v.variance
    IN  Reverting(v, v.variance > 0 /\ v.excess * v.excess * v.volume > width)

\* On the first bar of a session, against the gap since the last one.
GapFill(bars) ==
    LET today == SessionBars(bars, Last(bars).day)
        before == PrevSessionBars(bars, Last(bars).day)
        close == Last(before).close
        gap == today[1].open - close
    IN  IF Len(today) # 1 \/ before = <<>> THEN NoSignal
        ELSE IF 1000 * Abs(gap) <= Params.minGap * close THEN NoSignal
        ELSE IF Params.maxGap > 0 /\ 1000 * Abs(gap) > Params.maxGap * close THEN NoSignal
        ELSE IF gap > 0 THEN Sell ELSE Buy

\* A close outside the previous session's range, on more than its volume.
PrevDayBreakout(bars) ==
    LET today == SessionBars(bars, Last(bars).day)
        before == PrevSessionBars(bars, Last(bars).day)
        last == Last(today)
        volume == Total(Volumes(before))
        busy == volume > 0 /\ 10 * Len(before) * last.volume > Params.volumeTenths * volume
    IN  IF today = <<>> \/ before = <<>> \/ ~busy THEN NoSignal
        ELSE IF last.close > Highest(before) THEN Buy
        ELSE IF last.close < Lowest(before) THEN Sell
        ELSE NoSignal

----------------------------------------------------------------------------
\* A faulty variant of the next definition: the bar before is not counted.
BarsForOneValue(kind) ==
    CASE kind = "ma" -> Params.slow
      [] kind = "momentum" -> Params.period + 1
      [] kind = "rsi" -> Params.period + 1
      [] kind = "bollinger" -> Params.bandPeriod
      [] kind = "macd" -> Params.slow + Params.signal
      [] kind = "emaBounce" -> Params.slow
      [] kind = "supertrend" -> Params.atrPeriod + 1
      [] kind = "orb" -> Params.openingBars
      [] kind \in {"vwap", "vwapBands"} -> 2
      [] kind = "gap" -> Params.gapBars - 1
      [] kind = "prevDay" -> Params.prevDayBars - 1

\* bars_needed.  The constants 20 and 40 of the last two are parameters.
BarsNeeded(kind) ==
    CASE kind = "ma" -> Params.slow + 1
      [] kind = "momentum" -> Max({Params.period + 2, Params.atrPeriod + 2})
      [] kind = "rsi" -> Params.period + 2
      [] kind = "bollinger" -> Max({Params.bandPeriod + 1, Params.atrPeriod + 2})
      [] kind = "macd" -> Params.slow + Params.signal + 1
      [] kind = "emaBounce" -> Params.slow + 1
      [] kind = "supertrend" -> Params.atrPeriod + 2
      [] kind = "orb" -> Params.openingBars + 1
      [] kind \in {"vwap", "vwapBands"} -> 3
      [] kind = "gap" -> Params.gapBars
      [] kind = "prevDay" -> Max({Params.prevDayBars, Params.atrPeriod + 2})

OnBars(kind, bars) ==
    IF bars = <<>> \/ (kind \notin {"orb", "vwap", "vwapBands"} /\ Len(bars) < BarsNeeded(kind))
    THEN NoSignal
    ELSE CASE kind = "ma" -> MaCrossover(bars)
           [] kind = "momentum" -> Momentum(bars)
           [] kind = "rsi" -> RsiReversion(bars)
           [] kind = "bollinger" -> Bollinger(bars)
           [] kind = "macd" -> Macd(bars)
           [] kind = "emaBounce" -> EmaBounce(bars)
           [] kind = "supertrend" -> Supertrend(bars, Params.atrPeriod, Params.multiplierTenths)
           [] kind = "orb" -> OpeningRange(bars)
           [] kind = "vwap" -> Vwap(bars)
           [] kind = "vwapBands" -> VwapBands(bars)
           [] kind = "gap" -> GapFill(bars)
           [] kind = "prevDay" -> PrevDayBreakout(bars)

\* The bars a live round hands to on_bars: the scheduler asks for bars_needed.
Live(kind, bars) == OnBars(kind, LastN(bars, BarsNeeded(kind)))
----------------------------------------------------------------------------
\* The exits of a signal that on_bars gave to these bars: stop_loss_pct and
\* take_profit_pct, with the price they refer to; None is a numerator of 0.

Configured == [stop |-> Frac(Params.stopPct, 1), take |-> Frac(Params.takePct, 1)]

ReferencePrice(kind, bars) ==
    LET session == SessionBars(bars, Last(bars).day)
    IN  CASE kind = "gap" -> session[1].open
          [] kind \in {"orb", "prevDay"} -> Last(session).close
          [] OTHER -> Last(bars).close

\* atr_stop_multiplier averages of the range, over the price.
AtrStop(bars, price, otherwise) ==
    LET atr == Atr(bars, Params.atrPeriod)
    IN  IF Params.atrStopTenths = 0 \/ atr.num = 0 THEN otherwise
        ELSE Frac(Params.atrStopTenths * atr.num, 10 * atr.den * price)

\* A faulty variant of the next definition: the side the price has just left.
NearStop(bars, side) ==
    LET range == OpeningBars(SessionBars(bars, Last(bars).day))
        near == IF side = Buy THEN Highest(range) ELSE Lowest(range)
        close == ReferencePrice("orb", bars)
    IN  Frac(1000 * Abs(close - near) + Params.stopBuffer * close, 1000 * close)

\* The far side of the opening range, and a buffer.
RangeStop(bars, side) ==
    LET range == OpeningBars(SessionBars(bars, Last(bars).day))
        far == IF side = Buy THEN Lowest(range) ELSE Highest(range)
        close == ReferencePrice("orb", bars)
    IN  Frac(1000 * Abs(close - far) + Params.stopBuffer * close, 1000 * close)

\* What is left of the deviation from the average price beyond the allowed one.
VwapTake(bars) ==
    LET v == SessionVwap(bars)
    IN  Frac(1000 * Abs(v.excess) - Params.deviation * v.vwap, 1000 * v.vwap)

\* The standard deviation, in units of 1/(3 * volume) and rounded down to them; of
\* no use beyond the distance of the close.
Deviation(v) == Max({r \in 0 .. Abs(v.excess) : r * r * v.volume <= v.variance})

\* The band on the other side, over the price, and what is left to the band on this
\* side, over the average.  (The stop of a signal is positive, so the fixed one that
\* would replace it is not needed.)
BandExits(bars) ==
    LET v == SessionVwap(bars)
        band == Params.stdMult * Deviation(v)
    IN  [stop |-> Frac(Abs(v.excess) + band, 3 * v.volume * Last(bars).close),
         take |-> Frac(Abs(v.excess) - band, v.vwap)]

\* What is left of the gap beyond the least one.
GapTake(bars) ==
    LET close == Last(PrevSessionBars(bars, Last(bars).day)).close
        open == SessionBars(bars, Last(bars).day)[1].open
    IN  Frac(1000 * Abs(open - close) - Params.minGap * close, 1000 * close)

SignalExits(kind, bars, side) ==
    LET atr(otherwise) == AtrStop(bars, ReferencePrice(kind, bars), otherwise)
    IN  CASE kind \in {"momentum", "bollinger"} ->
                [Configured EXCEPT !.stop = atr(Configured.stop)]
          [] kind = "prevDay" -> [stop |-> atr(Frac(1, 100)), take |-> Frac(0, 1)]
          [] kind = "orb" -> [stop |-> RangeStop(bars, side), take |-> Frac(0, 1)]
          [] kind = "vwap" -> [stop |-> Frac(Params.vwapStop, 1000), take |-> VwapTake(bars)]
          [] kind = "vwapBands" -> BandExits(bars)
          [] kind = "gap" -> [stop |-> Frac(Params.minGap, 1000), take |-> GapTake(bars)]
          [] OTHER -> Configured
=============================================================================
