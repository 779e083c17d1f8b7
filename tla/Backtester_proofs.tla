-------------------------- MODULE Backtester_proofs --------------------------
(***************************************************************************)
(* Safety of a replay for every strategy, every history of bars, every     *)
(* capital and all commissions.                                            *)
(***************************************************************************)
EXTENDS Backtester, Strategies_proofs

----------------------------------------------------------------------------
\* Helpers.

Signals == {Buy, Sell, NoSignal}

\* Every strategy answers with a signal or with none.
LEMMA SignalType == ASSUME NEW k \in Kinds, NEW w PROVE OnBars(k, w) \in Signals
<1>1. MaCrossover(w) \in Signals /\ Macd(w) \in Signals
  BY DEF MaCrossover, Macd, Crossing, Signals
<1>2. Momentum(w) \in Signals /\ RsiReversion(w) \in Signals /\ Bollinger(w) \in Signals
  BY Zenon DEF Momentum, RsiReversion, Bollinger, Signals
<1>3. EmaBounce(w) \in Signals /\ PrevDayBreakout(w) \in Signals
  BY Zenon DEF EmaBounce, PrevDayBreakout, Signals
<1>8. GapFill(w) \in Signals
  BY DEF GapFill, Signals
<1>4. Supertrend(w, Params.atrPeriod, Params.multiplierTenths) \in Signals
  BY Zenon DEF Supertrend, Signals
<1>5. OpeningRange(w) \in Signals
  BY Zenon DEF OpeningRange, Signals
<1>6. Vwap(w) \in Signals /\ VwapBands(w) \in Signals
  BY Zenon DEF Vwap, VwapBands, Reverting, Signals
<1>7. NoSignal \in Signals
  BY DEF Signals
<1> QED BY <1>1, <1>2, <1>3, <1>4, <1>5, <1>6, <1>7, <1>8 DEF OnBars, Kinds

\* A position has at least one share, and its commission is not negative.
LEMMA SharesType ==
    ASSUME NEW price \in Prices
    PROVE  SharesFor(price) \in Nat \ {0}
<1>1. PositionSize \div price \in Int
  BY BacktestAssumption DEF Prices
<1>2. /\ Max({1, PositionSize \div price}) \in Int
      /\ Max({1, PositionSize \div price}) >= 1
  <2>1. 1 \in Int
    OBVIOUS
  <2>2. /\ Max({1, PositionSize \div price}) \in {1, PositionSize \div price}
        /\ Max({1, PositionSize \div price}) >= 1
    BY <1>1, <2>1, MaxOfTwo
  <2> QED BY <1>1, <2>2
<1> QED BY <1>2 DEF SharesFor

LEMMA FeeType == ASSUME NEW shares \in Nat PROVE Fee(shares) \in Nat
<1>1. ShareFee * shares \in Nat /\ SideFee \in Nat
  BY BacktestAssumption
<1> DEFINE byShares == ShareFee * shares
<1>2. byShares \in Int /\ SideFee \in Int
  BY <1>1
<1> HIDE DEF byShares
<1>3. Max({SideFee, byShares}) \in {SideFee, byShares}
  BY <1>2, MaxOfTwo
<1>4. Max({SideFee, ShareFee * shares}) \in Nat
  BY <1>1, <1>3 DEF byShares
<1> QED BY <1>1, <1>4 DEF Fee

----------------------------------------------------------------------------
\* Types.

\* What the types of bars and trades say of their fields.
LEMMA BarFacts ==
    ASSUME TypeOK, NEW i \in 1 .. Len(bars)
    PROVE  bars[i].open \in Prices /\ bars[i].close \in Prices
<1>1. bars \in Seq(BarType)
  BY DEF TypeOK
<1>2. bars[i] \in BarType
  BY <1>1
<1> QED BY <1>2 DEF BarType

LEMMA TradeFacts ==
    ASSUME TypeOK, NEW i \in 1 .. Len(trades)
    PROVE  trades[i].entry \in Nat /\ trades[i].exit \in Nat
<1>1. trades \in Seq(TradeType)
  BY DEF TypeOK
<1>2. trades[i] \in TradeType
  BY <1>1
<1> QED BY <1>2 DEF TradeType

\* The number of bars seen stays within those there are.
SeenOK == phase # "refused" => seen \in BarsNeeded(kind) + 1 .. Len(bars)

\* What a turn reads, once it is enabled.
LEMMA TurnFacts ==
    ASSUME TypeOK, SeenOK, Turn
    PROVE  /\ seen \in Nat /\ seen + 1 \in 1 .. Len(bars) /\ seen \in 1 .. Len(bars)
           /\ BarsNeeded(kind) \in Nat /\ BarsNeeded(kind) + 1 <= seen
           /\ FillPrice \in Prices /\ bars[seen].close \in Prices
           /\ signal' \in Signals /\ lastSignal' \in Signals
           /\ seen' = seen + 1 /\ seen' \in Nat
           /\ UNCHANGED <<kind, bars, passed, phase>> /\ phase = "replay"
<1>1. BarsNeeded(kind) \in Nat /\ Len(bars) \in Nat
  BY BacktestAssumption DEF TypeOK
<1>2. seen \in BarsNeeded(kind) + 1 .. Len(bars) /\ seen < Len(bars) /\ phase = "replay"
  BY DEF Turn, SeenOK
<1>3. /\ seen \in Nat /\ seen + 1 \in 1 .. Len(bars) /\ seen \in 1 .. Len(bars)
      /\ BarsNeeded(kind) + 1 <= seen
  BY <1>1, <1>2
<1>4. bars[seen + 1] \in BarType /\ bars[seen] \in BarType
  BY <1>3 DEF TypeOK
<1>5. FillPrice \in Prices /\ bars[seen].close \in Prices
  BY <1>4 DEF FillPrice, BarType
<1>6. signal' \in Signals
  BY SignalType DEF Turn, TypeOK
<1>7. lastSignal' \in Signals
  BY <1>6 DEF Turn, Remembered, TypeOK, Signals
<1> QED BY <1>1, <1>2, <1>3, <1>5, <1>6, <1>7 DEF Turn, inputs

\* What is held is worth an integer.
LEMMA MarkedType ==
    ASSUME TypeOK, seen \in 1 .. Len(bars), NEW money \in Int, NEW held \in Positions
    PROVE  Marked(money, held) \in Int
<1>1. bars[seen].close \in Int
  BY BarFacts DEF Prices
<1>2. held.shares \in Int /\ held.price \in Int
  BY DEF Positions, Flat
<1> QED BY <1>1, <1>2 DEF Marked

\* An open position is closed by a trade of its type, for an integer profit.
LEMMA SaleType ==
    ASSUME TypeOK, position # Flat, NEW price \in Prices, NEW at \in Nat,
           position.price \in Prices
    PROVE  TradeAt(at, price) \in TradeType /\ Profit(price) \in Int
<1>1. position.shares \in Nat /\ position.price \in Nat /\ position.at \in Nat
  BY DEF TypeOK, Positions
<1>2. Fee(position.shares) \in Nat
  BY <1>1, FeeType
<1>3. (price - position.price) * position.shares - Fee(position.shares) \in Int
  BY <1>1, <1>2 DEF Prices
<1> QED BY <1>1, <1>3 DEF TradeAt, TradeType, Profit

\* The type invariant, with what it needs to be kept by every step.
Typed == TypeOK /\ SeenOK /\ (position # Flat => position.price \in Prices)

LEMMA InitTyped == Init => Typed
<1> SUFFICES ASSUME Init PROVE Typed
  OBVIOUS
<1>1. kind \in Kinds /\ bars \in Seq(BarType) /\ BarsNeeded(kind) \in Nat /\ Len(bars) \in Nat
  BY BacktestAssumption DEF Init
<1>2. TypeOK
  <2>1. cash \in Int /\ equity \in Seq(Int) /\ seen \in Nat
    BY <1>1, BacktestAssumption DEF Init
  <2>2. trades \in Seq(TradeType) /\ entryFees \in Seq(Nat) /\ position \in Positions
    BY DEF Init, Positions
  <2>3. signal \in {Buy, Sell, NoSignal}
    BY <1>1, SignalType DEF Init, Signals
  <2> QED BY <1>1, <2>1, <2>2, <2>3 DEF Init, TypeOK
<1>3. SeenOK
  BY <1>1 DEF Init, SeenOK
<1> QED BY <1>2, <1>3 DEF Init, Typed

LEMMA NextTyped == Typed /\ [Next]_vars => Typed'
<1> SUFFICES ASSUME Typed, [Next]_vars PROVE Typed'
  OBVIOUS
<1>0. TypeOK /\ SeenOK /\ (position # Flat => position.price \in Prices)
  BY DEF Typed
<1>1. ASSUME Turn PROVE SeenOK'
  BY <1>0, <1>1, TurnFacts DEF SeenOK
<1>2. CASE EnterLong
  <2>1. Turn
    BY <1>2 DEF EnterLong
  <2>2. /\ position'.shares \in Nat \ {0} /\ position'.price \in Prices
        /\ position' \in Positions
    BY <1>0, <1>2, <2>1, TurnFacts, SharesType DEF EnterLong, Positions, Prices
  <2>3. Fee(position'.shares) \in Nat
    BY <2>2, FeeType
  <2>4. cash' \in Int /\ entryFees' \in Seq(Nat)
    BY <1>0, <1>2, <2>3 DEF EnterLong, TypeOK
  <2>5. Marked(cash', position') \in Int
    BY <1>0, <2>1, <2>2, <2>4, TurnFacts, MarkedType
  <2>6. equity' \in Seq(Int) /\ trades' = trades
    BY <1>0, <1>2, <2>5 DEF EnterLong, TypeOK
  <2> QED BY <1>0, <1>1, <2>1, <2>2, <2>4, <2>6, TurnFacts DEF TypeOK, Typed, Signals
<1>3. CASE ExitLong
  <2>1. Turn /\ position # Flat
    BY <1>3 DEF ExitLong, Exits
  <2>2. TradeAt(seen + 1, FillPrice) \in TradeType /\ Profit(FillPrice) \in Int
    BY <1>0, <2>1, TurnFacts, SaleType
  <2>3. cash' \in Int /\ trades' \in Seq(TradeType) /\ position' = Flat /\ entryFees' = entryFees
    BY <1>0, <1>3, <2>2 DEF ExitLong, TypeOK
  <2>4. equity' \in Seq(Int)
    BY <1>0, <1>3, <2>3 DEF ExitLong, TypeOK
  <2> QED BY <1>0, <1>1, <2>1, <2>3, <2>4, TurnFacts DEF TypeOK, Typed, Signals, Positions
<1>4. CASE Hold
  <2>1. Turn
    BY <1>4 DEF Hold
  <2>2. Marked(cash, position) \in Int
    BY <1>0, <2>1, TurnFacts, MarkedType DEF TypeOK
  <2>3. equity' \in Seq(Int) /\ UNCHANGED <<cash, position, trades, entryFees>>
    BY <1>0, <1>4, <2>2 DEF Hold, TypeOK
  <2> QED BY <1>0, <1>1, <2>1, <2>3, TurnFacts DEF TypeOK, Typed, Signals
<1>5. CASE Finish
  <2>1. /\ phase = "replay" /\ seen = Len(bars) /\ phase' = "done" /\ position' = Flat
        /\ UNCHANGED <<kind, bars, entryFees, seen, signal, lastSignal>>
    BY <1>5 DEF Finish, inputs
  <2>2. Len(bars) \in 1 .. Len(bars) /\ Len(bars) \in Nat
    BY <1>0, <2>1, BacktestAssumption DEF SeenOK, TypeOK
  <2>3. Last(bars).close \in Prices
    BY <1>0, <2>2, BarFacts DEF Last
  <2>4. cash' \in Int /\ trades' \in Seq(TradeType)
    <3>1. CASE position = Flat
      BY <1>0, <1>5, <3>1 DEF Finish, TypeOK
    <3>2. CASE position # Flat
      <4>1. TradeAt(Len(bars), Last(bars).close) \in TradeType /\ Profit(Last(bars).close) \in Int
        BY <1>0, <2>2, <2>3, <3>2, SaleType
      <4>2. cash \in Int /\ trades \in Seq(TradeType)
        BY <1>0 DEF TypeOK
      <4>3. /\ trades' = Append(trades, TradeAt(Len(bars), Last(bars).close))
            /\ cash' = cash + Profit(Last(bars).close)
        BY <1>5, <3>2 DEF Finish
      <4> QED BY <4>1, <4>2, <4>3
    <3> QED BY <3>1, <3>2
  <2>5. equity' \in Seq(Int)
    BY <1>0, <1>5, <2>4 DEF Finish, TypeOK
  <2>6. MayPass(equity') \in BOOLEAN
    BY DEF MayPass
  <2>7. passed' \in BOOLEAN
    BY <1>5, <2>6 DEF Finish
  <2>8. SeenOK'
    BY <1>0, <2>1 DEF SeenOK
  <2> QED BY <1>0, <2>1, <2>4, <2>5, <2>7, <2>8 DEF TypeOK, Typed, Positions
<1>6. CASE UNCHANGED vars
  BY <1>0, <1>6 DEF vars, inputs, account, TypeOK, SeenOK, Typed
<1> QED BY <1>2, <1>3, <1>4, <1>5, <1>6 DEF Next

\* Every variable of a replay keeps its type: no price, commission or size
\* makes it leave the integers, or hold a position without a share.
THEOREM ReplayType == Spec => []TypeOK
<1>1. Typed => TypeOK
  BY DEF Typed
<1> QED BY <1>1, InitTyped, NextTyped, PTL DEF Spec

----------------------------------------------------------------------------
\* One position at a time.

\* What OnePositionAtATime needs: nothing was entered or sold at a bar that the
\* loop has not come to.
OneByOne ==
    /\ OnePositionAtATime
    /\ phase = "replay" =>
        /\ \A i \in DOMAIN trades : trades[i].exit <= seen
        /\ position # Flat => BarsNeeded(kind) + 1 < position.at /\ position.at <= seen
    /\ phase = "refused" => position = Flat

\* Trades follow each other, none is entered before a signal could be had, and
\* none is left open at the end.
THEOREM OneAtATime == Spec => []OnePositionAtATime
<1>1. Init => OneByOne
  BY DEF Init, OneByOne, OnePositionAtATime
<1>2. Typed /\ OneByOne /\ [Next]_vars => OneByOne'
  <2> SUFFICES ASSUME Typed, OneByOne, [Next]_vars PROVE OneByOne'
    OBVIOUS
  <2>0. /\ TypeOK /\ SeenOK /\ OnePositionAtATime
        /\ Len(trades) \in Nat /\ Len(entryFees) \in Nat
        /\ DOMAIN trades = 1 .. Len(trades)
        /\ trades = << >> <=> Len(trades) = 0
        /\ trades # << >> => Last(trades) = trades[Len(trades)]
        /\ position # Flat => position.price \in Prices
    BY DEF Typed, OneByOne, TypeOK, Last
  <2>1. ASSUME NEW at \in Nat, NEW price \in Prices, position # Flat, phase = "replay",
               trades' = Append(trades, TradeAt(at, price)), kind' = kind,
               seen <= at
        PROVE  /\ \A i \in DOMAIN trades' :
                    /\ BarsNeeded(kind) + 1 < trades'[i].entry /\ trades'[i].entry <= trades'[i].exit
                    /\ i > 1 => trades'[i - 1].exit < trades'[i].entry
                    /\ trades'[i].exit <= at
               /\ Len(trades') = Len(trades) + 1
    <3>1. /\ Len(trades') = Len(trades) + 1 /\ DOMAIN trades' = 1 .. Len(trades) + 1
          /\ \A i \in 1 .. Len(trades) : trades'[i] = trades[i]
          /\ trades'[Len(trades) + 1] = TradeAt(at, price)
      <4>1. TradeAt(at, price) \in TradeType /\ trades \in Seq(TradeType)
        BY <2>0, <2>1, SaleType DEF TypeOK
      <4> QED BY <2>1, <4>1, AppendFacts
    <3>2. TradeAt(at, price).entry = position.at /\ TradeAt(at, price).exit = at
      BY DEF TradeAt
    <3>3. /\ BarsNeeded(kind) + 1 < position.at /\ position.at <= seen
          /\ position.at \in Nat /\ seen \in Nat /\ BarsNeeded(kind) \in Nat
      BY <2>0, <2>1, BacktestAssumption DEF OneByOne, TypeOK, Positions
    <3>4. \A i \in 1 .. Len(trades) :
              /\ BarsNeeded(kind) + 1 < trades[i].entry /\ trades[i].entry <= trades[i].exit
              /\ i > 1 => trades[i - 1].exit < trades[i].entry
              /\ trades[i].exit <= seen /\ trades[i].exit \in Nat
      BY <2>0, <2>1, TradeFacts DEF OneByOne, OnePositionAtATime
    <3>5. Len(trades) # 0 => trades[Len(trades)].exit < position.at
      BY <2>0, <2>1 DEF OnePositionAtATime
    <3>6. ASSUME NEW i \in DOMAIN trades'
          PROVE  /\ BarsNeeded(kind) + 1 < trades'[i].entry /\ trades'[i].entry <= trades'[i].exit
                 /\ i > 1 => trades'[i - 1].exit < trades'[i].entry
                 /\ trades'[i].exit <= at
      <4>1. CASE i = Len(trades) + 1
        <5>1. trades'[i].entry = position.at /\ trades'[i].exit = at
          BY <3>1, <3>2, <4>1
        <5>2. i > 1 => trades'[i - 1] = trades[Len(trades)] /\ Len(trades) # 0
          BY <2>0, <3>1, <4>1
        <5>3. position.at <= at
          BY <2>1, <3>3
        <5> QED BY <2>1, <3>3, <3>5, <5>1, <5>2, <5>3
      <4>2. CASE i # Len(trades) + 1
        <5>1. i \in 1 .. Len(trades)
          BY <2>0, <3>1, <4>2
        <5>2. trades'[i] = trades[i] /\ (i > 1 => trades'[i - 1] = trades[i - 1])
          BY <2>0, <3>1, <5>1
        <5>3. trades[i].exit <= at
          BY <2>1, <3>3, <3>4, <5>1
        <5> QED BY <3>4, <5>1, <5>2, <5>3
      <4> QED BY <4>1, <4>2
    <3> QED BY <3>1, <3>6
  <2>2. CASE EnterLong
    <3>1. Turn /\ position = Flat
      BY <2>2 DEF EnterLong, Enters
    <3>2. /\ seen \in Nat /\ BarsNeeded(kind) \in Nat /\ BarsNeeded(kind) + 1 <= seen
          /\ seen' = seen + 1 /\ kind' = kind /\ phase' = "replay" /\ phase = "replay"
      BY <2>0, <3>1, TurnFacts
    <3>3. position'.at = seen + 1 /\ trades' = trades /\ position' # Flat
      <4>1. SharesFor(FillPrice) # 0
        BY <2>0, <3>1, TurnFacts, SharesType
      <4> QED BY <2>2, <4>1 DEF EnterLong, Flat
    <3>4. Len(entryFees') = Len(entryFees) + 1
      <4>1. Fee(position'.shares) \in Nat
        BY <2>0, <2>2, <3>1, TurnFacts, SharesType, FeeType DEF EnterLong
      <4> QED BY <2>0, <2>2, <4>1, AppendFacts DEF EnterLong, TypeOK
    <3>5. \A i \in DOMAIN trades : trades[i].exit <= seen /\ trades[i].exit \in Nat
      BY <2>0, <3>2, TradeFacts DEF OneByOne
    <3>6. \A i \in DOMAIN trades : trades[i].exit <= seen + 1 /\ trades[i].exit < seen + 1
      BY <3>2, <3>5
    <3>7. trades # << >> => Last(trades).exit < seen + 1
      BY <2>0, <3>6
    <3>8. BarsNeeded(kind) + 1 < seen + 1
      BY <3>2
    <3>9. Len(entryFees) = Len(trades)
      BY <2>0, <3>1 DEF OnePositionAtATime
    <3> QED BY <2>0, <3>2, <3>3, <3>4, <3>6, <3>7, <3>8, <3>9 DEF OneByOne, OnePositionAtATime
  <2>3. CASE ExitLong
    <3>1. Turn /\ position # Flat
      BY <2>3 DEF ExitLong, Exits
    <3>2. /\ seen \in Nat /\ seen + 1 \in Nat /\ seen <= seen + 1 /\ FillPrice \in Prices
          /\ seen' = seen + 1 /\ kind' = kind /\ phase' = "replay" /\ phase = "replay"
      BY <2>0, <3>1, TurnFacts
    <3>3. /\ trades' = Append(trades, TradeAt(seen + 1, FillPrice))
          /\ position' = Flat /\ entryFees' = entryFees
      BY <2>3 DEF ExitLong
    <3>4. Len(entryFees) = Len(trades) + 1
      BY <2>0, <3>1 DEF OnePositionAtATime
    <3> QED BY <2>1, <3>1, <3>2, <3>3, <3>4 DEF OneByOne, OnePositionAtATime
  <2>4. CASE Hold
    <3>1. /\ seen \in Nat /\ BarsNeeded(kind) \in Nat
          /\ seen' = seen + 1 /\ kind' = kind /\ phase' = "replay" /\ phase = "replay"
      BY <2>0, <2>4, TurnFacts DEF Hold
    <3>2. UNCHANGED <<position, trades, entryFees>>
      BY <2>4 DEF Hold
    <3>3. \A i \in DOMAIN trades : trades[i].exit <= seen /\ trades[i].exit \in Nat
      BY <2>0, <3>1, TradeFacts DEF OneByOne
    <3>4. position # Flat => position.at \in Nat
      BY <2>0 DEF TypeOK, Positions
    <3> QED BY <3>1, <3>2, <3>3, <3>4 DEF OneByOne, OnePositionAtATime
  <2>5. CASE Finish
    <3>1. /\ phase = "replay" /\ seen = Len(bars) /\ phase' = "done" /\ position' = Flat
          /\ kind' = kind /\ entryFees' = entryFees /\ equity' = Append(equity, cash')
      BY <2>5 DEF Finish, inputs
    <3>2. Last(equity') = cash'
      BY <2>0, <3>1, NextTyped, AppendFacts DEF TypeOK, Typed
    <3>3. CASE position = Flat
      <4>1. trades' = trades
        BY <2>5, <3>3 DEF Finish
      <4> QED BY <2>0, <3>1, <3>2, <3>3, <4>1 DEF OneByOne, OnePositionAtATime
    <3>4. CASE position # Flat
      <4>1. trades' = Append(trades, TradeAt(Len(bars), Last(bars).close))
        BY <2>5, <3>4 DEF Finish
      <4>2. seen \in 1 .. Len(bars) /\ Len(bars) \in Nat
        BY <2>0, <3>1, BacktestAssumption DEF SeenOK, TypeOK
      <4>3. Last(bars).close \in Prices
        BY <2>0, <4>2, BarFacts DEF Last
      <4>4. Len(entryFees) = Len(trades) + 1
        BY <2>0, <3>4 DEF OnePositionAtATime
      <4>5. seen <= Len(bars)
        BY <4>2
      <4> QED BY <2>1, <3>1, <3>2, <3>4, <4>1, <4>2, <4>3, <4>4, <4>5
              DEF OneByOne, OnePositionAtATime
    <3> QED BY <3>3, <3>4
  <2>6. CASE UNCHANGED vars
    BY <2>6 DEF vars, inputs, account, OneByOne, OnePositionAtATime
  <2> QED BY <2>2, <2>3, <2>4, <2>5, <2>6 DEF Next
<1>3. OneByOne => OnePositionAtATime
  BY DEF OneByOne
<1> QED BY <1>1, <1>2, <1>3, InitTyped, NextTyped, PTL DEF Spec

----------------------------------------------------------------------------
\* Exit prices.

\* Rounding away from the price never crosses it: whatever the price and the
\* percentage, the stop of an order is not above the price of a purchase, nor
\* below that of a sale, and its take-profit is on the other side.
THEOREM ExitsOnTheirSides ==
    ASSUME NEW price \in Nat, NEW num \in Nat, NEW den \in Nat \ {0}
    PROVE  /\ StopPrice("buy", price, Frac(num, den)) <= price
           /\ TakePrice("buy", price, Frac(num, den)) >= price
           /\ StopPrice("sell", price, Frac(num, den)) >= price
           /\ TakePrice("sell", price, Frac(num, den)) <= price
<1> DEFINE n == price * num
           d == 100 * den
<1>1. n \in Nat /\ d \in Nat \ {0}
  OBVIOUS
<1>2. Distance(price, Frac(num, den)) = -((-n) \div d)
  BY DEF Distance, Frac
<1> HIDE DEF n, d
<1>3. (-n) \div d \in Int /\ (-n) \div d <= 0
  BY <1>1
<1> QED BY <1>2, <1>3 DEF StopPrice, TakePrice, Below, Above

\* One trade more adds what it gained to the profits, and what it lost to the losses.
LEMMA TradeMore ==
    ASSUME NEW ts \in Seq(TradeType), NEW t \in TradeType
    PROVE  LET more == Append(ts, t)
               gains == [i \in DOMAIN ts |-> Gained(ts[i])]
               losses == [i \in DOMAIN ts |-> Lost(ts[i])]
           IN  /\ Total([i \in DOMAIN more |-> Gained(more[i])]) = Total(gains) + Gained(t)
               /\ Total([i \in DOMAIN more |-> Lost(more[i])]) = Total(losses) + Lost(t)
               /\ Total(gains) \in Int /\ Total(losses) \in Int
               /\ Gained(t) \in Int /\ Lost(t) \in Int /\ Gained(t) - Lost(t) = t.pnl
<1> DEFINE more == Append(ts, t)
           gains == [i \in DOMAIN ts |-> Gained(ts[i])]
           losses == [i \in DOMAIN ts |-> Lost(ts[i])]
           n == Len(ts)
<1>1. /\ n \in Nat /\ DOMAIN ts = 1 .. n /\ \A i \in 1 .. n : ts[i] \in TradeType
      /\ DOMAIN more = 1 .. n + 1 /\ more[n + 1] = t /\ \A i \in 1 .. n : more[i] = ts[i]
  OBVIOUS
<1>2. ASSUME NEW u \in TradeType
      PROVE  Gained(u) \in Int /\ Lost(u) \in Int /\ Gained(u) - Lost(u) = u.pnl
  <2>1. u.pnl \in Int /\ -u.pnl \in Int /\ 0 \in Int
    BY DEF TradeType
  <2>2. /\ Max({u.pnl, 0}) \in {u.pnl, 0} /\ Max({u.pnl, 0}) >= u.pnl /\ Max({u.pnl, 0}) >= 0
        /\ Max({-u.pnl, 0}) \in {-u.pnl, 0} /\ Max({-u.pnl, 0}) >= -u.pnl
        /\ Max({-u.pnl, 0}) >= 0
    BY <2>1, MaxOfTwo
  <2> QED BY <2>1, <2>2 DEF Gained, Lost
<1>3. gains \in Seq(Int) /\ losses \in Seq(Int) /\ Len(gains) = n /\ Len(losses) = n
  BY <1>1, <1>2
<1> HIDE DEF more
<1>4. /\ [i \in DOMAIN more |-> Gained(more[i])] = Append(gains, Gained(t))
      /\ [i \in DOMAIN more |-> Lost(more[i])] = Append(losses, Lost(t))
  <2> DEFINE allGains == [i \in DOMAIN more |-> Gained(more[i])]
             allLosses == [i \in DOMAIN more |-> Lost(more[i])]
  <2>1. \A i \in 1 .. n + 1 : i \in 1 .. n \/ i = n + 1
    BY <1>1
  <2>2. \A i \in 1 .. n + 1 : more[i] \in TradeType
    BY <1>1, <2>1
  <2>3. /\ allGains \in Seq(Int) /\ Len(allGains) = n + 1
        /\ allLosses \in Seq(Int) /\ Len(allLosses) = n + 1
    BY <1>1, <1>2, <2>2
  <2>4. /\ \A i \in 1 .. n : allGains[i] = gains[i] /\ allLosses[i] = losses[i]
        /\ allGains[n + 1] = Gained(t) /\ allLosses[n + 1] = Lost(t)
    BY <1>1, <2>1
  <2> HIDE DEF allGains, allLosses, gains, losses, n
  <2>5. allGains = Append(gains, Gained(t)) /\ allLosses = Append(losses, Lost(t))
    BY <1>1, <1>2, <1>3, <2>1, <2>3, <2>4
  <2> QED BY <2>5 DEF allGains, allLosses
<1> HIDE DEF gains, losses
<1>5. /\ Total(Append(gains, Gained(t))) = Total(gains) + Gained(t)
      /\ Total(Append(losses, Lost(t))) = Total(losses) + Lost(t)
      /\ Total(gains) \in Int /\ Total(losses) \in Int
  BY <1>2, <1>3, TotalAppend, TotalType
<1> QED BY <1>2, <1>4, <1>5 DEF more, gains, losses

\* The sums of a report are integers.
LEMMA SumsType ==
    ASSUME TypeOK
    PROVE  Report.profit \in Int /\ Report.loss \in Int /\ Total(entryFees) \in Int
<1>1. \A u \in TradeType : Gained(u) \in Int /\ Lost(u) \in Int
  BY TradeMore DEF TypeOK
<1>2. /\ [i \in DOMAIN trades |-> Gained(trades[i])] \in Seq(Int)
      /\ [i \in DOMAIN trades |-> Lost(trades[i])] \in Seq(Int)
  BY <1>1 DEF TypeOK
<1>3. entryFees \in Seq(Int)
  BY SeqOfMore DEF TypeOK
<1> QED BY <1>2, <1>3, TotalType DEF Report

\* The first half of Reconciled, which every step keeps.
Books == cash = Capital + Report.profit - Report.loss - Total(entryFees)

\* What a sale does to the books.
LEMMA SaleBooked ==
    ASSUME Typed, Books, position # Flat, NEW at \in Nat, NEW price \in Prices,
           trades' = Append(trades, TradeAt(at, price)),
           cash' = cash + Profit(price), entryFees' = entryFees
    PROVE  Books'
<1>1. TypeOK /\ position.price \in Prices
  BY DEF Typed
<1>2. TradeAt(at, price) \in TradeType /\ Profit(price) \in Int /\ trades \in Seq(TradeType)
  BY <1>1, SaleType DEF TypeOK
<1>3. TradeAt(at, price).pnl = Profit(price)
  BY DEF TradeAt, Profit
<1>5. Total(entryFees) \in Int /\ Capital \in Int /\ cash \in Int
  BY <1>1, SumsType, BacktestAssumption DEF TypeOK
<1> DEFINE t == TradeAt(at, price)
<1>6. /\ Report'.profit = Report.profit + Gained(t) /\ Report'.loss = Report.loss + Lost(t)
      /\ Report.profit \in Int /\ Report.loss \in Int
      /\ Gained(t) \in Int /\ Lost(t) \in Int /\ Gained(t) - Lost(t) = t.pnl
  <2>1. t \in TradeType /\ trades' = Append(trades, t)
    BY <1>2
  <2> HIDE DEF t
  <2>2. /\ Total([i \in DOMAIN trades' |-> Gained(trades'[i])]) = Report.profit + Gained(t)
        /\ Total([i \in DOMAIN trades' |-> Lost(trades'[i])]) = Report.loss + Lost(t)
        /\ Report.profit \in Int /\ Report.loss \in Int
        /\ Gained(t) \in Int /\ Lost(t) \in Int /\ Gained(t) - Lost(t) = t.pnl
    BY <1>2, <2>1, TradeMore DEF Report
  <2> QED BY <2>2 DEF Report
<1> HIDE DEF t
<1>7. Total(entryFees') = Total(entryFees)
  OBVIOUS
<1>8. t.pnl = Profit(price)
  BY <1>3 DEF t
<1>9. Report'.profit \in Int /\ Report'.loss \in Int
  BY <1>6
<1>10. Report'.profit - Report'.loss = Report.profit - Report.loss + Profit(price)
  BY <1>2, <1>6, <1>8
<1>11. cash + Total(entryFees) = Capital + Report.profit - Report.loss
  BY <1>5, <1>6 DEF Books
<1>12. cash' + Total(entryFees) = Capital + Report'.profit - Report'.loss
  <2>1. cash' = cash + Profit(price)
    OBVIOUS
  <2>2. Profit(price) \in Int /\ Report.profit \in Int /\ Report.loss \in Int
    BY <1>2, <1>6
  <2> QED BY ONLY <1>5, <1>9, <1>10, <1>11, <2>1, <2>2
<1>13. cash' \in Int
  BY <1>2, <1>5
<1>14. cash' = Capital + Report'.profit - Report'.loss - Total(entryFees')
  BY ONLY <1>5, <1>7, <1>9, <1>12, <1>13
<1> QED BY <1>14 DEF Books

\* The books of a replay agree, during it and at its end, whatever is traded at
\* whatever prices and commissions.
THEOREM BooksAgree == Spec => []Reconciled
<1>1. Init => Books
  <2> SUFFICES ASSUME Init PROVE Books
    OBVIOUS
  <2>1. trades = << >> /\ entryFees = << >> /\ cash = Capital /\ Capital \in Int
    BY BacktestAssumption DEF Init
  <2>2. [i \in DOMAIN trades |-> Gained(trades[i])] = << >>
    BY <2>1
  <2>3. [i \in DOMAIN trades |-> Lost(trades[i])] = << >>
    BY <2>1
  <2> QED BY <2>1, <2>2, <2>3, TotalEmpty DEF Books, Report
<1>2. Typed /\ Books /\ [Next]_vars => Books'
  <2> SUFFICES ASSUME Typed, Books, [Next]_vars PROVE Books'
    OBVIOUS
  <2>0. TypeOK /\ SeenOK /\ Capital \in Int
    BY BacktestAssumption DEF Typed
  <2>1. entryFees \in Seq(Int) /\ Total(entryFees) \in Int /\ cash \in Int
    BY <2>0, SeqOfMore, TotalType DEF TypeOK
  <2>2. CASE EnterLong
    <3>1. Turn /\ trades' = trades
      BY <2>2 DEF EnterLong
    <3> DEFINE fee == Fee(position'.shares)
    <3>2. fee \in Nat
      BY <2>0, <2>2, <3>1, TurnFacts, SharesType, FeeType DEF EnterLong
    <3>3. cash' = cash - fee /\ entryFees' = Append(entryFees, fee)
      BY <2>2 DEF EnterLong
    <3> HIDE DEF fee
    <3>4. Total(entryFees') = Total(entryFees) + fee
      BY <2>1, <3>2, <3>3, TotalAppend
    <3>5. Report'.profit = Report.profit /\ Report'.loss = Report.loss
      BY <3>1 DEF Report
    <3>6. cash' = cash - fee /\ cash = Capital + Report.profit - Report.loss - Total(entryFees)
      BY <3>3 DEF Books
    <3>7. Report.profit \in Int /\ Report.loss \in Int
      BY <2>0, SumsType
    <3> QED BY <2>0, <2>1, <3>2, <3>4, <3>5, <3>6, <3>7 DEF Books
  <2>3. CASE ExitLong
    <3>1. Turn /\ position # Flat
      BY <2>3 DEF ExitLong, Exits
    <3>2. seen + 1 \in Nat /\ FillPrice \in Prices
      BY <2>0, <3>1, TurnFacts
    <3> QED BY <2>3, <3>1, <3>2, SaleBooked DEF ExitLong
  <2>4. CASE Hold
    BY <2>4 DEF Hold, Books, Report
  <2>5. CASE Finish
    <3>1. CASE position = Flat
      BY <2>5, <3>1 DEF Finish, Books, Report
    <3>2. CASE position # Flat
      <4>1. Len(bars) \in 1 .. Len(bars) /\ Len(bars) \in Nat
        BY <2>0, <2>5, BacktestAssumption DEF SeenOK, TypeOK, Finish
      <4>2. Last(bars).close \in Prices
        BY <2>0, <4>1, BarFacts DEF Last
      <4> QED BY <2>5, <3>2, <4>1, <4>2, SaleBooked DEF Finish
    <3> QED BY <3>1, <3>2
  <2>6. CASE UNCHANGED vars
    BY <2>6 DEF vars, account, Books, Report
  <2> QED BY <2>2, <2>3, <2>4, <2>5, <2>6 DEF Next
<1>3. TypeOK /\ Books /\ OnePositionAtATime => Reconciled
  <2> SUFFICES ASSUME TypeOK, Books, OnePositionAtATime PROVE Reconciled
    OBVIOUS
  <2>1. /\ phase = "done" => Report.gain = cash - Capital
        /\ cash \in Int /\ Capital \in Int
    BY BacktestAssumption DEF OnePositionAtATime, Report, TypeOK
  <2>2. Report.profit \in Int /\ Report.loss \in Int /\ Total(entryFees) \in Int
    BY SumsType
  <2> QED BY <2>1, <2>2 DEF Books, Reconciled
<1> QED BY <1>1, <1>2, <1>3, InitTyped, NextTyped, ReplayType, OneAtATime, PTL DEF Spec

----------------------------------------------------------------------------
\* Crossings.

\* What on_bars is asked about, and what it answers.
SignalOK == signal = OnBars(kind, Window)

\* The answer is that to the window as it is.
LEMMA SignalKept == Typed /\ SignalOK /\ [Next]_vars => SignalOK'
<1> SUFFICES ASSUME Typed, SignalOK, [Next]_vars PROVE SignalOK'
  OBVIOUS
<1>1. CASE EnterLong \/ ExitLong \/ Hold
  <2>1. Turn
    BY <1>1 DEF EnterLong, ExitLong, Hold
  <2> QED BY <2>1 DEF Turn, inputs, SignalOK, Window
<1>2. CASE Finish
  BY <1>2 DEF Finish, inputs, SignalOK, Window
<1>3. CASE UNCHANGED vars
  BY <1>3 DEF vars, inputs, SignalOK, Window
<1> QED BY <1>1, <1>2, <1>3 DEF Next

\* The sums of the last closes of the first n bars, as the two averages take them.
Fast(b, n) == Total(LastN(Closes(SubSeq(b, 1, n)), Params.fast))
Slow(b, n) == Total(LastN(Closes(SubSeq(b, 1, n)), Params.slow))

LEMMA AveragesOf ==
    ASSUME NEW b, NEW n \in Nat, \A i \in 1 .. n : b[i].close \in Int
    PROVE  /\ Sma(Closes(SubSeq(b, 1, n)), Params.fast) = Frac(Fast(b, n), Params.fast)
           /\ Sma(Closes(SubSeq(b, 1, n)), Params.slow) = Frac(Slow(b, n), Params.slow)
           /\ Fast(b, n) \in Int /\ Slow(b, n) \in Int
<1>1. Closes(SubSeq(b, 1, n)) \in Seq(Int)
  BY ClosesOfBeginning
<1>2. Params.fast \in Nat /\ Params.slow \in Nat
  BY ParamsAssumption
<1> DEFINE c == Closes(SubSeq(b, 1, n))
<1> HIDE DEF c
<1>3. /\ Sma(c, Params.fast) = Frac(Total(LastN(c, Params.fast)), Params.fast)
      /\ Sma(c, Params.slow) = Frac(Total(LastN(c, Params.slow)), Params.slow)
      /\ Total(LastN(c, Params.fast)) \in Int /\ Total(LastN(c, Params.slow)) \in Int
  BY <1>1, <1>2, SmaType DEF c
<1> QED BY <1>3 DEF c, Fast, Slow

\* A crossing compares the averages of the window with those of a bar less.
LEMMA CrossingOf ==
    ASSUME NEW b, NEW n \in Nat \ {0}, \A i \in 1 .. n : b[i].close \in Int
    PROVE  MaCrossover(SubSeq(b, 1, n)) =
                Crossing(Fast(b, n - 1) * Params.slow, Slow(b, n - 1) * Params.fast,
                         Fast(b, n) * Params.slow, Slow(b, n) * Params.fast)
<1> DEFINE c == Closes(SubSeq(b, 1, n))
           d == Closes(SubSeq(b, 1, n - 1))
<1>1. n \in Nat /\ n - 1 \in Nat /\ n > 0 /\ \A i \in 1 .. n - 1 : b[i].close \in Int
  OBVIOUS
<1>2. Front(c) = d
  BY <1>1, ClosesOfBeginning
<1>3. /\ Sma(c, Params.fast) = Frac(Fast(b, n), Params.fast)
      /\ Sma(c, Params.slow) = Frac(Slow(b, n), Params.slow)
  BY <1>1, AveragesOf
<1>4. /\ Sma(d, Params.fast) = Frac(Fast(b, n - 1), Params.fast)
      /\ Sma(d, Params.slow) = Frac(Slow(b, n - 1), Params.slow)
  BY <1>1, AveragesOf
<1> HIDE DEF c, d
<1>5. MaCrossover(SubSeq(b, 1, n)) =
        Crossing(Sma(Front(c), Params.fast).num * Params.slow,
                 Sma(Front(c), Params.slow).num * Params.fast,
                 Sma(c, Params.fast).num * Params.slow, Sma(c, Params.slow).num * Params.fast)
  BY DEF MaCrossover, c
<1> QED BY <1>2, <1>3, <1>4, <1>5 DEF Frac

\* As CrossoverSide, in terms of the sums.
Sided ==
    kind = "ma" /\ phase # "refused" =>
        LET fast == Fast(bars, seen - 1) * Params.slow
            slow == Slow(bars, seen - 1) * Params.fast
        IN  (lastSignal = Buy => slow <= fast) /\ (lastSignal = Sell => fast <= slow)

\* The moving averages lie on the side of the last crossing signalled, on every
\* bar, whatever the prices and the two periods: no crossing is missed.
THEOREM NoCrossingMissed == Spec => []CrossoverSide
<1>1. Init => SignalOK /\ Sided
  <2> SUFFICES ASSUME Init PROVE SignalOK /\ Sided
    OBVIOUS
  <2> QED BY DEF Init, SignalOK, Window, Sided, Buy, Sell, NoSignal
<1>2. Typed /\ SignalOK /\ Sided /\ [Next]_vars => Sided'
  <2> SUFFICES ASSUME Typed, SignalOK, Sided, [Next]_vars PROVE Sided'
    OBVIOUS
  <2>0. TypeOK /\ SeenOK
    BY DEF Typed
  <2>1. CASE EnterLong \/ ExitLong \/ Hold
    <3>1. Turn
      BY <2>1 DEF EnterLong, ExitLong, Hold
    <3>2. /\ seen \in Nat \ {0} /\ seen + 1 - 1 = seen /\ seen' = seen + 1 /\ phase = "replay"
          /\ seen \in 1 .. Len(bars) /\ BarsNeeded(kind) \in Nat /\ BarsNeeded(kind) + 1 <= seen
          /\ UNCHANGED <<kind, bars, phase>>
      BY <2>0, <3>1, TurnFacts
    <3> SUFFICES ASSUME kind = "ma" PROVE Sided'
      BY <3>2 DEF Sided
    <3>3. \A i \in 1 .. seen : bars[i].close \in Int
      <4>1. \A i \in 1 .. seen : i \in 1 .. Len(bars)
        BY <3>2
      <4> QED BY <2>0, <4>1, BarFacts DEF Prices
    <3>4. Window # << >> /\ Len(Window) = seen
      <4>1. 1 \in Int /\ seen \in Int /\ \A i \in 1 .. seen : bars[i] \in BarType
        BY <2>0, <3>2 DEF TypeOK
      <4>2. Window \in Seq(BarType) /\ Len(Window) = seen
        BY <3>2, <4>1, SubSeqProperties DEF Window
      <4> QED BY <3>2, <4>2
    <3>5. signal = MaCrossover(Window)
      BY <3>2, <3>4 DEF SignalOK, OnBars
    <3> DEFINE f == Fast(bars, seen)
               s == Slow(bars, seen)
               pf == Fast(bars, seen - 1)
               ps == Slow(bars, seen - 1)
    <3>6. signal = Crossing(pf * Params.slow, ps * Params.fast, f * Params.slow, s * Params.fast)
      BY <3>2, <3>3, <3>5, CrossingOf DEF Window
    <3>7. f \in Int /\ s \in Int
      BY <3>2, <3>3, AveragesOf
    <3>8. pf \in Int /\ ps \in Int
      <4>1. seen - 1 \in Nat /\ \A i \in 1 .. seen - 1 : bars[i].close \in Int
        BY <3>2, <3>3
      <4> QED BY <4>1, AveragesOf
    <3>9. lastSignal' = Remembered
      BY <3>1 DEF Turn
    <3> HIDE DEF f, s, pf, ps
    <3> DEFINE a == f * Params.slow
               b == s * Params.fast
               pa == pf * Params.slow
               pb == ps * Params.fast
    <3>10. a \in Int /\ b \in Int /\ pa \in Int /\ pb \in Int
      BY <3>7, <3>8, ParamsAssumption
    <3>11. (lastSignal = Buy => pb <= pa) /\ (lastSignal = Sell => pa <= pb)
      BY <3>2 DEF Sided, pf, ps
    <3>12. signal = Crossing(pa, pb, a, b)
      BY <3>6
    <3> HIDE DEF a, b, pa, pb
    <3>13. (lastSignal' = Buy => b <= a) /\ (lastSignal' = Sell => a <= b)
      BY <3>9, <3>10, <3>11, <3>12 DEF Remembered, Crossing, Buy, Sell, NoSignal
    <3> QED BY <3>2, <3>13 DEF Sided, a, b, f, s
  <2>2. CASE Finish
    BY <2>2 DEF Finish, Sided, inputs
  <2>3. CASE UNCHANGED vars
    BY <2>3 DEF vars, inputs, Sided
  <2> QED BY <2>1, <2>2, <2>3 DEF Next
<1>3. Typed /\ Sided => CrossoverSide
  <2> SUFFICES ASSUME TypeOK, SeenOK, Sided, kind = "ma", phase # "refused"
               PROVE  LET closes == Closes(SubSeq(bars, 1, seen - 1))
                          fast == Sma(closes, Params.fast)
                          slow == Sma(closes, Params.slow)
                      IN  /\ lastSignal = Buy => Le(slow, fast)
                          /\ lastSignal = Sell => Le(fast, slow)
    BY DEF Typed, CrossoverSide
  <2>1. /\ seen \in BarsNeeded(kind) + 1 .. Len(bars) /\ BarsNeeded(kind) \in Nat
        /\ Len(bars) \in Nat
    BY BacktestAssumption DEF SeenOK, TypeOK
  <2>2. seen - 1 \in Nat /\ \A i \in 1 .. seen - 1 : i \in 1 .. Len(bars)
    BY <2>1
  <2>3. \A i \in 1 .. seen - 1 : bars[i].close \in Int
    BY <2>2, BarFacts DEF Prices
  <2> DEFINE n == seen - 1
             c == Closes(SubSeq(bars, 1, n))
  <2>4. /\ Sma(c, Params.fast) = Frac(Fast(bars, n), Params.fast)
        /\ Sma(c, Params.slow) = Frac(Slow(bars, n), Params.slow)
    BY <2>2, <2>3, AveragesOf
  <2>5. /\ lastSignal = Buy => Slow(bars, n) * Params.fast <= Fast(bars, n) * Params.slow
        /\ lastSignal = Sell => Fast(bars, n) * Params.slow <= Slow(bars, n) * Params.fast
    BY DEF Sided
  <2> HIDE DEF n, c
  <2>6. /\ lastSignal = Buy => Le(Sma(c, Params.slow), Sma(c, Params.fast))
        /\ lastSignal = Sell => Le(Sma(c, Params.fast), Sma(c, Params.slow))
    BY <2>4, <2>5 DEF Le, Frac
  <2> QED BY <2>6 DEF c, n
<1> QED BY <1>1, <1>2, <1>3, SignalKept, InitTyped, NextTyped, PTL DEF Spec

----------------------------------------------------------------------------
\* Drawdown.

\* What the fold of MaxDrawdown carries, for a curve that starts above 0.
Falls == [peak : Nat \ {0}, worst : Fractions]

LEMMA FallenType ==
    ASSUME NEW acc \in Falls, NEW v \in Int
    PROVE  /\ Fallen(acc, v) \in Falls
           /\ Fallen(acc, v).peak \in {acc.peak, v}
           /\ Fallen(acc, v).peak >= acc.peak /\ Fallen(acc, v).peak >= v
           /\ Fallen(acc, v).worst =
                LET fall == Frac(Fallen(acc, v).peak - v, Fallen(acc, v).peak)
                IN  IF Lt(acc.worst, fall) THEN fall ELSE acc.worst
<1> DEFINE p == Max({acc.peak, v})
<1>1. acc.peak \in Nat \ {0} /\ acc.peak \in Int /\ acc.worst \in Fractions
  BY DEF Falls
<1>2. p \in {acc.peak, v} /\ p >= acc.peak /\ p >= v
  BY <1>1, MaxOfTwo
<1> HIDE DEF p
<1>3. p \in Nat \ {0} /\ p > 0 /\ p - v \in Int
  BY <1>1, <1>2
<1> DEFINE fall == Frac(p - v, p)
           w == IF Lt(acc.worst, fall) THEN fall ELSE acc.worst
<1>4. fall \in Fractions
  BY <1>3 DEF Frac, Fractions
<1> HIDE DEF fall
<1>5. w \in Fractions
  BY <1>1, <1>4
<1>6. Fallen(acc, v) = [peak |-> p, worst |-> IF p > 0 /\ Lt(acc.worst, fall) THEN fall
                                              ELSE acc.worst]
  BY DEF Fallen, p, fall
<1>7. Fallen(acc, v) = [peak |-> p, worst |-> w]
  BY <1>3, <1>6
<1> HIDE DEF w
<1>8. Fallen(acc, v) \in Falls /\ Fallen(acc, v).peak = p /\ Fallen(acc, v).worst = w
  BY <1>3, <1>5, <1>7 DEF Falls
<1> QED BY <1>2, <1>8 DEF w, fall

\* The drawdown is the last of those of the beginnings of the curve.
LEMMA DrawdownRun ==
    ASSUME NEW c \in Seq(Int), c # << >>, c[1] \in Nat \ {0}
    PROVE  \E run \in [0 .. Len(c) - 1 -> Falls] :
             /\ run[0] = [peak |-> c[1], worst |-> Frac(0, 1)]
             /\ \A k \in 1 .. Len(c) - 1 : run[k] = Fallen(run[k - 1], c[k + 1])
             /\ MaxDrawdown(c) = run[Len(c) - 1].worst
<1> DEFINE n == Len(c) - 1
           v == Tail(c)
           base == [peak |-> c[1], worst |-> Frac(0, 1)]
           Rec(f) == f = [s \in SUBSET (1 .. n) |->
                            IF s = {} THEN base ELSE Fallen(f[s \ {Max(s)}], v[Max(s)])]
           h == CHOOSE f : Rec(f)
           step == [i \in 1 .. n |-> [a \in Falls |-> Fallen(a, v[i])]]
           run == [k \in 0 .. n |-> h[1 .. k]]
<1>0. /\ n \in Nat /\ DOMAIN v = 1 .. n /\ \A i \in 1 .. n : v[i] \in Int /\ v[i] = c[i + 1]
      /\ base \in Falls
  <2>1. Len(c) \in Nat /\ Len(c) # 0
    OBVIOUS
  <2>2. v \in Seq(Int) /\ Len(v) = n /\ \A i \in 1 .. n : v[i] = c[i + 1]
    BY <2>1
  <2>3. base \in Falls
    BY DEF Falls, Fractions, Frac
  <2> QED BY <2>1, <2>2, <2>3
<1> HIDE DEF v, base
<1>1. MaxDrawdown(c) = h[1 .. n].worst
  BY <1>0, Zenon DEF MaxDrawdown, FoldLeft, MapThenFoldSet, v, base
<1> HIDE DEF n
<1>2. StepsIn(step, 1 .. n, Falls)
  BY <1>0, FallenType DEF StepsIn
<1>3. PICK g : IsFold(g, 1 .. n, Falls, base, Greatest(n), step)
  <2> HIDE DEF step
  <2> QED BY <1>0, <1>2, LeftRecursion, Zenon
<1>5. \E f : Rec(f)
  <2> DEFINE f == [s \in SUBSET (1 .. n) |-> g[s]]
  <2>1. ASSUME NEW s \in SUBSET (1 .. n), s # {}
        PROVE  f[s] = Fallen(f[s \ {Max(s)}], v[Max(s)])
    <3>1. Max(s) \in 1 .. n /\ s \ {Max(s)} \in SUBSET (1 .. n)
      BY <1>0, <2>1, MaxOfInterval
    <3>2. g[s] = step[Max(s)][g[s \ {Max(s)}]] /\ g[s \ {Max(s)}] \in Falls
      BY <1>3, <2>1, <3>1 DEF IsFold, Greatest
    <3> QED BY <3>1, <3>2
  <2>2. f[{}] = base
    BY <1>3 DEF IsFold
  <2>3. Rec(f)
    BY <2>1, <2>2
  <2> HIDE DEF Rec, f
  <2> QED BY <2>3
<1>7. Rec(h)
  <2> HIDE DEF Rec
  <2> QED BY <1>5
<1>8. \A s \in SUBSET (1 .. n) :
        h[s] = IF s = {} THEN base ELSE Fallen(h[s \ {Max(s)}], v[Max(s)])
  <2> HIDE DEF h
  <2> QED BY <1>7, Zenon
<1> HIDE DEF h
<1>9. run[0] = base
  <2>1. 1 .. 0 = {} /\ {} \in SUBSET (1 .. n) /\ 0 \in 0 .. n
    BY <1>0
  <2> QED BY <1>8, <2>1
<1>10. \A k \in 1 .. n : run[k] = Fallen(run[k - 1], v[k])
  <2> TAKE k \in 1 .. n
  <2>1. k \in 0 .. n /\ k - 1 \in 0 .. n
    BY <1>0
  <2>2. h[1 .. k] = Fallen(h[1 .. k - 1], v[k])
    BY <1>0, <1>8, MaxOfInterval
  <2> QED BY <2>1, <2>2
<1>11. run \in [0 .. n -> Falls]
  <2> DEFINE P == {k \in 0 .. n : run[k] \in Falls}
  <2>1. 0 \in P
    BY <1>0, <1>9
  <2>2. ASSUME NEW k \in 1 .. n, k - 1 \in P PROVE k \in P
    <3> HIDE DEF run
    <3>1. run[k - 1] \in Falls /\ v[k] \in Int /\ k \in 0 .. n
      BY <1>0, <2>2
    <3>2. Fallen(run[k - 1], v[k]) \in Falls
      BY <3>1, FallenType
    <3> QED BY <1>10, <2>2, <3>1, <3>2
  <2>3. \A k \in 0 .. n : k \in P
    <3> HIDE DEF P
    <3> QED BY <1>0, <2>1, <2>2, AllUpTo
  <2> QED BY <2>3
<1>12. MaxDrawdown(c) = run[n].worst
  BY <1>0, <1>1
<1> HIDE DEF run
<1>13. \A k \in 1 .. n : run[k] = Fallen(run[k - 1], c[k + 1])
  BY <1>0, <1>10
<1> QED BY <1>9, <1>11, <1>12, <1>13 DEF n, base

\* A fall of the curve, in terms of the value it starts from.
FallFrom(x, v) == Frac(x - v, x)

\* What is carried after the first m values of the curve: the highest of them, and
\* a fall between two of them that no other goes beyond.
Deepest(c, m, acc) ==
    /\ \A i \in 1 .. m : c[i] <= acc.peak
    /\ \E i \in 1 .. m : c[i] = acc.peak
    /\ \A j \in 1 .. m : /\ c[j] >= 0 => \A i \in 1 .. j : c[i] > 0 => Le(FallFrom(c[i], c[j]), acc.worst)
                         /\ c[j] < 0 => Lt(Frac(1, 1), acc.worst)
    /\ \E i, j \in 1 .. m : i <= j /\ c[i] > 0 /\ Le(acc.worst, FallFrom(c[i], c[j]))

\* A fall from a value above 0 is a fraction.
LEMMA FallType ==
    ASSUME NEW x \in Nat \ {0}, NEW v \in Int
    PROVE  /\ FallFrom(x, v) \in Fractions
           /\ v < 0 => Lt(Frac(1, 1), FallFrom(x, v))
BY DEF FallFrom, Frac, Fractions, Lt

\* One value more.
LEMMA DeepestStep ==
    ASSUME NEW c \in Seq(Int), NEW m \in Nat \ {0}, m + 1 <= Len(c), NEW acc \in Falls,
           Deepest(c, m, acc)
    PROVE  Deepest(c, m + 1, Fallen(acc, c[m + 1]))
<1> DEFINE v == c[m + 1]
           new == Fallen(acc, v)
<1>0. /\ m + 1 \in 1 .. Len(c) /\ v \in Int /\ \A i \in 1 .. m + 1 : c[i] \in Int
      /\ \A i \in 1 .. m + 1 : i \in 1 .. m \/ i = m + 1
      /\ \A i \in 1 .. m : i \in 1 .. m + 1
  OBVIOUS
<1>1. /\ new \in Falls /\ new.peak \in {acc.peak, v}
      /\ new.peak >= acc.peak /\ new.peak >= v
      /\ new.worst = LET fall == Frac(new.peak - v, new.peak)
                     IN  IF Lt(acc.worst, fall) THEN fall ELSE acc.worst
  BY <1>0, FallenType
<1> HIDE DEF new
<1> DEFINE p == new.peak
           w == new.worst
           fall == FallFrom(p, v)
<1>2. /\ acc.peak \in Nat \ {0} /\ p \in Nat \ {0} /\ acc.worst \in Fractions /\ w \in Fractions
      /\ fall \in Fractions
  <2>1. acc.peak \in Nat \ {0} /\ p \in Nat \ {0} /\ acc.worst \in Fractions /\ w \in Fractions
    BY <1>1 DEF Falls
  <2> QED BY <1>0, <2>1, FallType
<1>3. w = IF Lt(acc.worst, fall) THEN fall ELSE acc.worst
  BY <1>1 DEF FallFrom
<1>4. p \in {acc.peak, v} /\ p >= acc.peak /\ p >= v
  BY <1>1
<1> HIDE DEF p, w, fall, v
<1>5. Le(acc.worst, w) /\ Le(fall, w)
  BY <1>2, <1>3, FractionOrder
<1>6. \A i \in 1 .. m + 1 : c[i] <= p
  <2>1. \A i \in 1 .. m : c[i] <= acc.peak
    BY DEF Deepest
  <2> QED BY <1>0, <1>2, <1>4, <2>1 DEF v
<1>7. \E i \in 1 .. m + 1 : c[i] = p
  <2>1. PICK i \in 1 .. m : c[i] = acc.peak
    BY DEF Deepest
  <2>2. i \in 1 .. m + 1 /\ m + 1 \in 1 .. m + 1
    BY <1>0
  <2> QED BY <1>4, <2>1, <2>2 DEF v
<1>8. ASSUME NEW j \in 1 .. m + 1
      PROVE  /\ c[j] >= 0 => \A i \in 1 .. j : c[i] > 0 => Le(FallFrom(c[i], c[j]), w)
             /\ c[j] < 0 => Lt(Frac(1, 1), w)
  <2>0. Frac(1, 1) \in Fractions
    BY DEF Frac, Fractions
  <2>1. CASE j \in 1 .. m
    <3>1. ASSUME c[j] >= 0, NEW i \in 1 .. j, c[i] > 0 PROVE Le(FallFrom(c[i], c[j]), w)
      <4>1. Le(FallFrom(c[i], c[j]), acc.worst)
        BY <2>1, <3>1 DEF Deepest
      <4>2. c[i] \in Nat \ {0} /\ c[j] \in Int
        BY <1>0, <2>1, <3>1
      <4>3. FallFrom(c[i], c[j]) \in Fractions
        BY <4>2, FallType
      <4> QED BY <1>2, <1>5, <4>1, <4>3, FractionTrans
    <3>2. ASSUME c[j] < 0 PROVE Lt(Frac(1, 1), w)
      <4>1. Lt(Frac(1, 1), acc.worst)
        BY <2>1, <3>2 DEF Deepest
      <4> QED BY <1>2, <1>5, <2>0, <4>1, FractionTrans
    <3> QED BY <3>1, <3>2
  <2>2. CASE j = m + 1
    <3>1. ASSUME v >= 0, NEW i \in 1 .. m + 1, c[i] > 0 PROVE Le(FallFrom(c[i], v), w)
      <4>1. c[i] \in Nat \ {0} /\ v \in Nat /\ c[i] <= p
        BY <1>0, <1>6, <3>1
      <4>2. Le(FallFrom(c[i], v), fall)
        BY <1>2, <4>1, FallFromHigher DEF FallFrom, fall
      <4>3. FallFrom(c[i], v) \in Fractions
        BY <4>1, FallType
      <4> QED BY <1>2, <1>5, <4>2, <4>3, FractionTrans
    <3>2. ASSUME v < 0 PROVE Lt(Frac(1, 1), w)
      <4>1. Lt(Frac(1, 1), fall)
        BY <1>0, <1>2, <3>2, FallType DEF fall
      <4> QED BY <1>2, <1>5, <2>0, <4>1, FractionTrans
    <3> QED BY <2>2, <3>1, <3>2 DEF v
  <2> QED BY <1>0, <2>1, <2>2
<1>9. \E i, j \in 1 .. m + 1 : i <= j /\ c[i] > 0 /\ Le(w, FallFrom(c[i], c[j]))
  <2>1. CASE w = acc.worst
    <3>1. PICK i \in 1 .. m, j \in 1 .. m :
            i <= j /\ c[i] > 0 /\ Le(acc.worst, FallFrom(c[i], c[j]))
      BY DEF Deepest
    <3> QED BY <1>0, <2>1, <3>1
  <2>2. CASE w = fall
    <3>1. PICK i \in 1 .. m + 1 : c[i] = p
      BY <1>7
    <3>2. c[i] > 0 /\ i <= m + 1 /\ m + 1 \in 1 .. m + 1
      BY <1>2, <3>1
    <3>3. FallFrom(c[i], c[m + 1]) = fall
      BY <3>1 DEF fall, v
    <3>4. Le(w, FallFrom(c[i], c[m + 1]))
      BY <1>2, <2>2, <3>3, FractionOrder
    <3> QED BY <3>2, <3>4
  <2> QED BY <1>3, <2>1, <2>2
<1>10. Deepest(c, m + 1, new)
  BY <1>6, <1>7, <1>8, <1>9 DEF Deepest, p, w
<1> QED BY <1>10 DEF new, v

\* The drawdown is the deepest fall between two values of the curve; of a curve
\* that goes below 0 it is more than all there was.
LEMMA DeepestFall ==
    ASSUME NEW c \in Seq(Int), c # << >>, c[1] \in Nat \ {0}
    PROVE  /\ MaxDrawdown(c) \in Fractions
           /\ \A j \in 1 .. Len(c) :
                /\ c[j] >= 0 =>
                    \A i \in 1 .. j : c[i] > 0 => Le(FallFrom(c[i], c[j]), MaxDrawdown(c))
                /\ c[j] < 0 => Lt(Frac(1, 1), MaxDrawdown(c))
           /\ \E i, j \in 1 .. Len(c) :
                i <= j /\ c[i] > 0 /\ Le(MaxDrawdown(c), FallFrom(c[i], c[j]))
<1> DEFINE n == Len(c) - 1
<1>0. n \in Nat /\ n + 1 = Len(c) /\ 1 \in 1 .. Len(c)
  <2>1. Len(c) \in Nat /\ Len(c) # 0
    OBVIOUS
  <2> QED BY <2>1
<1>1. PICK run \in [0 .. n -> Falls] :
            /\ run[0] = [peak |-> c[1], worst |-> Frac(0, 1)]
            /\ \A k \in 1 .. n : run[k] = Fallen(run[k - 1], c[k + 1])
            /\ MaxDrawdown(c) = run[n].worst
  BY DrawdownRun
<1> HIDE DEF n
<1> DEFINE P == {k \in 0 .. n : Deepest(c, k + 1, run[k])}
<1>2. 0 \in P
  <2>1. \A i \in 1 .. 0 + 1 : i = 1
    OBVIOUS
  <2>2. Le(Frac(0, 1), FallFrom(c[1], c[1])) /\ Le(FallFrom(c[1], c[1]), Frac(0, 1))
    BY DEF Le, FallFrom, Frac
  <2>3. run[0].peak = c[1] /\ run[0].worst = Frac(0, 1) /\ c[1] > 0 /\ c[1] \in Int /\ 1 \in 1 .. 0 + 1
    BY <1>1
  <2>4. Deepest(c, 0 + 1, run[0])
    <3>1. \A i \in 1 .. 0 + 1 : c[i] <= run[0].peak
      BY <2>1, <2>3
    <3>2. \E i \in 1 .. 0 + 1 : c[i] = run[0].peak
      BY <2>3
    <3>3. ASSUME NEW j \in 1 .. 0 + 1
          PROVE  /\ c[j] >= 0 =>
                    \A i \in 1 .. j : c[i] > 0 => Le(FallFrom(c[i], c[j]), run[0].worst)
                 /\ c[j] < 0 => Lt(Frac(1, 1), run[0].worst)
      <4>1. j = 1 /\ \A i \in 1 .. j : i = 1
        BY <2>1
      <4> QED BY <2>2, <2>3, <4>1
    <3>4. \E i, j \in 1 .. 0 + 1 :
            i <= j /\ c[i] > 0 /\ Le(run[0].worst, FallFrom(c[i], c[j]))
      BY <2>2, <2>3
    <3> QED BY <3>1, <3>2, <3>3, <3>4 DEF Deepest
  <2> QED BY <1>0, <2>4
<1>3. ASSUME NEW k \in 1 .. n, k - 1 \in P PROVE k \in P
  <2>1. /\ k \in Nat \ {0} /\ k + 1 <= Len(c) /\ k - 1 + 1 = k /\ k \in 0 .. n
        /\ k - 1 \in 0 .. n
    BY <1>0
  <2>2. Deepest(c, k, run[k - 1]) /\ run[k - 1] \in Falls
    BY <1>1, <1>3, <2>1
  <2>3. Deepest(c, k + 1, Fallen(run[k - 1], c[k + 1]))
    BY <2>1, <2>2, DeepestStep
  <2> QED BY <1>1, <2>1, <2>3
<1>4. \A k \in 0 .. n : k \in P
  <2> HIDE DEF P
  <2> QED BY <1>0, <1>2, <1>3, AllUpTo
<1>5. Deepest(c, n + 1, run[n]) /\ run[n] \in Falls
  BY <1>0, <1>1, <1>4
<1>6. Deepest(c, Len(c), run[n]) /\ run[n].worst = MaxDrawdown(c)
  BY <1>0, <1>1, <1>5
<1>7. run[n].worst \in Fractions
  BY <1>5 DEF Falls
<1> QED BY <1>6, <1>7 DEF Deepest

\* What the properties of the curve need: it starts with the capital, stays there
\* until something is entered, and passes only when it is done.
CurveOK ==
    /\ equity # << >> /\ equity[1] = Capital
    /\ entryFees = << >> =>
        cash = Capital /\ position = Flat /\ \A i \in 1 .. Len(equity) : equity[i] = Capital
    /\ passed => phase = "done" /\ MayPass(equity)

LEMMA InitCurve == Init => CurveOK
BY BacktestAssumption DEF Init, CurveOK

LEMMA NextCurve == Typed /\ CurveOK /\ [Next]_vars => CurveOK'
<1> SUFFICES ASSUME Typed, CurveOK, [Next]_vars PROVE CurveOK'
  OBVIOUS
<1>0. TypeOK /\ SeenOK /\ equity \in Seq(Int) /\ Len(equity) \in Nat /\ Capital \in Int
  BY BacktestAssumption DEF Typed, TypeOK
<1>00. Len(equity) # 0 /\ equity[1] = Capital
  BY <1>0 DEF CurveOK
<1>1. ASSUME NEW e \in Int, equity' = Append(equity, e)
      PROVE  /\ equity' # << >> /\ equity'[1] = Capital
             /\ (\A i \in 1 .. Len(equity) : equity[i] = Capital) /\ e = Capital
                    => \A i \in 1 .. Len(equity') : equity'[i] = Capital
  <2>1. /\ equity' # << >> /\ Len(equity') = Len(equity) + 1
        /\ \A i \in 1 .. Len(equity) : equity'[i] = equity[i]
        /\ equity'[Len(equity) + 1] = e
    BY <1>0, <1>1, AppendFacts
  <2>2. \A i \in 1 .. Len(equity) + 1 : i \in 1 .. Len(equity) \/ i = Len(equity) + 1
    BY <1>0
  <2>3. 1 \in 1 .. Len(equity)
    BY <1>0, <1>00
  <2> QED BY <1>00, <2>1, <2>2, <2>3
<1>2. Typed' /\ cash' \in Int /\ position' \in Positions
  BY NextTyped DEF Typed, TypeOK
<1>3. CASE EnterLong
  <2>1. Turn
    BY <1>3 DEF EnterLong
  <2>2. entryFees' # << >>
    <3>1. Fee(position'.shares) \in Nat
      BY <1>0, <1>3, <2>1, TurnFacts, SharesType, FeeType DEF EnterLong
    <3>2. entryFees \in Seq(Nat) /\ entryFees' = Append(entryFees, Fee(position'.shares))
      BY <1>0, <1>3 DEF EnterLong, TypeOK
    <3> QED BY <3>1, <3>2, AppendFacts
  <2>3. Marked(cash', position') \in Int
    BY <1>0, <1>2, <2>1, TurnFacts, MarkedType
  <2>4. phase = "replay" /\ passed' = passed
    BY <2>1 DEF Turn
  <2> QED BY <1>1, <1>3, <2>2, <2>3, <2>4 DEF EnterLong, CurveOK
<1>4. CASE ExitLong
  <2>1. Turn /\ position # Flat /\ entryFees' = entryFees /\ equity' = Append(equity, cash')
    BY <1>4 DEF ExitLong, Exits
  <2>2. phase = "replay" /\ passed' = passed
    BY <2>1 DEF Turn
  <2> QED BY <1>1, <1>2, <2>1, <2>2 DEF CurveOK
<1>5. CASE Hold
  <2>1. Turn /\ UNCHANGED <<cash, position, entryFees>> /\ equity' = Append(equity, Marked(cash, position))
    BY <1>5 DEF Hold
  <2>2. phase = "replay" /\ passed' = passed /\ bars[seen].close \in Int
    BY <1>0, <2>1, TurnFacts DEF Turn, Prices
  <2>3. Marked(cash, position) \in Int
    BY <1>0, <2>1, TurnFacts, MarkedType DEF TypeOK
  <2>4. position = Flat => Marked(cash, position) = cash
    BY <1>0, <2>2 DEF Marked, Flat, TypeOK
  <2> QED BY <1>1, <2>1, <2>2, <2>3, <2>4 DEF CurveOK
<1>6. CASE Finish
  <2>1. /\ phase = "replay" /\ phase' = "done" /\ position' = Flat /\ entryFees' = entryFees
        /\ equity' = Append(equity, cash') /\ passed' \in {FALSE, MayPass(equity')}
    BY <1>6 DEF Finish
  <2>2. position = Flat => cash' = cash
    BY <1>6 DEF Finish
  <2> QED BY <1>1, <1>2, <2>1, <2>2 DEF CurveOK
<1>7. CASE UNCHANGED vars
  BY <1>7 DEF vars, account, CurveOK
<1> QED BY <1>3, <1>4, <1>5, <1>6, <1>7 DEF Next

\* The drawdown a replay reports is the deepest fall of its curve, for every
\* strategy, history, capital and commission.
THEOREM DrawdownDeepest == Spec => []DrawdownIsDeepest
<1>1. TypeOK /\ CurveOK => DrawdownIsDeepest
  <2> SUFFICES ASSUME TypeOK, CurveOK PROVE DrawdownIsDeepest
    OBVIOUS
  <2>1. /\ equity \in Seq(Int) /\ equity # << >> /\ equity[1] \in Nat \ {0}
        /\ DOMAIN equity = 1 .. Len(equity) /\ \A i \in 1 .. Len(equity) : equity[i] \in Int
    BY BacktestAssumption DEF TypeOK, CurveOK
  <2> DEFINE e == equity
             worst == MaxDrawdown(e)
             Fall(p) == Frac(e[p[1]] - e[p[2]], e[p[1]])
             pairs == {p \in (1 .. Len(e)) \X (1 .. Len(e)) : p[1] <= p[2] /\ e[p[1]] > 0}
  <2>2. /\ \A j \in 1 .. Len(e) : e[j] >= 0 =>
             \A i \in 1 .. j : e[i] > 0 => Le(FallFrom(e[i], e[j]), worst)
        /\ \E i, j \in 1 .. Len(e) : i <= j /\ e[i] > 0 /\ Le(worst, FallFrom(e[i], e[j]))
    BY <2>1, DeepestFall
  <2> HIDE DEF e
  <2>3. ASSUME \A i \in 1 .. Len(e) : e[i] >= 0, NEW p \in pairs
        PROVE  Le(Fall(p), worst)
    <3>1. p[2] \in 1 .. Len(e) /\ p[1] \in 1 .. p[2] /\ e[p[1]] > 0
      OBVIOUS
    <3>2. Le(FallFrom(e[p[1]], e[p[2]]), worst)
      BY <2>2, <2>3, <3>1
    <3> QED BY <3>2 DEF FallFrom
  <2>4. \E p \in pairs : Le(worst, Fall(p))
    <3>1. PICK i \in 1 .. Len(e), j \in 1 .. Len(e) :
                i <= j /\ e[i] > 0 /\ Le(worst, FallFrom(e[i], e[j]))
      BY <2>2
    <3>2. <<i, j>> \in pairs
      BY <3>1
    <3>3. Le(worst, Fall(<<i, j>>))
      BY <3>1 DEF FallFrom
    <3> HIDE DEF pairs, Fall
    <3> QED BY <3>2, <3>3
  <2>5. /\ (\A i \in 1 .. Len(e) : e[i] >= 0) => \A p \in pairs : Le(Fall(p), worst)
        /\ \E p \in pairs : Le(worst, Fall(p))
    BY <2>3, <2>4
  <2> QED BY <2>1, <2>5 DEF DrawdownIsDeepest, e
<1> QED BY <1>1, InitTyped, NextTyped, InitCurve, NextCurve, ReplayType, PTL DEF Spec

----------------------------------------------------------------------------
\* The verdict.

\* Sums of fractions are fractions; what is at most k and what is at most 1 make
\* at most k + 1.
LEMMA PlusType ==
    ASSUME NEW a \in Fractions, NEW b \in Fractions
    PROVE  /\ Plus(a, b) \in Fractions
           /\ \A k \in Nat : a.num <= a.den /\ b.num <= k * b.den
                                => Plus(a, b).num <= (k + 1) * Plus(a, b).den
<1> DEFINE an == a.num  ad == a.den  bn == b.num  bd == b.den
<1>1. an \in Int /\ bn \in Int /\ ad \in Nat \ {0} /\ bd \in Nat \ {0}
  BY DEF Fractions
<1>2. Plus(a, b) = [num |-> an * bd + bn * ad, den |-> ad * bd]
  BY DEF Plus, Frac
<1> HIDE DEF an, ad, bn, bd
<1>3. ad * bd \in Nat \ {0} /\ an * bd + bn * ad \in Int
  BY <1>1
<1>4. ASSUME NEW k \in Nat, an <= ad, bn <= k * bd
      PROVE  an * bd + bn * ad <= (k + 1) * (ad * bd)
  <2>1. k * bd \in Int
    BY <1>1
  <2>2. an * bd <= ad * bd
    BY <1>1, <1>4, ProductOrder
  <2>3. bn * ad <= (k * bd) * ad
    BY <1>1, <1>4, <2>1, ProductOrder
  <2>4. (k + 1) * (ad * bd) = (k * bd) * ad + ad * bd
    BY <1>1
  <2>5. /\ an * bd \in Int /\ ad * bd \in Int /\ bn * ad \in Int /\ (k * bd) * ad \in Int
    BY <1>1
  <2> QED BY <2>2, <2>3, <2>4, <2>5
<1>5. Plus(a, b) \in Fractions
  BY <1>2, <1>3 DEF Fractions
<1> QED BY <1>2, <1>4, <1>5 DEF an, ad, bn, bd

\* A curve none of whose returns is a gain has no positive mean return.
LEMMA NoGain ==
    ASSUME NEW D, IsFiniteSet(D), NEW v \in [D -> Fractions],
           \A i \in D : v[i].num <= v[i].den
    PROVE  ~MeanIsPositive(v)
<1> DEFINE Some(s) == CHOOSE x \in s : TRUE
           Rec(f) == f = [s \in SUBSET D |->
                            IF s = {} THEN Frac(0, 1) ELSE Plus(v[Some(s)], f[s \ {Some(s)}])]
           h == CHOOSE f : Rec(f)
           pick == [s \in SUBSET D |-> Some(s)]
           step == [i \in D |-> [a \in Fractions |-> Plus(v[i], a)]]
<1>0. DOMAIN v = D /\ \A i \in D : v[i] \in Fractions /\ v[i].num <= v[i].den
  OBVIOUS
<1>1. FoldFunction(Plus, Frac(0, 1), v) = h[D]
  BY <1>0, Zenon DEF FoldFunction, FoldFunctionOnSet, MapThenFoldSet
<1>3. \A s \in SUBSET D : s # {} => Some(s) \in s
  OBVIOUS
<1> HIDE DEF Some
<1>4. StepsIn(step, D, Fractions)
  BY <1>0, PlusType DEF StepsIn
<1>5. Picks(pick, D)
  BY <1>3 DEF Picks
<1>06. Frac(0, 1) \in Fractions /\ Frac(0, 1).num = 0 /\ Frac(0, 1).den = 1
  BY DEF Frac, Fractions
<1>6. PICK g : IsFold(g, D, Fractions, Frac(0, 1), pick, step)
  <2> HIDE DEF step, pick
  <2> QED BY <1>4, <1>5, <1>06, FoldExists, Zenon
<1>7. \E f : Rec(f)
  <2> DEFINE f == [s \in SUBSET D |-> g[s]]
  <2>1. ASSUME NEW s \in SUBSET D, s # {}
        PROVE  f[s] = Plus(v[Some(s)], f[s \ {Some(s)}])
    <3>1. Some(s) \in D /\ s \ {Some(s)} \in SUBSET D
      BY <1>3, <2>1
    <3>2. g[s] = step[Some(s)][g[s \ {Some(s)}]] /\ g[s \ {Some(s)}] \in Fractions
      BY <1>6, <2>1, <3>1 DEF IsFold
    <3> QED BY <3>1, <3>2
  <2>2. f[{}] = Frac(0, 1)
    BY <1>6 DEF IsFold
  <2>3. Rec(f)
    BY <2>1, <2>2
  <2> HIDE DEF Rec, f
  <2> QED BY <2>3
<1>8. Rec(h)
  <2> HIDE DEF Rec
  <2> QED BY <1>7
<1>9. \A s \in SUBSET D :
        h[s] = IF s = {} THEN Frac(0, 1) ELSE Plus(v[Some(s)], h[s \ {Some(s)}])
  <2> HIDE DEF h
  <2> QED BY <1>8, Zenon
<1> HIDE DEF h
<1> DEFINE P == {s \in SUBSET D : /\ h[s] \in Fractions
                                  /\ h[s].num <= Cardinality(s) * h[s].den}
<1>10. {} \in P
  <2>1. {} \in SUBSET D /\ Cardinality({}) = 0
    BY FS_EmptySet
  <2>2. h[{}] = Frac(0, 1)
    BY <1>9, <2>1
  <2> QED BY <1>06, <2>1, <2>2
<1>11. ASSUME NEW s \in SUBSET D, s # {} PROVE s \ {pick[s]} \in P => s \in P
  <2> DEFINE x == Some(s)
             r == s \ {x}
  <2>1. x \in s /\ x \in D /\ r \in SUBSET D
    BY <1>3, <1>11
  <2>2. h[s] = Plus(v[x], h[r])
    BY <1>9, <1>11
  <2> HIDE DEF x
  <2> SUFFICES ASSUME r \in P PROVE s \in P
    BY <1>11 DEF x
  <2>3. /\ Cardinality(s) \in Nat /\ Cardinality(r) \in Nat
        /\ Cardinality(s) = Cardinality(r) + 1
    <3>1. IsFiniteSet(s) /\ IsFiniteSet(r)
      BY <2>1, FS_Subset
    <3>2. Cardinality(r) = Cardinality(s) - 1
      BY <2>1, <3>1, FS_RemoveElement
    <3>3. Cardinality(s) \in Nat /\ Cardinality(r) \in Nat
      BY <3>1, FS_CardinalityType
    <3> QED BY <3>2, <3>3
  <2>4. v[x] \in Fractions /\ v[x].num <= v[x].den /\ h[r] \in Fractions
        /\ h[r].num <= Cardinality(r) * h[r].den
    BY <1>0, <2>1
  <2> DEFINE k == Cardinality(r)
             w == h[r]
  <2> HIDE DEF k, w
  <2>5. k \in Nat /\ w \in Fractions /\ w.num <= k * w.den
    BY <2>3, <2>4 DEF k, w
  <2>6. /\ Plus(v[x], w) \in Fractions
        /\ Plus(v[x], w).num <= (k + 1) * Plus(v[x], w).den
    BY <2>4, <2>5, PlusType
  <2> QED BY <2>2, <2>3, <2>6 DEF k, w
<1>12. \A s \in SUBSET D : s \in P
  <2> HIDE DEF P, pick
  <2> QED BY <1>5, <1>10, <1>11, AllSubsets
<1>13. h[D] \in Fractions /\ h[D].num <= Cardinality(D) * h[D].den /\ Cardinality(D) \in Nat
  BY <1>12, FS_CardinalityType
<1>14. /\ Cardinality(D) * h[D].den \in Int /\ h[D].num * 1 = h[D].num
       /\ h[D].num \in Int /\ h[D].den \in Int
  BY <1>13 DEF Fractions
<1> QED BY <1>0, <1>1, <1>13, <1>14 DEF MeanIsPositive, Lt, Frac

\* A curve that passes is nowhere below 0 and rises somewhere.
LEMMA PassingCurve ==
    ASSUME NEW c \in Seq(Int), c # << >>, c[1] \in Nat \ {0}, MayPass(c)
    PROVE  /\ \A i \in 1 .. Len(c) : c[i] >= 0
           /\ \E i \in 2 .. Len(c) : c[i] > c[i - 1]
           /\ \A j \in 1 .. Len(c) : \A i \in 1 .. j :
                c[i] > 0 => ~(100 * (c[i] - c[j]) > MaxFall * c[i])
<1>0. /\ Len(c) \in Nat /\ \A i \in 1 .. Len(c) : c[i] \in Int
      /\ MaxFall \in Nat /\ MaxFall <= 100
  BY BacktestAssumption
<1> DEFINE worst == MaxDrawdown(c)
           limit == Frac(MaxFall, 100)
<1>1. /\ worst \in Fractions /\ Le(worst, limit) /\ limit \in Fractions
      /\ Frac(1, 1) \in Fractions /\ Le(limit, Frac(1, 1))
  <2>1. worst \in Fractions
    BY DeepestFall
  <2>2. Le(worst, limit)
    BY DEF MayPass
  <2>3. limit \in Fractions /\ Frac(1, 1) \in Fractions /\ Le(limit, Frac(1, 1))
    BY <1>0 DEF Frac, Fractions, Le
  <2> QED BY <2>1, <2>2, <2>3
<1>2. \A j \in 1 .. Len(c) :
        /\ c[j] >= 0 => \A i \in 1 .. j : c[i] > 0 => Le(FallFrom(c[i], c[j]), worst)
        /\ c[j] < 0 => Lt(Frac(1, 1), worst)
  BY DeepestFall
<1> HIDE DEF worst
<1>3. ASSUME NEW j \in 1 .. Len(c) PROVE c[j] >= 0
  <2> SUFFICES ASSUME c[j] < 0 PROVE FALSE
    BY <1>0
  <2>1. Lt(Frac(1, 1), worst)
    BY <1>2
  <2> HIDE DEF limit
  <2>2. Lt(Frac(1, 1), limit)
    BY <1>1, <2>1, FractionTrans
  <2> QED BY <1>0, <1>1, <2>2 DEF Lt, Le, Frac, limit
<1>4. ASSUME NEW j \in 1 .. Len(c), NEW i \in 1 .. j, c[i] > 0
      PROVE  ~(100 * (c[i] - c[j]) > MaxFall * c[i])
  <2>1. i \in 1 .. Len(c)
    BY <1>0
  <2>2. c[i] \in Nat \ {0} /\ c[j] \in Nat
    BY <1>0, <1>3, <1>4, <2>1
  <2>3. Le(FallFrom(c[i], c[j]), worst) /\ FallFrom(c[i], c[j]) \in Fractions
    BY <1>2, <1>4, <2>2, FallType
  <2>4. Le(FallFrom(c[i], c[j]), limit)
    <3> HIDE DEF limit
    <3> QED BY <1>1, <2>3, FractionTrans
  <2>5. (c[i] - c[j]) * 100 <= MaxFall * c[i]
    BY <2>4 DEF Le, FallFrom, Frac
  <2>6. (c[i] - c[j]) * 100 = 100 * (c[i] - c[j]) /\ 100 * (c[i] - c[j]) \in Int
        /\ MaxFall * c[i] \in Int
    BY <1>0, <2>2
  <2> QED BY <2>5, <2>6
<1>5. ASSUME \A i \in 2 .. Len(c) : ~(c[i] > c[i - 1]) PROVE FALSE
  <2> DEFINE I == 1 .. Len(c) - 1
             D == {j \in I : c[j] # 0}
             g == Growth(c)
  <2>0. g = [i \in D |-> Frac(c[i + 1], c[i])]
    BY DEF Growth
  <2>1. IsFiniteSet(D)
    <3>1. IsFiniteSet(I) /\ D \in SUBSET I
      <4>1. 1 \in Int /\ Len(c) - 1 \in Int
        BY <1>0
      <4> QED BY <4>1, FS_Interval
    <3> HIDE DEF I, D
    <3> QED BY <3>1, FS_Subset
  <2>2. ASSUME NEW i \in D
        PROVE  /\ g[i] = Frac(c[i + 1], c[i]) /\ c[i + 1] \in Int /\ c[i] \in Nat \ {0}
               /\ c[i + 1] <= c[i]
    <3>1. g[i] = Frac(c[i + 1], c[i])
      BY <2>0
    <3>2. i \in 1 .. Len(c) /\ i + 1 \in 2 .. Len(c) /\ i + 1 \in 1 .. Len(c) /\ i + 1 - 1 = i
      BY <1>0
    <3>3. ~(c[i + 1] > c[i])
      BY <1>5, <3>2
    <3>4. c[i] \in Int /\ c[i] >= 0 /\ c[i + 1] \in Int
      BY <1>0, <1>3, <3>2
    <3> QED BY <3>1, <3>3, <3>4
  <2>3. g \in [D -> Fractions] /\ \A i \in D : g[i].num <= g[i].den
    <3>1. g = [i \in D |-> g[i]]
      BY <2>0
    <3> HIDE DEF g, D
    <3> QED BY <2>2, <3>1 DEF Frac, Fractions
  <2> HIDE DEF g, D
  <2>4. ~MeanIsPositive(g)
    BY <2>1, <2>3, NoGain
  <2> QED BY <2>4 DEF MayPass, SharpeIsPositive, g
<1> QED BY <1>3, <1>4, <1>5

\* A replay that passes has traded, and its curve rose somewhere and nowhere fell
\* below what is allowed, for every strategy, history and limit.
THEOREM PassMeansTrades == Spec => []PassedTraded
<1>1. TypeOK /\ CurveOK /\ OnePositionAtATime => PassedTraded
  <2> SUFFICES ASSUME TypeOK, CurveOK, OnePositionAtATime, passed
               PROVE  /\ Report.numTrades > 0
                      /\ \E i \in 2 .. Len(equity) : equity[i] > equity[i - 1]
                      /\ ~\E i, j \in DOMAIN equity : /\ i < j /\ equity[i] > 0
                            /\ 100 * (equity[i] - equity[j]) > MaxFall * equity[i]
    BY DEF PassedTraded
  <2>1. /\ equity \in Seq(Int) /\ equity # << >> /\ equity[1] \in Nat \ {0}
        /\ DOMAIN equity = 1 .. Len(equity) /\ MayPass(equity) /\ phase = "done"
        /\ Len(equity) \in Nat
    BY BacktestAssumption DEF TypeOK, CurveOK
  <2>2. PICK up \in 2 .. Len(equity) : equity[up] > equity[up - 1]
    BY <2>1, PassingCurve
  <2>3. ~\E i, j \in DOMAIN equity : /\ i < j /\ equity[i] > 0
                                     /\ 100 * (equity[i] - equity[j]) > MaxFall * equity[i]
    <3>1. \A j \in 1 .. Len(equity) : \A i \in 1 .. j :
                equity[i] > 0 => ~(100 * (equity[i] - equity[j]) > MaxFall * equity[i])
      BY <2>1, PassingCurve
    <3>2. \A i, j \in 1 .. Len(equity) : i < j => i \in 1 .. j
      BY <2>1
    <3> QED BY <2>1, <3>1, <3>2
  <2>4. Len(trades) # 0
    <3> SUFFICES ASSUME Len(trades) = 0 PROVE FALSE
      OBVIOUS
    <3>1. Len(entryFees) = 0 /\ entryFees \in Seq(Nat)
      BY <2>1 DEF OnePositionAtATime, TypeOK
    <3>2. entryFees = << >>
      BY <3>1
    <3>3. \A i \in 1 .. Len(equity) : equity[i] = Capital
      BY <3>2 DEF CurveOK
    <3>4. up \in 1 .. Len(equity) /\ up - 1 \in 1 .. Len(equity)
      BY <2>1, <2>2
    <3>5. equity[up] = Capital /\ equity[up - 1] = Capital /\ Capital \in Nat
      BY <3>3, <3>4, BacktestAssumption
    <3> QED BY <2>2, <3>5
  <2>5. Report.numTrades > 0
    BY <2>4 DEF Report, TypeOK
  <2> QED BY <2>2, <2>3, <2>5
<1> QED BY <1>1, InitTyped, NextTyped, InitCurve, NextCurve, ReplayType, OneAtATime, PTL DEF Spec

\* on_bars of these strategies answers the same to the bars_needed latest bars
\* as to all of them.
LEMMA SignalOfWindow ==
    ASSUME FastIsFaster, NEW k \in WindowKinds, NEW b \in Seq(BarType),
           BarsNeeded(k) \in 1 .. Len(b)
    PROVE  Live(k, b) = OnBars(k, b)
<1> DEFINE n == BarsNeeded(k)
           w == LastN(b, n)
<1>0. \A x \in BarType : x.close \in Int
  BY DEF BarType, Prices
<1>1. /\ n \in 1 .. Len(b) /\ n \in Nat /\ Len(b) \in Nat /\ ~(Len(b) < n) /\ ~(n < n)
      /\ b # << >>
  OBVIOUS
<1>2. w \in Seq(BarType) /\ Len(w) = n
  <2> HIDE DEF n
  <2> QED BY <1>1, LastNElements
<1>3. w # << >>
  BY <1>1, <1>2
<1>4. /\ Params.fast \in Nat \ {0} /\ Params.slow \in Nat \ {0} /\ Params.period \in Nat \ {0}
      /\ Params.bandPeriod \in Nat \ {0} /\ Params.atrPeriod \in Nat \ {0}
  BY ParamsAssumption
<1> HIDE DEF n, w
<1>5. CASE k = "ma"
  <2>1. n = Params.slow + 1
    BY <1>5 DEF BarsNeeded, n
  <2>2. Params.fast < n /\ Params.slow < n
    BY <1>4, <2>1 DEF FastIsFaster
  <2>3. MaCrossover(w) = MaCrossover(b)
    BY <1>0, <1>1, <2>2, MaOfWindow DEF w
  <2>4. OnBars(k, w) = MaCrossover(w) /\ OnBars(k, b) = MaCrossover(b)
    BY <1>1, <1>2, <1>3, <1>5 DEF OnBars, n
  <2> QED BY <2>3, <2>4 DEF Live, w, n
<1>6. CASE k = "momentum"
  <2>1. n = Max({Params.period + 2, Params.atrPeriod + 2})
    BY <1>6 DEF BarsNeeded, n
  <2>2. Params.period + 2 <= n
    <3>1. Params.period + 2 \in Int /\ Params.atrPeriod + 2 \in Int
      BY <1>4
    <3>2. n >= Params.period + 2
      BY <2>1, <3>1, MaxOfTwo
    <3> QED BY <1>1, <3>1, <3>2
  <2>3. Momentum(w) = Momentum(b)
    BY <1>0, <1>1, <2>2, MomentumOfWindow DEF w
  <2>4. OnBars(k, w) = Momentum(w) /\ OnBars(k, b) = Momentum(b)
    BY <1>1, <1>2, <1>3, <1>6 DEF OnBars, n
  <2> QED BY <2>3, <2>4 DEF Live, w, n
<1>7. CASE k = "bollinger"
  <2>1. n = Max({Params.bandPeriod + 1, Params.atrPeriod + 2})
    BY <1>7 DEF BarsNeeded, n
  <2>2. Params.bandPeriod < n
    <3>1. Params.bandPeriod + 1 \in Int /\ Params.atrPeriod + 2 \in Int
      BY <1>4
    <3>2. n >= Params.bandPeriod + 1
      BY <2>1, <3>1, MaxOfTwo
    <3> QED BY <1>1, <1>4, <3>1, <3>2
  <2>3. Bollinger(w) = Bollinger(b)
    BY <1>0, <1>1, <2>2, BollingerOfWindow DEF w
  <2>4. OnBars(k, w) = Bollinger(w) /\ OnBars(k, b) = Bollinger(b)
    BY <1>1, <1>2, <1>3, <1>7 DEF OnBars, n
  <2> QED BY <2>3, <2>4 DEF Live, w, n
<1>8. CASE k = "supertrend"
  <2> DEFINE p == Params.atrPeriod  t == Params.multiplierTenths
  <2>1. n = p + 2
    BY <1>8 DEF BarsNeeded, n
  <2>2. Supertrend(w, p, t) = Supertrend(b, p, t)
    <3>1. p \in Nat \ {0} /\ p + 2 \in 1 .. Len(b)
      BY <1>1, <1>4, <2>1
    <3> HIDE DEF p, t
    <3>2. Supertrend(LastN(b, p + 2), p, t) = Supertrend(b, p, t)
      BY <3>1, SupertrendOfWindow
    <3> QED BY <2>1, <3>2 DEF w
  <2>3. OnBars(k, w) = Supertrend(w, p, t) /\ OnBars(k, b) = Supertrend(b, p, t)
    BY <1>1, <1>2, <1>3, <1>8 DEF OnBars, n
  <2> QED BY <2>2, <2>3 DEF Live, w, n
<1> QED BY <1>5, <1>6, <1>7, <1>8 DEF WindowKinds

\* The window of a replay in progress.
LEMMA WindowFacts ==
    ASSUME Typed, phase # "refused"
    PROVE  /\ Window \in Seq(BarType) /\ Len(Window) = seen
           /\ \A i \in 1 .. seen : Window[i] = bars[i]
           /\ BarsNeeded(kind) \in Nat /\ BarsNeeded(kind) < seen /\ seen \in Nat
<1>1. /\ BarsNeeded(kind) \in Nat /\ bars \in Seq(BarType) /\ Len(bars) \in Nat
      /\ seen \in BarsNeeded(kind) + 1 .. Len(bars)
  BY BacktestAssumption DEF Typed, TypeOK, SeenOK
<1>2. BarsNeeded(kind) < seen /\ seen \in Nat /\ 1 \in Int /\ seen \in Int /\ 1 <= seen
  BY <1>1
<1>3. \A i \in 1 .. seen : bars[i] \in BarType
  BY <1>1
<1>4. /\ SubSeq(bars, 1, seen) \in Seq(BarType)
      /\ Len(SubSeq(bars, 1, seen)) = IF 1 <= seen THEN seen - 1 + 1 ELSE 0
      /\ \A i \in 1 .. seen - 1 + 1 : SubSeq(bars, 1, seen)[i] = bars[1 + i - 1]
  BY <1>2, <1>3, SubSeqProperties
<1>5. seen - 1 + 1 = seen /\ \A i \in 1 .. seen : 1 + i - 1 = i
  BY <1>2
<1>6. Len(SubSeq(bars, 1, seen)) = seen /\ \A i \in 1 .. seen : SubSeq(bars, 1, seen)[i] = bars[i]
  BY <1>2, <1>4, <1>5
<1> QED BY <1>1, <1>2, <1>4, <1>6 DEF Window

\* on_bars has at least one bar to look at.
LEMMA BarsArePositive == \A k \in WindowKinds : BarsNeeded(k) # 0
<1> SUFFICES ASSUME NEW k \in WindowKinds PROVE BarsNeeded(k) # 0
  OBVIOUS
<1>1. /\ Params.fast \in Nat \ {0} /\ Params.slow \in Nat \ {0} /\ Params.period \in Nat \ {0}
      /\ Params.bandPeriod \in Nat \ {0} /\ Params.atrPeriod \in Nat \ {0}
  BY ParamsAssumption
<1>2. Params.slow + 1 # 0 /\ Params.atrPeriod + 2 # 0
  BY <1>1
<1>3. Max({Params.period + 2, Params.atrPeriod + 2}) # 0
  <2>1. Params.period + 2 \in Int /\ Params.atrPeriod + 2 \in Int /\ Params.period + 2 > 0
    BY <1>1
  <2>2. Max({Params.period + 2, Params.atrPeriod + 2}) >= Params.period + 2
    BY <2>1, MaxOfTwo
  <2> QED BY <2>1, <2>2
<1>4. Max({Params.bandPeriod + 1, Params.atrPeriod + 2}) # 0
  <2>1. Params.bandPeriod + 1 \in Int /\ Params.atrPeriod + 2 \in Int /\ Params.bandPeriod + 1 > 0
    BY <1>1
  <2>2. Max({Params.bandPeriod + 1, Params.atrPeriod + 2}) >= Params.bandPeriod + 1
    BY <2>1, MaxOfTwo
  <2> QED BY <2>1, <2>2
<1> QED BY <1>2, <1>3, <1>4 DEF WindowKinds, BarsNeeded

\* What the replay validated of moving averages, momentum, Bollinger bands and
\* Supertrend is what trades: on_bars of these gives the live round, which has
\* bars_needed bars, the signal it gives the replay, which has all so far.
THEOREM LiveWindows == FastIsFaster => (Spec => []LiveWindowsAgree)
<1> SUFFICES ASSUME FastIsFaster PROVE Spec => []LiveWindowsAgree
  OBVIOUS
<1>1. Init => SignalOK
  BY DEF Init, SignalOK, Window
<1>2. Typed /\ SignalOK => LiveWindowsAgree
  <2> SUFFICES ASSUME Typed, SignalOK, kind \in WindowKinds, phase # "refused"
               PROVE  Live(kind, Window) = signal
    BY DEF LiveWindowsAgree
  <2>1. /\ Window \in Seq(BarType) /\ Len(Window) = seen
        /\ BarsNeeded(kind) \in Nat /\ BarsNeeded(kind) < seen /\ seen \in Nat
    BY WindowFacts
  <2>2. BarsNeeded(kind) # 0
    BY BarsArePositive
  <2>3. BarsNeeded(kind) \in 1 .. Len(Window)
    BY <2>1, <2>2
  <2> QED BY <2>1, <2>3, SignalOfWindow DEF SignalOK
<1> QED BY <1>1, <1>2, InitTyped, NextTyped, SignalKept, PTL DEF Spec

\* The distance of an exit that is some share of a price is a cent at least.
LEMMA DistanceIs ==
    ASSUME NEW price \in Prices, NEW pct \in Positive
    PROVE  Distance(price, pct) \in Nat \ {0}
<1> DEFINE n == price * pct.num
           d == 100 * pct.den
<1>1. price \in Nat \ {0} /\ pct.num \in Nat \ {0} /\ pct.den \in Nat \ {0}
  BY DEF Prices, Positive, Fractions
<1>2. n \in Nat \ {0} /\ d \in Nat \ {0}
  BY <1>1
<1>3. Distance(price, pct) = -((-n) \div d)
  BY DEF Distance
<1> HIDE DEF n, d
<1>4. (-n) \div d \in Int /\ (-n) \div d < 0
  BY <1>2
<1> QED BY <1>3, <1>4

\* Whoever measures an exit off the bars has one, on its side of the price, for
\* every signal on all bars and with all parameters: the filters that let the
\* signal through leave room for it.
THEOREM ExitsAreBracketed == Spec => []ExitsBracket
<1>1. Init => SignalOK
  BY DEF Init, SignalOK, Window
<1>2. Typed /\ SignalOK => ExitsBracket
  <2> SUFFICES ASSUME Typed, SignalOK, phase = "replay", signal # NoSignal
               PROVE  ExitsBracket
    BY DEF ExitsBracket
  <2> DEFINE side == IF signal = Buy THEN "buy" ELSE "sell"
             exits == SignalExits(kind, Window, signal)
             reference == ReferencePrice(kind, Window)
             price == 100 * reference
             stop == StopPrice(side, price, exits.stop)
             take == TakePrice(side, price, exits.take)
             narrowest == Frac(Params.minRange + Params.stopBuffer, 1000)
             Measured ==
                /\ kind \in {"orb", "prevDay", "vwapBands"} => exits.stop \in Positive
                /\ kind \in {"vwap", "vwapBands", "gap"} => exits.take \in Positive
                /\ kind \in {"orb", "prevDay", "vwap", "vwapBands", "gap"} => reference \in Prices
                /\ kind = "orb" => Le(narrowest, exits.stop)
  <2>1. Window \in Seq(BarType) /\ signal \in {Buy, Sell}
    BY WindowFacts DEF Typed, TypeOK
  <2>2. OnBars(kind, Window) = signal /\ Window # << >>
    BY DEF SignalOK, OnBars
  <2>3. Last(Window).close \in Prices
    BY <2>1, <2>2, LastBar
  <2>4. ASSUME kind = "orb" PROVE Measured
    <3>1. OpeningRange(Window) = signal
      BY <2>2, <2>4 DEF OnBars
    <3>2. exits.stop = RangeStop(Window, signal)
      BY <2>4 DEF SignalExits
    <3>3. /\ reference \in Prices /\ RangeStop(Window, signal) \in Positive
          /\ Le(narrowest, RangeStop(Window, signal))
      BY <2>1, <2>4, <3>1, BreakoutStop
    <3> QED BY <2>4, <3>2, <3>3
  <2>5. ASSUME kind = "prevDay" PROVE Measured
    <3>1. PrevDayBreakout(Window) # NoSignal
      BY <2>2, <2>5 DEF OnBars
    <3>2. exits.stop = AtrStop(Window, reference, Frac(1, 100))
      BY <2>5 DEF SignalExits
    <3>3. reference \in Prices
      BY <2>1, <2>5, <3>1, PrevDayPrice
    <3>4. Frac(1, 100) \in Positive
      BY PositiveFrac
    <3>5. exits.stop \in Positive
      <4> HIDE DEF exits, reference
      <4> QED BY <2>1, <2>2, <3>2, <3>3, <3>4, AtrStopType
    <3> QED BY <2>5, <3>3, <3>5
  <2>6. ASSUME kind = "vwapBands" PROVE Measured
    <3>1. VwapBands(Window) # NoSignal
      BY <2>2, <2>6 DEF OnBars
    <3>2. exits = BandExits(Window) /\ reference = Last(Window).close
      BY <2>6 DEF SignalExits, ReferencePrice
    <3>3. BandExits(Window).stop \in Positive /\ BandExits(Window).take \in Positive
      BY <2>1, <2>2, <3>1, BandExitsType
    <3> QED BY <2>3, <2>6, <3>2, <3>3
  <2>7. ASSUME kind = "vwap" PROVE Measured
    <3>1. Vwap(Window) # NoSignal
      BY <2>2, <2>7 DEF OnBars
    <3>2. exits.take = VwapTake(Window) /\ reference = Last(Window).close
      BY <2>7 DEF SignalExits, ReferencePrice
    <3>3. VwapTake(Window) \in Positive
      BY <2>1, <2>2, <3>1, VwapTakeType
    <3> QED BY <2>3, <2>7, <3>2, <3>3
  <2>8. ASSUME kind = "gap" PROVE Measured
    <3>1. GapFill(Window) # NoSignal
      BY <2>2, <2>8 DEF OnBars
    <3>2. exits.take = GapTake(Window)
      BY <2>8 DEF SignalExits
    <3>3. GapTake(Window) \in Positive /\ reference \in Prices
      BY <2>1, <2>8, <3>1, GapTakeType
    <3> QED BY <2>8, <3>2, <3>3
  <2> HIDE DEF exits, reference, narrowest
  <2>9. Measured
    <3>1. CASE kind \in {"orb", "prevDay", "vwap", "vwapBands", "gap"}
      <4> HIDE DEF Measured
      <4> QED BY <2>4, <2>5, <2>6, <2>7, <2>8, <3>1
    <3>2. CASE kind \notin {"orb", "prevDay", "vwap", "vwapBands", "gap"}
      BY <3>2
    <3> QED BY <3>1, <3>2
  <2>10. reference \in Prices => price \in Prices /\ price \in Int
    BY DEF Prices
  <2> HIDE DEF price
  <2>11. /\ (signal = 1 /\ side = "buy") \/ (signal = -1 /\ side = "sell")
         /\ stop = (IF side = "buy" THEN price - Distance(price, exits.stop)
                    ELSE price + Distance(price, exits.stop))
         /\ take = (IF side = "buy" THEN price + Distance(price, exits.take)
                    ELSE price - Distance(price, exits.take))
    BY <2>1 DEF Buy, Sell, StopPrice, TakePrice, Below, Above
  <2> HIDE DEF side, stop, take
  <2>12. exits.stop \in Positive /\ reference \in Prices => signal * stop < signal * price
    <3> SUFFICES ASSUME exits.stop \in Positive, reference \in Prices
                 PROVE  signal * stop < signal * price
      OBVIOUS
    <3> DEFINE ds == Distance(price, exits.stop)
    <3>1. ds \in Nat \ {0} /\ price \in Int
      BY <2>10, DistanceIs
    <3>2. (signal = 1 /\ stop = price - ds) \/ (signal = -1 /\ stop = price + ds)
      BY <2>11
    <3> HIDE DEF ds
    <3> QED BY <3>1, <3>2
  <2>13. exits.take \in Positive /\ reference \in Prices => signal * price < signal * take
    <3> SUFFICES ASSUME exits.take \in Positive, reference \in Prices
                 PROVE  signal * price < signal * take
      OBVIOUS
    <3> DEFINE dt == Distance(price, exits.take)
    <3>1. dt \in Nat \ {0} /\ price \in Int
      BY <2>10, DistanceIs
    <3>2. (signal = 1 /\ take = price + dt) \/ (signal = -1 /\ take = price - dt)
      BY <2>11
    <3> HIDE DEF dt
    <3> QED BY <3>1, <3>2
  <2> QED BY <2>9, <2>12, <2>13
        DEF ExitsBracket, side, exits, reference, price, stop, take, narrowest
<1> QED BY <1>1, <1>2, InitTyped, NextTyped, SignalKept, PTL DEF Spec

\* The bars of a replay stay those the store answered.
Given == kind \in Kinds /\ bars \in Histories[kind]

LEMMA GivenStays == Given /\ [Next]_vars => Given'
BY DEF Given, Next, EnterLong, ExitLong, Hold, Turn, Finish, inputs, vars

\* With bands this wide Supertrend never signals: not for any bars that close
\* in their range, and any period and multiplier that make them so, as the
\* defaults of the code do.
THEOREM SupertrendNeverSignals == ClosesAreInRange => (Spec => []SupertrendSilent)
<1> SUFFICES ASSUME ClosesAreInRange PROVE Spec => []SupertrendSilent
  OBVIOUS
<1>1. Init => Given
  BY DEF Init, Given
<1>2. Typed /\ Given => SupertrendSilent
  <2> SUFFICES ASSUME Typed, Given, phase # "refused",
                      NEW period \in 1 .. seen - 2, NEW tenths \in {3, 7, 10},
                      BandsTooWide(period, tenths)
               PROVE  Supertrend(Window, period, tenths) = NoSignal
    BY DEF SupertrendSilent
  <2>1. /\ Window \in Seq(BarType) /\ Len(Window) = seen /\ seen \in Nat
        /\ \A i \in 1 .. seen : Window[i] = bars[i]
    BY WindowFacts
  <2>2. period \in Nat \ {0} /\ period + 2 <= Len(Window) /\ tenths \in Nat
    BY <2>1
  <2>3. 2 * tenths * (2 * period - 1) >= 10 * period * period
    BY DEF BandsTooWide
  <2>4. ClosesInRange(bars) /\ bars \in Seq(BarType)
    BY DEF ClosesAreInRange, Given, Typed, TypeOK
  <2>5. \A i \in 1 .. seen : i \in 1 .. Len(bars)
    BY DEF Typed, SeenOK
  <2>6. ClosesInRange(Window)
    BY <2>1, <2>4, <2>5 DEF ClosesInRange
  <2> QED BY <2>1, <2>2, <2>3, <2>6, SupertrendIsSilent
<1> QED BY <1>1, <1>2, GivenStays, InitTyped, NextTyped, PTL DEF Spec

\* The window of a replay has the properties of the bars it is of.
LEMMA WindowOfGiven ==
    ASSUME Typed, Given, phase # "refused"
    PROVE  /\ ClosesInRange(bars) => ClosesInRange(Window)
           /\ Unbroken(bars) => Unbroken(Window)
<1>1. /\ Len(Window) = seen /\ \A i \in 1 .. seen : Window[i] = bars[i]
      /\ seen \in Nat /\ Len(bars) \in Nat /\ seen <= Len(bars)
  BY WindowFacts DEF Typed, TypeOK, SeenOK
<1>2. \A i \in 1 .. seen : i \in 1 .. Len(bars)
  BY <1>1
<1>3. ClosesInRange(bars) => ClosesInRange(Window)
  BY <1>1, <1>2 DEF ClosesInRange
<1>4. ASSUME Unbroken(bars) PROVE Unbroken(Window)
  <2>1. \A i \in 1 .. seen : IsSessionBar(Window[i])
    BY <1>1, <1>2, <1>4 DEF Unbroken
  <2>2. ASSUME NEW i \in 1 .. seen - 1
        PROVE  /\ Window[i].day <= Window[i + 1].day
               /\ Window[i].day = Window[i + 1].day => Window[i + 1].time = Window[i].time + 1
    <3>1. i \in 1 .. Len(bars) - 1 /\ i \in 1 .. seen /\ i + 1 \in 1 .. seen
      BY <1>1
    <3>2. Window[i] = bars[i] /\ Window[i + 1] = bars[i + 1]
      BY <1>1, <3>1
    <3> QED BY <1>4, <3>1, <3>2 DEF Unbroken
  <2> QED BY <1>1, <2>1, <2>2 DEF Unbroken
<1> QED BY <1>3, <1>4

\* Of unbroken sessions, what the replay validated of the two strategies that
\* look at the session before is what trades, as long as the window of a live
\* round reaches back to it.
THEOREM LiveSessions == SessionsAreUnbroken => (Spec => []LiveSessionsAgree)
<1> SUFFICES ASSUME SessionsAreUnbroken PROVE Spec => []LiveSessionsAgree
  OBVIOUS
<1>1. Init => Given /\ SignalOK
  BY DEF Init, Given, SignalOK, Window
<1>2. Typed /\ Given /\ SignalOK => LiveSessionsAgree
  <2> SUFFICES ASSUME Typed, Given, SignalOK, kind \in {"gap", "prevDay"},
                      phase # "refused", SessionsCovered
               PROVE  Live(kind, Window) = signal
    BY DEF LiveSessionsAgree
  <2> DEFINE n == BarsNeeded(kind)
             w == Window
             c == LastN(w, n)
  <2>1. w \in Seq(BarType) /\ Len(w) = seen /\ seen \in Nat /\ n \in Nat /\ n < seen
    BY WindowFacts
  <2>2. Unbroken(w)
    BY WindowOfGiven DEF SessionsAreUnbroken, Given
  <2>3. signal = OnBars(kind, w)
    BY DEF SignalOK
  <2>4. CASE kind = "gap"
    <3>1. n = Params.gapBars /\ Params.gapBars >= 2
      BY <2>4 DEF BarsNeeded, SessionsCovered
    <3>2. n \in 2 .. Len(w) /\ n \in 1 .. Len(w) /\ ~(Len(w) < n) /\ ~(n < n)
      BY <2>1, <3>1
    <3> HIDE DEF n, w
    <3>3. GapFill(c) = GapFill(w)
      BY <2>1, <2>2, <3>2, GapOfWindow
    <3>4. c \in Seq(BarType) /\ Len(c) = n
      BY <2>1, <3>2, LastNElements
    <3>5. w # << >> /\ c # << >>
      BY <2>1, <3>2, <3>4
    <3>6. OnBars(kind, c) = GapFill(c) /\ OnBars(kind, w) = GapFill(w)
      BY <2>4, <3>2, <3>4, <3>5 DEF OnBars, n
    <3> QED BY <2>3, <3>3, <3>6 DEF Live, n, w
  <2>5. CASE kind = "prevDay"
    <3>1. n >= Params.prevDayBars /\ Params.prevDayBars >= 2 * SessionLength
      <4>1. Params.prevDayBars \in Int /\ Params.atrPeriod + 2 \in Int
        BY ParamsAssumption
      <4> QED BY <2>5, <4>1, MaxOfTwo DEF BarsNeeded, SessionsCovered
    <3>2. /\ n >= 2 * SessionLength /\ n \in 1 .. Len(w) /\ ~(Len(w) < n) /\ ~(n < n)
      <4>1. Params.prevDayBars \in Nat /\ SessionLength \in Nat \ {0}
        BY ParamsAssumption, SessionAssumption
      <4> HIDE DEF n, w
      <4> QED BY <2>1, <3>1, <4>1
    <3> HIDE DEF n, w
    <3>3. PrevDayBreakout(c) = PrevDayBreakout(w)
      BY <2>1, <2>2, <3>2, PrevDayOfWindow
    <3>4. c \in Seq(BarType) /\ Len(c) = n
      BY <2>1, <3>2, LastNElements
    <3>5. w # << >> /\ c # << >>
      BY <2>1, <3>2, <3>4
    <3>6. OnBars(kind, c) = PrevDayBreakout(c) /\ OnBars(kind, w) = PrevDayBreakout(w)
      BY <2>5, <3>2, <3>4, <3>5 DEF OnBars, n
    <3> QED BY <2>3, <3>3, <3>6 DEF Live, n, w
  <2> QED BY <2>4, <2>5
<1> QED BY <1>1, <1>2, GivenStays, InitTyped, NextTyped, SignalKept, PTL DEF Spec

\* Together: what the replay validated of these six strategies is what trades.
THEOREM LiveAgreement == FastIsFaster /\ SessionsAreUnbroken => (Spec => []LiveAgrees)
<1> SUFFICES ASSUME FastIsFaster, SessionsAreUnbroken PROVE Spec => []LiveAgrees
  OBVIOUS
<1>1. LiveWindowsAgree /\ LiveSessionsAgree => LiveAgrees
  BY DEF LiveAgrees
<1>2. (Spec => []LiveWindowsAgree) /\ (Spec => []LiveSessionsAgree)
  BY LiveWindows, LiveSessions
<1> QED BY <1>1, <1>2, PTL

\* Of unbroken sessions, a live round sees a breakout of the opening range only
\* on the first bar after it.
THEOREM LiveBreakout ==
    ClosesAreInRange /\ SessionsAreUnbroken => (Spec => []LiveBreakoutIsFirst)
<1> SUFFICES ASSUME ClosesAreInRange, SessionsAreUnbroken PROVE Spec => []LiveBreakoutIsFirst
  OBVIOUS
<1>1. Init => Given
  BY DEF Init, Given
<1>2. Typed /\ Given => LiveBreakoutIsFirst
  <2> SUFFICES ASSUME Typed, Given, kind = "orb", phase # "refused",
                      Live(kind, Window) # NoSignal
               PROVE  Last(Window).time = Params.openingBars
    BY DEF LiveBreakoutIsFirst
  <2> DEFINE n == BarsNeeded(kind)
             w == Window
             c == LastN(w, n)
  <2>1. w \in Seq(BarType) /\ Len(w) = seen /\ seen \in Nat /\ n \in Nat /\ n < seen
    BY WindowFacts
  <2>2. Unbroken(w) /\ ClosesInRange(w)
    BY WindowOfGiven DEF SessionsAreUnbroken, ClosesAreInRange, Given, Kinds
  <2>3. n = Params.openingBars + 1 /\ Params.openingBars \in Nat \ {0}
    BY ParamsAssumption DEF BarsNeeded
  <2>4. n \in 1 .. Len(w) /\ n >= 1
    BY <2>1, <2>3
  <2> HIDE DEF n, w
  <2>5. /\ c \in Seq(BarType) /\ Len(c) = n /\ Last(c) = Last(w)
        /\ Unbroken(c) /\ ClosesInRange(c)
    <3>1. Last(c) = Last(w)
      <4>1. 1 \in Nat \ {0}
        OBVIOUS
      <4> QED BY <2>1, <2>4, <4>1, LastOfWindow
    <3> QED BY <2>1, <2>2, <2>4, <3>1, LastNElements, UnbrokenWindow
  <2>6. c # << >> /\ Len(c) <= Params.openingBars + 1
    BY <2>3, <2>4, <2>5
  <2>7. OnBars(kind, c) = OpeningRange(c)
    BY <2>6 DEF OnBars
  <2>8. OpeningRange(c) # NoSignal
    BY <2>7 DEF Live, n, w
  <2> HIDE DEF c
  <2>9. Last(c).time = Params.openingBars
    BY <2>5, <2>6, <2>8, BreakoutIsFirst
  <2> QED BY <2>5, <2>9 DEF w
<1> QED BY <1>1, <1>2, GivenStays, InitTyped, NextTyped, PTL DEF Spec
=============================================================================
