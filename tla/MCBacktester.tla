---------------------------- MODULE MCBacktester ----------------------------
(***************************************************************************)
(* Small instance of Backtester: short periods, few prices, and for each   *)
(* strategy all histories of a few bars.                                   *)
(***************************************************************************)
EXTENDS Backtester

MCParams == [fast |-> 1, slow |-> 2, signal |-> 2, period |-> 2, threshold |-> 20,
             oversold |-> 40, overbought |-> 60, bandPeriod |-> 3, numStd |-> 1, atrPeriod |-> 2,
             touch |-> 300, volumeTenths |-> 12, multiplierTenths |-> 3, openingBars |-> 1,
             minRange |-> 300, deviation |-> 100, stdMult |-> 1, minGap |-> 100,
             maxGap |-> 800, gapBars |-> 2, prevDayBars |-> 6,
             stopPct |-> 5, takePct |-> 10, vwapStop |-> 10, stopBuffer |-> 1,
             atrStopTenths |-> 15]

MCFixedStop == [MCParams EXCEPT !.atrStopTenths = 0]

\* Each bar opens at the close before it.
FromCloses(closes) ==
    [i \in DOMAIN closes |->
        LET open == IF i = 1 THEN closes[1] ELSE closes[i - 1]
        IN  [open |-> open, close |-> closes[i], high |-> Max({open, closes[i]}),
             low |-> Min({open, closes[i]}), volume |-> 1, day |-> 1, time |-> i - 1]]

\* Days of SessionLength bars; each bar opens where it closes.
FromBars(choice) ==
    [i \in DOMAIN choice |->
        [open |-> choice[i][1], close |-> choice[i][1], high |-> choice[i][1] + 1,
         low |-> choice[i][1] - 1, volume |-> choice[i][2],
         day |-> 1 + (i - 1) \div SessionLength, time |-> (i - 1) % SessionLength]]

Rising == {FromCloses(c) : c \in [1 .. 7 -> {2, 3, 6}]}
Sessions == {FromBars(Append(c, <<5, 1>>)) : c \in [1 .. 6 -> {4, 6} \X {1, 3}]}

\* Three days, on the first of which the volume is low.
ThreeDays == {FromBars([i \in 1 .. 9 |-> IF i <= 4 THEN <<quiet[i], 1>> ELSE busy[i]]) :
                quiet \in [1 .. 4 -> {4, 6}], busy \in [5 .. 9 -> {<<4, 1>>, <<4, 3>>, <<7, 3>>}]}

MCHistories == [k \in Kinds |->
    CASE k = "prevDay" -> ThreeDays
      [] k \in {"emaBounce", "orb", "vwap", "vwapBands", "gap"} -> Sessions
      [] OTHER -> Rising]

ASSUME FastIsFaster /\ ClosesAreInRange /\ SessionsAreUnbroken
=============================================================================
