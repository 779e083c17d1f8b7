------------------------------ MODULE RiskGuard ------------------------------
(***************************************************************************)
(* The pre-trade risk checks of src/src/polara/risk_guard/guard.py.  The   *)
(* guard is a latch in the memory of the process: a breached daily loss    *)
(* halts trading, and the first check made on a later UTC day opens it.    *)
(* Money is counted in whole units, quantities in the smallest unit an     *)
(* order can have (one cent of a share in the program).                    *)
(***************************************************************************)
EXTENDS Integers

CONSTANTS
    Accounts,          \* the account records the broker may report
    MaxPositionPct,    \* limit on one position, in percent of NAV
    MaxDailyLossPct,   \* limit on the loss of a day, in percent of NAV
    QuantaPerShare,    \* quantities are rounded to 1/QuantaPerShare share
    MaxDay             \* bound: the last day a behaviour reaches

ASSUME GuardAssumption ==
    /\ \A a \in Accounts : a.nav \in Int /\ a.pnl \in Int
    /\ MaxPositionPct \in Nat
    /\ MaxDailyLossPct \in Nat
    /\ QuantaPerShare \in Nat \ {0}
    /\ MaxDay \in Nat \ {0}

NoDate == 0
Days == 1 .. MaxDay

VARIABLES
    guard,     \* RiskGuard._halted and ._halt_date
    today      \* the UTC date, datetime.now(UTC).date()

guardVars == <<guard, today>>

Unhalted == [halted |-> FALSE, haltDate |-> NoDate]

GuardTypeOK ==
    /\ guard \in [halted : BOOLEAN, haltDate : Days \cup {NoDate}]
    /\ today \in Days

GuardInit == guard = Unhalted /\ today = 1

NextDay == today < MaxDay /\ today' = today + 1

----------------------------------------------------------------------------
\* The checks are synchronous: each is a function of the latch, the date and
\* the account and positions the caller passes.

\* _reset_if_new_day
AfterReset ==
    IF guard.halted /\ guard.haltDate # NoDate /\ today > guard.haltDate
    THEN Unhalted ELSE guard

\* |unrealised + realised| / NAV > limit.  No loss and a zero NAV return
\* early; a negative NAV makes the quotient negative, so it never exceeds.
LossBreached(a) ==
    /\ a.pnl < 0
    /\ a.nav > 0
    /\ -a.pnl * 100 > MaxDailyLossPct * a.nav

\* A faulty variant of the next definition: the latch is not looked at.
LatchForgotten(a) == LossBreached(a)

\* check_daily_loss raises: the latch is down, or this account breaches.
DailyLossRaises(a) == AfterReset.halted \/ LossBreached(a)

\* What check_daily_loss leaves in the guard, raising or not.
AfterDailyLoss(a) ==
    IF ~AfterReset.halted /\ LossBreached(a)
    THEN [halted |-> TRUE, haltDate |-> today]
    ELSE AfterReset

\* A faulty variant of the next definition: a short position is never too large.
LongRaises(quantity, avgCost, a) ==
    /\ a.nav > 0
    /\ quantity * avgCost * 100 > MaxPositionPct * a.nav * QuantaPerShare

\* check_position_size, called only when check_daily_loss did not raise: the
\* notional of the held quantity exceeds its share of NAV.
PositionRaises(quantity, avgCost, a) ==
    LET size == IF quantity < 0 THEN -quantity ELSE quantity
    IN  /\ a.nav > 0
        /\ size * avgCost * 100 > MaxPositionPct * a.nav * QuantaPerShare
=============================================================================
