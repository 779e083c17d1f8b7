--------------------------- MODULE MCOrderManager ----------------------------
(***************************************************************************)
(* Small instances of OrderManager.  A share costs 1 and is the smallest   *)
(* quantity, so a position_size_usd of 2 at a price of 1 is a target of 2. *)
(***************************************************************************)
EXTENDS OrderManager, TLC

CONSTANTS Sym1, Sym2, Strat1, Scheduler, Request

\* NAV 100: within the loss limit of 5 percent, and beyond it.
CalmAccount == {[nav |-> 100, pnl |-> -5]}
MovingAccount == {[nav |-> 100, pnl |-> -5], [nav |-> 100, pnl |-> -6]}

Signal(s, strength, price) ==
    [strategy |-> Strat1, symbol |-> s, strength |-> strength, price |-> price]

\* The first symbol is only bought, the second bought and sold; one sell has
\* no price, so it is sized at one share.
TwoSymbolSignals == {Signal(Sym1, 100, 1), Signal(Sym2, 100, 2), Signal(Sym2, -100, 0)}

OneBuySignal == {Signal(Sym1, 100, 1)}
OneSellSignal == {Signal(Sym1, -100, 1)}

UnitCost == [s \in Symbols |-> 1]
TargetOfOne == [s \in Symbols |-> 1]
SymbolTargets == [s \in Symbols |-> IF s = Sym1 THEN 2 ELSE 1]

\* The callers differ in nothing but their name.
CallerSymmetry == Permutations(Callers)
=============================================================================
