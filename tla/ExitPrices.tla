----------------------------- MODULE ExitPrices -----------------------------
(***************************************************************************)
(* The absolute prices of a stop and a take-profit order, which            *)
(* _compute_exit_prices of src/src/polara/order_manager/manager.py makes   *)
(* of the percentages of a signal.  Prices are in whole cents, a           *)
(* percentage is a fraction [num, den], and 0 stands for None as well.     *)
(***************************************************************************)
EXTENDS Integers

\* The distance of an exit from the price.  Both roundings go away from the
\* price: down below it, up above it.
Distance(price, pct) == -((-(price * pct.num)) \div (100 * pct.den))

Below(price, pct) == price - Distance(price, pct)
Above(price, pct) == price + Distance(price, pct)

StopPrice(side, price, pct) == IF side = "buy" THEN Below(price, pct) ELSE Above(price, pct)
TakePrice(side, price, pct) == IF side = "buy" THEN Above(price, pct) ELSE Below(price, pct)
=============================================================================
