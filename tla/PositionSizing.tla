--------------------------- MODULE PositionSizing ----------------------------
(***************************************************************************)
(* What delta-aware sizing promises, without saying how: for each symbol,  *)
(* what is held plus what is still working at the broker never exceeds the *)
(* target, because an order is only ever for what is missing.              *)
(***************************************************************************)
EXTENDS Integers

CONSTANTS
    Symbols,
    Target      \* the quantity wanted of each symbol

VARIABLES
    held,       \* the position in each symbol
    open        \* the unfilled quantity of its buy orders

Init ==
    /\ held = [s \in Symbols |-> 0]
    /\ open = [s \in Symbols |-> 0]

Order(s) == \E q \in 1 .. Target[s] - held[s] - open[s] :
    open' = [open EXCEPT ![s] = @ + q] /\ UNCHANGED held

Fill(s) == \E q \in 1 .. open[s] :
    /\ open' = [open EXCEPT ![s] = @ - q]
    /\ held' = [held EXCEPT ![s] = @ + q]

Die(s) == \E q \in 1 .. open[s] :
    open' = [open EXCEPT ![s] = @ - q] /\ UNCHANGED held

Close(s) == \E q \in 1 .. held[s] :
    held' = [held EXCEPT ![s] = @ - q] /\ UNCHANGED open

Next == \E s \in Symbols : Order(s) \/ Fill(s) \/ Die(s) \/ Close(s)

Spec == Init /\ [][Next]_<<held, open>>
=============================================================================
