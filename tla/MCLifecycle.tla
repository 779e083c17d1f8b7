---------------------------- MODULE MCLifecycle ----------------------------
(***************************************************************************)
(* Small instance of Lifecycle: two strategies, two fields, and a grid     *)
(* that the parameters of a new strategy are not in.                       *)
(***************************************************************************)
EXTENDS Lifecycle, TLC

CONSTANTS s1, s2, r1, r2

MCLists == <<<<s1>>, <<>>, <<s2>>>>
MCDefault == [f \in Fields |-> 0]
MCGrid == {[f \in Fields |-> 1]}
MCFound == {s1 :> st @@ s2 :> "none" : st \in {"none", "inactive", "paused"}}
=============================================================================
