--------------------------- MODULE MCOrderTracking ---------------------------
(***************************************************************************)
(* Small instances of OrderTracking: one bracket order, and a plain order  *)
(* next to it where the order of two fills matters.                        *)
(***************************************************************************)
EXTENDS OrderTracking

CONSTANTS Bracket, Plain
=============================================================================
