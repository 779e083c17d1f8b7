--------------------------- MODULE MCStrategyRound ---------------------------
(***************************************************************************)
(* Small instance of StrategyRound: two long-term strategies, one of which *)
(* needs more bars than its period covers, and one that trades, all on the *)
(* bars of one feed.                                                       *)
(***************************************************************************)
EXTENDS StrategyRound, TLC

CONSTANTS slow1, slow2, quick

MCLongTerm == <<slow1, slow2>>
MCOrder == <<quick>>
MCFeed == [s \in {slow1, slow2, quick} |-> "bars"]
MCNeeds == slow1 :> 2 @@ slow2 :> 1 @@ quick :> 2
MCCovers == slow1 :> 1 @@ slow2 :> 1 @@ quick :> 2
MCStrengths == {-100, 100}
MCRouted == {quick}
=============================================================================
