--------------------------- MODULE MCTradeHistory ----------------------------
(* Games of MCTrade with the record of what its threads began when. *)
EXTENDS MCTrade, TradeHistory
=============================================================================
