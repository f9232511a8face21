--------------------------- MODULE MCCandleEngine ---------------------------
(* Timeframes of two and four seconds. *)
EXTENDS CandleEngine, TLC

Widths == "1m" :> 2 @@ "5m" :> 4
=============================================================================
