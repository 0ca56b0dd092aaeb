--------------------------- MODULE MCTradingCore ---------------------------
(* The composed process, small: two coroutines that submit the same order, the
   second as a retry of the first, and one execution of the kill switch. *)
EXTENDS TradingCore, TLC

CONSTANTS p1, p2, k1, x1, eth, binance

MCMarketOf == [i \in Instrument |-> binance]
MCRequest == {[key |-> k1, inst |-> eth, side |-> "buy", lev |-> 3]}
MCHolding == [i \in Instrument |-> -1..1]
MCDailyPnl == {0}
Callers == Permutations({p1, p2})
=============================================================================
