---------------------------- MODULE MCOrderQueue ----------------------------
(* Small instances of OrderQueue: two coroutines, two idempotency keys, one
   spot market and one futures market. *)
EXTENDS OrderQueue, TLC

CONSTANTS p1, p2, k1, k2, btc, eth, upbit, binance

MCMarketOf == btc :> upbit @@ eth :> binance
Order1(k, i, s, l) == [key |-> k, inst |-> i, side |-> s, lev |-> l]

(* One contested futures slot, the same key on both sides of the book, and a
   request to a market that has no connector. *)
MCRequest == {Order1(k1, eth, "buy", 3), Order1(k2, eth, "buy", 1),
              Order1(k2, eth, "sell", 1), Order1(k2, btc, "buy", 1)}

(* Every key belongs to one slot. *)
MCRequestDisciplined ==
    {Order1(k1, eth, "buy", 3), Order1(k2, eth, "sell", 3)}

MCRequestContested == {Order1(k1, eth, "buy", 3), Order1(k2, eth, "buy", 1)}

MCDailyPnl == {0, -30}
Callers == Permutations({p1, p2})
=============================================================================
