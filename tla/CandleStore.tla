----------------------------- MODULE CandleStore -----------------------------
(* The table `ohlcv` behind OhlcvStore (data/storage).  The rows of one
   (market, symbol, timeframe) are a function from open times to whatever a
   user of this module needs to know of a candle. *)
EXTENDS Integers, FiniteSets

NoRows == [t \in {} |-> 0]

\* INSERT OR REPLACE: a candle fetched again replaces the one stored.
upsert(rows, candles) ==
    [t \in DOMAIN rows \cup DOMAIN candles |->
        IF t \in DOMAIN candles THEN candles[t] ELSE rows[t]]

\* WHERE open_time >= since ORDER BY open_time ASC LIMIT limit.
query(rows, since, limit) ==
    LET Wanted == {t \in DOMAIN rows : t >= since}
        First == {t \in Wanted : Cardinality({u \in Wanted : u < t}) < limit}
    IN [t \in First |-> rows[t]]

\* SELECT DISTINCT market, symbol, timeframe
get_symbols(tables) == {k \in DOMAIN tables : DOMAIN tables[k] # {}}

Newest(rows) == CHOOSE t \in DOMAIN rows : \A u \in DOMAIN rows : u <= t
=============================================================================
