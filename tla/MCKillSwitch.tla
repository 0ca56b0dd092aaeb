---------------------------- MODULE MCKillSwitch ----------------------------
(* Small instances of KillSwitch: two overlapping executions, one instrument on
   each of two markets, one that is bought and one that is sold short. *)
EXTENDS KillSwitch

CONSTANTS x1, x2, btc, eth, upbit, binance

MCMarketOf == [i \in Instrument |-> IF i = btc THEN upbit ELSE binance]
MCHolding == [i \in Instrument |-> IF i = btc THEN 0..1 ELSE -1..0]
=============================================================================
