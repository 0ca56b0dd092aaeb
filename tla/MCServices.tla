----------------------------- MODULE MCServices -----------------------------
(* The components around the order path, small.  They share no state, so each is
   explored alone: `scene` names the one that moves. *)
EXTENDS Backtest, Watchdog, Markets, Advice, Pollers, PnlLedger, RateLimiter, Breaker

CONSTANTS nan, w1, c1, c2, kr, upbit, btc, hl_btc, t1, t2

VARIABLE scene

svVars == <<btVars, wdVars, mkVars, adVars, poVars, plVars, rlVars, brVars, scene>>

\* Two bars warm the indicators up, the collector missed one candle (5), and the
\* query stops short of the newest one.
MCHistory ==
    LET times == <<0, 1, 2, 3, 4, 6, 7>>
    IN {[i \in 1 .. 7 |-> [open_time |-> times[i], close |-> closes[i]]] :
            closes \in [1 .. 7 -> Price]}

\* Indicators of two closes that reach every branch of detect and generate.
MCCompute(closes) ==
    LET a == closes[1]
        b == closes[2]
    IN [bbb |-> IF {a, b} = {1, 4} THEN 10 ELSE 5,
        adx |-> IF a # b THEN 30 ELSE 10,
        ema50 |-> IF a = 4 /\ b = 2 THEN Missing ELSE a,
        ema9 |-> b, ema20 |-> a,
        rsi |-> CASE b > a -> 60 [] b < a -> 40 [] b = 1 -> 20 [] b = 4 -> 80
                  [] OTHER -> Missing]

\* The same coin on two markets.
MCBaseOf == [s \in Symbol |-> "BTC"]

Init ==
    /\ scene \in {"backtest", "watchdog", "markets", "advice", "pollers", "pnl",
                  "rate_limiter", "breaker"}
    /\ BtInit /\ WdInit /\ MkInit /\ AdInit /\ PoInit /\ PlInit /\ RlInit /\ BrInit

Others(vars) == UNCHANGED vars /\ UNCHANGED scene

Next ==
    \/ scene = "backtest" /\ BtNext
       /\ Others(<<wdVars, mkVars, adVars, poVars, plVars, rlVars, brVars>>)
    \/ scene = "watchdog" /\ WdNext
       /\ Others(<<btVars, mkVars, adVars, poVars, plVars, rlVars, brVars>>)
    \/ scene = "markets" /\ MkNext
       /\ Others(<<btVars, wdVars, adVars, poVars, plVars, rlVars, brVars>>)
    \/ scene = "advice" /\ AdNext
       /\ Others(<<btVars, wdVars, mkVars, poVars, plVars, rlVars, brVars>>)
    \/ scene = "pollers" /\ PoNext
       /\ Others(<<btVars, wdVars, mkVars, adVars, plVars, rlVars, brVars>>)
    \/ scene = "pnl" /\ PlNext
       /\ Others(<<btVars, wdVars, mkVars, adVars, poVars, rlVars, brVars>>)
    \/ scene = "rate_limiter" /\ RlNext
       /\ Others(<<btVars, wdVars, mkVars, adVars, poVars, plVars, brVars>>)
    \/ scene = "breaker" /\ BrNext
       /\ Others(<<btVars, wdVars, mkVars, adVars, poVars, plVars, rlVars>>)

(* The watchdog is scheduled every minute and its runs end; the pollers poll, and
   their sources answer once the failures (finitely many) are over; time passes,
   and a coroutine that can go on does. *)
Spec ==
    /\ Init /\ [][Next]_svVars
    /\ WF_wdVars(scene = "watchdog" /\ lambda_handler)
    /\ WF_poVars(scene = "pollers" /\ EventsFetched)
    /\ \A s \in Symbol : WF_poVars(scene = "pollers" /\ BookFetched(s))
    /\ \A b \in Base : WF_poVars(scene = "pollers" /\ SentimentScored(b))
    /\ WF_rlVars(scene = "rate_limiter" /\ (Takes \/ Sleeps))
    /\ WF_rlVars(scene = "rate_limiter" /\ Second)

(* PollersRecover of the run in which the pollers move: once a source answers for
   good, what supplemental/events.py, orderbook.py and sentiment.py overwrote with
   the empty result of a failed fetch, or left as it was, is replaced. *)
PollersRecoverHere == scene = "pollers" => PollersRecover
=============================================================================
