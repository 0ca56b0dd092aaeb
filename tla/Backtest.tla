------------------------------ MODULE Backtest ------------------------------
(* POST /backtest/run: BacktestRunner replays the stored candles bar by bar
   through the live decision tables, BacktestBroker keeps the account, and
   compute_metrics sums up.  A candle is its open time and its close; money is in
   thousandths, not rounded. *)
EXTENDS Integers, FiniteSets, Sequences, StrategyRules

CONSTANTS
    Price,             \* closes a candle may have
    History,           \* what the table may hold: candles, oldest first
    RequestTime,       \* times a request may name
    Compute(_),        \* external: pandas-ta, on a window of closes
    Warmup,            \* _WARMUP = 210
    QueryLimit,        \* limit=100_000
    InitialCapital, TradeAmount,
    CommissionRate     \* in thousandths

ASSUME BacktestAssumption ==
    /\ Price \subseteq Nat \ {0}
    /\ \A p \in Price : TradeAmount % p = 0
    /\ {Warmup, QueryLimit, InitialCapital, TradeAmount} \subseteq Nat \ {0}
    /\ CommissionRate \in Nat /\ RequestTime \subseteq Int
    /\ \A rows \in History :
        /\ rows \in Seq([open_time : Nat, close : Price])
        /\ \A i \in 2 .. Len(rows) : rows[i - 1].open_time < rows[i].open_time

VARIABLES
    stage,     \* "idle", "replay" or "done"
    candles,   \* the candles up to `until`, oldest first
    since,
    bar,       \* index (from 1) of the candle the loop comes to next
    broker,    \* BacktestBroker
    metrics,   \* what the report says
    booked     \* history: pnl of all trades together

btVars == <<stage, candles, since, bar, broker, metrics, booked>>

NoPosition == [entry_price |-> 0, qty |-> 0, entry_ts |-> 0]
Fresh == [capital |-> 1000 * InitialCapital, position |-> NoPosition,
          trades |-> <<>>, equity_curve |-> <<>>]
NoFall == [drop |-> 0, peak |-> 1]
NoMetrics == [total_trades |-> 0, wins |-> 0, gain |-> 0, drawdown |-> NoFall]

Flat(b) == b.position = NoPosition
EntryFee == TradeAmount * CommissionRate
Quantity(price) == TradeAmount \div price
-----------------------------------------------------------------------------
(* BacktestBroker *)

\* The pnl of a trade is net of the exit commission; the entry commission was
\* taken from the capital when the position was opened.
NetPnl(position, price) ==
    (price - position.entry_price) * position.qty * 1000
        - price * position.qty * CommissionRate

Trade(position, price, ts) ==
    [entry_price |-> position.entry_price, exit_price |-> price, qty |-> position.qty,
     pnl |-> NetPnl(position, price), entry_ts |-> position.entry_ts, exit_ts |-> ts]

\* slip: the capital gets the gross pnl, the trade the net one
closeGross(b, price, ts) ==
    IF Flat(b) THEN b
    ELSE LET capital == b.capital + (price - b.position.entry_price) * b.position.qty * 1000
         IN [capital |-> capital, position |-> NoPosition,
             trades |-> Append(b.trades, Trade(b.position, price, ts)),
             equity_curve |-> Append(b.equity_curve, [ts |-> ts, equity |-> capital])]

close_open_position(b, price, ts) ==
    IF Flat(b) THEN b
    ELSE LET capital == b.capital + NetPnl(b.position, price)
         IN [capital |-> capital, position |-> NoPosition,
             trades |-> Append(b.trades, Trade(b.position, price, ts)),
             equity_curve |-> Append(b.equity_curve, [ts |-> ts, equity |-> capital])]

\* A BUY opens when flat, a SELL closes; then a point of the equity curve, so
\* that a bar that closes has two.  The open position is not marked to market.
Opened(b, price, ts) ==
    [b EXCEPT !.capital = b.capital - EntryFee,
              !.position = [entry_price |-> price, qty |-> Quantity(price), entry_ts |-> ts]]

Acted(b, sig, price, ts) ==
    CASE sig = "BUY" /\ Flat(b) -> Opened(b, price, ts)
      [] sig = "SELL" /\ ~Flat(b) -> close_open_position(b, price, ts)
      [] OTHER -> b

on_signal(b, sig, price, ts) ==
    LET acted == Acted(b, sig, price, ts)
    IN [acted EXCEPT !.equity_curve = Append(acted.equity_curve,
                                             [ts |-> ts, equity |-> acted.capital])]
-----------------------------------------------------------------------------
(* compute_metrics *)

Deeper(a, b) == a.drop * b.peak > b.drop * a.peak

\* slip: the drop is measured from the point before only
DrawdownOfSteps(curve) ==
    IF Len(curve) < 2 THEN NoFall
    ELSE LET Step(i) == [drop |-> curve[i].equity - curve[i + 1].equity, peak |-> curve[i].equity]
             i == CHOOSE i \in 1 .. Len(curve) - 1 :
                    \A j \in 1 .. Len(curve) - 1 : ~Deeper(Step(j), Step(i))
         IN Step(i)

\* One point of the loop: the running peak, and the deepest relative drop from it.
Passed(before, eq) ==
    LET peak == IF eq > before.peak THEN eq ELSE before.peak
        here == [drop |-> peak - eq, peak |-> peak]
    IN [peak |-> peak,
        worst |-> IF peak > 0 /\ Deeper(here, before.worst) THEN here ELSE before.worst]

Drawdown(curve) ==
    LET walk[i \in 0 .. Len(curve)] ==
            IF i = 0 THEN [peak |-> curve[1].equity, worst |-> NoFall]
            ELSE Passed(walk[i - 1], curve[i].equity)
    IN IF curve = <<>> THEN NoFall ELSE walk[Len(curve)].worst

\* With no trades everything but the return is reported as 0.
compute_metrics(b) ==
    [gain |-> b.capital - 1000 * InitialCapital,
     total_trades |-> Len(b.trades),
     wins |-> Cardinality({i \in 1 .. Len(b.trades) : b.trades[i].pnl > 0}),
     drawdown |-> IF b.trades = <<>> THEN NoMetrics.drawdown ELSE Drawdown(b.equity_curve)]
-----------------------------------------------------------------------------
(* BacktestRunner.run *)

\* The oldest QueryLimit candles, of these the ones up to `until`.
Candles(rows, until) ==
    LET kept == {i \in 1 .. Len(rows) : i <= QueryLimit /\ rows[i].open_time <= until}
    IN SubSeq(rows, 1, Cardinality(kept))

\* slip: the replay starts once the indicators are warm
StartAnywhere(cs, from) == {i \in 1 .. Len(cs) : i > Warmup}

Start(cs, from) == {i \in 1 .. Len(cs) : i > Warmup /\ cs[i].open_time >= from}

\* slip: the window ends one candle too late
DecisionAhead(cs, i) ==
    LET last == IF i < Len(cs) THEN i + 1 ELSE i
        ind == Compute([j \in 1 .. Warmup |-> cs[last - Warmup + j].close])
    IN generate(ind, detect(ind, cs[i].close))

Indicators(cs, i) == Compute([j \in 1 .. Warmup |-> cs[i - Warmup + j].close])

\* What the loop decides at candle i.
Decision(cs, i) ==
    LET ind == Indicators(cs, i)
    IN generate(ind, detect(ind, cs[i].close))

Pnl(b) == IF b.trades = <<>> THEN 0 ELSE b.trades[Len(b.trades)].pnl
NewlyBooked(before, after) == IF before.trades = after.trades THEN 0 ELSE Pnl(after)

\* A request with since < until; the others are refused with 400.
run_backtest ==
    /\ stage = "idle"
    /\ \E rows \in History : \E from, until \in RequestTime :
        /\ from < until
        /\ LET cs == Candles(rows, until)
               starts == Start(cs, from)
           IN /\ candles' = cs /\ since' = from
              /\ broker' = Fresh
              /\ metrics' = compute_metrics(Fresh)
              /\ IF starts = {} THEN stage' = "done" /\ bar' = 0
                 ELSE stage' = "replay" /\ \E i \in starts : bar' = i /\ \A j \in starts : i <= j
    /\ UNCHANGED booked

Replay ==
    /\ stage = "replay" /\ bar <= Len(candles)
    /\ LET c == candles[bar]
       IN broker' = on_signal(broker, Decision(candles, bar), c.close, c.open_time)
    /\ booked' = booked + NewlyBooked(broker, broker')
    /\ bar' = bar + 1
    /\ UNCHANGED <<stage, candles, since, metrics>>

\* slip: the report is made with the position still open
ReportOpen ==
    /\ stage = "replay" /\ bar > Len(candles)
    /\ metrics' = compute_metrics(broker)
    /\ stage' = "done"
    /\ UNCHANGED <<candles, since, bar, broker, booked>>

\* A position that is still open is closed at the last candle.
Report ==
    /\ stage = "replay" /\ bar > Len(candles)
    /\ LET c == candles[Len(candles)]
       IN broker' = close_open_position(broker, c.close, c.open_time)
    /\ booked' = booked + NewlyBooked(broker, broker')
    /\ metrics' = compute_metrics(broker')
    /\ stage' = "done"
    /\ UNCHANGED <<candles, since, bar>>

BtInit ==
    /\ stage = "idle" /\ candles = <<>> /\ since = 0 /\ bar = 0
    /\ broker = Fresh /\ metrics = NoMetrics /\ booked = 0

BtNext == run_backtest \/ Replay \/ Report

BtSpec == BtInit /\ [][BtNext]_btVars
-----------------------------------------------------------------------------
(* At every bar the capital is the initial one plus the pnl of the trades, less
   one entry commission for every trade and for the open position: nothing is
   booked twice or lost between on_signal and close_open_position. *)
EquityReconciles ==
    broker.capital = 1000 * InitialCapital + booked
                     - EntryFee * (Len(broker.trades) + (IF Flat(broker) THEN 0 ELSE 1))

\* The pnl of the listed trades together.
Total(trades) ==
    LET total[i \in 0 .. Len(trades)] == IF i = 0 THEN 0 ELSE total[i - 1] + trades[i].pnl
    IN total[Len(trades)]

(* The report is closed and adds up: no position is left, the last point of the
   curve is the final equity, and the gain is what the listed trades sum to less
   their entry commissions (which the pnl of a trade, and so the win rate and the
   average pnl, leave out). *)
ReportAddsUp ==
    stage = "done" =>
        LET curve == broker.equity_curve
        IN /\ Flat(broker)
           /\ metrics.gain = Total(broker.trades) - EntryFee * metrics.total_trades
           /\ curve # <<>> => curve[Len(curve)].equity = 1000 * InitialCapital + metrics.gain

(* No decision looks ahead: whatever the candles after bar i had been, the signal
   of bar i would have been the same. *)
NoLookAhead ==
    \A i \in Warmup + 1 .. Len(candles) : \A j \in i + 1 .. Len(candles) : \A p \in Price :
        Decision([candles EXCEPT ![j].close = p], i) = Decision(candles, i)

(* Trades lie inside the period asked for and follow one another: none is open
   before `since`, none overlaps the one before. *)
TradesInOrder ==
    \A i \in 1 .. Len(broker.trades) :
        LET t == broker.trades[i] IN
        /\ since <= t.entry_ts /\ t.entry_ts <= t.exit_ts
        /\ t.exit_ts <= candles[Len(candles)].open_time
        /\ i > 1 => broker.trades[i - 1].exit_ts < t.entry_ts

\* From point i of the curve to a later one, j.  Nothing keeps the amount of a trade
\* below the capital: a fall below zero counts from the peak only.
Fall(curve, i, j) ==
    [drop |-> curve[i].equity - curve[j].equity, peak |-> curve[i].equity]

Counts(curve, i, j) ==
    /\ curve[i].equity > 0
    /\ \/ curve[j].equity >= 0
       \/ \A k \in 1 .. j : curve[k].equity <= curve[i].equity

(* The drawdown of the report is the deepest relative fall between any two points
   of the curve, however many peaks lie between them. *)
DrawdownIsWorst ==
    stage = "done" /\ broker.trades # <<>> =>
        LET curve == broker.equity_curve
            worst == metrics.drawdown
        IN /\ \A j \in 1 .. Len(curve) : \A i \in 1 .. j :
                  Counts(curve, i, j) => ~Deeper(Fall(curve, i, j), worst)
           /\ \/ worst.drop = 0
              \/ \E j \in 1 .. Len(curve) : \E i \in 1 .. j :
                     Counts(curve, i, j) /\ worst = Fall(curve, i, j)
=============================================================================
