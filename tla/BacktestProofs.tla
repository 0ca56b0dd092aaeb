--------------------------- MODULE BacktestProofs ---------------------------
(* The account of a backtest reconciles at every bar, whatever the candles, the
   indicators and the parameters. *)
EXTENDS Backtest, FiniteSetTheorems, SequenceTheorems, NaturalLemmas, TLAPS

Candle == [open_time : Nat, close : Price]
Position == [entry_price : Price, qty : Int, entry_ts : Nat] \cup {NoPosition}

\* What there is to know of the broker; TradesTyped keeps its list a sequence.
BrokerTyped(b) ==
    /\ b.capital \in Int /\ b.position \in Position
    /\ \E T : b.trades \in Seq(T)
    /\ b = [capital |-> b.capital, position |-> b.position,
            trades |-> b.trades, equity_curve |-> b.equity_curve]

\* EquityReconciles, of any broker and sum.
Reconciled(b, sum) ==
    b.capital = 1000 * InitialCapital + sum
                - EntryFee * (Len(b.trades) + (IF Flat(b) THEN 0 ELSE 1))

BtTyped ==
    /\ candles \in Seq(Candle) /\ booked \in Int
    /\ stage = "idle" => booked = 0
    /\ stage = "replay" => bar \in Nat \ {0} /\ candles # <<>>
    /\ BrokerTyped(broker)

BtInv == BtTyped /\ Reconciled(broker, booked)
-----------------------------------------------------------------------------
\* Commissions are integers, and one more trade costs one commission more.
LEMMA MoneyIsInteger ==
    /\ EntryFee \in Int /\ 1000 * InitialCapital \in Int
    /\ \A n \in Nat : EntryFee * (n + 1) = EntryFee * n + EntryFee /\ EntryFee * n \in Int
<1>1. TradeAmount \in Int /\ CommissionRate \in Int /\ InitialCapital \in Int
  BY BacktestAssumption
<1>2. EntryFee \in Int
  BY <1>1 DEF EntryFee
<1>3. \A n \in Nat : EntryFee * (n + 1) = EntryFee * n + EntryFee /\ EntryFee * n \in Int
  BY <1>2, SMT
<1> QED
  BY <1>1, <1>2, <1>3

\* A position is of numbers, the empty one too.
LEMMA PositionFields ==
    ASSUME NEW position \in Position
    PROVE  /\ position.entry_price \in Int /\ position.qty \in Int
           /\ position.entry_ts \in Nat
<1>1. CASE position = NoPosition
  BY <1>1 DEF NoPosition
<1>2. CASE position \in [entry_price : Price, qty : Int, entry_ts : Nat]
  <2>1. PICK e \in Price, q \in Int, t \in Nat :
            position = [entry_price |-> e, qty |-> q, entry_ts |-> t]
    BY <1>2
  <2>2. Price \subseteq Nat
    BY BacktestAssumption
  <2> QED
    BY <2>1, <2>2
<1> QED
  BY <1>1, <1>2 DEF Position

\* The net pnl of a position is a number.
LEMMA NetPnlInteger ==
    ASSUME NEW position \in Position, NEW price \in Price
    PROVE  NetPnl(position, price) \in Int
<1>1. position.entry_price \in Int /\ position.qty \in Int
  BY PositionFields
<1>2. price \in Int /\ CommissionRate \in Int
  BY BacktestAssumption
<1>3. (price - position.entry_price) * position.qty * 1000 \in Int
  BY <1>1, <1>2
<1>4. price * position.qty * CommissionRate \in Int
  BY <1>1, <1>2
<1> QED
  BY <1>3, <1>4 DEF NetPnl

\* What Reconciled says of a flat broker and of one with a position.
LEMMA ReconciledCases ==
    ASSUME NEW b, NEW sum, Len(b.trades) \in Nat
    PROVE  /\ Flat(b) => (Reconciled(b, sum) <=>
                b.capital = 1000 * InitialCapital + sum - EntryFee * Len(b.trades))
           /\ ~Flat(b) => (Reconciled(b, sum) <=>
                b.capital = 1000 * InitialCapital + sum - EntryFee * (Len(b.trades) + 1))
<1>1. CASE Flat(b)
  <2>1. Len(b.trades) + (IF Flat(b) THEN 0 ELSE 1) = Len(b.trades)
    BY <1>1
  <2> QED
    BY <1>1, <2>1 DEF Reconciled
<1>2. CASE ~Flat(b)
  <2>1. Len(b.trades) + (IF Flat(b) THEN 0 ELSE 1) = Len(b.trades) + 1
    BY <1>2
  <2> QED
    BY <1>2, <2>1 DEF Reconciled
<1> QED
  BY <1>1, <1>2

\* Closing books on the trade what it books on the capital.
LEMMA CloseReconciles ==
    ASSUME NEW b, NEW sum \in Int, BrokerTyped(b), Reconciled(b, sum),
           NEW price \in Price, NEW ts \in Nat
    PROVE  LET c == close_open_position(b, price, ts)
           IN /\ BrokerTyped(c)
              /\ NewlyBooked(b, c) \in Int
              /\ Reconciled(c, sum + NewlyBooked(b, c))
<1> DEFINE c == close_open_position(b, price, ts)
           trade == Trade(b.position, price, ts)
           net == NetPnl(b.position, price)
<1>1. CASE Flat(b)
  BY <1>1 DEF close_open_position, NewlyBooked, Reconciled
<1>2. CASE ~Flat(b)
  <2>1. net \in Int
    BY NetPnlInteger DEF BrokerTyped
  <2>2. /\ c.capital = b.capital + net /\ c.position = NoPosition
        /\ c.trades = Append(b.trades, trade)
        /\ c = [capital |-> c.capital, position |-> c.position,
                trades |-> c.trades, equity_curve |-> c.equity_curve]
    BY <1>2 DEF close_open_position
  <2>3. PICK T : b.trades \in Seq(T)
    BY DEF BrokerTyped
  <2>4. b.trades \in Seq(T \cup {trade}) /\ trade \in T \cup {trade}
    BY <2>3
  <2>5. /\ c.trades \in Seq(T \cup {trade}) /\ Len(c.trades) = Len(b.trades) + 1
        /\ c.trades[Len(c.trades)] = trade /\ c.trades # <<>> /\ c.trades # b.trades
        /\ Len(b.trades) \in Nat
    BY <2>2, <2>4, AppendProperties
  <2>6. NewlyBooked(b, c) = net
    BY <2>5 DEF NewlyBooked, Pnl, Trade
  <2>7. BrokerTyped(c)
    BY <2>1, <2>2, <2>5 DEF BrokerTyped, Position
  <2>8. c.capital = 1000 * InitialCapital + (sum + net) - EntryFee * (Len(b.trades) + 1)
    <3>1. b.capital = 1000 * InitialCapital + sum - EntryFee * (Len(b.trades) + 1)
      BY <1>2, <2>5, ReconciledCases
    <3>2. EntryFee * (Len(b.trades) + 1) \in Int /\ 1000 * InitialCapital \in Int
      BY <2>5, MoneyIsInteger
    <3> HIDE DEF c, net
    <3> QED
      BY <2>1, <2>2, <3>1, <3>2
  <2>9. Reconciled(c, sum + net)
    <3>1. Flat(c) /\ Len(c.trades) \in Nat
      BY <2>2, <2>5 DEF Flat
    <3> HIDE DEF c, net
    <3> QED
      BY <2>5, <2>8, <3>1, ReconciledCases
  <2> QED
    BY <2>1, <2>6, <2>7, <2>9
<1> QED
  BY <1>1, <1>2

\* A signal opens, closes or leaves the account as it is; the curve is no money.
LEMMA SignalReconciles ==
    ASSUME NEW b, NEW sum \in Int, BrokerTyped(b), Reconciled(b, sum),
           NEW price \in Price, NEW ts \in Nat, NEW sig
    PROVE  LET c == on_signal(b, sig, price, ts)
           IN /\ BrokerTyped(c)
              /\ NewlyBooked(b, c) \in Int
              /\ Reconciled(c, sum + NewlyBooked(b, c))
<1> DEFINE a == Acted(b, sig, price, ts)
           c == on_signal(b, sig, price, ts)
<1>1. /\ BrokerTyped(a) /\ NewlyBooked(b, a) \in Int
      /\ Reconciled(a, sum + NewlyBooked(b, a))
  <2>1. CASE sig = "BUY" /\ Flat(b)
    <3>1. a = Opened(b, price, ts)
      BY <2>1 DEF Acted
    <3>2. /\ a.capital = b.capital - EntryFee /\ a.trades = b.trades
          /\ a.position = [entry_price |-> price, qty |-> Quantity(price), entry_ts |-> ts]
          /\ a = [capital |-> a.capital, position |-> a.position,
                  trades |-> a.trades, equity_curve |-> a.equity_curve]
      BY <3>1 DEF Opened, BrokerTyped
    <3>3. Quantity(price) \in Int
      BY BacktestAssumption DEF Quantity
    <3>4. a.position \in Position /\ ~Flat(a)
      BY <3>2, <3>3, BacktestAssumption DEF Position, Flat, NoPosition
    <3>5. BrokerTyped(a)
      BY <3>2, <3>4, MoneyIsInteger DEF BrokerTyped
    <3>6. Len(b.trades) \in Nat
      BY DEF BrokerTyped
    <3>7. Reconciled(a, sum)
      <4>1. b.capital = 1000 * InitialCapital + sum - EntryFee * Len(b.trades)
        BY <2>1, <3>6, ReconciledCases
      <4>2. /\ EntryFee \in Int /\ EntryFee * Len(b.trades) \in Int
            /\ EntryFee * (Len(b.trades) + 1) = EntryFee * Len(b.trades) + EntryFee
            /\ 1000 * InitialCapital \in Int
        BY <3>6, MoneyIsInteger
      <4> HIDE DEF a, c
      <4>3. a.capital = 1000 * InitialCapital + sum - EntryFee * (Len(a.trades) + 1)
        <5> DEFINE paid == EntryFee * Len(b.trades)
                   start == 1000 * InitialCapital
        <5>1. a.capital = b.capital - EntryFee /\ a.trades = b.trades
          BY <3>2
        <5>2. EntryFee * (Len(a.trades) + 1) = paid + EntryFee
          BY <4>2, <5>1
        <5>3. b.capital = start + sum - paid /\ paid \in Int /\ start \in Int
          BY <4>1, <4>2
        <5> HIDE DEF paid, start
        <5>4. a.capital = start + sum - (paid + EntryFee)
          BY <4>2, <5>1, <5>3
        <5> QED
          BY <5>2, <5>4 DEF start
      <4> QED
        BY <3>2, <3>4, <3>6, <4>3, ReconciledCases
    <3> QED
      BY <3>2, <3>5, <3>7 DEF NewlyBooked
  <2>2. CASE sig = "SELL" /\ ~Flat(b)
    BY <2>2, CloseReconciles DEF Acted
  <2>3. CASE ~(sig = "BUY" /\ Flat(b)) /\ ~(sig = "SELL" /\ ~Flat(b))
    BY <2>3 DEF Acted, NewlyBooked
  <2> QED
    BY <2>1, <2>2, <2>3
<1>2. /\ c.capital = a.capital /\ c.position = a.position /\ c.trades = a.trades
      /\ c = [capital |-> c.capital, position |-> c.position,
              trades |-> c.trades, equity_curve |-> c.equity_curve]
  <2>1. c = [a EXCEPT !.equity_curve =
                 Append(a.equity_curve, [ts |-> ts, equity |-> a.capital])]
    BY DEF on_signal
  <2>2. a = [capital |-> a.capital, position |-> a.position,
             trades |-> a.trades, equity_curve |-> a.equity_curve]
    BY <1>1 DEF BrokerTyped
  <2> HIDE DEF a, c
  <2>3. c = [capital |-> a.capital, position |-> a.position, trades |-> a.trades,
             equity_curve |-> Append(a.equity_curve, [ts |-> ts, equity |-> a.capital])]
    BY <2>1, <2>2
  <2> QED
    BY <2>3
<1> HIDE DEF a, c
<1>3. BrokerTyped(c) /\ NewlyBooked(b, c) = NewlyBooked(b, a)
  BY <1>1, <1>2 DEF BrokerTyped, NewlyBooked, Pnl
<1>4. Reconciled(c, sum + NewlyBooked(b, a))
  BY <1>1, <1>2 DEF Reconciled, Flat
<1> QED
  BY <1>1, <1>3, <1>4 DEF c
-----------------------------------------------------------------------------
\* A new broker has the initial capital, no position and no trade.
LEMMA FreshReconciles == BrokerTyped(Fresh) /\ Reconciled(Fresh, 0)
<1>1. /\ Fresh.capital = 1000 * InitialCapital /\ Fresh.position = NoPosition
      /\ Fresh.trades = <<>> /\ Fresh.trades \in Seq({}) /\ Len(Fresh.trades) = 0
  BY DEF Fresh
<1>2. 1000 * InitialCapital \in Int /\ EntryFee * 0 = 0
  BY MoneyIsInteger
<1>3. BrokerTyped(Fresh)
  BY <1>1, <1>2 DEF BrokerTyped, Position, Fresh
<1>4. Flat(Fresh)
  BY <1>1 DEF Flat
<1> HIDE DEF Fresh
<1>5. Fresh.capital = 1000 * InitialCapital + 0 - EntryFee * Len(Fresh.trades)
  BY <1>1, <1>2
<1>6. Reconciled(Fresh, 0)
  BY <1>1, <1>4, <1>5, ReconciledCases
<1> QED
  BY <1>3, <1>6

\* A stored candle has a positive close and a natural time.
LEMMA CandleFields ==
    ASSUME NEW c \in Candle
    PROVE  c.close \in Price /\ c.open_time \in Nat
<1>1. PICK t \in Nat, p \in Price : c = [open_time |-> t, close |-> p]
  BY DEF Candle
<1> QED
  BY <1>1

\* What the replay walks over are candles of the table.
LEMMA CandlesAreCandles ==
    ASSUME NEW rows \in History, NEW until
    PROVE  Candles(rows, until) \in Seq(Candle)
<1> DEFINE kept == {i \in 1 .. Len(rows) : i <= QueryLimit /\ rows[i].open_time <= until}
<1>1. rows \in Seq(Candle) /\ Len(rows) \in Nat
  <2>1. rows \in Seq(Candle)
    BY BacktestAssumption, Zenon DEF Candle
  <2> QED
    BY <2>1
<1>2. IsFiniteSet(1 .. Len(rows)) /\ Cardinality(1 .. Len(rows)) = Len(rows)
  BY <1>1, FS_Interval
<1>3. Cardinality(kept) \in Nat /\ Cardinality(kept) <= Len(rows)
  BY <1>2, FS_Subset, FS_CardinalityType
<1> HIDE DEF kept
<1>4. SubSeq(rows, 1, Cardinality(kept)) \in Seq(Candle)
  BY <1>1, <1>3, SubSeqProperties
<1> QED
  BY <1>4 DEF Candles, kept

\* BacktestRunner.run starts with a new broker and an empty ledger.
THEOREM BacktestStarts == BtInit => BtInv
<1> SUFFICES ASSUME BtInit PROVE BtInv
  OBVIOUS
<1>1. /\ candles \in Seq(Candle) /\ booked \in Int /\ booked = 0 /\ stage = "idle"
      /\ broker = Fresh
  BY DEF BtInit
<1> QED
  BY <1>1, FreshReconciles DEF BtInv, BtTyped

\* The request, every bar of the replay and the report keep the account reconciled.
THEOREM BacktestSteps == BtInv /\ [BtNext]_btVars => BtInv'
<1> SUFFICES ASSUME BtInv, [BtNext]_btVars PROVE BtInv'
  OBVIOUS
<1>1. CASE run_backtest
  <2>1. PICK rows \in History, until \in RequestTime : candles' = Candles(rows, until)
    BY <1>1 DEF run_backtest
  <2>2. candles' \in Seq(Candle)
    BY <2>1, CandlesAreCandles
  <2>3. stage' = "replay" => bar' \in 1 .. Len(candles')
    BY <1>1 DEF run_backtest, Start
  <2>4. broker' = Fresh /\ booked' = booked /\ stage' # "idle" /\ booked = 0
    BY <1>1 DEF run_backtest, BtInv, BtTyped
  <2>5. Len(candles') \in Nat
    BY <2>2
  <2> QED
    BY <2>2, <2>3, <2>4, <2>5, FreshReconciles DEF BtInv, BtTyped
<1>2. CASE Replay
  <2>1. /\ bar \in 1 .. Len(candles) /\ candles \in Seq(Candle) /\ booked \in Int
        /\ Len(candles) \in Nat /\ bar' = bar + 1
        /\ UNCHANGED <<stage, candles>> /\ stage = "replay"
    BY <1>2 DEF Replay, BtInv, BtTyped
  <2>2. candles[bar].close \in Price /\ candles[bar].open_time \in Nat
    <3>1. candles[bar] \in Candle
      BY <2>1, ElementOfSeq
    <3> QED
      BY <3>1, CandleFields
  <2>3. /\ broker' = on_signal(broker, Decision(candles, bar),
                              candles[bar].close, candles[bar].open_time)
        /\ booked' = booked + NewlyBooked(broker, broker')
    BY <1>2 DEF Replay
  <2>4. BrokerTyped(broker) /\ Reconciled(broker, booked)
    BY DEF BtInv, BtTyped
  <2>5. /\ BrokerTyped(broker') /\ NewlyBooked(broker, broker') \in Int
        /\ Reconciled(broker', booked + NewlyBooked(broker, broker'))
    BY <2>1, <2>2, <2>3, <2>4, SignalReconciles
  <2> QED
    BY <2>1, <2>3, <2>5 DEF BtInv, BtTyped
<1>3. CASE Report
  <2>1. /\ candles \in Seq(Candle) /\ booked \in Int /\ Len(candles) \in Nat
        /\ candles # <<>> /\ candles' = candles /\ stage' = "done"
    BY <1>3 DEF Report, BtInv, BtTyped
  <2>2. Len(candles) \in 1 .. Len(candles)
    BY <2>1
  <2>3. candles[Len(candles)].close \in Price /\ candles[Len(candles)].open_time \in Nat
    <3>1. candles[Len(candles)] \in Candle
      BY <2>1, <2>2, ElementOfSeq
    <3> QED
      BY <3>1, CandleFields
  <2>4. /\ broker' = close_open_position(broker, candles[Len(candles)].close,
                                        candles[Len(candles)].open_time)
        /\ booked' = booked + NewlyBooked(broker, broker')
    BY <1>3 DEF Report
  <2>5. BrokerTyped(broker) /\ Reconciled(broker, booked)
    BY DEF BtInv, BtTyped
  <2>6. /\ BrokerTyped(broker') /\ NewlyBooked(broker, broker') \in Int
        /\ Reconciled(broker', booked + NewlyBooked(broker, broker'))
    BY <2>1, <2>3, <2>4, <2>5, CloseReconciles
  <2> QED
    BY <2>1, <2>4, <2>6 DEF BtInv, BtTyped
<1>4. CASE UNCHANGED btVars
  BY <1>4 DEF BtInv, BtTyped, btVars
<1> QED
  BY <1>1, <1>2, <1>3, <1>4 DEF BtNext

\* The account of the backtest reconciles at every bar and in the report, for every
\* table, request, indicator function and commission: broker.py books on the
\* capital exactly what it books on the trades and the entry commissions.
THEOREM BacktestReconciles == BtSpec => []EquityReconciles
<1>1. BtInv => EquityReconciles
  BY DEF BtInv, Reconciled, EquityReconciles
<1> QED
  BY BacktestStarts, BacktestSteps, <1>1, PTL DEF BtSpec

(* No decision of the replay loop depends on a candle after its own: the window
   BacktestRunner.run cuts for bar i ends with bar i, whatever the indicators. *)
THEOREM BacktestLooksBack == BtSpec => []NoLookAhead
<1>1. BtInv => NoLookAhead
  <2> SUFFICES ASSUME BtInv, NEW i \in Warmup + 1 .. Len(candles),
                      NEW j \in i + 1 .. Len(candles), NEW p \in Price
               PROVE  Decision([candles EXCEPT ![j].close = p], i) = Decision(candles, i)
    BY DEF NoLookAhead
  <2> DEFINE other == [candles EXCEPT ![j].close = p]
  <2>1. Warmup \in Nat /\ candles \in Seq(Candle) /\ Len(candles) \in Nat
    BY BacktestAssumption DEF BtInv, BtTyped
  <2>2. \A k \in 1 .. i : other[k] = candles[k]
    BY <2>1
  <2>3. \A k \in 1 .. Warmup : i - Warmup + k \in 1 .. i
    BY <2>1
  <2>4. i \in 1 .. i
    BY <2>1
  <2> HIDE DEF other
  <2>5. [k \in 1 .. Warmup |-> other[i - Warmup + k].close]
            = [k \in 1 .. Warmup |-> candles[i - Warmup + k].close]
    BY <2>2, <2>3
  <2>6. other[i].close = candles[i].close
    BY <2>2, <2>4
  <2>7. Decision(other, i) = Decision(candles, i)
    BY <2>5, <2>6 DEF Decision, Indicators
  <2> QED
    BY <2>7 DEF other
<1> QED
  BY BacktestStarts, BacktestSteps, <1>1, PTL DEF BtSpec
-----------------------------------------------------------------------------
(* engine/interfaces.py sizes the orders of both.  SizingParams clamps to 1.0 a size
   that strategy/engine.py gives in dollars: from ten dollars on, the amount that is
   configured plays no part, nor does the regime but for a falling market, whose
   factor is negative, so that its SELL signals are worth nothing. *)
THEOREM SizeIsZeroOrOne ==
    \A regime \in Regime : \A base \in Nat :
        base >= 10 => EffectiveSize(regime, base) =
                          IF regime = "trending_down" THEN MinPosition ELSE MaxPosition1
<1> SUFFICES ASSUME NEW regime \in Regime, NEW base \in Nat, base >= 10
             PROVE  EffectiveSize(regime, base) =
                        IF regime = "trending_down" THEN MinPosition ELSE MaxPosition1
  OBVIOUS
<1> USE DEF EffectiveSize, regime_str_to_probabilities, compute_regime_adjusted_size,
            MinPosition, MaxPosition1
<1>1. CASE regime = "trending_up"
  BY <1>1
<1>2. CASE regime = "trending_down"
  BY <1>2
<1>3. CASE regime = "volatile"
  BY <1>3
<1>4. CASE regime = "ranging"
  BY <1>4
<1> QED
  BY <1>1, <1>2, <1>3, <1>4 DEF Regime
-----------------------------------------------------------------------------
(* What the report sums up: the listed trades, and the points of the curve. *)

Listed == [entry_price : Int, exit_price : Int, qty : Int, pnl : Int,
           entry_ts : Int, exit_ts : Int]
Point == [ts : Int, equity : Int]

\* Trades and points are records of numbers, and the last point is the capital.
Booked(b) ==
    /\ b.trades \in Seq(Listed) /\ b.equity_curve \in Seq(Point)
    /\ b.equity_curve # <<>> => b.equity_curve[Len(b.equity_curve)].equity = b.capital

\* c is b with one more trade, its position closed at ts.
ClosedAt(b, c, ts) ==
    /\ ~Flat(b) /\ Flat(c)
    /\ \E t \in Listed : /\ c.trades = Append(b.trades, t)
                         /\ t.entry_ts = b.position.entry_ts /\ t.exit_ts = ts

\* c is b with a position opened at ts.
OpenedAt(b, c, ts) ==
    Flat(b) /\ ~Flat(c) /\ c.trades = b.trades /\ c.position.entry_ts = ts

\* The total of a list of trades satisfies its recursive definition.
LEMMA TotalOfPrefix ==
    ASSUME NEW trades \in Seq(Listed)
    PROVE  \E total \in [0 .. Len(trades) -> Int] :
               /\ total[0] = 0 /\ total[Len(trades)] = Total(trades)
               /\ \A i \in 1 .. Len(trades) : total[i] = total[i - 1] + trades[i].pnl
<1> DEFINE last == Len(trades)
           step == [i \in 1 .. last |-> [s \in Int |-> s + trades[i].pnl]]
           eqn(f) == [i \in 0 .. last |-> IF i = 0 THEN 0 ELSE f[i - 1] + trades[i].pnl]
           total == CHOOSE f : f = eqn(f)
<1>1. last \in Nat /\ \A i \in 1 .. last : trades[i].pnl \in Int
  <2>1. last \in Nat /\ \A i \in 1 .. last : trades[i] \in Listed
    OBVIOUS
  <2> QED
    BY <2>1 DEF Listed
<1>2. step \in [1 .. last -> [Int -> Int]]
  BY <1>1
<1>3. \A i \in 1 .. last : \A s \in Int : step[i][s] = s + trades[i].pnl
  OBVIOUS
<1> HIDE DEF step, last
<1>4. PICK f : Recursion(f, Int, 0, last, step)
  <2>1. last \in Nat /\ 0 \in Int
    BY <1>1
  <2> QED
    BY <1>2, <2>1, RecursionExists
<1> USE <1>4 DEF Recursion
<1>5. f = eqn(f)
  <2>1. \A i \in 1 .. last : f[i - 1] \in Int
    BY <1>1, <1>4
  <2>2. \A i \in 0 .. last : i # 0 => i \in 1 .. last
    BY <1>1
  <2>3. \A i \in 0 .. last : f[i] = IF i = 0 THEN 0 ELSE f[i - 1] + trades[i].pnl
    BY <1>3, <1>4, <2>1, <2>2
  <2> QED
    BY <1>4, <2>3
<1>6. total = eqn(total)
  <2> HIDE DEF eqn
  <2> QED
    BY <1>5, Zenon
<1> HIDE DEF total
<1>7. total = f
  <2> DEFINE T == {i \in 0 .. last : total[i] = f[i]}
  <2>1. 0 \in T
    BY <1>1, <1>4, <1>6
  <2>2. ASSUME NEW i \in 1 .. last, i - 1 \in T PROVE i \in T
    <3>1. i \in 0 .. last /\ i # 0 /\ total[i - 1] = f[i - 1]
      BY <1>1, <2>2
    <3>2. total[i] = total[i - 1] + trades[i].pnl /\ f[i] = f[i - 1] + trades[i].pnl
      BY <1>5, <1>6, <3>1
    <3> QED
      BY <3>1, <3>2
  <2> HIDE DEF T
  <2>3. 0 .. last \subseteq T
    BY <1>1, <2>1, <2>2, EveryIndex
  <2>4. DOMAIN total = 0 .. last /\ total = [i \in DOMAIN total |-> total[i]]
    BY <1>6
  <2> QED
    BY <1>4, <2>3, <2>4 DEF T
<1>8. Total(trades) = total[last]
  BY DEF Total, total, last
<1>9. \A i \in 1 .. last : total[i] = total[i - 1] + trades[i].pnl
  BY <1>1, <1>6
<1> QED
  BY <1>4, <1>7, <1>8, <1>9 DEF last

\* A total is a number, and nothing amounts to nothing.
LEMMA TotalTyped ==
    ASSUME NEW trades \in Seq(Listed)
    PROVE  Total(trades) \in Int
<1>1. Len(trades) \in 0 .. Len(trades)
  OBVIOUS
<1> QED
  BY <1>1, TotalOfPrefix

LEMMA TotalOfNone == Total(<<>>) = 0
<1>1. <<>> \in Seq(Listed) /\ Len(<<>>) = 0
  OBVIOUS
<1> QED
  BY <1>1, TotalOfPrefix

\* One more trade adds its pnl to the total.
LEMMA TotalGrows ==
    ASSUME NEW trades \in Seq(Listed), NEW t \in Listed
    PROVE  /\ Total(trades) \in Int
           /\ Total(Append(trades, t)) = Total(trades) + t.pnl
<1> DEFINE more == Append(trades, t)
           last == Len(trades)
<1>1. /\ more \in Seq(Listed) /\ Len(more) = last + 1 /\ last \in Nat
      /\ more[last + 1] = t /\ \A i \in 1 .. last : more[i] = trades[i]
  OBVIOUS
<1> HIDE DEF more
<1>2. PICK f \in [0 .. last -> Int] :
          /\ f[0] = 0 /\ f[last] = Total(trades)
          /\ \A i \in 1 .. last : f[i] = f[i - 1] + trades[i].pnl
  BY TotalOfPrefix
<1>3. PICK g \in [0 .. last + 1 -> Int] :
          /\ g[0] = 0 /\ g[last + 1] = Total(more)
          /\ \A i \in 1 .. last + 1 : g[i] = g[i - 1] + more[i].pnl
  <2>1. \E g \in [0 .. Len(more) -> Int] :
            /\ g[0] = 0 /\ g[Len(more)] = Total(more)
            /\ \A i \in 1 .. Len(more) : g[i] = g[i - 1] + more[i].pnl
    BY <1>1, TotalOfPrefix, Zenon
  <2> QED
    BY <1>1, <2>1, Zenon
<1> DEFINE T == {i \in 0 .. last : g[i] = f[i]}
<1>4. 0 \in T
  BY <1>1, <1>2, <1>3
<1>5. ASSUME NEW i \in 1 .. last, i - 1 \in T PROVE i \in T
  <2>1. i \in 0 .. last /\ i \in 1 .. last + 1 /\ g[i - 1] = f[i - 1]
    BY <1>1, <1>5
  <2> QED
    BY <1>1, <1>2, <1>3, <2>1
<1> HIDE DEF T
<1>6. 0 .. last \subseteq T
  BY <1>1, <1>4, <1>5, EveryIndex
<1>7. g[last] = f[last] /\ f[last] \in Int
  BY <1>1, <1>2, <1>6 DEF T
<1>8. g[last + 1] = g[last] + t.pnl
  <2>1. last + 1 \in 1 .. last + 1 /\ (last + 1) - 1 = last
    BY <1>1
  <2> QED
    BY <1>1, <1>3, <2>1
<1> QED
  BY <1>2, <1>3, <1>7, <1>8 DEF more
\* What is appended to a sequence is its last element.
LEMMA LastAppended ==
    ASSUME NEW S, NEW s \in Seq(S), NEW x \in S
    PROVE  /\ Append(s, x) \in Seq(S) /\ Append(s, x) # <<>>
           /\ Append(s, x)[Len(Append(s, x))] = x
OBVIOUS

\* Closing lists one trade, with its pnl, and draws one point; a flat broker is left.
LEMMA CloseBooks ==
    ASSUME NEW b, BrokerTyped(b), Booked(b), NEW price \in Price, NEW ts \in Nat
    PROVE  LET c == close_open_position(b, price, ts)
           IN /\ Booked(c) /\ Flat(c)
              /\ Flat(b) => c = b
              /\ ~Flat(b) => ClosedAt(b, c, ts)
              /\ Total(c.trades) = Total(b.trades) + NewlyBooked(b, c)
<1> DEFINE c == close_open_position(b, price, ts)
           trade == Trade(b.position, price, ts)
           net == NetPnl(b.position, price)
           point == [ts |-> ts, equity |-> b.capital + net]
<1>1. b.trades \in Seq(Listed) /\ Total(b.trades) \in Int
  BY TotalTyped DEF Booked
<1>2. CASE Flat(b)
  <2>1. c = b
    BY <1>2 DEF close_open_position
  <2>2. NewlyBooked(b, c) = 0
    BY <2>1 DEF NewlyBooked
  <2> HIDE DEF c
  <2> QED
    BY <1>1, <1>2, <2>1, <2>2 DEF c
<1>3. CASE ~Flat(b)
  <2>1. net \in Int /\ b.capital \in Int /\ b.position \in Position
    BY NetPnlInteger DEF BrokerTyped
  <2>2. /\ c.capital = b.capital + net /\ c.position = NoPosition
        /\ c.trades = Append(b.trades, trade)
        /\ c.equity_curve = Append(b.equity_curve, point)
    BY <1>3 DEF close_open_position
  <2>3. /\ trade \in Listed /\ trade.entry_ts = b.position.entry_ts
        /\ trade.exit_ts = ts /\ trade.pnl = net
    <3>1. /\ b.position.entry_price \in Int /\ b.position.qty \in Int
          /\ b.position.entry_ts \in Int /\ price \in Int /\ ts \in Int
      BY <2>1, PositionFields, BacktestAssumption
    <3>2. trade = [entry_price |-> b.position.entry_price, exit_price |-> price,
                   qty |-> b.position.qty, pnl |-> net,
                   entry_ts |-> b.position.entry_ts, exit_ts |-> ts]
      BY DEF Trade
    <3> HIDE DEF trade, net
    <3> QED
      BY <2>1, <3>1, <3>2 DEF Listed
  <2>4. point \in Point /\ point.equity = b.capital + net
    <3> HIDE DEF net
    <3> QED
      BY <2>1 DEF Point
  <2> HIDE DEF c, trade, net, point
  <2>5. b.equity_curve \in Seq(Point)
    BY DEF Booked
  <2>6. Booked(c)
    <3>1. c.trades \in Seq(Listed)
      BY <1>1, <2>2, <2>3, LastAppended
    <3>2. /\ c.equity_curve \in Seq(Point) /\ c.equity_curve # <<>>
          /\ c.equity_curve[Len(c.equity_curve)] = point
      BY <2>2, <2>4, <2>5, LastAppended
    <3> QED
      BY <2>2, <2>4, <3>1, <3>2 DEF Booked
  <2>7. Flat(c) /\ ClosedAt(b, c, ts)
    BY <1>3, <2>2, <2>3 DEF ClosedAt, Flat
  <2>8. NewlyBooked(b, c) = trade.pnl
    <3>1. /\ c.trades # <<>> /\ c.trades[Len(c.trades)] = trade
          /\ Len(c.trades) = Len(b.trades) + 1 /\ Len(b.trades) \in Nat
      BY <1>1, <2>2, <2>3, LastAppended
    <3> QED
      BY <3>1 DEF NewlyBooked, Pnl
  <2>9. Total(c.trades) = Total(b.trades) + trade.pnl
    BY <1>1, <2>2, <2>3, TotalGrows
  <2> QED
    BY <1>3, <2>6, <2>7, <2>8, <2>9 DEF c
<1> QED
  BY <1>2, <1>3

\* A signal closes the position, opens one, or leaves both it and the trades.
LEMMA SignalBooks ==
    ASSUME NEW b, BrokerTyped(b), Booked(b), NEW price \in Price, NEW ts \in Nat, NEW sig
    PROVE  LET c == on_signal(b, sig, price, ts)
           IN /\ Booked(c)
              /\ \/ ClosedAt(b, c, ts) \/ OpenedAt(b, c, ts)
                 \/ c.trades = b.trades /\ c.position = b.position
              /\ Total(c.trades) = Total(b.trades) + NewlyBooked(b, c)
<1> DEFINE a == Acted(b, sig, price, ts)
           c == on_signal(b, sig, price, ts)
           point == [ts |-> ts, equity |-> a.capital]
<1>1. b.trades \in Seq(Listed) /\ Total(b.trades) \in Int
  BY TotalTyped DEF Booked
<1>2. /\ a.trades \in Seq(Listed) /\ a.equity_curve \in Seq(Point)
      /\ \/ ClosedAt(b, a, ts) \/ OpenedAt(b, a, ts)
         \/ a.trades = b.trades /\ a.position = b.position
      /\ Total(a.trades) = Total(b.trades) + NewlyBooked(b, a)
      /\ a.capital \in Int
      /\ a = [capital |-> a.capital, position |-> a.position,
              trades |-> a.trades, equity_curve |-> a.equity_curve]
  <2>1. CASE sig = "BUY" /\ Flat(b)
    <3>1. a = Opened(b, price, ts)
      BY <2>1 DEF Acted
    <3>2. /\ a.capital = b.capital - EntryFee /\ a.trades = b.trades
          /\ a.position = [entry_price |-> price, qty |-> Quantity(price), entry_ts |-> ts]
          /\ a.equity_curve = b.equity_curve
          /\ a = [capital |-> a.capital, position |-> a.position,
                  trades |-> a.trades, equity_curve |-> a.equity_curve]
      BY <3>1 DEF Opened, BrokerTyped
    <3> HIDE DEF a
    <3>3. a.position.entry_price # 0 /\ a.position.entry_ts = ts
      BY <3>2, BacktestAssumption
    <3>4. ~Flat(a)
      BY <3>3 DEF Flat, NoPosition
    <3>5. NewlyBooked(b, a) = 0 /\ a.capital \in Int
      BY <3>2, MoneyIsInteger DEF NewlyBooked, BrokerTyped
    <3> QED
      BY <1>1, <2>1, <3>2, <3>3, <3>4, <3>5 DEF OpenedAt, Booked
  <2>2. CASE sig = "SELL" /\ ~Flat(b)
    <3>1. a = close_open_position(b, price, ts)
      BY <2>2 DEF Acted
    <3>2. a.capital \in Int
      BY <2>2, <3>1, NetPnlInteger DEF close_open_position, BrokerTyped
    <3>3. a = [capital |-> a.capital, position |-> a.position,
               trades |-> a.trades, equity_curve |-> a.equity_curve]
      BY <2>2, <3>1 DEF close_open_position
    <3> HIDE DEF a
    <3> QED
      BY <2>2, <3>1, <3>2, <3>3, CloseBooks DEF Booked
  <2>3. CASE ~(sig = "BUY" /\ Flat(b)) /\ ~(sig = "SELL" /\ ~Flat(b))
    <3>1. a = b
      BY <2>3 DEF Acted
    <3>2. NewlyBooked(b, a) = 0
      BY <3>1 DEF NewlyBooked
    <3> HIDE DEF a
    <3>3. b.trades \in Seq(Listed) /\ b.equity_curve \in Seq(Point)
      BY DEF Booked
    <3> QED
      BY <1>1, <3>1, <3>2, <3>3 DEF BrokerTyped
  <2> QED
    BY <2>1, <2>2, <2>3
<1>3. /\ c.capital = a.capital /\ c.position = a.position /\ c.trades = a.trades
      /\ c.equity_curve = Append(a.equity_curve, point)
  <2>1. c = [a EXCEPT !.equity_curve =
                 Append(a.equity_curve, [ts |-> ts, equity |-> a.capital])]
    BY DEF on_signal
  <2> HIDE DEF a, c
  <2>2. c = [capital |-> a.capital, position |-> a.position, trades |-> a.trades,
             equity_curve |-> Append(a.equity_curve, [ts |-> ts, equity |-> a.capital])]
    BY <1>2, <2>1
  <2> QED
    BY <2>2
<1>4. point \in Point /\ point.equity = a.capital
  <2> HIDE DEF a
  <2> QED
    BY <1>2 DEF Point
<1> HIDE DEF a, c, point
<1>5. Booked(c)
  <2>1. /\ c.equity_curve \in Seq(Point) /\ c.equity_curve # <<>>
        /\ c.equity_curve[Len(c.equity_curve)] = point
    BY <1>2, <1>3, <1>4, LastAppended
  <2> QED
    BY <1>2, <1>3, <1>4, <2>1 DEF Booked
<1>6. NewlyBooked(b, c) = NewlyBooked(b, a)
  BY <1>3 DEF NewlyBooked, Pnl
<1>7. \/ ClosedAt(b, c, ts) \/ OpenedAt(b, c, ts)
      \/ c.trades = b.trades /\ c.position = b.position
  BY <1>2, <1>3 DEF ClosedAt, OpenedAt, Flat
<1> QED
  BY <1>2, <1>3, <1>5, <1>6, <1>7 DEF c
\* The ledger of the history is the total of the listed trades, and a report is one
\* of a closed account.
BookInv ==
    /\ BtInv /\ Booked(broker) /\ booked = Total(broker.trades)
    /\ stage = "idle" => broker = Fresh
    /\ stage = "done" => Flat(broker) /\ metrics = compute_metrics(broker)

\* A new broker has no trade, no point and no position.
LEMMA FreshBooks == Booked(Fresh) /\ Flat(Fresh) /\ Total(Fresh.trades) = 0
<1>1. Fresh.trades = <<>> /\ Fresh.equity_curve = <<>> /\ Fresh.position = NoPosition
  BY DEF Fresh
<1> HIDE DEF Fresh
<1> QED
  BY <1>1, TotalOfNone DEF Booked, Flat

\* The candle the replay comes to is one of the table.
LEMMA CandleOfTable ==
    ASSUME BtInv, NEW i \in 1 .. Len(candles)
    PROVE  candles[i].close \in Price /\ candles[i].open_time \in Nat
<1>1. candles[i] \in Candle
  BY ElementOfSeq DEF BtInv, BtTyped
<1> QED
  BY <1>1, CandleFields

\* A backtest that has not been asked for has booked nothing.
THEOREM BooksStart == BtInit => BookInv
<1> SUFFICES ASSUME BtInit PROVE BookInv
  OBVIOUS
<1>1. broker = Fresh /\ booked = 0 /\ stage = "idle"
  BY DEF BtInit
<1> QED
  BY <1>1, BacktestStarts, FreshBooks DEF BookInv

\* The request, every bar and the report keep the books; compute_metrics sums up
\* the broker that is left.
THEOREM BooksStep == BookInv /\ [BtNext]_btVars => BookInv'
<1> SUFFICES ASSUME BookInv, [BtNext]_btVars PROVE BookInv'
  OBVIOUS
<1>1. BtInv /\ BtInv'
  BY BacktestSteps DEF BookInv
<1>2. BrokerTyped(broker) /\ Booked(broker) /\ booked = Total(broker.trades)
  BY DEF BookInv, BtInv, BtTyped
<1>3. CASE run_backtest
  <2>1. /\ broker' = Fresh /\ metrics' = compute_metrics(Fresh) /\ booked' = booked
        /\ stage = "idle" /\ stage' # "idle"
    BY <1>3 DEF run_backtest
  <2>2. booked = 0
    BY <1>1, <2>1 DEF BtInv, BtTyped
  <2> QED
    BY <1>1, <2>1, <2>2, FreshBooks DEF BookInv
<1>4. CASE Replay
  <2>1. /\ bar \in 1 .. Len(candles) /\ stage = "replay" /\ stage' = stage
    BY <1>1, <1>4 DEF Replay, BtInv, BtTyped
  <2>2. candles[bar].close \in Price /\ candles[bar].open_time \in Nat
    BY <1>1, <2>1, CandleOfTable
  <2>3. /\ broker' = on_signal(broker, Decision(candles, bar),
                              candles[bar].close, candles[bar].open_time)
        /\ booked' = booked + NewlyBooked(broker, broker')
    BY <1>4 DEF Replay
  <2>4. Booked(broker') /\ Total(broker'.trades) = booked'
    BY <1>2, <2>2, <2>3, SignalBooks
  <2> QED
    BY <1>1, <2>1, <2>4 DEF BookInv
<1>5. CASE Report
  <2>1. Len(candles) \in 1 .. Len(candles)
    BY <1>1, <1>5 DEF Report, BtInv, BtTyped
  <2>2. /\ candles[Len(candles)].close \in Price
        /\ candles[Len(candles)].open_time \in Nat
    BY <1>1, <2>1, CandleOfTable
  <2>3. /\ broker' = close_open_position(broker, candles[Len(candles)].close,
                                        candles[Len(candles)].open_time)
        /\ booked' = booked + NewlyBooked(broker, broker')
        /\ metrics' = compute_metrics(broker') /\ stage' = "done"
    BY <1>5 DEF Report
  <2>4. Booked(broker') /\ Total(broker'.trades) = booked' /\ Flat(broker')
    BY <1>2, <2>2, <2>3, CloseBooks
  <2> QED
    BY <1>1, <2>3, <2>4 DEF BookInv
<1>6. CASE UNCHANGED btVars
  BY <1>1, <1>6 DEF BookInv, btVars
<1> QED
  BY <1>3, <1>4, <1>5, <1>6 DEF BtNext

\* The report is of a closed account and adds up, for every table, request and
\* commission: what BacktestRunner.run returns loses no trade and no fee.
THEOREM BacktestAddsUp == BtSpec => []ReportAddsUp
<1>1. BookInv => ReportAddsUp
  <2> SUFFICES ASSUME BookInv, stage = "done"
               PROVE  LET curve == broker.equity_curve
                      IN /\ Flat(broker)
                         /\ metrics.gain = Total(broker.trades)
                                            - EntryFee * metrics.total_trades
                         /\ curve # <<>> => curve[Len(curve)].equity
                                              = 1000 * InitialCapital + metrics.gain
    BY DEF ReportAddsUp
  <2>1. /\ Flat(broker) /\ metrics.gain = broker.capital - 1000 * InitialCapital
        /\ metrics.total_trades = Len(broker.trades)
    BY DEF BookInv, compute_metrics
  <2>2. /\ broker.capital \in Int /\ 1000 * InitialCapital \in Int
        /\ Len(broker.trades) \in Nat /\ booked \in Int
        /\ EntryFee * Len(broker.trades) \in Int
    BY MoneyIsInteger DEF BookInv, BtInv, BtTyped, BrokerTyped
  <2>3. broker.capital = 1000 * InitialCapital + booked - EntryFee * Len(broker.trades)
    BY <2>1, <2>2, ReconciledCases DEF BookInv, BtInv
  <2>4. booked = Total(broker.trades) /\ Booked(broker)
    BY DEF BookInv
  <2>5. metrics.gain = Total(broker.trades) - EntryFee * metrics.total_trades
    BY <2>1, <2>2, <2>3, <2>4
  <2>6. broker.capital = 1000 * InitialCapital + metrics.gain
    BY <2>1, <2>2
  <2> QED
    BY <2>1, <2>4, <2>5, <2>6 DEF Booked
<1> QED
  BY BooksStart, BooksStep, <1>1, PTL DEF BtSpec
-----------------------------------------------------------------------------
(* When the trades are made. *)

Sorted(cs) ==
    \A i, j \in 1 .. Len(cs) : i < j => cs[i].open_time < cs[j].open_time

\* The trades of b follow one another from `from` on, its position after them.
InOrder(b, from) ==
    /\ \A i \in 1 .. Len(b.trades) :
           /\ from <= b.trades[i].entry_ts /\ b.trades[i].entry_ts <= b.trades[i].exit_ts
           /\ i > 1 => b.trades[i - 1].exit_ts < b.trades[i].entry_ts
    /\ ~Flat(b) =>
           /\ from <= b.position.entry_ts
           /\ \A i \in 1 .. Len(b.trades) : b.trades[i].exit_ts < b.position.entry_ts

\* Nothing of b is from after ts, or not even from ts.
NotAfter(b, ts) ==
    /\ \A i \in 1 .. Len(b.trades) : b.trades[i].exit_ts <= ts
    /\ ~Flat(b) => b.position.entry_ts <= ts

Earlier(b, ts) ==
    /\ \A i \in 1 .. Len(b.trades) : b.trades[i].exit_ts < ts
    /\ ~Flat(b) => b.position.entry_ts < ts

OrderInv ==
    /\ BookInv /\ Sorted(candles) /\ since \in Int /\ InOrder(broker, since)
    /\ stage # "idle" => NotAfter(broker, candles[Len(candles)].open_time)
    /\ stage = "replay" /\ bar <= Len(candles) =>
           since <= candles[bar].open_time /\ Earlier(broker, candles[bar].open_time)

\* Rows that each follow the one before are sorted, and so are the first of them.
LEMMA CandlesSorted ==
    ASSUME NEW rows \in History, NEW until
    PROVE  Sorted(Candles(rows, until))
<1>1. /\ rows \in Seq(Candle) /\ Len(rows) \in Nat
      /\ \A i \in 2 .. Len(rows) : rows[i - 1].open_time < rows[i].open_time
  <2>1. rows \in Seq(Candle)
    BY BacktestAssumption, Zenon DEF Candle
  <2> QED
    BY <2>1, BacktestAssumption
<1>2. \A i \in 1 .. Len(rows) : rows[i].open_time \in Nat
  BY <1>1, ElementOfSeq, CandleFields
<1>3. ASSUME NEW i \in 1 .. Len(rows)
      PROVE  \A j \in 1 .. Len(rows) : i < j => rows[i].open_time < rows[j].open_time
  <2> DEFINE T == {k \in Nat : i + 1 + k <= Len(rows) =>
                                   rows[i].open_time < rows[i + 1 + k].open_time}
  <2>1. 0 \in T
    <3>1. i + 1 <= Len(rows) => i + 1 \in 2 .. Len(rows) /\ (i + 1) - 1 = i
      BY <1>1
    <3> QED
      BY <1>1, <3>1
  <2>2. ASSUME NEW k \in Nat, k \in T PROVE k + 1 \in T
    <3>1. SUFFICES ASSUME i + 1 + (k + 1) <= Len(rows)
                   PROVE  rows[i].open_time < rows[i + 1 + (k + 1)].open_time
      OBVIOUS
    <3>2. /\ i + 1 + (k + 1) \in 2 .. Len(rows) /\ (i + 1 + (k + 1)) - 1 = i + 1 + k
          /\ i + 1 + k \in 1 .. Len(rows) /\ i + 1 + (k + 1) \in 1 .. Len(rows)
      BY <1>1, <3>1
    <3>3. rows[i + 1 + k].open_time < rows[i + 1 + (k + 1)].open_time
      BY <1>1, <3>2
    <3>4. rows[i].open_time < rows[i + 1 + k].open_time
      BY <2>2, <3>2
    <3>5. /\ rows[i].open_time \in Nat /\ rows[i + 1 + k].open_time \in Nat
          /\ rows[i + 1 + (k + 1)].open_time \in Nat
      BY <1>2, <3>2
    <3> HIDE DEF T
    <3> QED
      BY <3>3, <3>4, <3>5
  <2> HIDE DEF T
  <2>3. Nat \subseteq T
    BY <2>1, <2>2, InductiveSet
  <2>4. ASSUME NEW j \in 1 .. Len(rows), i < j
        PROVE  rows[i].open_time < rows[j].open_time
    <3>1. j - i - 1 \in Nat /\ i + 1 + (j - i - 1) = j /\ j <= Len(rows)
      BY <1>1, <2>4
    <3>2. j - i - 1 \in T
      BY <2>3, <3>1
    <3> QED
      BY <3>1, <3>2 DEF T
  <2> QED
    BY <2>4
<1> DEFINE kept == {i \in 1 .. Len(rows) : i <= QueryLimit /\ rows[i].open_time <= until}
           n == Cardinality(kept)
<1>4. IsFiniteSet(1 .. Len(rows)) /\ Cardinality(1 .. Len(rows)) = Len(rows)
  <2>1. Len(rows) \in Nat
    BY <1>1
  <2>2. /\ IsFiniteSet(1 .. Len(rows))
        /\ Cardinality(1 .. Len(rows)) = IF 1 > Len(rows) THEN 0 ELSE Len(rows) - 1 + 1
    BY <2>1, FS_Interval
  <2> QED
    BY <2>1, <2>2
<1>5. n \in Nat /\ n <= Len(rows)
  BY <1>1, <1>4, FS_Subset, FS_CardinalityType
<1> HIDE DEF kept, n
<1>6. /\ Len(SubSeq(rows, 1, n)) = n
      /\ \A i \in 1 .. n : SubSeq(rows, 1, n)[i] = rows[i] /\ i \in 1 .. Len(rows)
  BY <1>1, <1>5
<1>7. Sorted(SubSeq(rows, 1, n))
  <2> DEFINE cs == SubSeq(rows, 1, n)
  <2>1. ASSUME NEW i \in 1 .. n, NEW j \in 1 .. n, i < j
        PROVE  cs[i].open_time < cs[j].open_time
    <3>1. rows[i].open_time < rows[j].open_time
      BY <1>3, <1>6, <2>1
    <3> QED
      BY <1>6, <3>1
  <2>2. Len(cs) = n
    BY <1>6
  <2> HIDE DEF cs
  <2> QED
    BY <2>1, <2>2 DEF Sorted, cs
<1> QED
  BY <1>7 DEF Candles, kept, n

\* The times of a broker can be compared.
LEMMA TimesAreNumbers ==
    ASSUME NEW b, BrokerTyped(b), Booked(b)
    PROVE  /\ Len(b.trades) \in Nat /\ b.position.entry_ts \in Int
           /\ \A i \in 1 .. Len(b.trades) :
                  b.trades[i].entry_ts \in Int /\ b.trades[i].exit_ts \in Int
<1>1. b.trades \in Seq(Listed)
  BY DEF Booked
<1>2. Len(b.trades) \in Nat
  BY <1>1
<1>3. ASSUME NEW i \in 1 .. Len(b.trades)
      PROVE  b.trades[i].entry_ts \in Int /\ b.trades[i].exit_ts \in Int
  <2>1. b.trades[i] \in Listed
    BY <1>1, ElementOfSeq
  <2> QED
    BY <2>1 DEF Listed
<1>4. b.position.entry_ts \in Int
  BY PositionFields DEF BrokerTyped
<1> QED
  BY <1>2, <1>3, <1>4

\* What is not after ts is before everything that is later.
LEMMA TimePasses ==
    ASSUME NEW b, BrokerTyped(b), Booked(b), NEW ts \in Int, NEW later \in Int
    PROVE  /\ Earlier(b, ts) => NotAfter(b, ts)
           /\ NotAfter(b, ts) /\ ts <= later => NotAfter(b, later)
           /\ NotAfter(b, ts) /\ ts < later => Earlier(b, later)
BY TimesAreNumbers DEF Earlier, NotAfter

\* Closing at a time that is not before the position, opening at one that is after
\* all trades, and leaving both alone keep the trades in order.
LEMMA StepInOrder ==
    ASSUME NEW b, BrokerTyped(b), Booked(b), NEW from \in Int, InOrder(b, from),
           NEW ts \in Nat, NotAfter(b, ts), NEW c, Booked(c),
           \/ ClosedAt(b, c, ts)
           \/ OpenedAt(b, c, ts) /\ Earlier(b, ts) /\ from <= ts
           \/ c.trades = b.trades /\ c.position = b.position
    PROVE  InOrder(c, from) /\ NotAfter(c, ts)
<1> DEFINE n == Len(b.trades)
<1>1. /\ b.trades \in Seq(Listed) /\ n \in Nat
      /\ \A i \in 1 .. n : b.trades[i].entry_ts \in Int /\ b.trades[i].exit_ts \in Int
  BY TimesAreNumbers DEF Booked
<1>2. b.position.entry_ts \in Int
  BY TimesAreNumbers
<1>3. CASE ClosedAt(b, c, ts)
  <2>1. PICK t \in Listed : /\ c.trades = Append(b.trades, t)
                            /\ t.entry_ts = b.position.entry_ts /\ t.exit_ts = ts
    BY <1>3 DEF ClosedAt
  <2>2. Flat(c) /\ ~Flat(b)
    BY <1>3 DEF ClosedAt
  <2>3. /\ Len(c.trades) = n + 1 /\ c.trades[n + 1] = t
        /\ \A i \in 1 .. n : c.trades[i] = b.trades[i]
    BY <1>1, <2>1
  <2>4. /\ from <= t.entry_ts /\ t.entry_ts <= t.exit_ts
        /\ \A i \in 1 .. n : b.trades[i].exit_ts < t.entry_ts
    BY <2>1, <2>2 DEF InOrder, NotAfter
  <2>5. ASSUME NEW i \in 1 .. n + 1
        PROVE  /\ from <= c.trades[i].entry_ts /\ c.trades[i].entry_ts <= c.trades[i].exit_ts
               /\ i > 1 => c.trades[i - 1].exit_ts < c.trades[i].entry_ts
               /\ c.trades[i].exit_ts <= ts
    <3>1. CASE i = n + 1
      <4>1. i > 1 => n \in 1 .. n /\ i - 1 = n
        BY <1>1, <3>1
      <4> QED
        BY <2>1, <2>3, <2>4, <3>1, <4>1
    <3>2. CASE i # n + 1
      <4>1. i \in 1 .. n /\ (i > 1 => i - 1 \in 1 .. n)
        BY <1>1, <3>2
      <4> QED
        BY <2>3, <4>1 DEF InOrder, NotAfter
    <3> QED
      BY <3>1, <3>2
  <2> QED
    BY <2>2, <2>3, <2>5 DEF InOrder, NotAfter
<1>4. CASE OpenedAt(b, c, ts) /\ Earlier(b, ts) /\ from <= ts
  <2>1. c.trades = b.trades /\ c.position.entry_ts = ts
    BY <1>4 DEF OpenedAt
  <2> QED
    BY <1>4, <2>1 DEF InOrder, NotAfter, Earlier
<1>5. CASE c.trades = b.trades /\ c.position = b.position
  BY <1>5 DEF InOrder, NotAfter, Flat
<1> QED
  BY <1>3, <1>4, <1>5
\* A broker without trades and position is in order and of no time.
LEMMA FreshInOrder ==
    \A from, ts : InOrder(Fresh, from) /\ NotAfter(Fresh, ts) /\ Earlier(Fresh, ts)
<1>1. Fresh.trades = <<>> /\ Flat(Fresh)
  BY FreshBooks DEF Fresh
<1> HIDE DEF Fresh
<1> QED
  BY <1>1 DEF InOrder, NotAfter, Earlier

\* Nothing has been traded before the request.
THEOREM OrderStarts == BtInit => OrderInv
<1> SUFFICES ASSUME BtInit PROVE OrderInv
  OBVIOUS
<1>1. broker = Fresh /\ stage = "idle" /\ candles = <<>> /\ since = 0
  BY DEF BtInit
<1>2. Sorted(<<>>)
  BY DEF Sorted
<1> QED
  BY <1>1, <1>2, BooksStart, FreshInOrder DEF OrderInv

\* The replay comes to its candles in the order of time, from the first one that
\* was asked for, and the broker acts at the time of the candle.
THEOREM OrderSteps == OrderInv /\ [BtNext]_btVars => OrderInv'
<1> SUFFICES ASSUME OrderInv, [BtNext]_btVars PROVE OrderInv'
  OBVIOUS
<1>1. BookInv /\ BookInv' /\ BtInv
  BY BooksStep DEF OrderInv, BookInv
<1>2. /\ BrokerTyped(broker) /\ Booked(broker) /\ Booked(broker')
      /\ candles \in Seq(Candle) /\ Len(candles) \in Nat
      /\ Sorted(candles) /\ since \in Int /\ InOrder(broker, since)
  BY <1>1 DEF OrderInv, BookInv, BtInv, BtTyped
<1>3. CASE run_backtest
  <2>1. PICK rows \in History, from \in RequestTime, until \in RequestTime :
            /\ candles' = Candles(rows, until) /\ since' = from
            /\ \/ stage' = "done"
               \/ stage' = "replay" /\ bar' \in Start(candles', from)
    BY <1>3 DEF run_backtest
  <2>2. Sorted(candles') /\ since' \in Int /\ broker' = Fresh
    BY <1>3, <2>1, CandlesSorted, BacktestAssumption DEF run_backtest
  <2>3. stage' = "replay" => since' <= candles'[bar'].open_time
    <3>1. ASSUME stage' = "replay" PROVE since' <= candles'[bar'].open_time
      <4>1. bar' \in Start(candles', since')
        BY <2>1, <3>1
      <4>2. /\ candles'[bar'].open_time >= since' /\ bar' \in 1 .. Len(candles')
        BY <4>1 DEF Start
      <4>3. candles'[bar'] \in Candle
        BY <2>1, <4>2, CandlesAreCandles, ElementOfSeq
      <4> QED
        BY <2>2, <4>2, <4>3, CandleFields
    <3> QED
      BY <3>1
  <2> QED
    BY <1>1, <2>2, <2>3, FreshInOrder DEF OrderInv
<1>4. CASE Replay
  <2> DEFINE ts == candles[bar].open_time
             newest == candles[Len(candles)].open_time
  <2>1. /\ bar \in 1 .. Len(candles) /\ stage = "replay" /\ bar' = bar + 1
        /\ UNCHANGED <<stage, candles, since>>
    BY <1>1, <1>2, <1>4 DEF Replay, BtInv, BtTyped
  <2>2. /\ candles[bar].close \in Price /\ ts \in Nat /\ newest \in Nat
        /\ Len(candles) \in 1 .. Len(candles)
    BY <1>1, <1>2, <2>1, CandleOfTable
  <2>3. broker' = on_signal(broker, Decision(candles, bar), candles[bar].close, ts)
    BY <1>4 DEF Replay
  <2>4. since <= ts /\ Earlier(broker, ts)
    BY <2>1 DEF OrderInv
  <2>5. \/ ClosedAt(broker, broker', ts) \/ OpenedAt(broker, broker', ts)
        \/ broker'.trades = broker.trades /\ broker'.position = broker.position
    BY <1>2, <2>2, <2>3, SignalBooks
  <2>6. NotAfter(broker, ts)
    BY <1>2, <2>2, <2>4, TimePasses
  <2>7. InOrder(broker', since) /\ NotAfter(broker', ts)
    BY <1>2, <2>2, <2>4, <2>5, <2>6, StepInOrder
  <2>8. BrokerTyped(broker')
    BY <1>1 DEF BookInv, BtInv, BtTyped
  <2>9. NotAfter(broker', newest)
    <3>1. ts <= newest
      BY <1>2, <2>1, <2>2 DEF Sorted
    <3> QED
      BY <1>2, <2>2, <2>7, <2>8, <3>1, TimePasses
  <2>10. ASSUME bar' <= Len(candles)
         PROVE  since <= candles[bar'].open_time /\ Earlier(broker', candles[bar'].open_time)
    <3>1. bar' \in 1 .. Len(candles) /\ bar < bar'
      BY <1>2, <2>1, <2>10
    <3>2. candles[bar'].open_time \in Nat
      BY <1>1, <3>1, CandleOfTable
    <3>3. ts < candles[bar'].open_time
      BY <1>2, <2>1, <3>1 DEF Sorted
    <3> HIDE DEF ts
    <3> QED
      BY <1>2, <2>2, <2>4, <2>7, <2>8, <3>2, <3>3, TimePasses
  <2> QED
    BY <1>1, <1>2, <2>1, <2>7, <2>9, <2>10 DEF OrderInv
<1>5. CASE Report
  <2> DEFINE newest == candles[Len(candles)].open_time
  <2>1. /\ Len(candles) \in 1 .. Len(candles) /\ stage = "replay" /\ stage' = "done"
        /\ UNCHANGED <<candles, since>>
    BY <1>1, <1>5 DEF Report, BtInv, BtTyped
  <2>2. candles[Len(candles)].close \in Price /\ newest \in Nat
    BY <1>1, <2>1, CandleOfTable
  <2>3. broker' = close_open_position(broker, candles[Len(candles)].close, newest)
    BY <1>5 DEF Report
  <2>4. ClosedAt(broker, broker', newest) \/ broker' = broker
    BY <1>2, <2>2, <2>3, CloseBooks
  <2>5. InOrder(broker', since) /\ NotAfter(broker', newest)
    BY <1>2, <2>1, <2>2, <2>4, StepInOrder DEF OrderInv
  <2> QED
    BY <1>1, <1>2, <2>1, <2>5 DEF OrderInv
<1>6. CASE UNCHANGED btVars
  BY <1>1, <1>6 DEF OrderInv, btVars
<1> QED
  BY <1>3, <1>4, <1>5, <1>6 DEF BtNext

\* Trades lie in the period asked for and follow one another, whatever the candles,
\* the gaps between them and the request: broker.py never has two positions, and
\* runner.py never goes back.
THEOREM BacktestInOrder == BtSpec => []TradesInOrder
<1>1. OrderInv => TradesInOrder
  <2> SUFFICES ASSUME OrderInv, NEW i \in 1 .. Len(broker.trades)
               PROVE  LET t == broker.trades[i] IN
                      /\ since <= t.entry_ts /\ t.entry_ts <= t.exit_ts
                      /\ t.exit_ts <= candles[Len(candles)].open_time
                      /\ i > 1 => broker.trades[i - 1].exit_ts < t.entry_ts
    BY DEF TradesInOrder
  <2>1. stage # "idle"
    <3>1. Fresh.trades = <<>>
      BY DEF Fresh
    <3> QED
      BY <3>1 DEF OrderInv, BookInv
  <2> QED
    BY <2>1 DEF OrderInv, InOrder, NotAfter
<1> QED
  BY OrderStarts, OrderSteps, <1>1, PTL DEF BtSpec
-----------------------------------------------------------------------------
(* The loop of compute_metrics over the curve. *)

Falls == [drop : Int, peak : Int]
Walked == [peak : Int, worst : Falls]

LEMMA Cancel ==
    ASSUME NEW x \in Int, NEW y \in Int, NEW p \in Int, p > 0, x * p <= y * p
    PROVE  x <= y
OBVIOUS

\* Falls are compared as fractions with positive denominators.
LEMMA DeeperIsTransitive ==
    ASSUME NEW f \in Falls, NEW g \in Falls, NEW h \in Falls,
           f.peak > 0, g.peak > 0, h.peak > 0, ~Deeper(f, g), Deeper(h, g)
    PROVE  ~Deeper(f, h)
<1>1. ASSUME NEW fd \in Int, NEW fp \in Int, NEW gd \in Int, NEW gp \in Int,
             NEW hd \in Int, NEW hp \in Int, fp > 0, gp > 0, hp > 0,
             fd * gp <= gd * fp, gd * hp < hd * gp
      PROVE  fd * hp <= hd * fp
  <2>1. (fd * gp) * hp <= (gd * fp) * hp
    BY <1>1
  <2>2. (gd * hp) * fp <= (hd * gp) * fp
    BY <1>1
  <2>3. (fd * hp) * gp <= (hd * fp) * gp
    BY <2>1, <2>2
  <2> QED
    BY <1>1, <2>3, Cancel
<1>2. /\ f.drop \in Int /\ f.peak \in Int /\ g.drop \in Int /\ g.peak \in Int
      /\ h.drop \in Int /\ h.peak \in Int
  BY DEF Falls
<1>3. f.drop * g.peak <= g.drop * f.peak /\ g.drop * h.peak < h.drop * g.peak
  BY <1>2 DEF Deeper
<1>4. f.drop * h.peak <= h.drop * f.peak
  BY <1>1, <1>2, <1>3
<1> QED
  BY <1>2, <1>4 DEF Deeper

\* From a lower point the same fall is not deeper than from the peak, above zero.
LEMMA FromThePeak ==
    ASSUME NEW e \in Int, NEW top \in Int, NEW eq \in Int, NEW worst \in Falls,
           e > 0, e <= top, eq >= 0, worst.peak > 0,
           ~Deeper([drop |-> top - eq, peak |-> top], worst)
    PROVE  ~Deeper([drop |-> e - eq, peak |-> e], worst)
<1>1. ASSUME NEW d \in Int, NEW p \in Int, p > 0, (top - eq) * p <= d * top
      PROVE  (e - eq) * p <= d * e
  <2>1. eq * p >= 0
    BY <1>1
  <2>2. (eq * p) * e <= (eq * p) * top
    BY <2>1
  <2>3. ((top - eq) * p) * e <= (d * top) * e
    BY <1>1
  <2>4. ((e - eq) * p) * top <= ((top - eq) * p) * e
    BY <1>1, <2>2
  <2>5. ((e - eq) * p) * top <= (d * e) * top
    BY <1>1, <2>3, <2>4
  <2>6. top > 0
    OBVIOUS
  <2> QED
    BY <1>1, <2>5, <2>6, Cancel
<1>2. worst.drop \in Int /\ worst.peak \in Int
  BY DEF Falls
<1>3. (top - eq) * worst.peak <= worst.drop * top
  BY <1>2 DEF Deeper
<1>4. (e - eq) * worst.peak <= worst.drop * e
  BY <1>1, <1>2, <1>3
<1> QED
  BY <1>2, <1>4 DEF Deeper
\* What one point does to the peak and the deepest drop.
LEMMA PassedCases ==
    ASSUME NEW w \in Walked, NEW eq \in Int
    PROVE  LET v == Passed(w, eq)
               here == [drop |-> v.peak - eq, peak |-> v.peak]
           IN /\ v \in Walked /\ here \in Falls
              /\ v.peak = IF eq > w.peak THEN eq ELSE w.peak
              /\ v.worst = IF v.peak > 0 /\ Deeper(here, w.worst) THEN here ELSE w.worst
<1> DEFINE top == IF eq > w.peak THEN eq ELSE w.peak
           here == [drop |-> top - eq, peak |-> top]
           worst == IF top > 0 /\ Deeper(here, w.worst) THEN here ELSE w.worst
<1>1. w.peak \in Int /\ w.worst \in Falls
  BY DEF Walked
<1>2. top \in Int
  BY <1>1
<1>3. here \in Falls
  <2> HIDE DEF top
  <2> QED
    BY <1>2 DEF Falls
<1>4. Passed(w, eq) = [peak |-> top, worst |-> worst]
  BY DEF Passed
<1>5. worst \in Falls
  BY <1>1, <1>3
<1>6. worst = IF top > 0 /\ Deeper(here, w.worst) THEN here ELSE w.worst
  OBVIOUS
<1>7. top = IF eq > w.peak THEN eq ELSE w.peak
  OBVIOUS
<1>8. here = [drop |-> top - eq, peak |-> top]
  OBVIOUS
<1> HIDE DEF top, here, worst
<1>9. /\ Passed(w, eq) \in Walked
      /\ Passed(w, eq).peak = top /\ Passed(w, eq).worst = worst
  BY <1>2, <1>4, <1>5 DEF Walked
<1> QED
  BY <1>3, <1>6, <1>7, <1>8, <1>9

\* The loop of compute_metrics satisfies its recursive definition.
LEMMA WalkOfCurve ==
    ASSUME NEW curve \in Seq(Point), Len(curve) # 0
    PROVE  \E walk \in [0 .. Len(curve) -> Walked] :
               /\ walk[0] = [peak |-> curve[1].equity, worst |-> NoFall]
               /\ Drawdown(curve) = walk[Len(curve)].worst
               /\ \A i \in 1 .. Len(curve) : walk[i] = Passed(walk[i - 1], curve[i].equity)
<1> DEFINE last == Len(curve)
           first == [peak |-> curve[1].equity, worst |-> NoFall]
           step == [i \in 1 .. last |-> [w \in Walked |-> Passed(w, curve[i].equity)]]
           eqn(f) == [i \in 0 .. last |-> IF i = 0 THEN first
                                          ELSE Passed(f[i - 1], curve[i].equity)]
           walk == CHOOSE f : f = eqn(f)
<1>1. last \in Nat /\ 1 \in 1 .. last
  OBVIOUS
<1>2. ASSUME NEW i \in 1 .. last PROVE curve[i].equity \in Int
  <2>1. curve[i] \in Point
    BY <1>2
  <2> QED
    BY <2>1 DEF Point
<1>3. first \in Walked
  BY <1>1, <1>2 DEF Walked, Falls, NoFall
<1>4. \A i \in 1 .. last : \A w \in Walked : Passed(w, curve[i].equity) \in Walked
  BY <1>2, PassedCases
<1>5. step \in [1 .. last -> [Walked -> Walked]]
  BY <1>4
<1>6. \A i \in 1 .. last : \A w \in Walked : step[i][w] = Passed(w, curve[i].equity)
  OBVIOUS
<1>7. last \in Nat
  BY <1>1
<1> HIDE DEF step, last, first
<1>8. PICK f : Recursion(f, Walked, first, last, step)
  BY <1>3, <1>5, <1>7, RecursionExists
<1> USE <1>8 DEF Recursion
<1>9. f = eqn(f)
  <2>1. \A i \in 1 .. last : f[i - 1] \in Walked
    BY <1>7, <1>8
  <2>2. \A i \in 0 .. last : i # 0 => i \in 1 .. last
    BY <1>7
  <2>3. \A i \in 0 .. last : f[i] = IF i = 0 THEN first ELSE Passed(f[i - 1], curve[i].equity)
    BY <1>6, <1>8, <2>1, <2>2
  <2> QED
    BY <1>8, <2>3
<1>10. walk = eqn(walk)
  <2> HIDE DEF eqn
  <2> QED
    BY <1>9, Zenon
<1>11. Drawdown(curve) = walk[last].worst
  <2>1. curve # <<>>
    OBVIOUS
  <2> QED
    BY <2>1 DEF Drawdown, walk, last, first
<1> HIDE DEF walk
<1>12. walk = f
  <2> DEFINE T == {i \in 0 .. last : walk[i] = f[i]}
  <2>1. 0 \in T
    BY <1>7, <1>8, <1>10
  <2>2. ASSUME NEW i \in 1 .. last, i - 1 \in T PROVE i \in T
    <3>1. i \in 0 .. last /\ i # 0 /\ walk[i - 1] = f[i - 1]
      BY <1>7, <2>2
    <3>2. /\ walk[i] = Passed(walk[i - 1], curve[i].equity)
          /\ f[i] = Passed(f[i - 1], curve[i].equity)
      BY <1>9, <1>10, <3>1
    <3> QED
      BY <3>1, <3>2
  <2> HIDE DEF T
  <2>3. 0 .. last \subseteq T
    BY <1>7, <2>1, <2>2, EveryIndex
  <2>4. DOMAIN walk = 0 .. last /\ walk = [i \in DOMAIN walk |-> walk[i]]
    BY <1>10
  <2> QED
    BY <1>8, <2>3, <2>4 DEF T
<1>13. \A i \in 1 .. last : walk[i] = Passed(walk[i - 1], curve[i].equity)
  BY <1>7, <1>10
<1> QED
  BY <1>8, <1>11, <1>12, <1>13 DEF last, first

\* After i points: the peak is the highest of them, and the drop the deepest.
WalkedTo(curve, i, w) ==
    /\ \E a \in 1 .. Len(curve) : (a <= i \/ a = 1) /\ w.peak = curve[a].equity
    /\ \A k \in 1 .. i : curve[k].equity <= w.peak
    /\ w.worst.peak > 0 /\ w.worst.drop >= 0
    /\ \A j \in 1 .. i : \A a \in 1 .. j :
           Counts(curve, a, j) => ~Deeper(Fall(curve, a, j), w.worst)
    /\ \/ w.worst.drop = 0
       \/ \E j \in 1 .. i : \E a \in 1 .. j :
              Counts(curve, a, j) /\ w.worst = Fall(curve, a, j)

\* Before the first point the peak is the first point and nothing has fallen.
LEMMA FirstPoint ==
    ASSUME NEW curve \in Seq(Point), Len(curve) # 0
    PROVE  WalkedTo(curve, 0, [peak |-> curve[1].equity, worst |-> NoFall])
<1>1. 1 \in 1 .. Len(curve)
  OBVIOUS
<1> QED
  BY <1>1 DEF WalkedTo, NoFall

\* One more point keeps it so.
LEMMA OnePointMore ==
    ASSUME NEW curve \in Seq(Point), NEW i \in 1 .. Len(curve), NEW w \in Walked,
           WalkedTo(curve, i - 1, w)
    PROVE  WalkedTo(curve, i, Passed(w, curve[i].equity))
<1> DEFINE eq == curve[i].equity
           v == Passed(w, eq)
           here == [drop |-> v.peak - eq, peak |-> v.peak]
<1>1. Len(curve) \in Nat /\ i \in Nat /\ i \in 1 .. i
  OBVIOUS
<1>2. \A k \in 1 .. Len(curve) : curve[k].equity \in Int
  <2>1. \A k \in 1 .. Len(curve) : curve[k] \in Point
    OBVIOUS
  <2> QED
    BY <2>1 DEF Point
<1>3. \A j \in 1 .. i : j \in 1 .. Len(curve) /\ \A a \in 1 .. j : a \in 1 .. Len(curve)
  BY <1>1
<1>4. /\ eq \in Int /\ w.peak \in Int /\ w.worst \in Falls
      /\ \A j \in 1 .. i : j # i => j \in 1 .. i - 1
  BY <1>1, <1>2 DEF Walked
<1>5. /\ v \in Walked /\ here \in Falls
      /\ v.peak = IF eq > w.peak THEN eq ELSE w.peak
      /\ v.worst = IF v.peak > 0 /\ Deeper(here, w.worst) THEN here ELSE w.worst
  BY <1>4, PassedCases
<1> HIDE DEF eq, v
<1>6. v.peak \in Int /\ w.peak <= v.peak /\ eq <= v.peak
  BY <1>4, <1>5
<1>7. \E a \in 1 .. i : v.peak = curve[a].equity
  <2>1. CASE eq > w.peak
    BY <1>1, <1>5, <2>1 DEF eq
  <2>2. CASE ~(eq > w.peak)
    <3>1. PICK a \in 1 .. Len(curve) : (a <= i - 1 \/ a = 1) /\ w.peak = curve[a].equity
      BY DEF WalkedTo
    <3>2. a \in 1 .. i
      BY <1>1, <3>1
    <3> QED
      BY <1>5, <2>2, <3>1, <3>2
  <2> QED
    BY <2>1, <2>2
<1>8. ASSUME NEW k \in 1 .. i PROVE curve[k].equity <= v.peak
  <2>1. CASE k = i
    BY <1>6, <2>1 DEF eq
  <2>2. CASE k # i
    <3>1. curve[k].equity <= w.peak /\ curve[k].equity \in Int
      BY <1>2, <1>3, <1>4, <2>2 DEF WalkedTo
    <3> QED
      BY <1>4, <1>6, <3>1
  <2> QED
    BY <2>1, <2>2
<1>9. here.drop >= 0 /\ here.peak = v.peak
  BY <1>4, <1>6
<1>10. v.worst.peak > 0 /\ v.worst.drop >= 0 /\ v.worst \in Falls
  <2>1. w.worst.peak > 0 /\ w.worst.drop >= 0
    BY DEF WalkedTo
  <2> HIDE DEF here
  <2> QED
    BY <1>4, <1>5, <1>9, <2>1
<1>11. v.peak > 0 => ~Deeper(here, v.worst)
  <2>1. ~Deeper(here, here)
    <3>1. here.drop \in Int /\ here.peak \in Int
      BY <1>5 DEF Falls
    <3> HIDE DEF here
    <3> QED
      BY <3>1 DEF Deeper
  <2> HIDE DEF here
  <2> QED
    BY <1>5, <2>1
<1>12. ASSUME NEW f \in Falls, f.peak > 0, ~Deeper(f, w.worst)
       PROVE  ~Deeper(f, v.worst)
  <2>1. CASE v.peak > 0 /\ Deeper(here, w.worst)
    <3>1. v.worst = here /\ here.peak > 0 /\ w.worst.peak > 0
      BY <1>5, <1>9, <2>1 DEF WalkedTo
    <3> HIDE DEF here
    <3> QED
      BY <1>4, <1>5, <1>12, <2>1, <3>1, DeeperIsTransitive
  <2>2. CASE ~(v.peak > 0 /\ Deeper(here, w.worst))
    BY <1>5, <1>12, <2>2
  <2> QED
    BY <2>1, <2>2
<1>13. ASSUME NEW j \in 1 .. i, NEW a \in 1 .. j, Counts(curve, a, j)
       PROVE  ~Deeper(Fall(curve, a, j), v.worst)
  <2>1. /\ curve[a].equity \in Int /\ curve[j].equity \in Int
        /\ curve[a].equity > 0 /\ a \in 1 .. i
    BY <1>1, <1>2, <1>3 , <1>13 DEF Counts
  <2>2. CASE j = i
    <3>1. /\ curve[a].equity <= v.peak /\ v.peak > 0
          /\ Fall(curve, a, j) = [drop |-> curve[a].equity - eq, peak |-> curve[a].equity]
      BY <1>6, <1>8, <2>1, <2>2 DEF Fall, eq
    <3>2. CASE eq >= 0
      BY <1>4, <1>6, <1>10, <1>11, <2>1, <3>1, <3>2, FromThePeak
    <3>3. CASE ~(eq >= 0)
      <4>1. \A k \in 1 .. i : curve[k].equity <= curve[a].equity
        BY <1>13, <2>2, <3>3 DEF Counts, eq
      <4>2. v.peak <= curve[a].equity
        BY <1>7, <4>1
      <4>3. v.peak = curve[a].equity
        BY <1>6, <2>1, <3>1, <4>2
      <4> QED
        BY <1>11, <3>1, <4>3
    <3> QED
      BY <3>2, <3>3
  <2>3. CASE j # i
    <3>1. j \in 1 .. i - 1
      BY <1>4, <2>3
    <3>2. ~Deeper(Fall(curve, a, j), w.worst)
      BY <1>13, <3>1 DEF WalkedTo
    <3>3. Fall(curve, a, j) \in Falls /\ Fall(curve, a, j).peak > 0
      BY <2>1 DEF Fall, Falls
    <3> QED
      BY <1>12, <3>2, <3>3
  <2> QED
    BY <2>2, <2>3
<1>14. \/ v.worst.drop = 0
       \/ \E j \in 1 .. i : \E a \in 1 .. j :
              Counts(curve, a, j) /\ v.worst = Fall(curve, a, j)
  <2>1. CASE v.peak > 0 /\ Deeper(here, w.worst)
    <3>1. PICK a \in 1 .. i : v.peak = curve[a].equity
      BY <1>7
    <3>2. Counts(curve, a, i)
      BY <1>8, <2>1, <3>1 DEF Counts
    <3>3. v.worst = Fall(curve, a, i)
      BY <1>5, <2>1, <3>1 DEF Fall, eq
    <3> QED
      BY <1>1, <3>2, <3>3
  <2>2. CASE ~(v.peak > 0 /\ Deeper(here, w.worst))
    <3>1. v.worst = w.worst
      BY <1>5, <2>2
    <3>2. \A j \in 1 .. i - 1 : j \in 1 .. i
      BY <1>1
    <3> QED
      BY <3>1, <3>2 DEF WalkedTo
  <2> QED
    BY <2>1, <2>2
<1>15. \E a \in 1 .. Len(curve) : (a <= i \/ a = 1) /\ v.peak = curve[a].equity
  BY <1>1, <1>7
<1> QED
  BY <1>8, <1>10, <1>13, <1>14, <1>15 DEF WalkedTo, v, eq
\* max_drawdown_pct is the deepest relative fall of any curve.
LEMMA DrawdownOfCurve ==
    ASSUME NEW curve \in Seq(Point), Len(curve) # 0
    PROVE  /\ \A j \in 1 .. Len(curve) : \A i \in 1 .. j :
                  Counts(curve, i, j) => ~Deeper(Fall(curve, i, j), Drawdown(curve))
           /\ \/ Drawdown(curve).drop = 0
              \/ \E j \in 1 .. Len(curve) : \E i \in 1 .. j :
                     Counts(curve, i, j) /\ Drawdown(curve) = Fall(curve, i, j)
<1>1. PICK walk \in [0 .. Len(curve) -> Walked] :
          /\ walk[0] = [peak |-> curve[1].equity, worst |-> NoFall]
          /\ Drawdown(curve) = walk[Len(curve)].worst
          /\ \A i \in 1 .. Len(curve) : walk[i] = Passed(walk[i - 1], curve[i].equity)
  BY WalkOfCurve
<1> DEFINE T == {i \in 0 .. Len(curve) : WalkedTo(curve, i, walk[i])}
<1>2. Len(curve) \in Nat
  OBVIOUS
<1>3. 0 \in T
  BY <1>1, <1>2, FirstPoint
<1>4. ASSUME NEW i \in 1 .. Len(curve), i - 1 \in T PROVE i \in T
  <2>1. i \in 0 .. Len(curve) /\ i - 1 \in 0 .. Len(curve)
    BY <1>2
  <2>2. walk[i - 1] \in Walked /\ WalkedTo(curve, i - 1, walk[i - 1])
    BY <1>4, <2>1
  <2>3. walk[i] = Passed(walk[i - 1], curve[i].equity)
    BY <1>1
  <2>4. WalkedTo(curve, i, walk[i])
    BY <2>2, <2>3, OnePointMore
  <2> QED
    BY <2>1, <2>4
<1> HIDE DEF T
<1>5. 0 .. Len(curve) \subseteq T
  BY <1>2, <1>3, <1>4, EveryIndex
<1>6. WalkedTo(curve, Len(curve), walk[Len(curve)])
  BY <1>2, <1>5 DEF T
<1> QED
  BY <1>1, <1>6 DEF WalkedTo

\* The drawdown in the report is the deepest relative fall between any two points of
\* the curve, however long it is: the loop of compute_metrics in result.py misses none.
THEOREM BacktestDrawdown == BtSpec => []DrawdownIsWorst
<1>1. BookInv => DrawdownIsWorst
  <2> SUFFICES ASSUME BookInv, stage = "done", broker.trades # <<>>
               PROVE  LET curve == broker.equity_curve
                          worst == metrics.drawdown
                      IN /\ \A j \in 1 .. Len(curve) : \A i \in 1 .. j :
                                Counts(curve, i, j) => ~Deeper(Fall(curve, i, j), worst)
                         /\ \/ worst.drop = 0
                            \/ \E j \in 1 .. Len(curve) : \E i \in 1 .. j :
                                   Counts(curve, i, j) /\ worst = Fall(curve, i, j)
    BY DEF DrawdownIsWorst
  <2> DEFINE curve == broker.equity_curve
  <2>1. curve \in Seq(Point)
    BY DEF BookInv, Booked
  <2>2. metrics.drawdown = Drawdown(curve)
    BY DEF BookInv, compute_metrics
  <2> HIDE DEF curve
  <2>3. CASE Len(curve) = 0
    <3>1. curve = <<>>
      BY <2>1, <2>3
    <3>2. metrics.drawdown.drop = 0
      BY <2>2, <3>1 DEF Drawdown, NoFall
    <3> QED
      BY <2>3, <3>2 DEF curve
  <2>4. CASE Len(curve) # 0
    BY <2>1, <2>2, <2>4, DrawdownOfCurve DEF curve
  <2> QED
    BY <2>3, <2>4
<1> QED
  BY BooksStart, BooksStep, <1>1, PTL DEF BtSpec
=============================================================================
