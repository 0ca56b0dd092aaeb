---------------------------- MODULE StrategyRules ----------------------------
(* The decision tables the live engines and the backtest share (the window of
   candles and the close they are given differ): RegimeDetector, SignalGenerator and the position sizing of engine/interfaces.py.  An
   indicator value is an integer, or Missing where pandas-ta gave NaN. *)
EXTENDS Integers

CONSTANT Missing

Regime == {"volatile", "trending_up", "trending_down", "ranging"}
Signal == {"BUY", "SELL", "HOLD"}

Above(x, y) == x # Missing /\ y # Missing /\ x > y

\* BBB above 0.08 (here in percent), else ADX above 25 and a known EMA_50.
detect(ind, close) ==
    LET volatile == Above(ind.bbb, 8)
        trending == ~volatile /\ Above(ind.adx, 25) /\ ind.ema50 # Missing
    IN CASE volatile -> "volatile"
         [] trending /\ close > ind.ema50 -> "trending_up"
         [] trending /\ close <= ind.ema50 -> "trending_down"
         [] OTHER -> "ranging"

generate(ind, regime) ==
    LET rsiWithin(low, high) == Above(ind.rsi, low) /\ Above(high, ind.rsi)
        buy == \/ regime = "trending_up" /\ Above(ind.ema9, ind.ema20) /\ rsiWithin(45, 75)
               \/ regime = "ranging" /\ Above(30, ind.rsi)
        sell == \/ regime = "trending_down" /\ Above(ind.ema20, ind.ema9) /\ rsiWithin(25, 55)
                \/ regime = "ranging" /\ Above(ind.rsi, 70)
    IN CASE buy -> "BUY" [] sell -> "SELL" [] OTHER -> "HOLD"

\* _REGIME_PROB_MAP, in percent.
regime_str_to_probabilities(regime) ==
    CASE regime = "trending_up"   -> [bull |-> 70, neutral |-> 20, bear |-> 10]
      [] regime = "trending_down" -> [bull |-> 10, neutral |-> 20, bear |-> 70]
      [] regime = "volatile"      -> [bull |-> 15, neutral |-> 25, bear |-> 60]
      [] OTHER                    -> [bull |-> 25, neutral |-> 50, bear |-> 25]

\* SizingParams: factors 1.5 and 0.3, a size from 0 to 1; in millionths.
MinPosition == 0
MaxPosition1 == 1000000
compute_regime_adjusted_size(probs, base) ==
    LET size == base * (1000 - 15 * probs.bear) * (1000 + 3 * probs.bull)
    IN CASE size < MinPosition -> MinPosition
         [] size > MaxPosition1 -> MaxPosition1
         [] OTHER -> size

EffectiveSize(regime, base) ==
    compute_regime_adjusted_size(regime_str_to_probabilities(regime), base)
=============================================================================
