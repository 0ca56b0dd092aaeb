----------------------------- MODULE RiskEngine -----------------------------
(***************************************************************************)
(* The order gate of hydra/core/risk_engine.py.  Percentages are integers  *)
(* in tenths of a percent (the -0.03 of RiskConfig is 30 here), so that    *)
(* the comparisons at the thresholds are exact.                            *)
(***************************************************************************)
EXTENDS Integers

CONSTANTS
    DailyLossLimit,   \* RiskConfig.daily_loss_limit_pct
    DailyLossKill,    \* RiskConfig.daily_loss_kill_pct
    MaxPosition       \* RiskConfig.max_position_per_symbol_pct

ASSUME RiskAssumption ==
    /\ DailyLossLimit \in Nat
    /\ DailyLossKill \in Nat
    /\ MaxPosition \in Nat

(* Slip: a limit that is checked only once it has been passed. *)
CheckBeyondLimit(dailyPnl, positionPct) ==
    /\ ~ (dailyPnl <= -DailyLossKill)
    /\ ~ (dailyPnl < -DailyLossLimit)
    /\ ~ (positionPct > MaxPosition)

(* check_order_allowed: the three refusals, in the order of the code. *)
CheckOrderAllowed(dailyPnl, positionPct) ==
    /\ ~ (dailyPnl <= -DailyLossKill)
    /\ ~ (dailyPnl <= -DailyLossLimit)
    /\ ~ (positionPct > MaxPosition)
=============================================================================
