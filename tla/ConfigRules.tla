----------------------------- MODULE ConfigRules -----------------------------
(***************************************************************************)
(* What Config::validate of src/config.rs accepts.  Fractions are integers *)
(* in units of 1/Whole; a number that is not finite stands below every     *)
(* bound, as NotFinite.  The counts of seconds and levels are unsigned.    *)
(***************************************************************************)
EXTENDS Integers, Sequences

CONSTANT Whole \* the fixed-point value of 1.0

ASSUME WholeAssumption == Whole \in Nat \ {0}

NotFinite == -1
NotSet == -2 \* None

(* The names are those of StrategyConfig; spread_level_multiplier, skew and *)
(* leverage are fractions, dollars and distances are whole numbers.         *)
StrategyValid(s) ==
  /\ s.tick_size > 0 /\ s.lot_size > 0
  /\ s.step_ns > 0 /\ s.window_steps > 0 /\ s.update_interval_steps > 0
  /\ s.looking_depth > 0 /\ s.looking_depth < Whole
  /\ s.order_levels \in 1..2
  /\ s.spread_level_multiplier > Whole
  /\ \A f \in {"vol_to_half_spread", "half_spread", "half_spread_bps",
               "min_half_spread_bps", "skew", "c1", "c1_ticks"} : s[f] >= 0
  /\ s.min_order_qty_dollar > 0
  /\ s.max_order_qty_dollar = NotSet \/ s.max_order_qty_dollar >= s.min_order_qty_dollar
  /\ s.alpha_source \in {"binance", "standx"}
  /\ s.leverage >= Whole /\ s.leverage <= 5 * Whole

(* A name is 1 to 15 ASCII bytes without an underscore; only that is told.  *)
SymbolsValid(symbols) ==
  /\ symbols # <<>>
  /\ \A i \in DOMAIN symbols : symbols[i] # "bad_name"
  /\ \A i, j \in DOMAIN symbols : symbols[i] = symbols[j] => i = j

\* Seeded fault: the rules for live trading forget the equity tracker.
LiveRulesWithoutEquity(c) ==
  /\ c.symbols = <<"BTC-USD">>
  /\ c.position.enabled /\ c.position.stale > c.position.interval

(* Live trading: one symbol, both risk sources polled, and neither stale    *)
(* before its next poll.                                                    *)
LiveRules(c) ==
  /\ c.symbols = <<"BTC-USD">>
  /\ c.position.enabled /\ c.position.stale > c.position.interval
  /\ c.pnl.enabled /\ c.pnl.stale > c.pnl.interval

BreakerValid(o) ==
  o.rejections > 0 => o.breaker_recovery > 0 /\ o.safety_recovery > 0

ConfigValid(c) ==
  /\ SymbolsValid(c.symbols)
  /\ c.orderbook_levels \in 1..50 /\ c.history_minutes > 0
  /\ StrategyValid(c.strategy)
  /\ c.order.absolute_max = NotSet \/ c.order.absolute_max > 0
  /\ c.depth_stale > 0
  /\ c.order.enabled => LiveRules(c)
  /\ BreakerValid(c.order)
=============================================================================
