------------------------------ MODULE QuoteOps ------------------------------
(***************************************************************************)
(* The prices of ObiStrategy::calculate_quote (src/strategy/obi.rs) and    *)
(* the rounding of the order request (src/trading/client.rs).  Prices and  *)
(* quantities are integers in units of 1/Unit, fine enough for every       *)
(* product below to be exact; books, ticks and distances are given whole.  *)
(* A distance in basis points is the distance it makes at the mid.         *)
(***************************************************************************)
EXTENDS ConfigRules

Unit == 2 * Whole * Whole * Whole

Lower(a, b) == IF a <= b THEN a ELSE b
Higher(a, b) == IF a >= b THEN a ELSE b

RoundDown(x, step) == (x \div step) * step
RoundUp(x, step) == -RoundDown(-x, step)

(* What format_with_precision makes of a number: the nearest multiple.      *)
Nearest(x, step) == RoundDown(2 * x + step, 2 * step) \div 2

----------------------------------------------------------------------------
(* A quote is computed from q: the best prices, the volatility, the alpha,  *)
(* the position as a fraction of its limit and the quantity wished for.     *)
(* What a strategy s needs for it are whole numbers of their units.         *)
WholeNumbers(s) ==
  \A f \in {"vol_to_half_spread", "half_spread_bps", "half_spread", "c1", "c1_ticks", "skew",
            "min_half_spread_bps", "spread_level_multiplier"} : s[f] \in Nat

Mid(q) == (q.bid + q.ask) * Whole * Whole * Whole

(* The modes in their order; without any, one tick.                         *)
HalfSpread(s, q, tick) ==
  IF s.vol_to_half_spread > 0 /\ q.volatility > 0
  THEN q.volatility * s.vol_to_half_spread
  ELSE IF s.half_spread_bps > 0 THEN s.half_spread_bps
  ELSE IF s.half_spread > 0 THEN s.half_spread
  ELSE tick

C1(s, tick) == IF s.c1 > 0 THEN s.c1 ELSE s.c1_ticks * tick

FairPrice(s, q, tick) == Mid(q) + C1(s, tick) * q.alpha * Unit

Clamped(q) == Higher(-Whole, Lower(q.position, Whole))

Multiplier(s, level) == IF level = 1 THEN Whole ELSE s.spread_level_multiplier

(* The distance from the fair price: the side that would add to the         *)
(* position is quoted further away, and neither beyond the fair price.      *)
Depth(s, q, level, tick, lean) ==
  2 * HalfSpread(s, q, tick) * Multiplier(s, level)
    * Higher(0, Whole * Whole + s.skew * lean)

MinDistance(s, level) ==
  2 * Whole * Whole * s.min_half_spread_bps * Multiplier(s, level)

(* Never inside the best prices, and at least MinDistance from the mid.     *)
RawBid(s, q, level, tick) ==
  Lower(FairPrice(s, q, tick) - Depth(s, q, level, tick, Clamped(q)), q.bid * Unit)

RawAsk(s, q, level, tick) ==
  Higher(FairPrice(s, q, tick) + Depth(s, q, level, tick, -Clamped(q)), q.ask * Unit)

BidPrice(s, q, level, tick) ==
  RoundDown(IF s.min_half_spread_bps > 0
            THEN Lower(RawBid(s, q, level, tick), Mid(q) - MinDistance(s, level))
            ELSE RawBid(s, q, level, tick), tick * Unit)

AskPrice(s, q, level, tick) ==
  RoundUp(IF s.min_half_spread_bps > 0
          THEN Higher(RawAsk(s, q, level, tick), Mid(q) + MinDistance(s, level))
          ELSE RawAsk(s, q, level, tick), tick * Unit)

QuotePrice(s, q, side, level, tick) ==
  IF side = "buy" THEN BidPrice(s, q, level, tick) ELSE AskPrice(s, q, level, tick)

(* The strategy rounds to its lot and the order manager to its own.         *)
QuoteQty(q, quoteLot, managerLot) ==
  RoundDown(RoundDown(q.qty * Unit, quoteLot * Unit), managerLot * Unit)
=============================================================================
