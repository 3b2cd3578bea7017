--------------------------- MODULE Quoting_proofs ---------------------------
(***************************************************************************)
(* What the prices of calculate_quote and the rounding of an order request *)
(* promise, for any strategy, book, position and alpha; and that a change  *)
(* of precision never reaches an order half made, for any strategy,        *)
(* precisions, books and channel sizes.                                    *)
(***************************************************************************)
EXTENDS Quoting, TLAPS

(* Prices and quantities.                                                   *)

IsMultiple(x, step) == \E k \in Int : x = k * step

LEMMA ProductsPositive ==
  ASSUME NEW a \in Nat \ {0}, NEW b \in Nat \ {0}
  PROVE  a * b \in Nat \ {0}
OBVIOUS

LEMMA ProductsNatural ==
  ASSUME NEW a \in Nat, NEW b \in Nat
  PROVE  a * b \in Nat
OBVIOUS

LEMMA UnitPositive == Unit \in Nat \ {0}
<1>1. 2 * Whole \in Nat \ {0}
  BY WholeAssumption DEF WholeAssumption
<1>2. 2 * Whole * Whole \in Nat \ {0}
  BY <1>1, WholeAssumption, ProductsPositive DEF WholeAssumption
<1>3. 2 * Whole * Whole * Whole \in Nat \ {0}
  BY <1>2, WholeAssumption, ProductsPositive DEF WholeAssumption
<1> QED BY <1>3 DEF Unit

LEMMA RoundDownBounds ==
  ASSUME NEW x \in Int, NEW step \in Nat \ {0}
  PROVE  /\ RoundDown(x, step) \in Int
         /\ RoundDown(x, step) <= x
         /\ x < RoundDown(x, step) + step
BY DEF RoundDown

LEMMA RoundDownNatural ==
  ASSUME NEW x \in Nat, NEW step \in Nat \ {0}
  PROVE  RoundDown(x, step) \in Nat
<1>1. x \div step \in Nat
  OBVIOUS
<1> QED BY <1>1, ProductsNatural DEF RoundDown

LEMMA RoundUpBounds ==
  ASSUME NEW x \in Int, NEW step \in Nat \ {0}
  PROVE  /\ RoundUp(x, step) \in Int
         /\ x <= RoundUp(x, step)
         /\ RoundUp(x, step) < x + step
<1>1. /\ RoundDown(-x, step) \in Int /\ RoundDown(-x, step) <= -x
      /\ -x < RoundDown(-x, step) + step
  BY RoundDownBounds
<1> QED BY <1>1 DEF RoundUp

LEMMA RoundDownMonotone ==
  ASSUME NEW x \in Int, NEW y \in Int, NEW step \in Nat \ {0}, x <= y
  PROVE  RoundDown(x, step) <= RoundDown(y, step)
BY DEF RoundDown

LEMMA RoundUpMonotone ==
  ASSUME NEW x \in Int, NEW y \in Int, NEW step \in Nat \ {0}, x <= y
  PROVE  RoundUp(x, step) <= RoundUp(y, step)
<1>1. RoundDown(-y, step) <= RoundDown(-x, step)
  BY RoundDownMonotone
<1>2. RoundDown(-y, step) \in Int /\ RoundDown(-x, step) \in Int
  BY RoundDownBounds
<1> QED BY <1>1, <1>2 DEF RoundUp

LEMMA RoundedAreMultiples ==
  ASSUME NEW x \in Int, NEW step \in Nat \ {0}
  PROVE  IsMultiple(RoundDown(x, step), step) /\ IsMultiple(RoundUp(x, step), step)
<1>1. x \div step \in Int
  OBVIOUS
<1>2. RoundDown(x, step) = (x \div step) * step
  BY DEF RoundDown
<1>3. RoundUp(x, step) = -(((-x) \div step) * step)
  BY DEF RoundUp, RoundDown
<1>4. ((-x) \div step) \in Int /\ -((-x) \div step) \in Int
  OBVIOUS
<1>5. -(((-x) \div step) * step) = (-((-x) \div step)) * step
  BY <1>4
<1> QED BY <1>1, <1>2, <1>3, <1>4, <1>5 DEF IsMultiple

(* Formatting a price with the step it was rounded to does not move it.     *)
LEMMA NearestKeepsMultiples ==
  ASSUME NEW x \in Int, NEW step \in Nat \ {0}, IsMultiple(x, step)
  PROVE  Nearest(x, step) = x
<1>1. PICK k \in Int : x = k * step
  BY DEF IsMultiple
<1> QED BY <1>1 DEF Nearest, RoundDown
----------------------------------------------------------------------------
(* A book, an alpha and a position that a quote may be computed from.       *)
IsInput(q) ==
  /\ q.bid \in Nat /\ q.ask \in Nat /\ q.volatility \in Nat /\ q.qty \in Nat
  /\ q.alpha \in Int /\ q.position \in Int

LEMMA LowerBounds ==
  ASSUME NEW a \in Int, NEW b \in Int
  PROVE  Lower(a, b) \in Int /\ Lower(a, b) <= a /\ Lower(a, b) <= b
BY DEF Lower

LEMMA HigherBounds ==
  ASSUME NEW a \in Int, NEW b \in Int
  PROVE  Higher(a, b) \in Int /\ a <= Higher(a, b) /\ b <= Higher(a, b)
BY DEF Higher

LEMMA ProductsAreWhole ==
  ASSUME NEW a \in Int, NEW b \in Int
  PROVE  a * b \in Int
OBVIOUS

LEMMA ProductsMonotone ==
  ASSUME NEW a \in Nat, NEW b \in Int, NEW c \in Int, b <= c
  PROVE  a * b <= a * c
OBVIOUS

LEMMA PricesAreWhole ==
  ASSUME NEW s, WholeNumbers(s), NEW q, IsInput(q), NEW tick \in Nat \ {0},
         NEW level \in {1, 2}
  PROVE  /\ Mid(q) \in Int /\ FairPrice(s, q, tick) \in Int
         /\ MinDistance(s, level) \in Int
         /\ \A lean \in Int : Depth(s, q, level, tick, lean) \in Int
         /\ Clamped(q) \in Int
<1> USE WholeAssumption DEF WholeAssumption
<1>1. /\ s.vol_to_half_spread \in Nat /\ s.half_spread_bps \in Nat /\ s.half_spread \in Nat
      /\ s.c1 \in Nat /\ s.c1_ticks \in Nat /\ s.skew \in Nat
      /\ s.min_half_spread_bps \in Nat /\ s.spread_level_multiplier \in Nat
  BY DEF WholeNumbers
<1>2. Mid(q) \in Int
  BY ProductsAreWhole DEF Mid, IsInput
<1>3. Multiplier(s, level) \in Nat
  BY <1>1 DEF Multiplier
<1>4. MinDistance(s, level) \in Int
  BY <1>1, <1>3, ProductsAreWhole DEF MinDistance
<1>5. Clamped(q) \in Int
  BY DEF Clamped, Higher, Lower, IsInput
<1>6. C1(s, tick) \in Int
  BY <1>1, ProductsAreWhole DEF C1
<1>7. FairPrice(s, q, tick) \in Int
  <2>1. C1(s, tick) * q.alpha \in Int
    BY <1>6, ProductsAreWhole DEF IsInput
  <2>2. C1(s, tick) * q.alpha * Unit \in Int
    BY <2>1, UnitPositive, ProductsAreWhole
  <2> QED BY <1>2, <2>2 DEF FairPrice
<1>8. HalfSpread(s, q, tick) \in Nat
  <2>1. q.volatility * s.vol_to_half_spread \in Nat
    BY <1>1 DEF IsInput
  <2> QED BY <1>1, <2>1 DEF HalfSpread
<1>9. ASSUME NEW lean \in Int PROVE Depth(s, q, level, tick, lean) \in Int
  <2>1. Higher(0, Whole * Whole + s.skew * lean) \in Int
    <3> DEFINE x == Whole * Whole + s.skew * lean
    <3>1. Whole * Whole \in Int /\ s.skew * lean \in Int
      BY <1>1, ProductsAreWhole
    <3>2. x \in Int
      BY <3>1
    <3> HIDE DEF x
    <3>3. Higher(0, x) \in Int
      BY <3>2 DEF Higher
    <3> QED BY <3>3 DEF x
  <2>2. 2 * HalfSpread(s, q, tick) * Multiplier(s, level) \in Int
    BY <1>3, <1>8, ProductsAreWhole
  <2> QED BY <2>1, <2>2, ProductsAreWhole DEF Depth
<1> QED BY <1>2, <1>4, <1>5, <1>7, <1>9

(* No alpha, skew or distance puts a quote on the other side of the best    *)
(* price it was computed from, and rounding to the tick only moves it       *)
(* further out (the clamp of calculate_quote).                              *)
THEOREM QuotesKeepTheirSide ==
  ASSUME NEW s, WholeNumbers(s), NEW q, IsInput(q), NEW tick \in Nat \ {0},
         NEW level \in {1, 2}
  PROVE  /\ BidPrice(s, q, level, tick) \in Int /\ AskPrice(s, q, level, tick) \in Int
         /\ IsMultiple(BidPrice(s, q, level, tick), tick * Unit)
         /\ IsMultiple(AskPrice(s, q, level, tick), tick * Unit)
         /\ BidPrice(s, q, level, tick) <= q.bid * Unit
         /\ q.ask * Unit <= AskPrice(s, q, level, tick)
<1> DEFINE bid == IF s.min_half_spread_bps > 0
                  THEN Lower(RawBid(s, q, level, tick), Mid(q) - MinDistance(s, level))
                  ELSE RawBid(s, q, level, tick)
           ask == IF s.min_half_spread_bps > 0
                  THEN Higher(RawAsk(s, q, level, tick), Mid(q) + MinDistance(s, level))
                  ELSE RawAsk(s, q, level, tick)
<1>1. tick * Unit \in Nat \ {0}
  BY UnitPositive, ProductsPositive
<1>2. q.bid * Unit \in Int /\ q.ask * Unit \in Int
  BY UnitPositive, ProductsAreWhole DEF IsInput
<1>3. /\ Mid(q) \in Int /\ MinDistance(s, level) \in Int /\ FairPrice(s, q, tick) \in Int
      /\ Depth(s, q, level, tick, Clamped(q)) \in Int
      /\ Depth(s, q, level, tick, -Clamped(q)) \in Int
  BY PricesAreWhole
<1>4. RawBid(s, q, level, tick) \in Int /\ RawBid(s, q, level, tick) <= q.bid * Unit
  <2> DEFINE x == FairPrice(s, q, tick) - Depth(s, q, level, tick, Clamped(q))
             y == q.bid * Unit
  <2>1. x \in Int /\ y \in Int /\ RawBid(s, q, level, tick) = Lower(x, y)
    BY <1>2, <1>3 DEF RawBid
  <2> HIDE DEF x, y
  <2>2. Lower(x, y) \in Int /\ Lower(x, y) <= y
    BY <2>1, LowerBounds
  <2> QED BY <2>1, <2>2 DEF y
<1>5. RawAsk(s, q, level, tick) \in Int /\ q.ask * Unit <= RawAsk(s, q, level, tick)
  <2> DEFINE x == FairPrice(s, q, tick) + Depth(s, q, level, tick, -Clamped(q))
             y == q.ask * Unit
  <2>1. x \in Int /\ y \in Int /\ RawAsk(s, q, level, tick) = Higher(x, y)
    BY <1>2, <1>3 DEF RawAsk
  <2> HIDE DEF x, y
  <2>2. Higher(x, y) \in Int /\ y <= Higher(x, y)
    BY <2>1, HigherBounds
  <2> QED BY <2>1, <2>2 DEF y
<1>6. bid \in Int /\ bid <= RawBid(s, q, level, tick)
  <2> DEFINE x == Mid(q) - MinDistance(s, level)
             y == RawBid(s, q, level, tick)
  <2>1. x \in Int /\ y \in Int /\ (bid = Lower(y, x) \/ bid = y)
    BY <1>3, <1>4
  <2> HIDE DEF x, y, bid
  <2>2. bid \in Int /\ bid <= y
    BY <2>1 DEF Lower
  <2> QED BY <2>2 DEF y
<1>7. ask \in Int /\ RawAsk(s, q, level, tick) <= ask
  <2> DEFINE x == Mid(q) + MinDistance(s, level)
             y == RawAsk(s, q, level, tick)
  <2>1. x \in Int /\ y \in Int /\ (ask = Higher(y, x) \/ ask = y)
    BY <1>3, <1>5
  <2> HIDE DEF x, y, ask
  <2>2. ask \in Int /\ y <= ask
    BY <2>1 DEF Higher
  <2> QED BY <2>2 DEF y
<1>8. BidPrice(s, q, level, tick) = RoundDown(bid, tick * Unit)
      /\ AskPrice(s, q, level, tick) = RoundUp(ask, tick * Unit)
  BY DEF BidPrice, AskPrice
<1> HIDE DEF bid, ask
<1>9. /\ RoundDown(bid, tick * Unit) \in Int /\ RoundDown(bid, tick * Unit) <= bid
      /\ IsMultiple(RoundDown(bid, tick * Unit), tick * Unit)
  BY <1>1, <1>6, RoundDownBounds, RoundedAreMultiples
<1>10. /\ RoundUp(ask, tick * Unit) \in Int /\ ask <= RoundUp(ask, tick * Unit)
       /\ IsMultiple(RoundUp(ask, tick * Unit), tick * Unit)
  BY <1>1, <1>7, RoundUpBounds, RoundedAreMultiples
<1> QED BY <1>2, <1>4, <1>5, <1>6, <1>7, <1>8, <1>9, <1>10

----------------------------------------------------------------------------
LEMMA FactorsMonotone ==
  ASSUME NEW a \in Nat, NEW b \in Nat, NEW c \in Nat, NEW d \in Nat, b <= c
  PROVE  a * b * d <= a * c * d
<1>1. a * b \in Nat /\ a * c \in Nat /\ a * b <= a * c
  BY ProductsMonotone
<1>2. d * (a * b) <= d * (a * c)
  BY <1>1, ProductsMonotone
<1>3. d * (a * b) = a * b * d /\ d * (a * c) = a * c * d
  BY <1>1
<1> QED BY <1>2, <1>3

LEMMA OuterIsFurther ==
  ASSUME NEW s, WholeNumbers(s), s.spread_level_multiplier > Whole,
         NEW q, IsInput(q), NEW tick \in Nat \ {0}, NEW lean \in Int
  PROVE  /\ Depth(s, q, 1, tick, lean) <= Depth(s, q, 2, tick, lean)
         /\ MinDistance(s, 1) <= MinDistance(s, 2)
<1> DEFINE far == Higher(0, Whole * Whole + s.skew * lean)
           half == 2 * HalfSpread(s, q, tick)
           floor == 2 * Whole * Whole * s.min_half_spread_bps
           outer == s.spread_level_multiplier
<1>1. /\ s.vol_to_half_spread \in Nat /\ s.half_spread_bps \in Nat /\ s.half_spread \in Nat
      /\ s.skew \in Nat /\ s.min_half_spread_bps \in Nat /\ outer \in Nat
  BY DEF WholeNumbers
<1>2. half \in Nat
  <2>1. q.volatility * s.vol_to_half_spread \in Nat
    BY <1>1 DEF IsInput
  <2>2. HalfSpread(s, q, tick) \in Nat
    BY <1>1, <2>1 DEF HalfSpread
  <2> QED BY <2>2
<1>3. far \in Nat
  <2> DEFINE x == Whole * Whole + s.skew * lean
  <2>1. Whole * Whole \in Int /\ s.skew * lean \in Int
    BY <1>1, ProductsAreWhole, WholeAssumption DEF WholeAssumption
  <2>2. x \in Int
    BY <2>1
  <2> HIDE DEF x
  <2>3. Higher(0, x) \in Nat
    BY <2>2 DEF Higher
  <2> QED BY <2>3 DEF x
<1>4. floor \in Nat
  <2>1. 2 * Whole \in Nat
    BY WholeAssumption DEF WholeAssumption
  <2>2. 2 * Whole * Whole \in Nat
    BY <2>1, WholeAssumption DEF WholeAssumption
  <2> QED BY <1>1, <2>2
<1>5. /\ Depth(s, q, 1, tick, lean) = half * Whole * far
      /\ Depth(s, q, 2, tick, lean) = half * outer * far
      /\ MinDistance(s, 1) = floor * Whole /\ MinDistance(s, 2) = floor * outer
  BY DEF Depth, MinDistance, Multiplier
<1>6. Whole \in Nat /\ outer \in Nat /\ Whole <= outer
  BY <1>1, WholeAssumption DEF WholeAssumption
<1> HIDE DEF far, half, floor, outer
<1>7. half * Whole * far <= half * outer * far
  BY <1>2, <1>3, <1>6, FactorsMonotone
<1>8. floor * Whole <= floor * outer
  BY <1>4, <1>6, ProductsMonotone
<1> QED BY <1>5, <1>7, <1>8

(* The second level is never nearer to the market than the first, whatever  *)
(* the alpha, the skew and the minimum distance make of both; with prices   *)
(* at the best they may be equal (the level loop of calculate_quote).       *)
THEOREM LevelsNested ==
  ASSUME NEW s, WholeNumbers(s), s.spread_level_multiplier > Whole,
         NEW q, IsInput(q), NEW tick \in Nat \ {0}
  PROVE  /\ BidPrice(s, q, 2, tick) <= BidPrice(s, q, 1, tick)
         /\ AskPrice(s, q, 1, tick) <= AskPrice(s, q, 2, tick)
<1> DEFINE best == q.bid * Unit
           offer == q.ask * Unit
           fair == FairPrice(s, q, tick)
           mid == Mid(q)
           below(l) == Depth(s, q, l, tick, Clamped(q))
           above(l) == Depth(s, q, l, tick, -Clamped(q))
           off(l) == MinDistance(s, l)
           bid(l) == IF s.min_half_spread_bps > 0
                     THEN Lower(Lower(fair - below(l), best), mid - off(l))
                     ELSE Lower(fair - below(l), best)
           ask(l) == IF s.min_half_spread_bps > 0
                     THEN Higher(Higher(fair + above(l), offer), mid + off(l))
                     ELSE Higher(fair + above(l), offer)
           step == tick * Unit
<1>1. /\ best \in Int /\ offer \in Int /\ step \in Nat \ {0}
      /\ fair \in Int /\ mid \in Int /\ Clamped(q) \in Int
  BY UnitPositive, ProductsAreWhole, ProductsPositive, PricesAreWhole DEF IsInput
<1>2. /\ below(1) \in Int /\ below(2) \in Int /\ above(1) \in Int /\ above(2) \in Int
      /\ off(1) \in Int /\ off(2) \in Int
  BY <1>1, PricesAreWhole
<1>3. below(1) <= below(2) /\ above(1) <= above(2) /\ off(1) <= off(2)
  BY <1>1, OuterIsFurther
<1>4. /\ BidPrice(s, q, 1, tick) = RoundDown(bid(1), step)
      /\ BidPrice(s, q, 2, tick) = RoundDown(bid(2), step)
      /\ AskPrice(s, q, 1, tick) = RoundUp(ask(1), step)
      /\ AskPrice(s, q, 2, tick) = RoundUp(ask(2), step)
  BY DEF BidPrice, AskPrice, RawBid, RawAsk
<1> HIDE DEF best, offer, fair, mid, below, above, off, step
<1>5. bid(1) \in Int /\ bid(2) \in Int /\ bid(2) <= bid(1)
  BY <1>1, <1>2, <1>3 DEF Lower
<1>6. ask(1) \in Int /\ ask(2) \in Int /\ ask(1) <= ask(2)
  BY <1>1, <1>2, <1>3 DEF Higher
<1> HIDE DEF bid, ask
<1>7. RoundDown(bid(2), step) <= RoundDown(bid(1), step)
  BY <1>1, <1>5, RoundDownMonotone
<1>8. RoundUp(ask(1), step) <= RoundUp(ask(2), step)
  BY <1>1, <1>6, RoundUpMonotone
<1> QED BY <1>4, <1>7, <1>8

----------------------------------------------------------------------------
(* A change of precision.                                                   *)

Sizes == [tick : Nat \ {0}, lot : Nat \ {0}, least : Nat \ {0}]

Orders == [quote : QuoteInputs, side : {"buy", "sell"}, price : Int, qty : Nat, gen : Nat]

OwnSide(d, price) ==
  IF d.side = "buy" THEN price <= d.quote.bid * Unit ELSE price >= d.quote.ask * Unit

SizesInv ==
  /\ listed \in Precisions /\ shared \in Sizes /\ managed \in Sizes
  /\ signals \in Seq(Precisions)
  /\ poll # Idle => poll.info \in Precisions
  /\ loop # Selecting => loop.info \in Precisions /\ "Reconciliation" \in pauses
  /\ loop = Selecting => managed.lot = shared.lot
  /\ loop.at = "manager" => shared.lot = loop.info.lot
  /\ generation \in Nat

(* A decision of the current generation was made without a pause, and no    *)
(* store has come since: it still has the precision it was made with.       *)
Sound(d) ==
  /\ d \in Orders
  /\ d.gen <= generation
  /\ pauses # {} => d.gen < generation
  /\ OwnSide(d, d.price)
  /\ d.gen = generation => /\ IsMultiple(d.price, shared.tick * Unit)
                           /\ IsMultiple(d.qty, shared.lot * Unit)

ReadSoFar ==
  executor.decision.gen = generation =>
    /\ executor.at \in {"lot", "submit"} => executor.tick = shared.tick
    /\ executor.at = "submit" => executor.lot = shared.lot

QueueInv ==
  /\ decisions \in Seq(Orders)
  /\ \A i \in 1..Len(decisions) : Sound(decisions[i])
  /\ executor # Idle => Sound(executor.decision) /\ ReadSoFar

PriceInv == SizesInv /\ QueueInv /\ WrittenAsQuoted

LEMMA PrecisionsAreSizes == Precisions \subseteq Sizes
BY PrecisionsAssumption DEF PrecisionsAssumption, Sizes

LEMMA PriceInvAtFirst == QuotingInit => PriceInv
<1> SUFFICES ASSUME QuotingInit PROVE PriceInv
  OBVIOUS
<1>1. SizesInv
  BY PrecisionsAreSizes DEF QuotingInit, SizesInv, Selecting
<1>2. QueueInv
  BY DEF QuotingInit, QueueInv
<1>3. WrittenAsQuoted
  BY DEF QuotingInit, WrittenAsQuoted
<1> QED BY <1>1, <1>2, <1>3 DEF PriceInv

----------------------------------------------------------------------------
(* What the rest of the system may do to the decisions that wait: nothing,  *)
(* make them old, or store a precision when they are old already.           *)
Spared ==
  \/ generation' = generation /\ shared' = shared /\ (pauses' # {} => pauses # {})
  \/ generation' \in Nat /\ generation' > generation
  \/ generation' = generation /\ pauses # {}

LEMMA SoundSpared ==
  ASSUME NEW d, generation \in Nat, Sound(d), Spared
  PROVE  Sound(d)'
<1>1. d.gen \in Nat
  BY DEF Sound, Orders
<1> QED BY <1>1 DEF Sound, Spared, OwnSide

LEMMA QueueSpared ==
  ASSUME SizesInv, QueueInv, Spared, decisions' = decisions, executor' = executor
  PROVE  QueueInv'
<1>1. generation \in Nat
  BY DEF SizesInv
<1>2. \A i \in 1..Len(decisions) : Sound(decisions[i])'
  <2> TAKE i \in 1..Len(decisions)
  <2>1. Sound(decisions[i])
    BY DEF QueueInv
  <2>2. ASSUME NEW d, Sound(d) PROVE Sound(d)'
    BY <1>1, <2>2, SoundSpared
  <2> QED BY <2>1, <2>2
<1>3. CASE executor # Idle
  <2>1. Sound(executor.decision) /\ ReadSoFar
    BY <1>3 DEF QueueInv
  <2>2. Sound(executor.decision)'
    BY <1>1, <2>1, SoundSpared DEF Sound, Spared, OwnSide, Orders
  <2>3. ReadSoFar'
    BY <1>1, <2>1 DEF ReadSoFar, Sound, Spared, Orders
  <2> QED BY <1>2, <2>2, <2>3 DEF QueueInv
<1>4. CASE executor = Idle
  BY <1>2, <1>4 DEF QueueInv, Idle
<1> QED BY <1>3, <1>4

(* Every pause ages the decisions that wait.                                *)
LEMMA PausesSpare ==
  ASSUME NEW reason, generation \in Nat, SetReason(reason)
  PROVE  /\ generation' \in Nat /\ reason \in pauses' /\ pauses \subseteq pauses'
         /\ shared' = shared => Spared
         /\ pauses # {} => Spared
BY DEF SetReason, Spared

----------------------------------------------------------------------------
(* The exchange, the poller and the switch touch neither the decisions nor  *)
(* what is written.                                                         *)
LEMMA PollerSteps ==
  ASSUME PriceInv, InfoPoller \/ (\E p \in Precisions : List(p))
  PROVE  PriceInv'
<1> USE DEF pollOnly, gateOnly, orderOnly
<1>1. UNCHANGED <<shared, managed, loop, gateOnly, orderOnly>>
  BY DEF InfoPoller, Ask, Compare, Signal, List
<1>2. listed' \in Precisions /\ signals' \in Seq(Precisions)
      /\ (poll' # Idle => poll'.info \in Precisions)
  <2> USE DEF PriceInv, SizesInv, Idle
  <2>1. CASE Ask
    BY <2>1 DEF Ask
  <2>2. CASE Compare
    <3>1. poll # Idle
      BY <2>2 DEF Compare
    <3>2. poll'.info = poll.info \/ poll' = Idle
      BY <2>2, <3>1 DEF Compare
    <3> QED BY <2>2, <3>1, <3>2 DEF Compare
  <2>3. CASE Signal
    BY <2>3 DEF Signal
  <2>4. CASE \E p \in Precisions : List(p)
    BY <2>4 DEF List
  <2> QED BY <2>1, <2>2, <2>3, <2>4 DEF InfoPoller
<1>3. SizesInv'
  BY <1>1, <1>2 DEF PriceInv, SizesInv
<1>4. QueueInv'
  BY <1>1, QueueSpared DEF Spared, PriceInv
<1>5. WrittenAsQuoted'
  BY <1>1 DEF PriceInv, WrittenAsQuoted
<1> QED BY <1>3, <1>4, <1>5 DEF PriceInv

LEMMA SwitchSteps ==
  ASSUME PriceInv, Switch \/ EndReconciliation \/ WarmUp
  PROVE  PriceInv'
<1> USE DEF pollOnly, gateOnly, orderOnly
<1>1. /\ listed \in Precisions /\ shared \in Sizes /\ managed \in Sizes
      /\ signals \in Seq(Precisions) /\ generation \in Nat
      /\ (poll # Idle => poll.info \in Precisions)
      /\ (loop # Selecting => loop.info \in Sizes /\ pauses # {})
  BY PrecisionsAreSizes DEF PriceInv, SizesInv
<1>2. UNCHANGED <<listed, poll, orderOnly>>
  BY DEF Switch, BeginSwitch, StoreTick, StoreLot, FinishSwitch, EndReconciliation, WarmUp
<1>3. SizesInv' /\ Spared
  <2>1. CASE BeginSwitch
    <3>1. Head(signals) \in Precisions /\ signals' \in Seq(Precisions)
      BY <1>1, <2>1 DEF BeginSwitch
    <3>2. generation' \in Nat /\ "Reconciliation" \in pauses' /\ Spared
      BY <1>1, <2>1, PausesSpare DEF BeginSwitch
    <3> QED BY <1>1, <1>2, <2>1, <3>1, <3>2 DEF BeginSwitch, SizesInv, Selecting
  <2>2. CASE StoreTick
    <3>1. loop # Selecting
      BY <2>2 DEF StoreTick, Selecting
    <3>2. shared' \in Sizes
      BY <1>1, <2>2, <3>1 DEF StoreTick, Sizes
    <3>3. loop'.info = loop.info /\ loop'.at = "lot" /\ loop' # Selecting
      BY <2>2 DEF StoreTick, Selecting
    <3> QED BY <1>1, <1>2, <2>2, <3>1, <3>2, <3>3 DEF StoreTick, PriceInv, SizesInv, Spared
  <2>3. CASE StoreLot
    <3>1. loop # Selecting
      BY <2>3 DEF StoreLot, Selecting
    <3>2. shared' \in Sizes /\ shared'.lot = loop.info.lot
      BY <1>1, <2>3, <3>1 DEF StoreLot, Sizes
    <3>3. loop'.info = loop.info /\ loop'.at = "manager" /\ loop' # Selecting
      BY <2>3 DEF StoreLot, Selecting
    <3> QED BY <1>1, <1>2, <2>3, <3>1, <3>2, <3>3 DEF StoreLot, PriceInv, SizesInv, Spared
  <2>4. CASE FinishSwitch
    <3>1. loop # Selecting /\ shared.lot = loop.info.lot
      BY <2>4 DEF FinishSwitch, Selecting, PriceInv, SizesInv
    <3>2. generation' \in Nat /\ Spared
      BY <1>1, <2>4, PausesSpare DEF FinishSwitch
    <3>3. managed' \in Sizes /\ managed'.lot = shared.lot
      BY <1>1, <2>4, <3>1 DEF FinishSwitch
    <3> QED BY <1>1, <1>2, <2>4, <3>2, <3>3 DEF FinishSwitch, SizesInv, Selecting
  <2>5. CASE EndReconciliation
    BY <1>1, <1>2, <2>5 DEF EndReconciliation, PriceInv, SizesInv, Spared, Selecting
  <2>6. CASE WarmUp
    BY <1>1, <1>2, <2>6 DEF WarmUp, PriceInv, SizesInv, Spared, Selecting
  <2> QED BY <2>1, <2>2, <2>3, <2>4, <2>5, <2>6 DEF Switch
<1>4. QueueInv'
  BY <1>2, <1>3, QueueSpared DEF PriceInv
<1>5. WrittenAsQuoted'
  BY <1>2 DEF PriceInv, WrittenAsQuoted
<1> QED BY <1>3, <1>4, <1>5 DEF PriceInv

(* What on_quote_into decides, once no pause is left, is sound.             *)
LEMMA DecisionsSound ==
  ASSUME SizesInv, loop = Selecting, NEW q \in QuoteInputs, NEW side \in {"buy", "sell"},
         NEW level \in 1..Strategy.order_levels, NEW d, d = Decision(q, side, level),
         pauses' = {}, UNCHANGED <<generation, shared>>
  PROVE  Sound(d)'
<1>1. WholeNumbers(Strategy) /\ level \in {1, 2}
  BY StrategyAssumption DEF StrategyAssumption, StrategyValid
<1>2. IsInput(q)
  BY QuoteInputsAssumption DEF QuoteInputsAssumption, IsInput
<1>3. /\ shared.tick \in Nat \ {0} /\ shared.lot \in Nat \ {0}
      /\ managed.lot = shared.lot /\ generation \in Nat
  BY DEF SizesInv, Sizes
<1>4. /\ d.price \in Int /\ OwnSide(d, d.price)
      /\ IsMultiple(d.price, shared.tick * Unit)
  <2>1. /\ BidPrice(Strategy, q, level, shared.tick) \in Int
        /\ AskPrice(Strategy, q, level, shared.tick) \in Int
        /\ IsMultiple(BidPrice(Strategy, q, level, shared.tick), shared.tick * Unit)
        /\ IsMultiple(AskPrice(Strategy, q, level, shared.tick), shared.tick * Unit)
        /\ BidPrice(Strategy, q, level, shared.tick) <= q.bid * Unit
        /\ q.ask * Unit <= AskPrice(Strategy, q, level, shared.tick)
    BY <1>1, <1>2, <1>3, QuotesKeepTheirSide
  <2>2. q.ask * Unit \in Int
    BY <1>2, UnitPositive, ProductsAreWhole DEF IsInput
  <2> QED BY <2>1, <2>2 DEF Decision, QuotePrice, OwnSide
<1>5. d.qty \in Nat /\ IsMultiple(d.qty, shared.lot * Unit)
  <2>1. shared.lot * Unit \in Nat \ {0} /\ q.qty * Unit \in Nat
    BY <1>2, <1>3, UnitPositive, ProductsPositive, ProductsAreWhole, ProductsNatural DEF IsInput
  <2> DEFINE x == RoundDown(q.qty * Unit, shared.lot * Unit)
             step == shared.lot * Unit
  <2>2. x \in Nat /\ step \in Nat \ {0}
    BY <2>1, RoundDownNatural
  <2>3. d.qty = RoundDown(x, step)
    BY <1>3 DEF Decision, QuoteQty
  <2> HIDE DEF x, step
  <2>4. RoundDown(x, step) \in Nat /\ IsMultiple(RoundDown(x, step), step)
    BY <2>2, RoundDownNatural, RoundedAreMultiples
  <2> QED BY <2>3, <2>4 DEF step
<1>6. d.quote = q /\ d.side = side /\ d.gen = generation /\ d \in Orders
  BY <1>3, <1>4, <1>5 DEF Decision, Orders
<1> QED BY <1>3, <1>4, <1>5, <1>6 DEF Sound

LEMMA OnBookSound ==
  ASSUME PriceInv, NEW q \in QuoteInputs, NEW side \in {"buy", "sell"},
         NEW level \in 1..Strategy.order_levels, OnBook(q, side, level)
  PROVE  PriceInv'
<1> USE DEF pollOnly
<1>1. SizesInv /\ QueueInv /\ WrittenAsQuoted
  BY DEF PriceInv
<1>2. SizesInv' /\ WrittenAsQuoted'
  BY <1>1 DEF OnBook, SizesInv, WrittenAsQuoted, Selecting
<1>3. /\ Spared /\ executor' = executor /\ loop = Selecting
      /\ UNCHANGED <<generation, shared>>
  BY DEF OnBook, Spared
<1>4. CASE decisions' = decisions
  BY <1>1, <1>2, <1>3, <1>4, QueueSpared DEF PriceInv
<1>5. ASSUME NEW d, d = Decision(q, side, level), pauses' = {},
             decisions' = Append(decisions, d)
      PROVE  QueueInv'
  <2>1. Sound(d)'
    BY <1>1, <1>3, <1>5, DecisionsSound
  <2>2. d \in Orders
    BY <2>1 DEF Sound
  <2>3. generation \in Nat
    BY <1>1 DEF SizesInv
  <2>4. ASSUME NEW c, Sound(c) PROVE Sound(c)'
    BY <1>3, <2>3, <2>4, SoundSpared
  <2>5. /\ decisions' \in Seq(Orders) /\ Len(decisions') = Len(decisions) + 1
        /\ \A i \in 1..Len(decisions) : decisions'[i] = decisions[i]
        /\ decisions'[Len(decisions) + 1] = d
    BY <1>1, <1>5, <2>2 DEF QueueInv
  <2>6. \A i \in 1..Len(decisions') : Sound(decisions[i])' \/ decisions'[i] = d
    <3> TAKE i \in 1..Len(decisions')
    <3>1. CASE i \in 1..Len(decisions)
      <4>1. Sound(decisions[i]) /\ decisions'[i] = decisions[i]
        BY <1>1, <2>5, <3>1 DEF QueueInv
      <4> QED BY <2>4, <4>1
    <3>2. CASE i = Len(decisions) + 1
      BY <2>5, <3>2
    <3> QED BY <1>1, <2>5, <3>1, <3>2 DEF QueueInv
  <2>7. \A i \in 1..Len(decisions') : Sound(decisions[i])'
    BY <2>1, <2>6
  <2>8. executor # Idle => Sound(executor.decision)' /\ ReadSoFar'
    <3> SUFFICES ASSUME executor # Idle PROVE Sound(executor.decision)' /\ ReadSoFar'
      OBVIOUS
    <3>1. Sound(executor.decision) /\ ReadSoFar
      BY <1>1 DEF QueueInv
    <3>2. Sound(executor.decision)'
      BY <1>3, <2>4, <3>1
    <3>3. ReadSoFar'
      BY <1>3, <3>1 DEF ReadSoFar
    <3> QED BY <3>2, <3>3
  <2> QED BY <1>3, <2>5, <2>7, <2>8 DEF QueueInv, Idle
<1> QED BY <1>2, <1>4, <1>5 DEF OnBook, PriceInv

----------------------------------------------------------------------------
(* The executor.                                                            *)
LEMMA ReadingSteps ==
  ASSUME PriceInv, TakeDecision \/ ReadTick \/ ReadLot
  PROVE  PriceInv'
<1> USE DEF pollOnly, gateOnly
<1>1. SizesInv /\ QueueInv /\ WrittenAsQuoted
  BY DEF PriceInv
<1>2. SizesInv' /\ WrittenAsQuoted'
  BY <1>1 DEF TakeDecision, ReadTick, ReadLot, SizesInv, WrittenAsQuoted
<1>3. UNCHANGED <<pauses, generation, shared>>
  BY DEF TakeDecision, ReadTick, ReadLot
<1>4. ASSUME NEW d, Sound(d) PROVE Sound(d)'
  BY <1>3, <1>4 DEF Sound, OwnSide
<1>5. decisions' \in Seq(Orders) /\ \A i \in 1..Len(decisions') : Sound(decisions[i])'
  <2>1. CASE TakeDecision
    <3>1. /\ decisions' \in Seq(Orders) /\ Len(decisions') = Len(decisions) - 1
          /\ \A i \in 1..Len(decisions') : decisions'[i] = decisions[i + 1]
                                           /\ i + 1 \in 1..Len(decisions)
      BY <1>1, <2>1 DEF TakeDecision, QueueInv
    <3>2. ASSUME NEW i \in 1..Len(decisions') PROVE Sound(decisions[i])'
      <4>1. Sound(decisions[i + 1]) /\ decisions'[i] = decisions[i + 1]
        BY <1>1, <3>1 DEF QueueInv
      <4> QED BY <1>4, <4>1
    <3> QED BY <3>1, <3>2
  <2>2. CASE decisions' = decisions
    <3>1. ASSUME NEW i \in 1..Len(decisions) PROVE Sound(decisions[i])'
      <4>1. Sound(decisions[i])
        BY <1>1 DEF QueueInv
      <4> QED BY <1>4, <2>2, <4>1
    <3> QED BY <1>1, <2>2, <3>1 DEF QueueInv
  <2> QED BY <2>1, <2>2 DEF ReadTick, ReadLot
<1>6. Sound(executor.decision)' /\ ReadSoFar'
  <2>1. CASE TakeDecision
    <3>1. 1 \in 1..Len(decisions) /\ Head(decisions) = decisions[1]
      BY <1>1, <2>1 DEF TakeDecision, QueueInv
    <3>2. Sound(Head(decisions))
      BY <1>1, <3>1 DEF QueueInv
    <3>3. executor'.decision = Head(decisions) /\ executor'.at = "tick"
      BY <2>1 DEF TakeDecision
    <3> QED BY <1>4, <3>2, <3>3 DEF ReadSoFar
  <2>2. CASE ReadTick \/ ReadLot
    <3>1. executor # Idle
      BY <2>2 DEF ReadTick, ReadLot, Idle
    <3>2. Sound(executor.decision) /\ ReadSoFar
      BY <1>1, <3>1 DEF QueueInv
    <3>3. executor'.decision = executor.decision
      BY <2>2 DEF ReadTick, ReadLot
    <3>4. Sound(executor.decision)'
      BY <1>4, <3>2, <3>3
    <3>5. ReadSoFar'
      BY <1>3, <2>2, <3>2 DEF ReadSoFar, ReadTick, ReadLot
    <3> QED BY <3>4, <3>5
  <2> QED BY <2>1, <2>2
<1> QED BY <1>2, <1>5, <1>6 DEF PriceInv, QueueInv

LEMMA SubmitAsQuoted == PriceInv /\ Submit => PriceInv'
<1> SUFFICES ASSUME PriceInv, Submit PROVE PriceInv'
  OBVIOUS
<1> USE DEF pollOnly, gateOnly
<1>1. SizesInv /\ QueueInv /\ WrittenAsQuoted
  BY DEF PriceInv
<1>2. SizesInv' /\ UNCHANGED <<pauses, generation, shared, decisions>>
  BY <1>1 DEF Submit, SizesInv
<1>3. QueueInv'
  <2>1. ASSUME NEW d, Sound(d) PROVE Sound(d)'
    BY <1>2, <2>1 DEF Sound, OwnSide
  <2>2. ASSUME NEW i \in 1..Len(decisions) PROVE Sound(decisions[i])'
    <3>1. Sound(decisions[i])
      BY <1>1 DEF QueueInv
    <3> QED BY <1>2, <2>1, <3>1
  <2> QED BY <1>1, <1>2, <2>2 DEF QueueInv, Submit
<1>4. WrittenAsQuoted'
  <2> DEFINE d == executor.decision
             o == Formatted(d, executor.tick, executor.lot)
  <2>1. CASE ~PermitsDecision(d)
    BY <1>1, <2>1 DEF Submit, WrittenAsQuoted
  <2>2. CASE PermitsDecision(d)
    <3>1. executor # Idle /\ executor.at = "submit"
      BY DEF Submit, Idle
    <3>2. /\ Sound(d) /\ d.gen = generation
          /\ executor.tick = shared.tick /\ executor.lot = shared.lot
      BY <1>1, <2>2, <3>1 DEF QueueInv, ReadSoFar, PermitsDecision
    <3>3. /\ shared.tick * Unit \in Nat \ {0} /\ shared.lot * Unit \in Nat \ {0}
      BY <1>1, UnitPositive, ProductsPositive DEF SizesInv, Sizes
    <3>4. d.price \in Int /\ d.qty \in Int
      BY <3>2 DEF Sound, Orders
    <3>5. /\ Nearest(d.price, shared.tick * Unit) = d.price
          /\ Nearest(d.qty, shared.lot * Unit) = d.qty
      BY <3>2, <3>3, <3>4, NearestKeepsMultiples DEF Sound
    <3>6. o.decision = d /\ o.price = d.price /\ o.qty = d.qty
      BY <3>2, <3>5 DEF Formatted
    <3>7. OwnSide(o.decision, o.price)
      BY <3>2, <3>6 DEF Sound
    <3>8. written' = written \cup {o}
      BY <2>2 DEF Submit
    <3> QED BY <1>1, <3>6, <3>7, <3>8 DEF WrittenAsQuoted, OwnSide
  <2> QED BY <2>1, <2>2
<1> QED BY <1>2, <1>3, <1>4 DEF PriceInv

----------------------------------------------------------------------------
LEMMA PriceInvStays == PriceInv /\ [QuotingNext]_priceVars => PriceInv'
<1> SUFFICES ASSUME PriceInv, [QuotingNext]_priceVars PROVE PriceInv'
  OBVIOUS
<1>1. CASE UNCHANGED priceVars
  <2>1. SizesInv' /\ WrittenAsQuoted'
    BY <1>1 DEF priceVars, PriceInv, SizesInv, WrittenAsQuoted
  <2>2. QueueInv'
    BY <1>1, QueueSpared DEF priceVars, PriceInv, Spared
  <2> QED BY <2>1, <2>2 DEF PriceInv
<1> QED
  BY <1>1, PollerSteps, SwitchSteps, OnBookSound, ReadingSteps, SubmitAsQuoted DEF QuotingNext

(* Whatever precisions the exchange lists, and however the stores of a      *)
(* switch fall between the reads of the executor, an order is written at    *)
(* the price and quantity decided and on its own side of the book           *)
(* (main: the tick-size arm, the executor; ExecutionState::permits).        *)
THEOREM OrdersWrittenAsQuoted == QuotingSpec => []WrittenAsQuoted
<1>1. PriceInv => WrittenAsQuoted
  BY DEF PriceInv
<1> QED BY <1>1, PriceInvAtFirst, PriceInvStays, PTL DEF QuotingSpec

----------------------------------------------------------------------------
(* The rest of the types: what the tasks hold, and the channels within      *)
(* their capacities.                                                        *)
Shapes ==
  /\ poll \in {Idle} \cup [at : {"answered", "sending"}, info : Precisions]
  /\ loop \in {Selecting} \cup [at : {"tick", "lot", "manager"}, info : Precisions]
  /\ executor.at \in {"idle", "tick", "lot", "submit"}
  /\ Len(signals) <= SignalCap /\ Len(decisions) <= DecisionCap
  /\ pauses \subseteq {"MarketData", "Reconciliation"}
  /\ warm \in BOOLEAN
  /\ used \in [listings : Nat, decisions : Nat]

LEMMA ShapesAtFirst == QuotingInit => Shapes
<1> SUFFICES ASSUME QuotingInit PROVE Shapes
  OBVIOUS
<1>1. Len(signals) <= SignalCap /\ Len(decisions) <= DecisionCap
  BY CapacitiesAssumption DEF QuotingInit, CapacitiesAssumption
<1>2. warm \in BOOLEAN
  BY Zenon DEF QuotingInit
<1> QED BY <1>1, <1>2 DEF QuotingInit, Shapes, Idle

LEMMA ShapesKept ==
  ASSUME Shapes, UNCHANGED <<poll, loop, executor, signals, decisions, pauses, warm, used>>
  PROVE  Shapes'
BY DEF Shapes

LEMMA ShapesStay == PriceInv /\ Shapes /\ [QuotingNext]_priceVars => Shapes'
<1> SUFFICES ASSUME PriceInv, Shapes, [QuotingNext]_priceVars PROVE Shapes'
  OBVIOUS
<1> USE DEF pollOnly, gateOnly, orderOnly
<1>1. /\ listed \in Precisions /\ signals \in Seq(Precisions) /\ decisions \in Seq(Orders)
      /\ SignalCap \in Nat /\ DecisionCap \in Nat
  BY CapacitiesAssumption DEF PriceInv, SizesInv, QueueInv, CapacitiesAssumption
<1>2. ASSUME NEW reason \in {"MarketData", "Reconciliation"}, SetReason(reason)
      PROVE  pauses' \subseteq {"MarketData", "Reconciliation"}
  BY <1>2 DEF SetReason, Shapes
<1>3. ASSUME NEW p \in Precisions, List(p) PROVE Shapes'
  <2>1. used' \in [listings : Nat, decisions : Nat]
    BY <1>3 DEF List, Shapes
  <2> QED BY <1>3, <2>1 DEF List, Shapes
<1>4. CASE Ask
  BY <1>1, <1>4 DEF Ask, Shapes
<1>5. CASE Compare
  <2>1. poll \in [at : {"answered", "sending"}, info : Precisions]
    BY <1>5 DEF Compare, Shapes, Idle
  <2>2. [poll EXCEPT !.at = "sending"] \in [at : {"answered", "sending"}, info : Precisions]
    BY <2>1
  <2> QED BY <1>5, <2>2 DEF Compare, Shapes
<1>6. CASE Signal
  <2>1. Len(signals') = Len(signals) + 1
    BY <1>1, <1>6 DEF Signal
  <2> QED BY <1>1, <1>6, <2>1 DEF Signal, Shapes
<1>7. CASE BeginSwitch
  <2>1. Head(signals) \in Precisions /\ Len(signals') <= Len(signals) /\ Len(signals') \in Nat
    BY <1>1, <1>7 DEF BeginSwitch
  <2>2. loop' \in [at : {"tick", "lot", "manager"}, info : Precisions]
    BY <1>7, <2>1 DEF BeginSwitch
  <2>3. Len(signals') <= SignalCap
    BY <1>1, <2>1 DEF Shapes
  <2>4. pauses' \subseteq {"MarketData", "Reconciliation"}
    BY <1>2, <1>7 DEF BeginSwitch
  <2> QED BY <1>7, <2>2, <2>3, <2>4 DEF BeginSwitch, Shapes
<1>8. CASE StoreTick \/ StoreLot
  <2>1. loop \in [at : {"tick", "lot", "manager"}, info : Precisions]
    BY <1>8 DEF StoreTick, StoreLot, Shapes, Selecting
  <2>2. \A a \in {"lot", "manager"} :
          [loop EXCEPT !.at = a] \in [at : {"tick", "lot", "manager"}, info : Precisions]
    BY <2>1
  <2> QED BY <1>8, <2>2 DEF StoreTick, StoreLot, Shapes
<1>9. CASE FinishSwitch
  <2>1. pauses' \subseteq {"MarketData", "Reconciliation"}
    BY <1>2, <1>9 DEF FinishSwitch
  <2>2. warm' \in BOOLEAN
    BY <1>9, Zenon DEF FinishSwitch
  <2> QED BY <1>9, <2>1, <2>2 DEF FinishSwitch, Shapes
<1>10. CASE EndReconciliation
  BY <1>10 DEF EndReconciliation, Shapes
<1>11. CASE WarmUp
  <2>1. warm' \in BOOLEAN
    BY <1>11, Zenon DEF WarmUp
  <2> QED BY <1>11, <2>1 DEF WarmUp, Shapes
<1>12. ASSUME NEW q \in QuoteInputs, NEW side \in {"buy", "sell"},
              NEW level \in 1..Strategy.order_levels, OnBook(q, side, level)
       PROVE  Shapes'
  <2>1. pauses' \subseteq {"MarketData", "Reconciliation"}
    BY <1>12 DEF OnBook, Shapes
  <2>2. Len(decisions') <= DecisionCap
    <3>1. CASE decisions' = decisions
      BY <3>1 DEF Shapes
    <3>2. ASSUME NEW d, decisions' = Append(decisions, d), Len(decisions) < DecisionCap
          PROVE  Len(decisions') <= DecisionCap
      <4>1. Len(decisions') = Len(decisions) + 1 /\ Len(decisions) \in Nat
        BY <1>1, <3>2
      <4> QED BY <1>1, <3>2, <4>1
    <3> QED BY <1>12, <3>1, <3>2 DEF OnBook
  <2>3. used' \in [listings : Nat, decisions : Nat]
    <3>1. [used EXCEPT !.decisions = @ + 1] \in [listings : Nat, decisions : Nat]
      BY DEF Shapes
    <3> QED BY <1>12, <3>1 DEF OnBook, Shapes
  <2> QED BY <1>12, <2>1, <2>2, <2>3 DEF OnBook, Shapes
<1>13. CASE TakeDecision
  <2>1. Len(decisions') <= Len(decisions) /\ Len(decisions') \in Nat
    BY <1>1, <1>13 DEF TakeDecision
  <2>2. Len(decisions') <= DecisionCap
    BY <1>1, <2>1 DEF Shapes
  <2> QED BY <1>13, <2>2 DEF TakeDecision, Shapes
<1>14. CASE ReadTick \/ ReadLot \/ Submit
  <2>1. executor'.at \in {"idle", "tick", "lot", "submit"}
    BY <1>14 DEF ReadTick, ReadLot, Submit, Idle
  <2>2. UNCHANGED <<poll, loop, signals, decisions, pauses, warm, used>>
    BY <1>14 DEF ReadTick, ReadLot, Submit
  <2> QED BY <2>1, <2>2 DEF Shapes
<1>15. CASE UNCHANGED priceVars
  BY <1>15, ShapesKept DEF priceVars
<1> QED
  BY <1>3, <1>4, <1>5, <1>6, <1>7, <1>8, <1>9, <1>10, <1>11, <1>12, <1>13, <1>14, <1>15
     DEF QuotingNext, InfoPoller, Switch

(* The types of the precision and of what waits for it, for channels of any *)
(* capacity: a decision that waits has a quantity, a whole price and a      *)
(* generation that has been.                                                *)
THEOREM QuotingTypesHold == QuotingSpec => []QuotingTypeOK
<1>1. PriceInv /\ Shapes => QuotingTypeOK
  <2> SUFFICES ASSUME PriceInv, Shapes PROVE QuotingTypeOK
    OBVIOUS
  <2>1. {listed, shared, managed} \subseteq [tick : Nat \ {0}, lot : Nat \ {0}, least : Nat \ {0}]
    BY PrecisionsAreSizes DEF PriceInv, SizesInv, Sizes
  <2>2. /\ poll.at \in {"idle", "answered", "sending"} /\ (poll # Idle => poll.info \in Precisions)
        /\ loop.at \in {"select", "tick", "lot", "manager"}
        /\ (loop # Selecting => loop.info \in Precisions)
    BY DEF Shapes, Idle, Selecting
  <2>3. \A d \in Decided : d.price \in Int /\ d.qty \in Nat /\ d.gen \in 0..generation
    <3>1. ASSUME NEW d, Sound(d)
          PROVE  d.price \in Int /\ d.qty \in Nat /\ d.gen \in 0..generation
      BY <3>1 DEF Sound, Orders, PriceInv, SizesInv
    <3>2. ASSUME NEW i \in DOMAIN decisions PROVE Sound(decisions[i])
      BY <3>2 DEF PriceInv, QueueInv
    <3>3. executor # Idle => Sound(executor.decision)
      BY DEF PriceInv, QueueInv
    <3> QED BY <3>1, <3>2, <3>3 DEF Decided
  <2> QED BY <2>1, <2>2, <2>3 DEF Shapes, PriceInv, SizesInv, QuotingTypeOK
<1> QED BY <1>1, PriceInvAtFirst, PriceInvStays, ShapesAtFirst, ShapesStay, PTL DEF QuotingSpec
=============================================================================
