-------------------------- MODULE OrderManagerOps --------------------------
(***************************************************************************)
(* The order manager of src/trading/order_manager.rs as functions from a   *)
(* manager to a manager.  A manager is one record, so that the event loop  *)
(* of src/main.rs, which calls several methods in one step, is modelled by *)
(* composing them (module Trading), and a manager on its own by one action *)
(* per method (module OrderManager).                                       *)
(*                                                                         *)
(* Quantities are whole lots and prices whole dollars per lot: the code's  *)
(* floor to the lot size is integer division.  Wall-clock ages and         *)
(* cooldowns are inputs chosen by the environment.                         *)
(***************************************************************************)
EXTENDS Integers, Sequences

CONSTANTS
  NumLevels,          \* config.num_levels, 1 or 2 levels per side
  RepriceBps,         \* config.reprice_threshold_bps
  MinQty,             \* config.min_order_qty in lots
  MinDollar,          \* config.min_order_qty_dollar
  MaxOrderDollar,     \* config.max_order_qty_dollar, or NoCap
  AbsMaxDollar,       \* config.absolute_max_position_dollar, or NoCap
  FromStart,          \* config.position_limit_from_start
  BreakerRejections,  \* config.circuit_breaker_rejections, 0 disables
  NoCap               \* an Option<f64> cap that is None: a number never reached

ASSUME ConfigAssumption ==
  /\ NumLevels \in {1, 2}
  /\ RepriceBps \in Nat
  /\ MinQty \in Nat
  /\ MinDollar \in Nat
  /\ MaxOrderDollar \in Nat
  /\ AbsMaxDollar \in Nat
  /\ FromStart \in BOOLEAN
  /\ BreakerRejections \in Nat
  /\ NoCap \in Nat

Sides == {"Buy", "Sell"}
Levels == 0..1                  \* MAX_ORDER_LEVELS = 2
Slots == Sides \X Levels
Reasons == {"OrderWebSocket", "CircuitBreaker", "Safety",
            "MarketData", "RiskData", "Reconciliation"}
MaxCancelFailures == 3

(* An order slot.  A free slot (None) carries id 0; oid 0 is an order whose *)
(* exchange id is not known yet.  `gen` is the generation that              *)
(* generate_cl_ord_id writes into the client id.                            *)
Order == [id: Nat, gen: Nat, oid: Int, price: Nat, qty: Nat,
          state: {"Free", "Pending", "Live", "Canceling"}, fails: Nat]
FreeSlot == [id |-> 0, gen |-> 0, oid |-> 0, price |-> 0, qty |-> 0,
             state |-> "Free", fails |-> 0]

(* `owed` is resume_after_position_version relative to the position's       *)
(* version: the publications still missing, 0 when the gate is None or met. *)
(* The version only grows, so the max with an earlier requirement is always *)
(* the new one.  The two cooldown stamps are kept as armed or not.          *)
Manager ==
  [slots: [Slots -> Order], pauses: SUBSET Reasons, shutdown: BOOLEAN,
   gen: Nat, retired: Nat, nextId: Nat, rejections: Nat,
   breakerArmed: BOOLEAN, safetyArmed: BOOLEAN, owed: 0..2,
   hasBaseline: BOOLEAN, baseline: Int]

NewManager ==
  [slots |-> [s \in Slots |-> FreeSlot], pauses |-> {}, shutdown |-> FALSE,
   gen |-> 0, retired |-> 0, nextId |-> 1, rejections |-> 0,
   breakerArmed |-> FALSE, safetyArmed |-> FALSE, owed |-> 0,
   hasBaseline |-> FALSE, baseline |-> 0]

Used(m, s) == m.slots[s].id # 0
TrackedIds(m) == {m.slots[s].id : s \in {t \in Slots : Used(m, t)}}
Permits(m, g) == ~m.shutdown /\ m.pauses = {} /\ g = m.gen
IsRetired(m, g) == g < m.retired

----------------------------------------------------------------------------
(* Pause reasons and the generation *)

\* Seeded fault: the generation is not advanced.
SetPauseNoBump(m, r) == [m EXCEPT !.pauses = @ \cup {r}]

SetPause(m, r) ==
  IF r \in m.pauses THEN m
  ELSE [m EXCEPT !.pauses = @ \cup {r}, !.gen = @ + 1]

ClearPause(m, r) == [m EXCEPT !.pauses = @ \ {r}]

BeginReconciliation(m) == SetPause(m, "Reconciliation")

\* Seeded fault: the fill is remembered but quoting goes on.
RequireRefreshNoPause(m) == [m EXCEPT !.owed = 2]

RequireRefresh(m) == SetPause([m EXCEPT !.owed = 2], "RiskData")

\* Seeded fault: a publication nobody waits for is counted.
PublishUnfloored(m) == [m EXCEPT !.owed = @ - 1]

(* A successful position publication, seen through the manager's gate. *)
Publish(m) == [m EXCEPT !.owed = IF @ = 0 THEN 0 ELSE @ - 1]

RefreshComplete(m) == m.owed = 0

InitializeBaseline(m, pos) ==
  IF m.hasBaseline THEN m
  ELSE [m EXCEPT !.hasBaseline = TRUE, !.baseline = pos]

(* What begin_account_reconciliation does to each manager: the position gate *)
(* is raised only by the call that raises the reconciliation pause.          *)
EnterReconciliation(m) ==
  BeginReconciliation(IF "Reconciliation" \in m.pauses THEN m ELSE RequireRefresh(m))

TriggerSafety(m) == [SetPause(m, "Safety") EXCEPT !.safetyArmed = TRUE]

SafetyDue(m, cooled) == "Safety" \in m.pauses /\ m.safetyArmed /\ cooled
BreakerDue(m, cooled) == "CircuitBreaker" \in m.pauses /\ m.breakerArmed /\ cooled

(* check_circuit_breaker_recovery and check_safety_pause_recovery: a due    *)
(* cooldown is spent, whatever its caller does with the answer.             *)
SpendCooldowns(m, safetyCooled, breakerCooled) ==
  [m EXCEPT !.safetyArmed = @ /\ ~SafetyDue(m, safetyCooled),
            !.breakerArmed = @ /\ ~BreakerDue(m, breakerCooled)]

\* Seeded fault: the retired generation is not moved up to the present one.
FinishWithoutRetiring(m) ==
  [m EXCEPT !.slots = [s \in Slots |-> FreeSlot],
            !.safetyArmed = FALSE, !.breakerArmed = FALSE, !.rejections = 0,
            !.pauses = @ \ {"Safety", "CircuitBreaker", "Reconciliation"}]

\* Seeded fault: the slots are kept.
FinishKeepingSlots(m) ==
  [m EXCEPT !.retired = m.gen,
            !.safetyArmed = FALSE, !.breakerArmed = FALSE, !.rejections = 0,
            !.pauses = @ \ {"Safety", "CircuitBreaker", "Reconciliation"}]

FinishReconciliation(m) ==
  [m EXCEPT !.retired = m.gen, !.slots = [s \in Slots |-> FreeSlot],
            !.safetyArmed = FALSE, !.breakerArmed = FALSE, !.rejections = 0,
            !.pauses = @ \ {"Safety", "CircuitBreaker", "Reconciliation"}]

(* What finish_account_reconciliation does to each manager.                 *)
LeaveReconciliation(m) == FinishReconciliation(RequireRefresh(m))

ShutdownManager(m) == [m EXCEPT !.shutdown = TRUE, !.gen = @ + 1]

----------------------------------------------------------------------------
(* Order events *)

FreeId(m, id) ==
  [m EXCEPT !.slots =
     [s \in Slots |-> IF m.slots[s].id = id THEN FreeSlot ELSE m.slots[s]]]

\* Seeded fault: an exchange id already bound to another slot is bound again.
CanBindAnySlot(m, id, oid) ==
  \E s \in Slots : Used(m, s) /\ m.slots[s].id = id
                   /\ (oid # 0 => m.slots[s].oid \in {0, oid})

CanBind(m, id, oid) ==
  \E s \in Slots :
    /\ Used(m, s) /\ m.slots[s].id = id
    /\ oid # 0 => /\ m.slots[s].oid \in {0, oid}
                  /\ \A t \in Slots : m.slots[t].oid = oid => m.slots[t].id = id

OnAccepted(m, id, oid) ==
  IF ~CanBind(m, id, oid) THEN m
  ELSE [m EXCEPT !.rejections = 0,
                 !.slots = [s \in Slots |->
                   IF m.slots[s].id # id THEN m.slots[s]
                   ELSE [m.slots[s] EXCEPT
                          !.oid = IF oid = 0 THEN @ ELSE oid,
                          !.state = IF @ = "Pending" THEN "Live" ELSE @]]]

\* Seeded fault: the breaker trips one rejection late.
TripBreakerLate(m) ==
  IF BreakerRejections > 0 /\ m.rejections > BreakerRejections
  THEN [SetPause(m, "CircuitBreaker") EXCEPT !.breakerArmed = TRUE]
  ELSE m

\* Seeded fault: the cooldown is not armed.
TripBreakerUnarmed(m) ==
  IF BreakerRejections > 0 /\ m.rejections >= BreakerRejections
  THEN SetPause(m, "CircuitBreaker") ELSE m

TripBreaker(m) ==
  IF BreakerRejections > 0 /\ m.rejections >= BreakerRejections
  THEN [SetPause(m, "CircuitBreaker") EXCEPT !.breakerArmed = TRUE]
  ELSE m

OnRejected(m, id) == TripBreaker([FreeId(m, id) EXCEPT !.rejections = @ + 1])

OnCanceledById(m, id) == FreeId(m, id)

OnCanceledByOid(m, oid) ==
  [m EXCEPT !.slots =
     [s \in Slots |-> IF oid # 0 /\ m.slots[s].oid = oid
                      THEN FreeSlot ELSE m.slots[s]]]

(* The OrderCanceled arm of the event loop: by client id if it is tracked, *)
(* by exchange id otherwise.  oid 0 binds no slot.                          *)
OnCanceled(m, id, oid) ==
  IF id \in TrackedIds(m) THEN OnCanceledById(m, id) ELSE OnCanceledByOid(m, oid)

ScanIndex(s) == 2 * s[2] + (IF s[1] = "Buy" THEN 0 ELSE 1)
FillMatches(m, id, oid) ==
  {s \in Slots : Used(m, s) /\ (m.slots[s].id = id \/ (oid # 0 /\ m.slots[s].oid = oid))}

OnFill(m, id, oid, full) ==
  LET hit == FillMatches(m, id, oid)
      first == CHOOSE s \in hit : \A t \in hit : ScanIndex(s) <= ScanIndex(t)
      kept == RequireRefresh(m)
  IN IF hit = {} THEN m
     ELSE IF full THEN [kept EXCEPT !.slots[first] = FreeSlot] ELSE kept

CancelFailures(m, oid) ==
  {s \in Slots : Used(m, s) /\ oid # 0 /\ m.slots[s].oid = oid
                            /\ m.slots[s].state = "Canceling"}

\* Seeded fault: the last failure puts the slot back to Live like the others.
OnCancelFailedForever(m, oid) ==
  [m EXCEPT !.slots =
     [s \in Slots |-> IF s \in CancelFailures(m, oid)
                      THEN [m.slots[s] EXCEPT !.fails = @ + 1, !.state = "Live"]
                      ELSE m.slots[s]]]

OnCancelFailed(m, oid) ==
  LET hit == CancelFailures(m, oid)
      exhausted == \E s \in hit : m.slots[s].fails + 1 >= MaxCancelFailures
      counted ==
        [m EXCEPT !.slots =
           [s \in Slots |->
              IF s \notin hit THEN m.slots[s]
              ELSE [m.slots[s] EXCEPT
                     !.fails = @ + 1,
                     !.state = IF m.slots[s].fails + 1 >= MaxCancelFailures
                               THEN "Canceling" ELSE "Live"]]]
  IN IF exhausted
     THEN SetPause(SetPause(counted, "Safety"), "Reconciliation")
     ELSE counted

----------------------------------------------------------------------------
(* Decisions, timeouts and dispatch *)

Decision == [kind: {"Send", "Cancel", "Replace"}, id: Nat]
SendOf(id) == [kind |-> "Send", id |-> id]
CancelOf(id) == [kind |-> "Cancel", id |-> id]
ReplaceOf(id) == [kind |-> "Replace", id |-> id]

ToCanceling(m, s) == [m EXCEPT !.slots[s].state = "Canceling"]

(* on_dispatch_failed for every refused decision; each names its own slot.  *)
OnDispatchFailed(m, refused) ==
  LET Named(s, k) == Used(m, s) /\ [kind |-> k, id |-> m.slots[s].id] \in refused
  IN [m EXCEPT !.slots =
        [s \in Slots |->
           IF Named(s, "Send") THEN FreeSlot
           ELSE IF Named(s, "Cancel") \/ Named(s, "Replace")
           THEN [m.slots[s] EXCEPT !.state = "Live"]
           ELSE m.slots[s]]]

(* check_timeouts: `overdue` is the set of slots older than the timeout.    *)
TimedOut(m, overdue) ==
  {s \in overdue : Used(m, s) /\ m.slots[s].state # "Live"}
OnTimeouts(m, overdue) ==
  IF TimedOut(m, overdue) = {} THEN m ELSE BeginReconciliation(m)

----------------------------------------------------------------------------
(* Quote processing.  A quote is [mid, price (by slot), qty, levels]; only  *)
(* valid ones reach the manager.  A position or limit that is not finite is *)
(* a limit of 0.  `old` is the set of slots past max_live_age.              *)

MaxOf(a, b) == IF a >= b THEN a ELSE b
MinOf(a, b) == IF a <= b THEN a ELSE b
AbsOf(a) == IF a < 0 THEN -a ELSE a
SignOf(side) == IF side = "Buy" THEN 1 ELSE -1

Quote == [mid: Nat \ {0}, price: [Slots -> Nat \ {0}], qty: Nat \ {0}, levels: 1..2]

Mark(o, mid) == o.qty * MaxOf(o.price, mid)
OtherLevel(s) == <<s[1], 1 - s[2]>>

Headroom(m, pos, limit, mid, side) ==
  LET bySide == limit - SignOf(side) * pos * mid
      base == IF FromStart THEN m.baseline ELSE 0
  IN IF AbsMaxDollar = NoCap THEN bySide
     ELSE MinOf(bySide, AbsMaxDollar - SignOf(side) * (pos - base) * mid)

\* Seeded fault: the other level of the side is not reserved.
BudgetUnreserved(m, pos, limit, mid, s) ==
  MaxOf(0, Headroom(m, pos, limit, mid, s[1]))

Budget(m, pos, limit, mid, s) ==
  MaxOf(0, Headroom(m, pos, limit, mid, s[1]) - Mark(m.slots[OtherLevel(s)], mid))

SizeOrder(q, budget, price) ==
  LET byBudget == MinOf(q.qty, budget \div MaxOf(price, q.mid))
      lots == IF MaxOrderDollar = NoCap THEN byBudget
              ELSE MinOf(byBudget, MaxOrderDollar \div price)
  IN IF lots < MinQty \/ lots * price < MinDollar THEN 0 ELSE lots

Exceeds(o, budget, mid) ==
  \/ Mark(o, mid) > budget
  \/ MaxOrderDollar # NoCap /\ o.qty * o.price > MaxOrderDollar

ShouldReprice(old, new) ==
  old = 0 \/ AbsOf(new - old) * 10000 >= RepriceBps * old

CancelSlot(r, s, kind) ==
  [m |-> ToCanceling(r.m, s),
   out |-> Append(r.out, [kind |-> kind, id |-> r.m.slots[s].id])]

\* Seeded fault: the client id counter is not advanced.
PlacePendingSameId(r, s, price, qty) ==
  [m |-> [r.m EXCEPT
            !.slots[s] = [id |-> r.m.nextId, gen |-> r.m.gen, oid |-> 0,
                          price |-> price, qty |-> qty,
                          state |-> "Pending", fails |-> 0]],
   out |-> Append(r.out, SendOf(r.m.nextId))]

PlacePending(r, s, price, qty) ==
  [m |-> [r.m EXCEPT
            !.nextId = @ + 1,
            !.slots[s] = [id |-> r.m.nextId, gen |-> r.m.gen, oid |-> 0,
                          price |-> price, qty |-> qty,
                          state |-> "Pending", fails |-> 0]],
   out |-> Append(r.out, SendOf(r.m.nextId))]

\* Seeded fault: an order being canceled is replaced without waiting for the answer.
ProcessSideLevelEager(r, s, price, qty, tooOld) ==
  IF r.m.slots[s].state \in {"Free", "Canceling"} THEN PlacePending(r, s, price, qty) ELSE r

(* process_side_level: a pending or canceling order is left to its answer.  *)
ProcessSideLevel(r, s, price, qty, tooOld) ==
  LET o == r.m.slots[s]
  IN IF ~Used(r.m, s) THEN PlacePending(r, s, price, qty)
     ELSE IF o.state = "Live" /\ (ShouldReprice(o.price, price) \/ tooOld \/ o.qty # qty)
     THEN CancelSlot(r, s, "Replace")
     ELSE r

QuoteSlot(r, q, pos, limit, s, old) ==
  LET o == r.m.slots[s]
      price == q.price[s]
      budget == Budget(r.m, pos, limit, q.mid, s)
      qty == SizeOrder(q, budget, price)
  IN IF s[2] >= NumLevels \/ s[2] >= q.levels THEN r
     ELSE IF Used(r.m, s) /\ o.state # "Canceling" /\ (Exceeds(o, budget, q.mid) \/ qty = 0)
     THEN CancelSlot(r, s, "Cancel")
     ELSE IF qty > 0 THEN ProcessSideLevel(r, s, price, qty, s \in old)
     ELSE r

CancelIfOpen(r, s) ==
  IF Used(r.m, s) /\ r.m.slots[s].state # "Canceling" THEN CancelSlot(r, s, "Cancel") ELSE r

CancelExposure(r) ==
  LET b0 == CancelIfOpen(r, <<"Buy", 0>>)
      b1 == CancelIfOpen(b0, <<"Buy", 1>>)
      s0 == CancelIfOpen(b1, <<"Sell", 0>>)
  IN CancelIfOpen(s0, <<"Sell", 1>>)

QuoteSide(r, q, pos, limit, side, old) ==
  QuoteSlot(QuoteSlot(r, q, pos, limit, <<side, 0>>, old), q, pos, limit, <<side, 1>>, old)

(* on_quote_into: the manager after the quote and its decisions, in order.  *)
OnQuote(m, q, pos, limit, old) ==
  LET r == [m |-> m, out |-> << >>]
  IN IF m.shutdown \/ m.pauses # {} THEN r
     ELSE IF limit <= 0 THEN CancelExposure([r EXCEPT !.m = SetPause(m, "RiskData")])
     ELSE IF FromStart /\ ~m.hasBaseline THEN r
     ELSE QuoteSide(QuoteSide(r, q, pos, limit, "Buy", old), q, pos, limit, "Sell", old)
============================================================================
