---------------------------- MODULE OrderManager ----------------------------
(***************************************************************************)
(* One order manager driven by an arbitrary environment.  Each arm of the  *)
(* event loop that reaches the manager is an action; its arguments are any *)
(* the transport can produce, so answers may name any order, come twice,   *)
(* or come after the order was retired.                                    *)
(***************************************************************************)
EXTENDS OrderManagerOps

CONSTANTS
  Quotes,        \* the quotes the strategy may produce
  Positions,     \* the positions the poller may publish
  Limits,        \* values of max_position_dollar; <= 0 is an unusable one
  ClientIds,     \* client ids an answer may carry
  OrderIds,      \* exchange ids an answer may carry; 0 is "not given"
  MaxOrders,     \* bound: client ids handed out
  MaxGen,        \* bound: generations
  MaxRejections, \* bound: the rejection counter
  MaxFails       \* bound: the cancel-failure counter of a slot

ASSUME EnvironmentAssumption ==
  /\ Quotes \subseteq Quote
  /\ Positions \subseteq Int
  /\ Limits \subseteq Int
  /\ ClientIds \subseteq Nat \ {0}
  /\ OrderIds \subseteq Int

VARIABLES
  manager,
  position,    \* SharedPosition's value
  limit,       \* SharedEquity::max_position_dollar
  mid          \* the mid price of the last quote, 0 before the first

vars == <<manager, position, limit, mid>>

(* App::new raises three reasons before any data has arrived.              *)
InitManager ==
  SetPause(SetPause(SetPause(NewManager, "OrderWebSocket"), "MarketData"), "RiskData")

Init ==
  /\ manager = InitManager
  /\ position \in Positions
  /\ limit \in Limits
  /\ mid = 0

InBounds(m) ==
  /\ m.gen <= MaxGen
  /\ m.nextId <= MaxOrders + 1
  /\ m.rejections <= MaxRejections
  /\ \A s \in Slots : m.slots[s].fails <= MaxFails

Become(m) ==
  /\ InBounds(m)
  /\ manager' = m
  /\ UNCHANGED <<position, limit, mid>>

----------------------------------------------------------------------------
(* A valid depth message: MarketData is cleared, the quote is processed and *)
(* its decisions dispatched.  A refused decision is rolled back, and the    *)
(* manager pauses for safety and for reconciliation.                        *)
AfterDispatch(m, refused) ==
  IF refused = {} THEN m
  ELSE EnterReconciliation(TriggerSafety(OnDispatchFailed(m, refused)))

DepthQuote(q, old) ==
  LET r == OnQuote(ClearPause(manager, "MarketData"), q, position, limit, old)
  IN \E refused \in SUBSET {r.out[i] : i \in 1..Len(r.out)} :
       /\ InBounds(r.m)
       /\ InBounds(AfterDispatch(r.m, refused))
       /\ manager' = AfterDispatch(r.m, refused)
       /\ mid' = q.mid
       /\ UNCHANGED <<position, limit>>

(* is_retired_client_id reads the generation from the id.  Here an id no    *)
(* slot holds has lost its generation and is not discarded: its answer is   *)
(* handled, where the code skips it.                                        *)
Discarded(id) ==
  \E s \in Slots : manager.slots[s].id = id /\ IsRetired(manager, manager.slots[s].gen)

Accepted(id, oid) ==
  /\ ~Discarded(id)
  /\ Become(IF CanBind(manager, id, oid) THEN OnAccepted(manager, id, oid)
            ELSE EnterReconciliation(manager))

Rejected(id) ==
  /\ ~Discarded(id)
  /\ Become(OnRejected(manager, id))

Canceled(id, oid) == Become(OnCanceled(manager, id, oid))

(* A fill that matches nothing asks for fresh positions; it and a partial   *)
(* fill start reconciliation.                                               *)
Filled(id, oid, full) ==
  LET matched == FillMatches(manager, id, oid) # {}
  IN Become(IF ~matched THEN EnterReconciliation(RequireRefresh(manager))
            ELSE IF full THEN OnFill(manager, id, oid, TRUE)
            ELSE EnterReconciliation(OnFill(manager, id, oid, FALSE)))

CancelFailed(oid) ==
  LET m == OnCancelFailed(manager, oid)
  IN Become(IF oid = 0 \/ "Reconciliation" \in m.pauses THEN EnterReconciliation(m) ELSE m)

(* check_order_timeouts: cancels for the overdue slots are dispatched; slots *)
(* stay occupied.  Skipped while a reconciliation is pending.               *)
Timeouts(overdue) ==
  LET late == TimedOut(manager, overdue)
      cancels == {CancelOf(manager.slots[s].id) : s \in late}
      AfterRefusal(m, refused) ==
        IF refused = {} THEN m ELSE TriggerSafety(OnDispatchFailed(m, refused))
  IN /\ "Reconciliation" \notin manager.pauses
     /\ late # {}
     /\ \E refused \in SUBSET cancels :
          Become(EnterReconciliation(AfterRefusal(OnTimeouts(manager, overdue), refused)))

(* Executor faults and the open-order checker's safety limit.               *)
Fault == Become(EnterReconciliation(TriggerSafety(manager)))

(* Every other reason to reconcile: ambiguous answers, checker signals,     *)
(* REST identity faults, a tick-size change.                                *)
Reconcile == Become(EnterReconciliation(manager))

TransportLost == Become(EnterReconciliation(SetPause(manager, "OrderWebSocket")))
TransportBack == Become(ClearPause(manager, "OrderWebSocket"))
MarketLost ==
  Become(EnterReconciliation(BeginReconciliation(SetPause(manager, "MarketData"))))

(* update_risk_pauses: `fresh` is equity and position both fresh.           *)
RiskTick(fresh) ==
  LET stale == SetPause(manager, "RiskData")
  IN Become(IF fresh /\ RefreshComplete(manager)
            THEN ClearPause(InitializeBaseline(manager, position), "RiskData")
            ELSE IF ~fresh /\ "RiskData" \notin manager.pauses
            THEN EnterReconciliation(BeginReconciliation(stale))
            ELSE stale)

Cooldown(safetyCooled, breakerCooled) ==
  LET due == SafetyDue(manager, safetyCooled) \/ BreakerDue(manager, breakerCooled)
      spent == SpendCooldowns(manager, safetyCooled, breakerCooled)
  IN Become(IF due THEN EnterReconciliation(spent) ELSE spent)

Reconciled ==
  /\ "Reconciliation" \in manager.pauses
  /\ Become(LeaveReconciliation(manager))

PositionPublished(pos) ==
  /\ manager' = Publish(manager)
  /\ position' = pos
  /\ UNCHANGED <<limit, mid>>

EquityPublished(l) == limit' = l /\ UNCHANGED <<manager, position, mid>>

Stop == ~manager.shutdown /\ Become(ShutdownManager(manager))

Answer ==
  \/ \E id \in ClientIds, oid \in OrderIds :
       \/ Accepted(id, oid)
       \/ Canceled(id, oid)
       \/ \E full \in BOOLEAN : Filled(id, oid, full)
  \/ \E id \in ClientIds : Rejected(id)
  \/ \E oid \in OrderIds : CancelFailed(oid)

Cause == Fault \/ Reconcile \/ TransportLost \/ TransportBack \/ MarketLost

Tick ==
  \/ \E overdue \in SUBSET {s \in Slots : Used(manager, s)} : Timeouts(overdue)
  \/ \E fresh \in BOOLEAN : RiskTick(fresh)
  \/ \E sc, bc \in BOOLEAN : Cooldown(sc, bc)

Next ==
  \/ \E q \in Quotes, old \in SUBSET {s \in Slots : manager.slots[s].state = "Live"} :
       DepthQuote(q, old)
  \/ Answer
  \/ Cause
  \/ Tick
  \/ Reconciled
  \/ \E pos \in Positions : PositionPublished(pos)
  \/ \E l \in Limits : EquityPublished(l)
  \/ Stop

Spec == Init /\ [][Next]_vars

----------------------------------------------------------------------------
(* Type invariant: the manager is a manager whatever events it is given.    *)
TypeOK ==
  /\ manager \in Manager
  /\ position \in Int
  /\ limit \in Int
  /\ mid \in Nat

(* Client ids are spent in order and never given to two slots, so an answer *)
(* or a cancel that names one (find_order, clear_order_by_cl_ord_id) means  *)
(* one order.                                                               *)
ClientIdsUnique ==
  \A s, t \in Slots :
    /\ Used(manager, s) => manager.slots[s].id < manager.nextId
    /\ Used(manager, s) /\ manager.slots[s].id = manager.slots[t].id => s = t

(* An exchange id names at most one slot (the double-binding check of       *)
(* on_order_accepted): otherwise a cancel or a fill that carries only the   *)
(* exchange id would free the wrong order's exposure.                       *)
ExchangeIdsUnique ==
  \A s, t \in Slots :
    manager.slots[s].oid # 0 /\ manager.slots[s].oid = manager.slots[t].oid => s = t

(* Every order still tracked while quoting is paused or shut down belongs   *)
(* to an earlier generation: a decision queued for it can no longer pass    *)
(* ExecutionState::permits, however the reasons are cleared afterwards.     *)
PausedOrdersAreOld ==
  manager.shutdown \/ manager.pauses # {} =>
    \A s \in Slots : Used(manager, s) => manager.slots[s].gen < manager.gen

(* No tracked order counts as retired, so the event loop never discards an  *)
(* answer about an order it still tracks (is_retired_client_id).            *)
TrackedNotRetired ==
  \A s \in Slots : Used(manager, s) => ~IsRetired(manager, manager.slots[s].gen)

(* A fill's position gate is never bypassed: while a publication is owed    *)
(* the RiskData pause is up, whichever other reasons come and go.           *)
FillGateHolds == manager.owed > 0 => "RiskData" \in manager.pauses

(* Once the configured number of rejections has been reached in a row, the  *)
(* breaker pause stays until an acceptance or a verified reconciliation     *)
(* resets the count.                                                        *)
BreakerHolds ==
  BreakerRejections > 0 /\ manager.rejections >= BreakerRejections
    => "CircuitBreaker" \in manager.pauses

(* A slot whose cancel failed MAX_CANCEL_FAILURES times keeps its exposure  *)
(* reserved and holds both the safety and the reconciliation pause until a  *)
(* cleanup is verified.  So says on_cancel_failed itself, and its test; the *)
(* doc of the constant ("before forcefully clearing the slot") is older.    *)
StuckCancelFailsClosed ==
  \A s \in Slots : manager.slots[s].fails >= MaxCancelFailures
    => {"Safety", "Reconciliation"} \subseteq manager.pauses

Placed(s) == manager'.slots[s].id >= manager.nextId

(* An order placed by a quote fits, with everything resting or being        *)
(* canceled on its side, marked at the higher of its price and the mid,     *)
(* into the headroom of the position and limits it was sized from; and it   *)
(* respects the cap on one order's notional.                                *)
ExposureBudget ==
  [][\A s \in Slots : Placed(s) =>
       /\ Mark(manager'.slots[s], mid') + Mark(manager'.slots[OtherLevel(s)], mid')
            <= Headroom(manager, position, limit, mid', s[1])
       /\ MaxOrderDollar # NoCap =>
            manager'.slots[s].qty * manager'.slots[s].price <= MaxOrderDollar]_vars

(* A slot passes from one order to another only through being free: no      *)
(* quote replaces an order whose cancel is unanswered (process_side_level). *)
NeverReplacedInPlace ==
  [][\A s \in Slots :
       Used(manager, s) /\ manager'.slots[s].id # 0
         => manager'.slots[s].id = manager.slots[s].id]_vars

(* A verified reconciliation retires every order it forgets, so a late      *)
(* answer cannot count against the orders placed after it.                  *)
ForgottenOrdersAreRetired ==
  [][\A s \in Slots :
       Used(manager, s) /\ "Reconciliation" \in manager.pauses
                        /\ "Reconciliation" \notin manager'.pauses
         => IsRetired(manager', manager.slots[s].gen)]_vars
=============================================================================
