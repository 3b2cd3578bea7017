------------------------ MODULE OrderManager_proofs ------------------------
(***************************************************************************)
(* Invariants of the order manager for every configuration, every bound    *)
(* and every set of inputs.                                                *)
(***************************************************************************)
EXTENDS OrderManager, OrderManagerOps_proofs

IInv == TypeOK /\ ManagerInv(manager)


LEMMA InitInv == Init => IInv
<1> SUFFICES ASSUME Init PROVE IInv OBVIOUS
<1> DEFINE n == NewManager
<1>1. /\ n \in Manager /\ n.nextId = 1 /\ n.retired = 0 /\ n.gen = 0 /\ n.owed = 0
      /\ \A s \in Slots : n.slots[s].id = 0
  BY FreeSlotType DEF NewManager, Manager
<1>2. ManagerInv(n)
  BY <1>1 DEF ManagerInv, IdsInv, GenInv, GateInv, Used
<1>3. ManagerInv(manager)
  <2> HIDE DEF n
  <2> QED BY <1>2, SetPauseInv DEF Init, InitManager, Reasons, n
<1> QED
  BY <1>3, EnvironmentAssumption DEF Init, IInv, TypeOK, ManagerInv

LEMMA BecomeInv ==
  ASSUME IInv, NEW m, ManagerInv(m), Become(m)
  PROVE  IInv'
BY DEF IInv, TypeOK, Become, ManagerInv, IdsInv, GenInv, GateInv, Used, Stopped

LEMMA DepthQuoteInv ==
  ASSUME IInv, NEW q \in Quotes, NEW old, DepthQuote(q, old)
  PROVE  IInv'
<1> DEFINE r == OnQuote(ClearPause(manager, "MarketData"), q, position, limit, old)
<1>1. ManagerInv(ClearPause(manager, "MarketData"))
  BY ClearPauseInv DEF IInv, Reasons
<1>2. q \in Quote /\ q.mid \in Nat /\ position \in Int /\ limit \in Int
  BY EnvironmentAssumption DEF IInv, TypeOK, Quote
<1>3. ManagerInv(r.m)
  BY <1>1, <1>2, OnQuoteInv
<1>4. PICK refused : manager' = AfterDispatch(r.m, refused)
                     /\ mid' = q.mid /\ UNCHANGED <<position, limit>>
  BY DEF DepthQuote
<1> HIDE DEF r
<1>5. ManagerInv(AfterDispatch(r.m, refused))
  BY <1>3, OnDispatchFailedInv, TriggerSafetyInv, EnterReconciliationInv DEF AfterDispatch
<1> QED
  BY <1>2, <1>4, <1>5
  DEF IInv, TypeOK, ManagerInv, IdsInv, GenInv, GateInv, Used, Stopped

LEMMA AnswerInv ==
  ASSUME IInv, Answer
  PROVE  IInv'
<1> USE DEF IInv
<1>1. ASSUME NEW id \in ClientIds, NEW oid \in OrderIds, Accepted(id, oid) PROVE IInv'
  <2>1. oid \in Int BY EnvironmentAssumption
  <2> QED BY <1>1, <2>1, OnAcceptedInv, EnterReconciliationInv, BecomeInv DEF Accepted
<1>2. ASSUME NEW id \in ClientIds, NEW oid \in OrderIds, Canceled(id, oid) PROVE IInv'
  BY <1>2, OnCanceledInv, BecomeInv DEF Canceled
<1>3. ASSUME NEW id \in ClientIds, NEW oid \in OrderIds, NEW full \in BOOLEAN,
             Filled(id, oid, full)
      PROVE IInv'
  BY <1>3, OnFillInv, RequireRefreshInv, EnterReconciliationInv, BecomeInv DEF Filled
<1>4. ASSUME NEW id \in ClientIds, Rejected(id) PROVE IInv'
  BY <1>4, OnRejectedInv, BecomeInv DEF Rejected
<1>5. ASSUME NEW oid \in OrderIds, CancelFailed(oid) PROVE IInv'
  BY <1>5, OnCancelFailedInv, EnterReconciliationInv, BecomeInv DEF CancelFailed
<1> QED
  BY <1>1, <1>2, <1>3, <1>4, <1>5 DEF Answer

LEMMA TickInv ==
  ASSUME IInv, Tick
  PROVE  IInv'
<1> USE DEF IInv
<1>1. ASSUME NEW overdue, Timeouts(overdue) PROVE IInv'
  <2> DEFINE m == OnTimeouts(manager, overdue)
  <2>1. ManagerInv(m) BY OnTimeoutsInv
  <2>2. \A refused : ManagerInv(TriggerSafety(OnDispatchFailed(m, refused)))
    <3> HIDE DEF m
    <3> QED BY <2>1, OnDispatchFailedInv, TriggerSafetyInv
  <2>3. PICK refused :
           Become(EnterReconciliation(
             IF refused = {} THEN m ELSE TriggerSafety(OnDispatchFailed(m, refused))))
    BY <1>1 DEF Timeouts
  <2> HIDE DEF m
  <2> QED BY <2>1, <2>2, <2>3, EnterReconciliationInv, BecomeInv
<1>2. ASSUME NEW fresh \in BOOLEAN, RiskTick(fresh) PROVE IInv'
  <2> DEFINE stale == SetPause(manager, "RiskData")
             ready == InitializeBaseline(manager, position)
  <2>1. ManagerInv(stale) BY SetPauseInv DEF Reasons
  <2>2. ManagerInv(EnterReconciliation(BeginReconciliation(stale)))
    <3> HIDE DEF stale
    <3> QED BY <2>1, SetPauseInv, EnterReconciliationInv DEF BeginReconciliation, Reasons
  <2>3. ManagerInv(ready) /\ ready.owed = manager.owed
    BY InitializeBaselineInv DEF TypeOK
  <2>4. RefreshComplete(manager) => ManagerInv(ClearPause(ready, "RiskData"))
    <3> HIDE DEF ready
    <3> QED BY <2>3, ClearPauseInv DEF RefreshComplete, Reasons
  <2>5. \/ RefreshComplete(manager) /\ Become(ClearPause(ready, "RiskData"))
        \/ Become(EnterReconciliation(BeginReconciliation(stale)))
        \/ Become(stale)
    BY <1>2 DEF RiskTick
  <2> HIDE DEF stale, ready
  <2> QED BY <2>1, <2>2, <2>4, <2>5, BecomeInv
<1>3. ASSUME NEW sc \in BOOLEAN, NEW bc \in BOOLEAN, Cooldown(sc, bc) PROVE IInv'
  BY <1>3, SpendCooldownsInv, EnterReconciliationInv, BecomeInv DEF Cooldown
<1> QED
  BY <1>1, <1>2, <1>3 DEF Tick

LEMMA CauseInv ==
  ASSUME IInv, Cause
  PROVE  IInv'
<1> USE DEF IInv
<1>1. CASE Fault BY <1>1, TriggerSafetyInv, EnterReconciliationInv, BecomeInv DEF Fault
<1>2. CASE Reconcile BY <1>2, EnterReconciliationInv, BecomeInv DEF Reconcile
<1>3. CASE TransportLost
  BY <1>3, SetPauseInv, EnterReconciliationInv, BecomeInv DEF TransportLost, Reasons
<1>4. CASE TransportBack
  BY <1>4, ClearPauseInv, BecomeInv DEF TransportBack, Reasons
<1>5. CASE MarketLost
  BY <1>5, SetPauseInv, EnterReconciliationInv, BecomeInv
  DEF MarketLost, BeginReconciliation, Reasons
<1> QED BY <1>1, <1>2, <1>3, <1>4, <1>5 DEF Cause

LEMMA NextInv == IInv /\ [Next]_vars => IInv'
<1> SUFFICES ASSUME IInv, [Next]_vars PROVE IInv' OBVIOUS
<1>1. ASSUME NEW q \in Quotes, NEW old, DepthQuote(q, old) PROVE IInv'
  BY <1>1, DepthQuoteInv
<1>2. CASE Reconciled
  BY <1>2, LeaveReconciliationInv, BecomeInv DEF Reconciled, IInv
<1>3. ASSUME NEW pos \in Positions, PositionPublished(pos) PROVE IInv'
  <2>1. ManagerInv(Publish(manager)) BY PublishInv DEF IInv
  <2>2. pos \in Int BY EnvironmentAssumption
  <2> QED
    BY <1>3, <2>1, <2>2
    DEF PositionPublished, IInv, TypeOK, ManagerInv, IdsInv, GenInv, GateInv, Used, Stopped
<1>4. ASSUME NEW l \in Limits, EquityPublished(l) PROVE IInv'
  BY <1>4, EnvironmentAssumption
  DEF EquityPublished, IInv, TypeOK, ManagerInv, IdsInv, GenInv, GateInv, Used, Stopped
<1>5. CASE Stop
  BY <1>5, ShutdownInv, BecomeInv DEF Stop, IInv
<1>6. CASE UNCHANGED vars
  BY <1>6 DEF vars, IInv, TypeOK, ManagerInv, IdsInv, GenInv, GateInv, Used, Stopped
<1> QED
  BY <1>1, <1>2, <1>3, <1>4, <1>5, <1>6, AnswerInv, TickInv, CauseInv DEF Next

(* Every reachable state satisfies the inductive invariant.                 *)
THEOREM Invariant == Spec => []IInv
<1> QED BY InitInv, NextInv, PTL DEF Spec

(* Whatever events arrive in whatever order, order_manager.rs keeps its     *)
(* slots, counters and pause reasons within their types.                    *)
THEOREM TypeCorrect == Spec => []TypeOK
<1>1. IInv => TypeOK BY DEF IInv
<1> QED BY <1>1, Invariant, PTL

(* generate_cl_ord_id never gives one client id to two tracked orders.      *)
THEOREM ClientIdsAreUnique == Spec => []ClientIdsUnique
<1>1. IInv => ClientIdsUnique BY DEF IInv, ManagerInv, IdsInv, ClientIdsUnique
<1> QED BY <1>1, Invariant, PTL

(* A decision for an order tracked while any pause reason is up fails       *)
(* ExecutionState::permits from then on: set_pause_reason advanced the      *)
(* generation past the one the decision carries.                            *)
THEOREM PausesOutdateOrders == Spec => []PausedOrdersAreOld
<1>1. IInv => PausedOrdersAreOld
  BY DEF IInv, ManagerInv, GenInv, PausedOrdersAreOld, Stopped
<1> QED BY <1>1, Invariant, PTL

(* No answer about a tracked order is discarded as retired.                 *)
THEOREM TrackedOrdersAreHeard == Spec => []TrackedNotRetired
<1>1. IInv => TrackedNotRetired
  <2> SUFFICES ASSUME IInv, NEW s \in Slots, Used(manager, s)
               PROVE  ~IsRetired(manager, manager.slots[s].gen)
    BY DEF TrackedNotRetired
  <2>1. manager.retired \in Nat /\ manager.slots[s].gen \in Nat
    BY ManagerTypes, OrderTypes DEF IInv, TypeOK
  <2>2. manager.retired <= manager.slots[s].gen BY DEF IInv, ManagerInv, GenInv
  <2> QED BY <2>1, <2>2 DEF IsRetired
<1> QED BY <1>1, Invariant, PTL

(* The position gate of a fill cannot be bypassed by any other pause.       *)
THEOREM FillGateIsKept == Spec => []FillGateHolds
<1>1. IInv => FillGateHolds BY DEF IInv, ManagerInv, GateInv, FillGateHolds
<1> QED BY <1>1, Invariant, PTL

----------------------------------------------------------------------------
(* The latches, and what a single step may do to the orders                 *)

Latching == IInv /\ SafeInv(manager)

(* What a depth message does while nothing stops it: it quotes from the     *)
(* manager with the market data pause cleared, and rolls back what the      *)
(* dispatch refused.                                                        *)
Requotes ==
  \E k \in Manager : \E r :
    /\ k.slots = manager.slots /\ k.nextId = manager.nextId
    /\ k.baseline = manager.baseline
    /\ manager.pauses \cap Latched \subseteq k.pauses
    /\ Placing(k, r) /\ Fitted(k, r, position, limit, mid')
    /\ Holds(r.m, manager')

(* Every step keeps the tracked orders or frees them, places by a quote, or *)
(* forgets them all at the end of a reconciliation.                         *)
Transition ==
  \/ Holds(manager, manager')
  \/ Requotes
  \/ "Reconciliation" \in manager.pauses /\ manager' = LeaveReconciliation(manager)

LEMMA InitSafe == Init => SafeInv(manager)
<1> SUFFICES ASSUME Init PROVE SafeInv(manager) OBVIOUS
<1> DEFINE n == NewManager
           n1 == SetPause(n, "OrderWebSocket")
           n2 == SetPause(n1, "MarketData")
<1>1. n \in Manager BY FreeSlotType DEF NewManager, Manager
<1>2. /\ \A s \in Slots : n.slots[s].oid = 0 /\ n.slots[s].fails = 0 /\ n.slots[s].qty = 0
      /\ n.rejections = 0
  BY FreeSlotBare DEF NewManager
<1>3. manager = SetPause(n2, "RiskData") BY DEF Init, InitManager
<1> HIDE DEF n
<1>4. SafeInv(n)
  BY <1>1, <1>2, ConfigAssumption
  DEF SafeInv, BareInv, BoundInv, BreakerInv, StuckInv, MaxCancelFailures
<1>5. SafeInv(n1) BY <1>1, <1>4, SetPauseFrame, FrameSafe DEF Reasons
<1>6. n1 \in Manager BY <1>5 DEF SafeInv
<1> HIDE DEF n1
<1>7. SafeInv(n2) BY <1>5, <1>6, SetPauseFrame, FrameSafe DEF Reasons
<1>8. n2 \in Manager BY <1>7 DEF SafeInv
<1> HIDE DEF n2
<1> QED BY <1>3, <1>7, <1>8, SetPauseFrame, FrameSafe DEF Reasons

LEMMA ManagerSafe ==
  ASSUME NEW m, SafeInv(m), manager' = m
  PROVE  SafeInv(manager)'
BY DEF SafeInv, BareInv, BoundInv, BreakerInv, StuckInv, Used

(* One operator after another: a frame on top of what already holds.        *)
LEMMA FrameChain ==
  ASSUME NEW k, NEW m, NEW n, SafeInv(m), Holds(k, m), Frame(m, n)
  PROVE  SafeInv(n) /\ Holds(k, n) /\ n \in Manager
<1>1. SafeInv(n) BY FrameSafe
<1>2. Holds(k, n) BY HoldsTrans DEF Frame
<1> QED BY <1>1, <1>2 DEF SafeInv

LEMMA HoldsRefl ==
  ASSUME NEW m \in Manager
  PROVE  Holds(m, m)
BY DEF Holds

LEMMA BecomeSafe ==
  ASSUME NEW m, SafeInv(m), Holds(manager, m), Become(m)
  PROVE  SafeInv(manager)' /\ Transition
<1>1. manager' = m BY DEF Become
<1> QED BY <1>1, ManagerSafe DEF Transition

(* What EnterReconciliation makes of a manager reached safely.              *)
LEMMA EnterSafe ==
  ASSUME NEW k, NEW m, SafeInv(m), Holds(k, m)
  PROVE  SafeInv(EnterReconciliation(m)) /\ Holds(k, EnterReconciliation(m))
<1>1. m \in Manager BY DEF SafeInv
<1> QED BY <1>1, EnterReconciliationFrame, FrameChain

LEMMA DepthQuoteSafe ==
  ASSUME Latching, NEW q \in Quotes, NEW old, DepthQuote(q, old)
  PROVE  SafeInv(manager)' /\ Transition
<1> DEFINE k == ClearPause(manager, "MarketData")
           r == OnQuote(k, q, position, limit, old)
           p == SetPause(k, "RiskData")
<1>1. manager \in Manager /\ SafeInv(manager) BY DEF Latching, SafeInv
<1>2. /\ k \in Manager /\ k.slots = manager.slots /\ k.nextId = manager.nextId
      /\ k.baseline = manager.baseline /\ k.pauses = manager.pauses \ {"MarketData"}
  BY <1>1, ClearPauseEffect DEF SameOrders
<1>3. k.nextId > 0 /\ IdsInv(k)
  BY <1>2 DEF Latching, IInv, ManagerInv, IdsInv, Used
<1>4. Frame(manager, k) BY <1>1, ClearPauseFrame DEF Latched
<1>5. SafeInv(k) /\ Holds(manager, k) BY <1>1, <1>4, FrameSafe DEF Frame
<1>6. q \in Quote /\ position \in Int /\ limit \in Int
  BY EnvironmentAssumption DEF Latching, IInv, TypeOK
<1>7. PICK refused : manager' = AfterDispatch(r.m, refused) /\ mid' = q.mid
  BY DEF DepthQuote
<1>8. /\ p \in Manager /\ p.slots = k.slots /\ p.nextId = k.nextId /\ Frame(k, p)
  BY <1>2, SetPauseEffect, SetPauseFrame DEF SameOrders, Reasons
<1> HIDE DEF k
<1>9. \/ ~Stopped(k) /\ Placing(k, r) /\ Fitted(k, r, position, limit, q.mid)
      \/ Placing(p, r) /\ r.m.nextId = k.nextId
      \/ r.m = k
  BY <1>2, <1>3, <1>6, OnQuotePlaces
<1>10. SafeInv(p) /\ Holds(manager, p) BY <1>5, <1>8, FrameChain
<1> HIDE DEF r, p
<1>11. SafeInv(r.m)
  BY <1>3, <1>5, <1>8, <1>9, <1>10, PlacingSafe
<1>12. /\ SafeInv(AfterDispatch(r.m, refused))
       /\ Holds(r.m, AfterDispatch(r.m, refused))
  <2> DEFINE d == OnDispatchFailed(r.m, refused)
             t == TriggerSafety(d)
  <2>1. r.m \in Manager /\ Holds(r.m, r.m) BY <1>11, HoldsRefl DEF SafeInv
  <2>2. SafeInv(d) /\ Holds(r.m, d) /\ d \in Manager
    BY <1>11, <2>1, OnDispatchFailedFrame, FrameChain
  <2> HIDE DEF d
  <2>3. SafeInv(t) /\ Holds(r.m, t)
    BY <2>2, TriggerSafetyFrame, FrameChain
  <2> HIDE DEF t
  <2>4. SafeInv(EnterReconciliation(t)) /\ Holds(r.m, EnterReconciliation(t))
    BY <2>3, EnterSafe
  <2> QED BY <1>11, <2>1, <2>4 DEF AfterDispatch, d, t
<1>13. SafeInv(manager)' BY <1>7, <1>12, ManagerSafe
<1>14. Holds(r.m, manager') BY <1>7, <1>12
<1>15. CASE Placing(k, r) /\ Fitted(k, r, position, limit, q.mid)
  <2>1. manager.pauses \cap Latched \subseteq k.pauses BY <1>2 DEF Latched
  <2>2. Fitted(k, r, position, limit, mid') BY <1>7, <1>15
  <2> QED BY <1>2, <1>13, <1>14, <1>15, <2>1, <2>2 DEF Transition, Requotes
<1>16. CASE Placing(p, r) /\ r.m.nextId = k.nextId
  <2>1. Holds(p, r.m) BY <1>8, <1>16, PlacingNoneHolds
  <2>2. Holds(manager, manager') BY <1>10, <1>14, <2>1, HoldsTrans
  <2> QED BY <1>13, <2>2 DEF Transition
<1>17. CASE r.m = k
  <2>1. Holds(manager, manager') BY <1>5, <1>14, <1>17, HoldsTrans
  <2> QED BY <1>13, <2>1 DEF Transition
<1> QED BY <1>9, <1>15, <1>16, <1>17

LEMMA AnswerSafe ==
  ASSUME Latching, Answer
  PROVE  SafeInv(manager)' /\ Transition
<1>1. manager \in Manager /\ SafeInv(manager) /\ IdsInv(manager) /\ Holds(manager, manager)
  BY HoldsRefl DEF Latching, SafeInv, IInv, ManagerInv
<1>2. ASSUME NEW id \in ClientIds, NEW oid \in OrderIds, Accepted(id, oid)
      PROVE  SafeInv(manager)' /\ Transition
  <2>1. oid \in Int BY EnvironmentAssumption
  <2>2. SafeInv(OnAccepted(manager, id, oid)) /\ Holds(manager, OnAccepted(manager, id, oid))
    BY <1>1, <2>1, OnAcceptedSafe
  <2> QED BY <1>1, <1>2, <2>2, EnterSafe, BecomeSafe DEF Accepted
<1>3. ASSUME NEW id \in ClientIds, NEW oid \in OrderIds, Canceled(id, oid)
      PROVE  SafeInv(manager)' /\ Transition
  BY <1>1, <1>3, OnCanceledFrame, FrameChain, BecomeSafe DEF Canceled
<1>4. ASSUME NEW id \in ClientIds, NEW oid \in OrderIds, NEW full \in BOOLEAN,
             Filled(id, oid, full)
      PROVE  SafeInv(manager)' /\ Transition
  <2> DEFINE f == OnFill(manager, id, oid, full)
             r == RequireRefresh(manager)
  <2>1. SafeInv(f) /\ Holds(manager, f) BY <1>1, OnFillFrame, FrameChain
  <2>2. SafeInv(r) /\ Holds(manager, r) BY <1>1, RequireRefreshFrame, FrameChain
  <2>3. \/ Become(EnterReconciliation(r))
        \/ Become(f)
        \/ Become(EnterReconciliation(f))
    BY <1>4 DEF Filled
  <2> HIDE DEF f, r
  <2> QED BY <2>1, <2>2, <2>3, EnterSafe, BecomeSafe
<1>5. ASSUME NEW id \in ClientIds, Rejected(id)
      PROVE  SafeInv(manager)' /\ Transition
  BY <1>1, <1>5, OnRejectedSafe, BecomeSafe DEF Rejected
<1>6. ASSUME NEW oid \in OrderIds, CancelFailed(oid)
      PROVE  SafeInv(manager)' /\ Transition
  BY <1>1, <1>6, OnCancelFailedSafe, EnterSafe, BecomeSafe DEF CancelFailed
<1> QED BY <1>2, <1>3, <1>4, <1>5, <1>6 DEF Answer

LEMMA TickSafe ==
  ASSUME Latching, Tick
  PROVE  SafeInv(manager)' /\ Transition
<1>1. manager \in Manager /\ SafeInv(manager) /\ Holds(manager, manager)
  BY HoldsRefl DEF Latching, SafeInv
<1>2. ASSUME NEW overdue, Timeouts(overdue)
      PROVE  SafeInv(manager)' /\ Transition
  <2> DEFINE m == OnTimeouts(manager, overdue)
  <2>1. SafeInv(m) /\ Holds(manager, m) /\ m \in Manager
    BY <1>1, OnTimeoutsFrame, FrameChain
  <2>2. PICK refused :
           Become(EnterReconciliation(
             IF refused = {} THEN m ELSE TriggerSafety(OnDispatchFailed(m, refused))))
    BY <1>2 DEF Timeouts
  <2> DEFINE d == OnDispatchFailed(m, refused)
             t == TriggerSafety(d)
  <2> HIDE DEF m
  <2>3. SafeInv(d) /\ Holds(manager, d) /\ d \in Manager
    BY <2>1, OnDispatchFailedFrame, FrameChain
  <2> HIDE DEF d
  <2>4. SafeInv(t) /\ Holds(manager, t) BY <2>3, TriggerSafetyFrame, FrameChain
  <2>5. Become(EnterReconciliation(m)) \/ Become(EnterReconciliation(t)) BY <2>2 DEF d
  <2> HIDE DEF t
  <2> QED BY <2>1, <2>4, <2>5, EnterSafe, BecomeSafe
<1>3. ASSUME NEW fresh \in BOOLEAN, RiskTick(fresh)
      PROVE  SafeInv(manager)' /\ Transition
  <2> DEFINE stale == SetPause(manager, "RiskData")
             ready == InitializeBaseline(manager, position)
             begun == SetPause(stale, "Reconciliation")
             go == ClearPause(ready, "RiskData")
  <2>1. SafeInv(stale) /\ Holds(manager, stale) /\ stale \in Manager
    BY <1>1, SetPauseFrame, FrameChain DEF Reasons
  <2>2. position \in Int BY DEF Latching, IInv, TypeOK
  <2>3. SafeInv(ready) /\ Holds(manager, ready) /\ ready \in Manager
    BY <1>1, <2>2, InitializeBaselineFrame, FrameChain
  <2>4. \/ Become(go) \/ Become(EnterReconciliation(begun)) \/ Become(stale)
    BY <1>3 DEF RiskTick, BeginReconciliation
  <2> HIDE DEF stale, ready
  <2>5. SafeInv(begun) /\ Holds(manager, begun)
    BY <2>1, SetPauseFrame, FrameChain DEF Reasons
  <2>6. SafeInv(go) /\ Holds(manager, go)
    BY <2>3, ClearPauseFrame, FrameChain DEF Latched
  <2> HIDE DEF begun, go
  <2> QED BY <2>1, <2>4, <2>5, <2>6, EnterSafe, BecomeSafe
<1>4. ASSUME NEW sc \in BOOLEAN, NEW bc \in BOOLEAN, Cooldown(sc, bc)
      PROVE  SafeInv(manager)' /\ Transition
  <2> DEFINE n == SpendCooldowns(manager, sc, bc)
  <2>1. SafeInv(n) /\ Holds(manager, n) BY <1>1, SpendCooldownsFrame, FrameChain
  <2>2. Become(n) \/ Become(EnterReconciliation(n)) BY <1>4 DEF Cooldown
  <2> HIDE DEF n
  <2> QED BY <2>1, <2>2, EnterSafe, BecomeSafe
<1> QED BY <1>2, <1>3, <1>4 DEF Tick

LEMMA CauseSafe ==
  ASSUME Latching, Cause
  PROVE  SafeInv(manager)' /\ Transition
<1>1. manager \in Manager /\ SafeInv(manager) /\ Holds(manager, manager)
  BY HoldsRefl DEF Latching, SafeInv
<1>2. CASE Fault
  BY <1>1, <1>2, TriggerSafetyFrame, FrameChain, EnterSafe, BecomeSafe DEF Fault
<1>3. CASE Reconcile
  BY <1>1, <1>3, EnterSafe, BecomeSafe DEF Reconcile
<1>4. CASE TransportLost
  BY <1>1, <1>4, SetPauseFrame, FrameChain, EnterSafe, BecomeSafe DEF TransportLost, Reasons
<1>5. CASE TransportBack
  BY <1>1, <1>5, ClearPauseFrame, FrameChain, BecomeSafe DEF TransportBack, Latched
<1>6. CASE MarketLost
  <2> DEFINE lost == SetPause(manager, "MarketData")
             begun == SetPause(lost, "Reconciliation")
  <2>1. SafeInv(lost) /\ Holds(manager, lost) /\ lost \in Manager
    BY <1>1, SetPauseFrame, FrameChain DEF Reasons
  <2>2. Become(EnterReconciliation(begun)) BY <1>6 DEF MarketLost, BeginReconciliation
  <2> HIDE DEF lost
  <2>3. SafeInv(begun) /\ Holds(manager, begun)
    BY <2>1, SetPauseFrame, FrameChain DEF Reasons
  <2> HIDE DEF begun
  <2> QED BY <2>2, <2>3, EnterSafe, BecomeSafe
<1> QED BY <1>2, <1>3, <1>4, <1>5, <1>6 DEF Cause

LEMMA NextSafe == Latching /\ [Next]_vars => SafeInv(manager)' /\ Transition
<1> SUFFICES ASSUME Latching, [Next]_vars PROVE SafeInv(manager)' /\ Transition OBVIOUS
<1>1. manager \in Manager /\ SafeInv(manager) /\ Holds(manager, manager)
  BY HoldsRefl DEF Latching, SafeInv
<1>2. ASSUME NEW q \in Quotes, NEW old, DepthQuote(q, old)
      PROVE  SafeInv(manager)' /\ Transition
  BY <1>2, DepthQuoteSafe
<1>3. CASE Reconciled
  <2>1. manager' = LeaveReconciliation(manager) /\ "Reconciliation" \in manager.pauses
    BY <1>3 DEF Reconciled, Become
  <2>2. SafeInv(LeaveReconciliation(manager)) BY <1>1, LeaveReconciliationSafe
  <2> QED BY <2>1, <2>2, ManagerSafe DEF Transition
<1>4. ASSUME NEW pos \in Positions, PositionPublished(pos)
      PROVE  SafeInv(manager)' /\ Transition
  <2>1. SafeInv(Publish(manager)) /\ Holds(manager, Publish(manager))
    BY <1>1, PublishFrame, FrameChain
  <2>2. manager' = Publish(manager) BY <1>4 DEF PositionPublished
  <2> QED BY <2>1, <2>2, ManagerSafe DEF Transition
<1>5. CASE UNCHANGED manager
  BY <1>1, <1>5, ManagerSafe DEF Transition
<1>6. CASE Stop
  BY <1>1, <1>6, ShutdownFrame, FrameChain, BecomeSafe DEF Stop
<1> QED
  BY <1>2, <1>3, <1>4, <1>5, <1>6, AnswerSafe, TickSafe, CauseSafe
  DEF Next, EquityPublished, vars

LEMMA LatchingInvariant == Spec => []Latching
<1>1. Init => Latching BY InitInv, InitSafe DEF Latching
<1>2. Latching /\ [Next]_vars => Latching'
  BY NextInv, NextSafe DEF Latching
<1> QED BY <1>1, <1>2, PTL DEF Spec

(* No sequence of acceptances, however they are repeated or crossed, binds  *)
(* one exchange id to two slots: on_order_accepted refuses the second.      *)
THEOREM ExchangeIdsAreUnique == Spec => []ExchangeIdsUnique
<1>1. Latching => ExchangeIdsUnique
  BY DEF Latching, SafeInv, BoundInv, ExchangeIdsUnique
<1> QED BY <1>1, LatchingInvariant, PTL

(* The breaker's pause outlives every event that leaves the rejection count *)
(* at its limit.                                                            *)
THEOREM BreakerIsHeld == Spec => []BreakerHolds
<1>1. Latching => BreakerHolds
  BY DEF Latching, SafeInv, BreakerInv, BreakerHolds
<1> QED BY <1>1, LatchingInvariant, PTL

(* A slot whose cancel failed too often keeps the safety and reconciliation *)
(* pauses up until it is freed or a cleanup forgets it.                     *)
THEOREM StuckCancelsFailClosed == Spec => []StuckCancelFailsClosed
<1>1. Latching => StuckCancelFailsClosed
  BY DEF Latching, SafeInv, StuckInv, StuckCancelFailsClosed
<1> QED BY <1>1, LatchingInvariant, PTL

LEMMA TransitionFacts ==
  ASSUME Latching, Transition
  PROVE  /\ \A s \in Slots : Used(manager, s) /\ manager'.slots[s].id # 0
              => manager'.slots[s].id = manager.slots[s].id
         /\ \A s \in Slots :
              Used(manager, s) /\ "Reconciliation" \in manager.pauses
                               /\ "Reconciliation" \notin manager'.pauses
                => IsRetired(manager', manager.slots[s].gen)
<1>1. CASE Holds(manager, manager') BY <1>1 DEF Holds, Latched
<1>2. CASE Requotes
  BY <1>2 DEF Requotes, Placing, Holds, SameButState, Latched, Used
<1>3. CASE "Reconciliation" \in manager.pauses /\ manager' = LeaveReconciliation(manager)
  <2>1. manager \in Manager /\ GenInv(manager)
    BY DEF Latching, IInv, ManagerInv
  <2>2. /\ LeaveReconciliation(manager).retired >= manager.gen
        /\ LeaveReconciliation(manager).retired \in Nat
        /\ \A s \in Slots : manager'.slots[s].id = 0
    BY <1>3, <2>1, LeaveReconciliationSafe, FreeSlotBare, ManagerTypes DEF SafeInv
  <2>3. ASSUME NEW s \in Slots, Used(manager, s)
        PROVE  IsRetired(manager', manager.slots[s].gen)
    <3>1. manager.slots[s].gen < manager.gen
      BY <1>3, <2>1, <2>3 DEF GenInv, Stopped
    <3>2. manager.slots[s].gen \in Nat /\ manager.gen \in Nat
      BY <2>1, ManagerTypes, OrderTypes
    <3> QED BY <1>3, <2>2, <3>1, <3>2 DEF IsRetired
  <2> QED BY <2>2, <2>3
<1> QED BY <1>1, <1>2, <1>3 DEF Transition

(* No event puts another order into an occupied slot: process_side_level    *)
(* waits for the cancel's answer.                                           *)
THEOREM OrdersLeaveBeforeOthers == Spec => NeverReplacedInPlace
<1>1. Latching /\ [Next]_vars =>
        [\A s \in Slots : Used(manager, s) /\ manager'.slots[s].id # 0
           => manager'.slots[s].id = manager.slots[s].id]_vars
  BY NextSafe, TransitionFacts
<1> QED BY <1>1, LatchingInvariant, PTL DEF Spec, NeverReplacedInPlace

(* Every order that finish_reconcile forgets was given its id before the    *)
(* generation it retires, so is_retired_client_id drops its late answers.   *)
THEOREM ReconciliationRetires == Spec => ForgottenOrdersAreRetired
<1>1. Latching /\ [Next]_vars =>
        [\A s \in Slots :
           Used(manager, s) /\ "Reconciliation" \in manager.pauses
                            /\ "Reconciliation" \notin manager'.pauses
             => IsRetired(manager', manager.slots[s].gen)]_vars
  BY NextSafe, TransitionFacts
<1> QED BY <1>1, LatchingInvariant, PTL DEF Spec, ForgottenOrdersAreRetired

LEMMA BudgetFacts ==
  ASSUME Latching, Transition, mid' \in Nat, NEW s \in Slots, Placed(s)
  PROVE  /\ Mark(manager'.slots[s], mid') + Mark(manager'.slots[OtherLevel(s)], mid')
              <= Headroom(manager, position, limit, mid', s[1])
         /\ MaxOrderDollar # NoCap =>
              manager'.slots[s].qty * manager'.slots[s].price <= MaxOrderDollar
<1> DEFINE u == OtherLevel(s)
<1>1. u \in Slots BY OtherLevelSlot
<1>2. /\ manager \in Manager /\ manager.nextId \in Nat /\ manager.nextId > 0
      /\ \A t \in Slots : manager.slots[t].id \in Nat
      /\ \A t \in Slots : Used(manager, t) => manager.slots[t].id < manager.nextId
  BY ManagerTypes, OrderTypes DEF Latching, IInv, ManagerInv, IdsInv
<1>3. ~Holds(manager, manager')
  BY <1>2 DEF Placed, Holds, Used
<1>4. ~("Reconciliation" \in manager.pauses /\ manager' = LeaveReconciliation(manager))
  BY <1>2, LeaveReconciliationSafe, FreeSlotBare DEF Placed
<1>5. PICK k \in Manager : \E r :
        /\ k.slots = manager.slots /\ k.nextId = manager.nextId
        /\ k.baseline = manager.baseline
        /\ Placing(k, r) /\ Fitted(k, r, position, limit, mid') /\ Holds(r.m, manager')
  BY <1>3, <1>4 DEF Transition, Requotes
<1>5a. PICK r :
        /\ k.slots = manager.slots /\ k.nextId = manager.nextId
        /\ k.baseline = manager.baseline
        /\ Placing(k, r) /\ Fitted(k, r, position, limit, mid') /\ Holds(r.m, manager')
  BY <1>5
<1>6. /\ r.m \in Manager /\ manager' \in Manager
      /\ r.m.slots[s] \in Order /\ r.m.slots[u] \in Order
      /\ manager'.slots[s] \in Order /\ manager'.slots[u] \in Order
  BY <1>1, <1>5a, ManagerTypes DEF Placing, Holds
<1>7. /\ manager'.slots[s].id = r.m.slots[s].id
      /\ manager'.slots[s].price = r.m.slots[s].price
      /\ manager'.slots[s].qty = r.m.slots[s].qty
  BY <1>2, <1>5a DEF Placed, Holds
<1>8. \/ manager'.slots[u].qty = 0
      \/ /\ manager'.slots[u].price = r.m.slots[u].price
         /\ manager'.slots[u].qty = r.m.slots[u].qty
  BY <1>1, <1>5a DEF Holds
<1>9. /\ Mark(r.m.slots[s], mid') + Mark(r.m.slots[u], mid')
           <= Headroom(k, position, limit, mid', s[1])
      /\ MaxOrderDollar # NoCap => r.m.slots[s].qty * r.m.slots[s].price <= MaxOrderDollar
  BY <1>5a, <1>7 DEF Placed, Fitted
<1>10. Headroom(k, position, limit, mid', s[1]) = Headroom(manager, position, limit, mid', s[1])
  BY <1>5a DEF Headroom
<1>11. Mark(manager'.slots[s], mid') = Mark(r.m.slots[s], mid') BY <1>7 DEF Mark
<1>12. /\ Mark(r.m.slots[s], mid') \in Nat /\ Mark(r.m.slots[u], mid') \in Nat
       /\ Mark(manager'.slots[u], mid') \in Nat
  BY <1>6, MarkType
<1>13. Mark(manager'.slots[u], mid') <= Mark(r.m.slots[u], mid')
  <2>1. CASE manager'.slots[u].qty = 0
    <3>1. manager'.slots[u].price \in Nat BY <1>6, OrderTypes
    <3>2. MaxOf(manager'.slots[u].price, mid') \in Nat BY <3>1 DEF MaxOf
    <3>3. Mark(manager'.slots[u], mid') = 0 BY <2>1, <3>2 DEF Mark
    <3> QED BY <1>12, <3>3
  <2>2. CASE manager'.slots[u].price = r.m.slots[u].price
             /\ manager'.slots[u].qty = r.m.slots[u].qty
    BY <1>12, <2>2 DEF Mark
  <2> QED BY <1>8, <2>1, <2>2
<1>14. Headroom(manager, position, limit, mid', s[1]) \in Int
  BY <1>2, HeadroomType DEF Latching, IInv, TypeOK
<1> QED
  <2> DEFINE a == Mark(r.m.slots[s], mid')
             b == Mark(r.m.slots[u], mid')
             c == Mark(manager'.slots[u], mid')
             h == Headroom(manager, position, limit, mid', s[1])
  <2>1. /\ a \in Nat /\ b \in Nat /\ c \in Nat /\ h \in Int
        /\ a + b <= h /\ c <= b
    BY <1>9, <1>10, <1>12, <1>13, <1>14
  <2> HIDE DEF a, b, c, h
  <2>2. a + c <= h BY <2>1
  <2>3. Mark(manager'.slots[s], mid') + Mark(manager'.slots[u], mid') <= h
    BY <1>11, <2>2 DEF a, c
  <2> QED BY <1>7, <1>9, <2>3 DEF h

(* Sizing, reserving and rolling back together keep to the budget: whatever *)
(* rests or is being canceled on a side, whatever the dispatch refuses, an  *)
(* order placed by a quote fits with it into the headroom.                  *)
THEOREM OrdersFitTheBudget == Spec => ExposureBudget
<1>1. Latching /\ [Next]_vars =>
        [\A s \in Slots : Placed(s) =>
           /\ Mark(manager'.slots[s], mid') + Mark(manager'.slots[OtherLevel(s)], mid')
                <= Headroom(manager, position, limit, mid', s[1])
           /\ MaxOrderDollar # NoCap =>
                manager'.slots[s].qty * manager'.slots[s].price <= MaxOrderDollar]_vars
  <2>1. Latching /\ [Next]_vars => mid' \in Nat
    BY NextInv DEF Latching, IInv, TypeOK
  <2> QED BY <2>1, NextSafe, BudgetFacts
<1> QED BY <1>1, LatchingInvariant, PTL DEF Spec, ExposureBudget

(* A market that stands still is left alone: in whatever state events have  *)
(* brought the manager, a quote that finds nothing to cancel asks, once     *)
(* its orders are confirmed, for nothing more, however often it comes back  *)
(* with the same position and limit.  The two levels of a side share one    *)
(* headroom, so that the second pass sizes the first level from what the    *)
(* second has left of it, and still finds what the first pass found.  A     *)
(* threshold of 0 would replace every order at every quote.                 *)
THEOREM QuotesSettle ==
  ASSUME RepriceBps > 0
  PROVE  Spec => []QuoteSettles(ClearPause(manager, "MarketData"))
<1>1. Latching => QuoteSettles(ClearPause(manager, "MarketData"))
  <2> SUFFICES ASSUME Latching PROVE QuoteSettles(ClearPause(manager, "MarketData"))
    OBVIOUS
  <2>1. PICK m : m = ClearPause(manager, "MarketData") OBVIOUS
  <2>2. SafeInv(manager) /\ manager \in Manager /\ manager.nextId > 0
    BY DEF Latching, IInv, ManagerInv
  <2>3. SafeInv(m)
    BY <2>1, <2>2, ClearPauseFrame, FrameSafe DEF Latched, Reasons
  <2>4. m.nextId > 0 BY <2>1, <2>2 DEF ClearPause, Manager
  <2>5. QuoteSettles(m) BY <2>3, <2>4, QuoteSettlesHolds
  <2> QED BY <2>1, <2>5
<1> QED BY <1>1, LatchingInvariant, PTL
=============================================================================
