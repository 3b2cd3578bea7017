--------------------------- MODULE Trading_proofs ---------------------------
(***************************************************************************)
(* Invariants of the trading loop for every configuration, every number of *)
(* orders, every channel capacity and every failure of the environment,    *)
(* and its implementation of the ledger of exposure.                       *)
(*                                                                         *)
(* First what the handlers of the event loop do, as functions on the loop  *)
(* record; then the tasks, action by action.                               *)
(***************************************************************************)
EXTENDS Trading, OrderManagerOps_proofs

----------------------------------------------------------------------------
(* Sequences                                                                *)

LEMMA AppendFacts ==
  ASSUME NEW S, NEW q \in Seq(S), NEW e \in S
  PROVE  /\ Append(q, e) \in Seq(S) /\ Len(Append(q, e)) = Len(q) + 1
         /\ Len(q) \in Nat /\ Append(q, e) # << >>
         /\ \A i \in 1..(Len(q) + 1) :
              Append(q, e)[i] = IF i = Len(q) + 1 THEN e ELSE q[i]
OBVIOUS

LEMMA TailFacts ==
  ASSUME NEW S, NEW q \in Seq(S), q # << >>
  PROVE  /\ Tail(q) \in Seq(S) /\ Len(q) \in Nat /\ Len(q) > 0
         /\ Len(Tail(q)) = Len(q) - 1 /\ Head(q) = q[1] /\ q[1] \in S
         /\ \A i \in 1..(Len(q) - 1) : i + 1 \in 1..Len(q) /\ Tail(q)[i] = q[i + 1]
OBVIOUS

LEMMA ElementFacts ==
  ASSUME NEW S, NEW q \in Seq(S), NEW i \in 1..Len(q)
  PROVE  q[i] \in S /\ Len(q) \in Nat
OBVIOUS

LEMMA EmptyFacts ==
  ASSUME NEW S, NEW q \in Seq(S)
  PROVE  /\ << >> \in Seq(S) /\ Len(<< >>) = 0
         /\ Len(q) \in Nat /\ (Len(q) = 0 <=> q = << >>)
OBVIOUS

----------------------------------------------------------------------------
(* What a handler may do to the manager: no order is placed, only the       *)
(* orders in D may be freed, and the generation advances with the first     *)
(* reason to stop.                                                          *)

Armed(m) ==
  /\ "Safety" \in m.pauses => m.safetyArmed
  /\ "CircuitBreaker" \in m.pauses => m.breakerArmed

(* Client ids double as exchange ids.                                       *)
OidInv(m) == \A s \in Slots : m.slots[s].oid \in {0, m.slots[s].id}

Shift(m, n, D) ==
  /\ n \in Manager
  /\ n.nextId = m.nextId /\ n.retired = m.retired /\ n.gen >= m.gen
  /\ Stopped(n) => Stopped(m) \/ n.gen > m.gen
  /\ "Reconciliation" \in m.pauses => "Reconciliation" \in n.pauses
  /\ \A s \in Slots :
       \/ /\ n.slots[s].id = m.slots[s].id
          /\ n.slots[s].oid \in {m.slots[s].oid, m.slots[s].id}
       \/ n.slots[s].id = 0 /\ n.slots[s].oid = 0 /\ m.slots[s].id \in D

(* It raises none of the pauses whose way out lies outside the manager, and *)
(* leaves an armed cooldown behind with each of the other two.              *)
Quiet(m, n) ==
  /\ n.pauses \cap {"OrderWebSocket", "Reconciliation"} \subseteq m.pauses
  /\ Armed(m) => Armed(n)

LEMMA TrackedFacts ==
  ASSUME NEW m, NEW id
  PROVE  id \in TrackedIds(m) <=> \E s \in Slots : Used(m, s) /\ m.slots[s].id = id
BY DEF TrackedIds

LEMMA RaisesShift ==
  ASSUME NEW m \in Manager, NEW n, NEW rs, SameOrders(m, n), Raises(m, n, rs)
  PROVE  Shift(m, n, {})
BY ManagerTypes DEF SameOrders, Raises, Shift, Stopped

LEMMA SetPauseShift ==
  ASSUME NEW m \in Manager, NEW r \in Reasons
  PROVE  /\ Shift(m, SetPause(m, r), {})
         /\ SetPause(m, r).pauses = m.pauses \cup {r}
         /\ r \in {"MarketData", "RiskData"} => Quiet(m, SetPause(m, r))
         /\ r \notin {"Safety", "CircuitBreaker"} => (Armed(m) => Armed(SetPause(m, r)))
<1>1. Shift(m, SetPause(m, r), {}) BY SetPauseEffect, RaisesShift
<1>2. SetPause(m, r).pauses = m.pauses \cup {r} BY SetPauseEffect DEF Raises
<1> QED BY <1>1, <1>2, SetPauseEffect DEF Quiet, Armed

LEMMA ClearPauseShift ==
  ASSUME NEW m \in Manager, NEW r, r # "Reconciliation"
  PROVE  /\ Shift(m, ClearPause(m, r), {}) /\ Quiet(m, ClearPause(m, r))
         /\ r \notin ClearPause(m, r).pauses
<1>1. Shift(m, ClearPause(m, r), {})
  BY ClearPauseEffect, ManagerTypes DEF Shift, SameOrders, Stopped
<1> QED BY <1>1, ClearPauseEffect DEF Quiet, Armed

LEMMA RequireRefreshShift ==
  ASSUME NEW m \in Manager
  PROVE  Shift(m, RequireRefresh(m), {}) /\ Quiet(m, RequireRefresh(m))
<1>1. Shift(m, RequireRefresh(m), {}) BY RequireRefreshEffect, RaisesShift
<1> QED BY <1>1, RequireRefreshEffect DEF Quiet, Armed, Raises

LEMMA TriggerSafetyShift ==
  ASSUME NEW m \in Manager
  PROVE  Shift(m, TriggerSafety(m), {}) /\ Quiet(m, TriggerSafety(m))
<1>1. Shift(m, TriggerSafety(m), {}) BY TriggerSafetyEffect, RaisesShift
<1> QED BY <1>1, TriggerSafetyEffect DEF Quiet, Armed, Raises

LEMMA EnterReconciliationShift ==
  ASSUME NEW m \in Manager
  PROVE  /\ Shift(m, EnterReconciliation(m), {})
         /\ "Reconciliation" \in EnterReconciliation(m).pauses
         /\ "OrderWebSocket" \in EnterReconciliation(m).pauses => "OrderWebSocket" \in m.pauses
<1>1. CASE EnterReconciliation(m) = m /\ "Reconciliation" \in m.pauses
  BY <1>1, ManagerTypes DEF Shift
<1>2. CASE Raises(m, EnterReconciliation(m), {"RiskData", "Reconciliation"})
  BY <1>2, EnterReconciliationEffect, RaisesShift DEF Raises
<1> QED BY <1>1, <1>2, EnterReconciliationEffect

LEMMA CountersShift ==
  ASSUME NEW m \in Manager, NEW n \in Manager,
         n.slots = m.slots, n.nextId = m.nextId, n.retired = m.retired,
         n.pauses = m.pauses, n.shutdown = m.shutdown, n.gen = m.gen
  PROVE  Shift(m, n, {})
BY ManagerTypes DEF Shift, Stopped

LEMMA PublishShift ==
  ASSUME NEW m \in Manager
  PROVE  Shift(m, Publish(m), {}) /\ Quiet(m, Publish(m))
<1> DEFINE n == Publish(m)
<1>1. (IF m.owed = 0 THEN 0 ELSE m.owed - 1) \in 0..2 BY ManagerTypes
<1>2. n = [m EXCEPT !.owed = IF m.owed = 0 THEN 0 ELSE m.owed - 1] BY DEF Publish
<1>3. /\ n \in Manager /\ n.slots = m.slots /\ n.nextId = m.nextId /\ n.retired = m.retired
      /\ n.pauses = m.pauses /\ n.shutdown = m.shutdown /\ n.gen = m.gen
      /\ n.safetyArmed = m.safetyArmed /\ n.breakerArmed = m.breakerArmed
  BY <1>1, <1>2 DEF Manager
<1> HIDE DEF n
<1>4. Shift(m, n, {}) /\ Quiet(m, n) BY <1>3, CountersShift DEF Quiet, Armed
<1> QED BY <1>4 DEF n

LEMMA InitializeBaselineShift ==
  ASSUME NEW m \in Manager, NEW p \in Int
  PROVE  Shift(m, InitializeBaseline(m, p), {}) /\ Quiet(m, InitializeBaseline(m, p))
<1> DEFINE n == InitializeBaseline(m, p)
<1>1. /\ n \in Manager /\ n.slots = m.slots /\ n.nextId = m.nextId /\ n.retired = m.retired
      /\ n.pauses = m.pauses /\ n.shutdown = m.shutdown /\ n.gen = m.gen
      /\ n.safetyArmed = m.safetyArmed /\ n.breakerArmed = m.breakerArmed
  BY DEF InitializeBaseline, Manager
<1> HIDE DEF n
<1>2. Shift(m, n, {}) /\ Quiet(m, n) BY <1>1, CountersShift DEF Quiet, Armed
<1> QED BY <1>2 DEF n

(* A cooldown that is not due stays armed.                                  *)
LEMMA SpendCooldownsShift ==
  ASSUME NEW m \in Manager, NEW sc \in BOOLEAN, NEW bc \in BOOLEAN
  PROVE  /\ Shift(m, SpendCooldowns(m, sc, bc), {})
         /\ SpendCooldowns(m, sc, bc).pauses = m.pauses
         /\ ~(SafetyDue(m, sc) \/ BreakerDue(m, bc)) => Quiet(m, SpendCooldowns(m, sc, bc))
<1> DEFINE sa == m.safetyArmed /\ ~SafetyDue(m, sc)
           ba == m.breakerArmed /\ ~BreakerDue(m, bc)
           n == [m EXCEPT !.safetyArmed = sa, !.breakerArmed = ba]
<1>1. sa \in BOOLEAN /\ ba \in BOOLEAN OBVIOUS
<1>2. SpendCooldowns(m, sc, bc) = n BY DEF SpendCooldowns
<1> HIDE DEF sa, ba
<1>3. /\ n \in Manager /\ n.slots = m.slots /\ n.nextId = m.nextId /\ n.retired = m.retired
      /\ n.pauses = m.pauses /\ n.shutdown = m.shutdown /\ n.gen = m.gen
      /\ n.safetyArmed = sa /\ n.breakerArmed = ba
  BY <1>1 DEF Manager
<1> HIDE DEF n
<1>4. Shift(m, n, {}) BY <1>3, CountersShift
<1>5. ~(SafetyDue(m, sc) \/ BreakerDue(m, bc)) => Quiet(m, n)
  BY <1>3 DEF Quiet, Armed, sa, ba
<1> QED BY <1>2, <1>3, <1>4, <1>5

LEMMA ShiftTrans ==
  ASSUME NEW m \in Manager, NEW n, NEW k, NEW D, NEW E, Shift(m, n, D), Shift(n, k, E)
  PROVE  Shift(m, k, D \cup E)
<1>1. m.gen \in Nat /\ n.gen \in Nat /\ k.gen \in Nat BY ManagerTypes DEF Shift
<1> QED BY <1>1 DEF Shift

LEMMA QuietTrans ==
  ASSUME NEW m, NEW n, NEW k, Quiet(m, n), Quiet(n, k)
  PROVE  Quiet(m, k)
BY DEF Quiet

LEMMA ShiftOid ==
  ASSUME NEW m, NEW n, NEW D, OidInv(m), Shift(m, n, D)
  PROVE  OidInv(n)
BY DEF OidInv, Shift

LEMMA SlotsShift ==
  ASSUME NEW m \in Manager, NEW D, NEW f \in [Slots -> Order],
         \A s \in Slots :
           \/ f[s].id = m.slots[s].id /\ f[s].oid \in {m.slots[s].oid, m.slots[s].id}
           \/ f[s] = FreeSlot /\ m.slots[s].id \in D
  PROVE  /\ [m EXCEPT !.slots = f] \in Manager
         /\ Shift(m, [m EXCEPT !.slots = f], D) /\ Quiet(m, [m EXCEPT !.slots = f])
<1> DEFINE n == [m EXCEPT !.slots = f]
<1>1. /\ n \in Manager /\ n.slots = f /\ n.nextId = m.nextId /\ n.retired = m.retired
      /\ n.pauses = m.pauses /\ n.shutdown = m.shutdown /\ n.gen = m.gen
      /\ n.safetyArmed = m.safetyArmed /\ n.breakerArmed = m.breakerArmed
  BY DEF Manager
<1> HIDE DEF n
<1>2. Shift(m, n, D)
  BY <1>1, ManagerTypes, FreeSlotBare DEF Shift, Stopped
<1>3. Quiet(m, n) BY <1>1 DEF Quiet, Armed
<1> QED BY <1>1, <1>2, <1>3 DEF n

LEMMA FreeIdShift ==
  ASSUME NEW m \in Manager, NEW id
  PROVE  /\ FreeId(m, id) \in Manager
         /\ Shift(m, FreeId(m, id), {id}) /\ Quiet(m, FreeId(m, id))
<1> DEFINE f == [s \in Slots |-> IF m.slots[s].id = id THEN FreeSlot ELSE m.slots[s]]
<1>1. f \in [Slots -> Order] BY ManagerTypes, FreeSlotBare
<1>2. FreeId(m, id) = [m EXCEPT !.slots = f] BY DEF FreeId
<1>3. \A s \in Slots : \/ f[s] = FreeSlot /\ m.slots[s].id = id
                       \/ f[s] = m.slots[s]
  OBVIOUS
<1> HIDE DEF f
<1> QED BY <1>1, <1>2, <1>3, SlotsShift

(* A rejection frees its order; the breaker leaves with an armed cooldown.  *)
LEMMA OnRejectedShift ==
  ASSUME NEW m \in Manager, NEW id
  PROVE  Shift(m, OnRejected(m, id), {id}) /\ Quiet(m, OnRejected(m, id))
<1> DEFINE k == FreeId(m, id)
           n == [k EXCEPT !.rejections = @ + 1]
           p == SetPause(n, "CircuitBreaker")
           a == [p EXCEPT !.breakerArmed = TRUE]
<1>1. k \in Manager /\ Shift(m, k, {id}) /\ Quiet(m, k) BY FreeIdShift
<1>2. k.rejections + 1 \in Nat BY <1>1, ManagerTypes
<1>3. OnRejected(m, id) =
        IF BreakerRejections > 0 /\ n.rejections >= BreakerRejections THEN a ELSE n
  BY DEF OnRejected, TripBreaker
<1> HIDE DEF k
<1>4. /\ n \in Manager /\ n.slots = k.slots /\ n.nextId = k.nextId /\ n.retired = k.retired
      /\ n.pauses = k.pauses /\ n.shutdown = k.shutdown /\ n.gen = k.gen
      /\ n.safetyArmed = k.safetyArmed /\ n.breakerArmed = k.breakerArmed
  BY <1>1, <1>2 DEF Manager
<1> HIDE DEF n
<1>5. Shift(k, n, {}) /\ Quiet(k, n) BY <1>1, <1>4, CountersShift DEF Quiet, Armed
<1>6. /\ p \in Manager /\ Shift(n, p, {}) /\ p.pauses = n.pauses \cup {"CircuitBreaker"}
      /\ p.safetyArmed = n.safetyArmed
  BY <1>4, SetPauseShift, SetPauseEffect DEF Shift, Reasons
<1> HIDE DEF p
<1>7. /\ a \in Manager /\ a.slots = p.slots /\ a.nextId = p.nextId /\ a.retired = p.retired
      /\ a.pauses = p.pauses /\ a.shutdown = p.shutdown /\ a.gen = p.gen
      /\ a.safetyArmed = p.safetyArmed /\ a.breakerArmed
  BY <1>6 DEF Manager
<1> HIDE DEF a
<1>8. Shift(p, a, {}) BY <1>6, <1>7, CountersShift
<1>9. Quiet(n, a) BY <1>6, <1>7 DEF Quiet, Armed
<1>10. {id} \cup {} = {id} OBVIOUS
<1>11. Shift(m, n, {id}) BY <1>1, <1>5, <1>10, ShiftTrans
<1>12. Shift(m, p, {id}) BY <1>6, <1>10, <1>11, ShiftTrans
<1>13. Shift(m, a, {id}) BY <1>8, <1>10, <1>12, ShiftTrans
<1>14. Quiet(m, n) /\ Quiet(m, a) BY <1>1, <1>5, <1>9, QuietTrans
<1> QED BY <1>3, <1>11, <1>13, <1>14

LEMMA OnCanceledShift ==
  ASSUME NEW m \in Manager, NEW id
  PROVE  Shift(m, OnCanceled(m, id, 0), {id}) /\ Quiet(m, OnCanceled(m, id, 0))
<1> DEFINE f == [s \in Slots |-> IF 0 # 0 /\ m.slots[s].oid = 0 THEN FreeSlot ELSE m.slots[s]]
<1>1. f \in [Slots -> Order] /\ \A s \in Slots : f[s] = m.slots[s] BY ManagerTypes
<1>2. OnCanceledByOid(m, 0) = [m EXCEPT !.slots = f] BY DEF OnCanceledByOid
<1> HIDE DEF f
<1>3. Shift(m, OnCanceledByOid(m, 0), {id}) /\ Quiet(m, OnCanceledByOid(m, 0))
  BY <1>1, <1>2, SlotsShift
<1> QED BY <1>3, FreeIdShift DEF OnCanceled, OnCanceledById

LEMMA OnAcceptedShift ==
  ASSUME NEW m \in Manager, NEW id
  PROVE  Shift(m, OnAccepted(m, id, 0), {}) /\ Quiet(m, OnAccepted(m, id, 0))
<1> DEFINE f == [s \in Slots |->
                   IF m.slots[s].id # id THEN m.slots[s]
                   ELSE [m.slots[s] EXCEPT
                          !.oid = IF 0 = 0 THEN @ ELSE 0,
                          !.state = IF @ = "Pending" THEN "Live" ELSE @]]
           k == [m EXCEPT !.rejections = 0]
           n == [k EXCEPT !.slots = f]
<1>1. \A s \in Slots : f[s] \in Order /\ f[s].id = m.slots[s].id /\ f[s].oid = m.slots[s].oid
  <2> SUFFICES ASSUME NEW s \in Slots
               PROVE  f[s] \in Order /\ f[s].id = m.slots[s].id /\ f[s].oid = m.slots[s].oid
    OBVIOUS
  <2>1. m.slots[s] \in Order BY ManagerTypes
  <2> QED BY <2>1 DEF Order
<1>2. f \in [Slots -> Order] BY <1>1
<1>3. OnAccepted(m, id, 0) \in {m, n} BY DEF OnAccepted
<1> HIDE DEF f
<1>4. /\ k \in Manager /\ k.slots = m.slots /\ k.nextId = m.nextId /\ k.retired = m.retired
      /\ k.pauses = m.pauses /\ k.shutdown = m.shutdown /\ k.gen = m.gen
      /\ k.safetyArmed = m.safetyArmed /\ k.breakerArmed = m.breakerArmed
  BY DEF Manager
<1> HIDE DEF k
<1>5. Shift(m, k, {}) /\ Quiet(m, k) BY <1>4, CountersShift DEF Quiet, Armed
<1>6. Shift(k, n, {}) /\ Quiet(k, n) BY <1>1, <1>2, <1>4, SlotsShift
<1> HIDE DEF n
<1>7. {} \cup {} = {} OBVIOUS
<1>8. Shift(m, n, {}) BY <1>5, <1>6, <1>7, ShiftTrans
<1>9. Quiet(m, n) BY <1>5, <1>6, QuietTrans
<1>10. Shift(m, m, {}) /\ Quiet(m, m) BY CountersShift DEF Quiet
<1> QED BY <1>3, <1>8, <1>9, <1>10

(* A full fill frees the one order it names; every fill gates the quoting.  *)
LEMMA OnFillShift ==
  ASSUME NEW m \in Manager, IdsInv(m), OidInv(m), NEW id, id # 0, NEW full \in BOOLEAN
  PROVE  /\ Shift(m, OnFill(m, id, id, full), IF full THEN {id} ELSE {})
         /\ Quiet(m, OnFill(m, id, id, full))
<1> DEFINE hit == FillMatches(m, id, id)
           first == CHOOSE s \in hit : \A t \in hit : ScanIndex(s) <= ScanIndex(t)
           k == RequireRefresh(m)
           f == [k.slots EXCEPT ![first] = FreeSlot]
           n == [k EXCEPT !.slots = f]
           D == IF full THEN {id} ELSE {}
<1>1. /\ k \in Manager /\ k.slots = m.slots /\ Shift(m, k, {}) /\ Quiet(m, k)
      /\ k.slots \in [Slots -> Order]
  BY RequireRefreshShift, RequireRefreshEffect, ManagerTypes DEF SameOrders
<1>2. \A s \in hit : s \in Slots /\ m.slots[s].id = id
  BY DEF FillMatches, OidInv, Used
<1>3. hit # {} => first \in hit
  <2> SUFFICES ASSUME NEW s \in hit PROVE first \in hit OBVIOUS
  <2>1. \A t \in hit : t = s BY <1>2 DEF IdsInv, FillMatches
  <2>2. ScanIndex(s) \in Int BY <1>2 DEF ScanIndex, Slots, Levels, Sides
  <2>3. \A t \in hit : ScanIndex(s) <= ScanIndex(t) BY <2>1, <2>2
  <2> HIDE DEF hit
  <2> QED BY <2>3
<1>4. /\ f \in [Slots -> Order]
      /\ hit # {} => \A s \in Slots : \/ f[s] = FreeSlot /\ k.slots[s].id = id
                                      \/ f[s] = k.slots[s]
  <2> HIDE DEF first, k, hit
  <2> QED BY <1>1, <1>2, <1>3, FreeSlotBare
<1>5. [k EXCEPT !.slots[first] = FreeSlot] = n
  <2> HIDE DEF first, k
  <2> QED BY <1>1 DEF Manager
<1>6. OnFill(m, id, id, full) =
        IF hit = {} THEN m ELSE IF full THEN [k EXCEPT !.slots[first] = FreeSlot] ELSE k
  BY DEF OnFill
<1> HIDE DEF f, k, first, hit
<1>7. Shift(m, m, D) /\ Shift(m, k, D) /\ Quiet(m, m)
  <2>1. Shift(m, m, {}) BY CountersShift
  <2> QED BY <1>1, <2>1 DEF Quiet, Shift
<1>8. hit # {} => Shift(k, n, {id}) /\ Quiet(k, n)
  BY <1>1, <1>4, SlotsShift
<1> HIDE DEF n
<1>9. {} \cup {id} = {id} OBVIOUS
<1>10. hit # {} => Shift(m, n, {id}) /\ Quiet(m, n)
  BY <1>1, <1>8, <1>9, ShiftTrans, QuietTrans
<1> QED BY <1>1, <1>5, <1>6, <1>7, <1>10

(* A correlated cancel failure names no exchange id and changes no slot.    *)
LEMMA OnCancelFailedShift ==
  ASSUME NEW m \in Manager
  PROVE  Shift(m, OnCancelFailed(m, 0), {}) /\ Quiet(m, OnCancelFailed(m, 0))
<1> DEFINE hit == CancelFailures(m, 0)
           f == [s \in Slots |->
              IF s \notin hit THEN m.slots[s]
              ELSE [m.slots[s] EXCEPT
                     !.fails = @ + 1,
                     !.state = IF m.slots[s].fails + 1 >= MaxCancelFailures
                               THEN "Canceling" ELSE "Live"]]
           n == [m EXCEPT !.slots = f]
<1>1. hit = {} BY DEF CancelFailures
<1>2. OnCancelFailed(m, 0) = n BY <1>1 DEF OnCancelFailed
<1>3. f \in [Slots -> Order] /\ \A s \in Slots : f[s] = m.slots[s]
  <2> HIDE DEF hit
  <2> QED BY <1>1, ManagerTypes
<1> HIDE DEF f
<1> QED BY <1>2, <1>3, SlotsShift

(* Refused sends are freed.                                                 *)
LEMMA OnDispatchFailedShift ==
  ASSUME NEW m \in Manager, NEW refused, NEW D,
         \A d \in refused : d.kind = "Send" => d.id \in D
  PROVE  Shift(m, OnDispatchFailed(m, refused), D) /\ Quiet(m, OnDispatchFailed(m, refused))
<1> DEFINE Named(s, k) == Used(m, s) /\ [kind |-> k, id |-> m.slots[s].id] \in refused
           f == [s \in Slots |->
                  IF Named(s, "Send") THEN FreeSlot
                  ELSE IF Named(s, "Cancel") \/ Named(s, "Replace")
                  THEN [m.slots[s] EXCEPT !.state = "Live"]
                  ELSE m.slots[s]]
<1>1. \A s \in Slots :
         /\ f[s] \in Order
         /\ \/ f[s].id = m.slots[s].id /\ f[s].oid = m.slots[s].oid
            \/ f[s] = FreeSlot /\ m.slots[s].id \in D
  <2> SUFFICES ASSUME NEW s \in Slots
               PROVE  /\ f[s] \in Order
                      /\ \/ f[s].id = m.slots[s].id /\ f[s].oid = m.slots[s].oid
                         \/ f[s] = FreeSlot /\ m.slots[s].id \in D
    OBVIOUS
  <2>1. m.slots[s] \in Order BY ManagerTypes
  <2>2. Named(s, "Send") => m.slots[s].id \in D
    <3> DEFINE d == [kind |-> "Send", id |-> m.slots[s].id]
    <3>1. d.kind = "Send" /\ d.id = m.slots[s].id OBVIOUS
    <3> HIDE DEF d
    <3>2. Named(s, "Send") => d \in refused BY DEF d
    <3> QED BY <3>1, <3>2
  <2>3. [m.slots[s] EXCEPT !.state = "Live"] \in Order
        /\ [m.slots[s] EXCEPT !.state = "Live"].id = m.slots[s].id
        /\ [m.slots[s] EXCEPT !.state = "Live"].oid = m.slots[s].oid
    BY <2>1 DEF Order
  <2> HIDE DEF Named
  <2> QED BY <2>1, <2>2, <2>3, FreeSlotBare
<1>2. f \in [Slots -> Order] BY <1>1
<1>3. OnDispatchFailed(m, refused) = [m EXCEPT !.slots = f] BY DEF OnDispatchFailed
<1> HIDE DEF f
<1> QED BY <1>1, <1>2, <1>3, SlotsShift

(* A snapshot binds exchange ids and promotes; it frees nothing.            *)
LEMMA PromoteShift ==
  ASSUME NEW m \in Manager, NEW ids
  PROVE  /\ Shift(m, Promote(m, ids), {}) /\ Quiet(m, Promote(m, ids))
         /\ ManagerInv(m) => ManagerInv(Promote(m, ids))
<1> DEFINE f == [s \in Slots |->
                   IF m.slots[s].id \notin ids THEN m.slots[s]
                   ELSE [m.slots[s] EXCEPT !.oid = m.slots[s].id,
                           !.state = IF @ = "Pending" THEN "Live" ELSE @]]
           c == IF ids = {} THEN m.rejections ELSE 0
           k == [m EXCEPT !.rejections = c]
           n == [k EXCEPT !.slots = f]
<1>1. \A s \in Slots : /\ f[s] \in Order /\ f[s].id = m.slots[s].id /\ f[s].gen = m.slots[s].gen
                       /\ f[s].oid \in {m.slots[s].oid, m.slots[s].id}
  <2> SUFFICES ASSUME NEW s \in Slots
               PROVE  /\ f[s] \in Order /\ f[s].id = m.slots[s].id /\ f[s].gen = m.slots[s].gen
                      /\ f[s].oid \in {m.slots[s].oid, m.slots[s].id}
    OBVIOUS
  <2> DEFINE o == m.slots[s]
             st == IF o.state = "Pending" THEN "Live" ELSE o.state
             p == [o EXCEPT !.oid = o.id, !.state = st]
  <2>1. o \in Order BY ManagerTypes
  <2>2. o.id \in Int /\ st \in {"Free", "Pending", "Live", "Canceling"}
    BY <2>1, OrderTypes
  <2>3. f[s] = IF o.id \notin ids THEN o ELSE p OBVIOUS
  <2> HIDE DEF o, st
  <2>4. p \in Order /\ p.id = o.id /\ p.gen = o.gen /\ p.oid = o.id
    BY <2>1, <2>2 DEF Order
  <2> HIDE DEF p, f
  <2> QED BY <2>1, <2>3, <2>4 DEF o
<1>2. f \in [Slots -> Order] BY <1>1
<1>3. c \in Nat BY ManagerTypes
<1>4. Promote(m, ids) = n BY DEF Promote
<1> HIDE DEF f, c
<1>5. /\ k \in Manager /\ k.slots = m.slots /\ k.nextId = m.nextId /\ k.retired = m.retired
      /\ k.pauses = m.pauses /\ k.shutdown = m.shutdown /\ k.gen = m.gen /\ k.owed = m.owed
      /\ k.safetyArmed = m.safetyArmed /\ k.breakerArmed = m.breakerArmed
  BY <1>3 DEF Manager
<1> HIDE DEF k
<1>6. Shift(m, k, {}) /\ Quiet(m, k) BY <1>5, CountersShift DEF Quiet, Armed
<1>7. ManagerInv(m) => ManagerInv(k) BY <1>5, CountersInv
<1>8. Shift(k, n, {}) /\ Quiet(k, n) BY <1>1, <1>2, <1>5, SlotsShift
<1>9. ManagerInv(k) => ManagerInv(n) BY <1>1, <1>2, <1>5, SlotsInv
<1> HIDE DEF n
<1>10. {} \cup {} = {} OBVIOUS
<1> QED BY <1>4, <1>6, <1>7, <1>8, <1>9, <1>10, ShiftTrans, QuietTrans

----------------------------------------------------------------------------
(* The inductive invariant: what holds of the loop record b, whatever part  *)
(* of a handler has run, beside the state of the other tasks.               *)

LoopType ==
  [m: Manager, pending: BOOLEAN, recGen: Nat, queue: Seq(DecisionQueued),
   requests: Seq(Nat), snap: [polled: BOOLEAN, open: SUBSET Ids],
   newReqs: SUBSET Ids, cancelReqs: SUBSET Ids]

Submitting == exec.pc \in {"lock", "sign", "insert", "write"}
Committed == exec.pc \in {"insert", "write"}

(* A send on its way from the manager to the wire: its order has not been   *)
(* to the exchange, and while its generation can still pass the permission  *)
(* check, a slot accounts for it.                                           *)
SendOK(m, id, g) ==
  /\ id \in Ids /\ id < m.nextId /\ ex[id] = "none"
  /\ g \in Nat /\ g <= m.gen
  /\ Stopped(m) => g < m.gen
  /\ g >= m.retired => id \in TrackedIds(m)

IsSend(q, i) == i \in 1..Len(q) /\ q[i].kind = "Send"

(* Every order is sent at most once, and one past the last permission check *)
(* is tracked.                                                              *)
SendsInv(b) ==
  /\ \A i \in 1..Len(b.queue) :
       IsSend(b.queue, i) => SendOK(b.m, b.queue[i].id, b.queue[i].gen)
  /\ \A i, j \in 1..Len(b.queue) :
       IsSend(b.queue, i) /\ IsSend(b.queue, j) /\ b.queue[i].id = b.queue[j].id => i = j
  /\ Submitting =>
       /\ SendOK(b.m, exec.id, exec.gen)
       /\ \A i \in 1..Len(b.queue) : IsSend(b.queue, i) => b.queue[i].id # exec.id
  /\ Committed => exec.id \in TrackedIds(b.m)

(* Exposure is tracked, unresolved submissions are known to the request     *)
(* correlation, identities are handed out in order, and a snapshot shows    *)
(* only what the exchange has received.                                     *)
ExposureInv(b) ==
  /\ Exposed \subseteq TrackedIds(b.m)
  /\ \A id \in Ids : ex[id] = "wire" => id \in b.newReqs
  /\ exec.pc = "write" => exec.id \in b.newReqs
  /\ \A id \in Ids : id >= b.m.nextId => ex[id] = "none"
  /\ \A id \in b.snap.open : ex[id] \in {"open", "done"}

(* Settled, or verified, means that no submission is unresolved.            *)
SettledInv(b) ==
  (worker.pc \in {"cancel", "verify"} /\ worker.settled) \/ results # << >> \/ verified
    => b.newReqs = {}

(* w: the transport pause has its way out.                                  *)
LoopInv(b, w) ==
  /\ b \in LoopType /\ Len(b.queue) <= QueueCap
  /\ ManagerInv(b.m) /\ OidInv(b.m) /\ b.m.nextId <= MaxOrders + 1
  /\ SendsInv(b) /\ ExposureInv(b) /\ SettledInv(b)
  /\ "OrderWebSocket" \in b.m.pauses => w

(* The reconciliation pause is owned by one request, worker or result.      *)
Owned(b) ==
  /\ Len(b.requests) + Len(results) + (IF worker.pc = "idle" THEN 0 ELSE 1)
       = (IF b.pending THEN 1 ELSE 0)
  /\ b.pending => "Reconciliation" \in b.m.pauses
  /\ b.requests # << >> => b.requests[Len(b.requests)] = b.recGen
  /\ worker.pc # "idle" => worker.gen = b.recGen
  /\ results # << >> => Head(results) = b.recGen

(* What holds only between handlers.                                        *)
Rests(b) ==
  /\ "Reconciliation" \in b.m.pauses => b.pending
  /\ b.pending \/ Armed(b.m)

----------------------------------------------------------------------------
(* The other tasks                                                          *)

Transport ==
  conn # "up" \/ \E i \in 1..Len(events) : events[i].kind = "authenticated"

(* The transport pause has its way out; nobody waits for one once the loop  *)
(* is gone.                                                                 *)
Way == main # "loop" \/ Transport

Ending == {"rejected", "canceled", "filled"}

(* An answer that ends an order is about one that has ended, and after a    *)
(* disconnection is announced the socket is down or announces its return.   *)
AnswersInv ==
  /\ \A i \in 1..Len(events) :
       /\ events[i].kind \in EventKinds
       /\ events[i].kind \in Ending => events[i].id \in Ids /\ ex[events[i].id] = "done"
       /\ events[i].kind \in {"accepted", "partial"} => events[i].id \in Ids
       /\ events[i].kind = "disconnected" =>
            conn # "up" \/ \E j \in 1..Len(events) : j > i /\ events[j].kind = "authenticated"
  /\ \A r \in resp :
       /\ r.kind \in ResponseKinds
       /\ r.kind \in Ending => ex[r.id] = "done"
       /\ r.kind = "accepted" => ex[r.id] \in {"open", "done"}

(* The submission mutex, and the order a cancel names.                      *)
LockInv ==
  /\ exec.pc = "cancel" => exec.id \in Ids
  /\ lock = "exec" <=> exec.pc \in {"sign", "insert", "write"}
  /\ lock = "cleanup" <=> worker.pc \in {"query", "resolve", "cancel", "verify"}

(* A verdict is given of an account that is empty, with no submission under *)
(* way; and the main task shuts down in order.                              *)
VerdictInv ==
  /\ results # << >> => main = "loop" /\ Exposed = {} /\ ~Committed
  /\ verified => main = "exit" /\ Exposed = {}
  /\ main = "loop" => attempts = 0
  /\ main # "loop" => events = << >>
  /\ main = "shutdown" => attempts < MaxAttempts
  /\ main = "exit" => worker.pc = "idle"

Inv ==
  /\ TypeOK
  /\ LoopInv(Loop, Way)
  /\ main = "loop" => Owned(Loop) /\ Rests(Loop)
  /\ AnswersInv /\ LockInv /\ VerdictInv

----------------------------------------------------------------------------
(* The steps handlers are made of                                           *)

(* What the tracked orders may have become since the handler began: some    *)
(* forgotten, or some new ones placed.                                      *)
Ledgered(b) ==
  \/ b.m.nextId = mgr.nextId /\ TrackedIds(b.m) \subseteq TrackedIds(mgr)
  \/ /\ mgr.nextId < b.m.nextId
     /\ \A id \in TrackedIds(mgr) : id < mgr.nextId /\ id \in TrackedIds(b.m)
     /\ \A id \in TrackedIds(b.m) : id \in TrackedIds(mgr) \/ id >= mgr.nextId

Chain(b, w) == LoopInv(b, w) /\ Owned(b) /\ Ledgered(b)

(* Orders that may be freed.                                                *)
Freeable(b, D) ==
  /\ \A d \in D : /\ d \in Ids => ex[d] \notin {"wire", "open"}
                  /\ \A i \in 1..Len(b.queue) : IsSend(b.queue, i) => b.queue[i].id # d
                  /\ Submitting => exec.id # d
  /\ b.m.nextId = mgr.nextId \/ \A d \in D : d >= mgr.nextId

LEMMA WithFacts ==
  ASSUME NEW b \in LoopType, NEW n \in Manager
  PROVE  /\ With(b, n) \in LoopType /\ With(b, n).m = n
         /\ With(b, n).pending = b.pending /\ With(b, n).recGen = b.recGen
         /\ With(b, n).queue = b.queue /\ With(b, n).requests = b.requests
         /\ With(b, n).snap = b.snap
         /\ With(b, n).newReqs = b.newReqs /\ With(b, n).cancelReqs = b.cancelReqs
BY DEF With, LoopType

LEMMA LoopTypes ==
  ASSUME NEW b \in LoopType
  PROVE  /\ b.m \in Manager /\ b.pending \in BOOLEAN /\ b.recGen \in Nat
         /\ b.queue \in Seq(DecisionQueued) /\ b.requests \in Seq(Nat)
         /\ b.snap \in [polled: BOOLEAN, open: SUBSET Ids]
         /\ b.newReqs \in SUBSET Ids /\ b.cancelReqs \in SUBSET Ids
         /\ Len(b.queue) \in Nat /\ Len(b.requests) \in Nat
BY DEF LoopType

(* A change of the manager keeps what is tracked, but for what it frees.    *)
LEMMA ShiftTracked ==
  ASSUME NEW m, NEW n, NEW D, Shift(m, n, D)
  PROVE  /\ \A id \in TrackedIds(n) : id \in TrackedIds(m)
         /\ \A id \in TrackedIds(m) : id \notin D => id \in TrackedIds(n)
<1>1. ASSUME NEW id \in TrackedIds(n) PROVE id \in TrackedIds(m)
  BY <1>1, TrackedFacts DEF Shift, Used
<1>2. ASSUME NEW id \in TrackedIds(m), id \notin D PROVE id \in TrackedIds(n)
  BY <1>2, TrackedFacts DEF Shift, Used
<1> QED BY <1>1, <1>2

LEMMA ShiftSend ==
  ASSUME NEW m \in Manager, NEW n, NEW D, Shift(m, n, D), NEW id, id \notin D, NEW g,
         SendOK(m, id, g)
  PROVE  SendOK(n, id, g)
<1>1. m.gen \in Nat /\ n.gen \in Nat BY ManagerTypes DEF Shift
<1>2. id \in TrackedIds(m) => id \in TrackedIds(n) BY ShiftTracked
<1> QED BY <1>1, <1>2 DEF SendOK, Shift

LEMMA ChainShift ==
  ASSUME NEW b, NEW w \in BOOLEAN, NEW v \in BOOLEAN, Chain(b, w), mgr \in Manager,
         NEW n, NEW D, ManagerInv(n), Shift(b.m, n, D), Freeable(b, D),
         "OrderWebSocket" \in n.pauses => v
  PROVE  /\ Chain(With(b, n), v)
         /\ Rests(b) /\ Quiet(b.m, n) => Rests(With(b, n))
<1> DEFINE c == With(b, n)
<1>1. b \in LoopType /\ b.m \in Manager /\ n \in Manager
  BY LoopTypes DEF Chain, LoopInv, Shift
<1>2. /\ c \in LoopType /\ c.m = n /\ c.pending = b.pending /\ c.recGen = b.recGen
      /\ c.queue = b.queue /\ c.requests = b.requests /\ c.snap = b.snap
      /\ c.newReqs = b.newReqs
  BY <1>1, WithFacts
<1> HIDE DEF c
<1>3. /\ \A id \in TrackedIds(n) : id \in TrackedIds(b.m)
      /\ \A id \in TrackedIds(b.m) : id \notin D => id \in TrackedIds(n)
  BY ShiftTracked
<1>4. SendsInv(c)
  <2>1. SendsInv(b) BY DEF Chain, LoopInv
  <2>2. ASSUME NEW i \in 1..Len(c.queue), IsSend(c.queue, i)
        PROVE  SendOK(c.m, c.queue[i].id, c.queue[i].gen)
    <3>1. SendOK(b.m, b.queue[i].id, b.queue[i].gen) /\ b.queue[i].id \notin D
      BY <1>2, <2>1, <2>2 DEF SendsInv, Freeable
    <3> QED BY <1>1, <1>2, <3>1, ShiftSend
  <2>3. Submitting => SendOK(c.m, exec.id, exec.gen)
    <3>1. Submitting => SendOK(b.m, exec.id, exec.gen) /\ exec.id \notin D
      BY <2>1 DEF SendsInv, Freeable
    <3> QED BY <1>1, <1>2, <3>1, ShiftSend
  <2>4. Committed => exec.id \in TrackedIds(c.m)
    BY <1>2, <1>3, <2>1 DEF SendsInv, Freeable, Committed, Submitting
  <2> QED BY <1>2, <2>1, <2>2, <2>3, <2>4 DEF SendsInv
<1>5. ExposureInv(c)
  <2>1. ExposureInv(b) BY DEF Chain, LoopInv
  <2>2. Exposed \subseteq TrackedIds(c.m)
    BY <1>2, <1>3, <2>1 DEF ExposureInv, Exposed, Freeable
  <2> QED BY <1>2, <2>1, <2>2 DEF ExposureInv, Shift
<1>6. SettledInv(c) BY <1>2 DEF Chain, LoopInv, SettledInv
<1>7. OidInv(n) BY ShiftOid DEF Chain, LoopInv
<1>8. LoopInv(c, v)
  BY <1>2, <1>4, <1>5, <1>6, <1>7 DEF LoopInv, Chain, Shift
<1>9. Owned(c) BY <1>2 DEF Owned, Chain, Shift
<1>10. mgr \in Manager /\ mgr.nextId \in Nat /\ b.m.nextId \in Nat
  BY <1>1, ManagerTypes
<1>11. Ledgered(c)
  <2>1. CASE b.m.nextId = mgr.nextId /\ TrackedIds(b.m) \subseteq TrackedIds(mgr)
    BY <1>2, <1>3, <2>1 DEF Ledgered, Shift
  <2>2. CASE /\ mgr.nextId < b.m.nextId
             /\ \A id \in TrackedIds(mgr) : id < mgr.nextId /\ id \in TrackedIds(b.m)
             /\ \A id \in TrackedIds(b.m) : id \in TrackedIds(mgr) \/ id >= mgr.nextId
    <3>1. \A d \in D : d >= mgr.nextId BY <1>10, <2>2 DEF Freeable
    <3>2. \A id \in TrackedIds(mgr) : id \in Nat
      BY <1>10, TrackedFacts, ManagerTypes, OrderTypes
    <3>3. \A id \in TrackedIds(mgr) : id \notin D BY <1>10, <2>2, <3>1, <3>2
    <3>4. n.nextId = b.m.nextId BY DEF Shift
    <3> QED BY <1>2, <1>3, <2>2, <3>3, <3>4 DEF Ledgered
  <2> QED BY <2>1, <2>2 DEF Chain, Ledgered
<1>12. Rests(b) /\ Quiet(b.m, n) => Rests(c)
  BY <1>2 DEF Rests, Quiet
<1> QED BY <1>8, <1>9, <1>11, <1>12 DEF Chain, c

(* Steps that free nothing, and those that raise no pause a cleanup or a    *)
(* reconnect has to lift.                                                   *)
LEMMA ChainStill ==
  ASSUME NEW b, NEW w \in BOOLEAN, NEW v \in BOOLEAN, Chain(b, w), mgr \in Manager,
         NEW n, ManagerInv(n), Shift(b.m, n, {}), "OrderWebSocket" \in n.pauses => v
  PROVE  Chain(With(b, n), v)
<1>1. Freeable(b, {}) BY DEF Freeable
<1> QED BY <1>1, ChainShift

LEMMA ChainQuiet ==
  ASSUME NEW b, NEW w \in BOOLEAN, Chain(b, w), mgr \in Manager,
         NEW n, ManagerInv(n), Shift(b.m, n, {}), Quiet(b.m, n)
  PROVE  /\ Chain(With(b, n), w)
         /\ Rests(b) => Rests(With(b, n))
<1>1. Freeable(b, {}) BY DEF Freeable
<1>2. "OrderWebSocket" \in n.pauses => w BY DEF Quiet, Chain, LoopInv
<1> QED BY <1>1, <1>2, ChainShift

LEMMA ChainManager ==
  ASSUME NEW b, NEW w, Chain(b, w)
  PROVE  b \in LoopType /\ b.m \in Manager /\ ManagerInv(b.m) /\ IdsInv(b.m) /\ OidInv(b.m)
BY LoopTypes DEF Chain, LoopInv, ManagerInv

(* The invariant speaks of a few fields only.                               *)
LEMMA SameFields ==
  ASSUME NEW b, NEW w, LoopInv(b, w), NEW c \in LoopType,
         c.m = b.m, c.queue = b.queue, c.newReqs = b.newReqs, c.snap.open \subseteq b.snap.open
  PROVE  LoopInv(c, w)
<1>1. SendsInv(c) BY DEF LoopInv, SendsInv
<1>2. ExposureInv(c) BY DEF LoopInv, ExposureInv
<1>3. SettledInv(c) BY DEF LoopInv, SettledInv
<1> QED BY <1>1, <1>2, <1>3 DEF LoopInv

(* begin_account_reconciliation leaves a loop that owns its reconciliation. *)
LEMMA ChainBegin ==
  ASSUME NEW b, NEW w \in BOOLEAN, Chain(b, w), mgr \in Manager, results \in Seq(Nat)
  PROVE  /\ Chain(BeginAccount(b), w) /\ Rests(BeginAccount(b))
<1> DEFINE c == BeginAccount(b)
           n == EnterReconciliation(b.m)
           k == With(b, n)
<1>1. CASE b.pending
  BY <1>1 DEF BeginAccount, Rests
<1>2. CASE ~b.pending
  <2>1. b \in LoopType /\ b.m \in Manager /\ ManagerInv(b.m)
    BY ChainManager
  <2>2. /\ Shift(b.m, n, {}) /\ "Reconciliation" \in n.pauses
        /\ "OrderWebSocket" \in n.pauses => "OrderWebSocket" \in b.m.pauses
    BY <2>1, EnterReconciliationShift
  <2>3. ManagerInv(n) BY <2>1, EnterReconciliationInv
  <2>4. n \in Manager BY <2>3 DEF ManagerInv
  <2> HIDE DEF n
  <2>5. Chain(k, w)
    BY <2>2, <2>3, ChainStill DEF Chain, LoopInv
  <2>6. /\ k \in LoopType /\ k.m = n /\ k.queue = b.queue /\ k.newReqs = b.newReqs
        /\ k.snap = b.snap
    BY <2>1, <2>4, WithFacts
  <2>7. /\ b.recGen \in Nat /\ b.recGen + 1 \in Nat /\ b.requests \in Seq(Nat)
        /\ Len(b.requests) \in Nat
    BY <2>1, LoopTypes
  <2>8. /\ Append(b.requests, b.recGen + 1) \in Seq(Nat)
        /\ Len(Append(b.requests, b.recGen + 1)) = Len(b.requests) + 1
        /\ Append(b.requests, b.recGen + 1)[Len(b.requests) + 1] = b.recGen + 1
    BY <2>7, AppendFacts
  <2> HIDE DEF k
  <2>9. c = [b EXCEPT !.pending = TRUE, !.m = n, !.recGen = b.recGen + 1,
                      !.requests = Append(b.requests, b.recGen + 1)]
    BY <1>2 DEF BeginAccount, n
  <2>10. /\ c \in LoopType /\ c.m = n /\ c.queue = b.queue /\ c.newReqs = b.newReqs
         /\ c.snap = b.snap /\ c.pending = TRUE /\ c.recGen = b.recGen + 1
         /\ c.requests = Append(b.requests, b.recGen + 1)
    BY <2>1, <2>4, <2>7, <2>8, <2>9 DEF LoopType
  <2> HIDE DEF c
  <2>11. LoopInv(c, w)
    BY <2>5, <2>6, <2>10, SameFields DEF Chain
  <2>12. Owned(c)
    <3>1. /\ Len(b.requests) + Len(results) + (IF worker.pc = "idle" THEN 0 ELSE 1) = 0
      BY <1>2 DEF Chain, Owned
    <3>2. Len(results) \in Nat /\ (Len(results) = 0 <=> results = << >>) BY EmptyFacts
    <3> DEFINE x == IF worker.pc = "idle" THEN 0 ELSE 1
               y == Len(b.requests)
               z == Len(results)
    <3>4. x \in {0, 1} /\ y \in Nat /\ z \in Nat /\ y + z + x = 0 BY <2>7, <3>1, <3>2
    <3>5. x = 0 => worker.pc = "idle" OBVIOUS
    <3> HIDE DEF x, y, z
    <3>6. x = 0 /\ y = 0 /\ z = 0 BY <3>4
    <3>3. Len(b.requests) = 0 /\ Len(results) = 0 /\ worker.pc = "idle"
      BY <3>5, <3>6 DEF y, z
    <3> QED BY <2>2, <2>8, <2>10, <3>2, <3>3 DEF Owned
  <2>13. Ledgered(c) BY <2>5, <2>6, <2>10 DEF Chain, Ledgered
  <2> QED BY <2>10, <2>11, <2>12, <2>13 DEF Chain, Rests, c
<1> QED BY <1>1, <1>2

LEMMA ChainBeginIf ==
  ASSUME NEW b, NEW w \in BOOLEAN, Chain(b, w), mgr \in Manager, results \in Seq(Nat),
         NEW cond \in BOOLEAN, cond \/ Rests(b)
  PROVE  /\ Chain(BeginIf(cond, b), w) /\ Rests(BeginIf(cond, b))
BY ChainBegin DEF BeginIf

LEMMA ChainSafety ==
  ASSUME NEW b, NEW w \in BOOLEAN, Chain(b, w), mgr \in Manager
  PROVE  Chain(Safety(b), w) /\ (Rests(b) => Rests(Safety(b)))
<1>1. b.m \in Manager /\ ManagerInv(b.m) BY ChainManager
<1> QED BY <1>1, TriggerSafetyInv, TriggerSafetyShift, ChainQuiet DEF Safety

(* The transport pause may gain a way out.                                  *)
LEMMA ChainWeaken ==
  ASSUME NEW b, NEW w \in BOOLEAN, NEW v \in BOOLEAN, Chain(b, w), w => v
  PROVE  Chain(b, v)
BY DEF Chain, LoopInv

(* What has ended at the exchange can be freed.                             *)
LEMMA EndedFreeable ==
  ASSUME NEW b, NEW w, Chain(b, w), b.m.nextId = mgr.nextId, NEW id \in Ids, ex[id] = "done"
  PROVE  Freeable(b, {id})
BY DEF Freeable, Chain, LoopInv, SendsInv, SendOK, IsSend

----------------------------------------------------------------------------
(* The order events                                                         *)

LEMMA ChainEnd ==
  ASSUME NEW b, NEW w \in BOOLEAN, Chain(b, w), mgr \in Manager, b.m.nextId = mgr.nextId,
         NEW id \in Ids, ex[id] = "done",
         NEW n, ManagerInv(n), Shift(b.m, n, {id}), Quiet(b.m, n)
  PROVE  Chain(With(b, n), w) /\ (Rests(b) => Rests(With(b, n)))
<1>1. Freeable(b, {id}) BY EndedFreeable
<1>2. "OrderWebSocket" \in n.pauses => w BY DEF Quiet, Chain, LoopInv
<1> QED BY <1>1, <1>2, ChainShift

LEMMA ChainHandleAccepted ==
  ASSUME NEW b, NEW w \in BOOLEAN, Chain(b, w), Rests(b), mgr \in Manager, results \in Seq(Nat),
         NEW id
  PROVE  Chain(HandleAccepted(b, id), w) /\ Rests(HandleAccepted(b, id))
<1>1. b.m \in Manager /\ ManagerInv(b.m) BY ChainManager
<1>2. ManagerInv(OnAccepted(b.m, id, 0)) BY <1>1, OnAcceptedInv
<1>3. Shift(b.m, OnAccepted(b.m, id, 0), {}) /\ Quiet(b.m, OnAccepted(b.m, id, 0))
  BY <1>1, OnAcceptedShift
<1>4. /\ Chain(With(b, OnAccepted(b.m, id, 0)), w)
      /\ Rests(With(b, OnAccepted(b.m, id, 0)))
  BY <1>2, <1>3, ChainQuiet
<1> QED BY <1>4, ChainBegin DEF HandleAccepted

LEMMA ChainHandleRejected ==
  ASSUME NEW b, NEW w \in BOOLEAN, Chain(b, w), Rests(b), mgr \in Manager,
         b.m.nextId = mgr.nextId, NEW id \in Ids, ex[id] = "done"
  PROVE  Chain(HandleRejected(b, id), w) /\ Rests(HandleRejected(b, id))
<1>1. b.m \in Manager /\ ManagerInv(b.m) BY ChainManager
<1>2. ManagerInv(OnRejected(b.m, id)) BY <1>1, OnRejectedInv
<1>3. Shift(b.m, OnRejected(b.m, id), {id}) /\ Quiet(b.m, OnRejected(b.m, id))
  BY <1>1, OnRejectedShift
<1>4. Chain(With(b, OnRejected(b.m, id)), w) /\ Rests(With(b, OnRejected(b.m, id)))
  BY <1>2, <1>3, ChainEnd
<1> QED BY <1>4 DEF HandleRejected

LEMMA ChainCanceled ==
  ASSUME NEW b, NEW w \in BOOLEAN, Chain(b, w), Rests(b), mgr \in Manager,
         b.m.nextId = mgr.nextId, NEW id \in Ids, ex[id] = "done"
  PROVE  /\ Chain(With(b, OnCanceled(b.m, id, 0)), w)
         /\ Rests(With(b, OnCanceled(b.m, id, 0)))
<1>1. b.m \in Manager /\ ManagerInv(b.m) BY ChainManager
<1>2. ManagerInv(OnCanceled(b.m, id, 0)) BY <1>1, OnCanceledInv
<1>3. Shift(b.m, OnCanceled(b.m, id, 0), {id}) /\ Quiet(b.m, OnCanceled(b.m, id, 0))
  BY <1>1, OnCanceledShift
<1> QED BY <1>2, <1>3, ChainEnd

LEMMA ChainHandleFill ==
  ASSUME NEW b, NEW w \in BOOLEAN, Chain(b, w), Rests(b), mgr \in Manager, results \in Seq(Nat),
         b.m.nextId = mgr.nextId, NEW id \in Ids, NEW full \in BOOLEAN,
         full => ex[id] = "done"
  PROVE  Chain(HandleFill(b, id, full), w) /\ Rests(HandleFill(b, id, full))
<1> DEFINE matched == FillMatches(b.m, id, id) # {}
           n == IF matched THEN OnFill(b.m, id, id, full) ELSE RequireRefresh(b.m)
           told == With(b, n)
<1>1. b.m \in Manager /\ ManagerInv(b.m) /\ IdsInv(b.m) /\ OidInv(b.m) BY ChainManager
<1>2. ManagerInv(n) BY <1>1, OnFillInv, RequireRefreshInv
<1>3. id # 0 BY TradingAssumption DEF Ids
<1>4. /\ Shift(b.m, OnFill(b.m, id, id, full), IF full THEN {id} ELSE {})
      /\ Quiet(b.m, OnFill(b.m, id, id, full))
  BY <1>1, <1>3, OnFillShift
<1>5. Shift(b.m, RequireRefresh(b.m), {}) /\ Quiet(b.m, RequireRefresh(b.m))
  BY <1>1, RequireRefreshShift
<1>6. Chain(told, w) /\ Rests(told)
  <2>1. CASE matched /\ full
    <3>1. Shift(b.m, n, {id}) /\ Quiet(b.m, n) BY <1>4, <2>1
    <3> HIDE DEF n
    <3> QED BY <1>2, <2>1, <3>1, ChainEnd
  <2>2. CASE ~(matched /\ full)
    <3>1. Shift(b.m, n, {}) /\ Quiet(b.m, n) BY <1>4, <1>5, <2>2
    <3> HIDE DEF n, matched
    <3> QED BY <1>2, <3>1, ChainQuiet
  <2> QED BY <2>1, <2>2
<1>7. HandleFill(b, id, full) = BeginIf(~matched \/ ~full, told) BY DEF HandleFill
<1> HIDE DEF told, matched
<1> QED BY <1>6, <1>7, ChainBeginIf

LEMMA ChainHandleCancelFailed ==
  ASSUME NEW b, NEW w \in BOOLEAN, Chain(b, w), mgr \in Manager, results \in Seq(Nat)
  PROVE  Chain(HandleCancelFailed(b), w) /\ Rests(HandleCancelFailed(b))
<1>1. b.m \in Manager /\ ManagerInv(b.m) BY ChainManager
<1>2. ManagerInv(OnCancelFailed(b.m, 0)) BY <1>1, OnCancelFailedInv
<1>3. Shift(b.m, OnCancelFailed(b.m, 0), {}) /\ Quiet(b.m, OnCancelFailed(b.m, 0))
  BY <1>1, OnCancelFailedShift
<1>4. Chain(With(b, OnCancelFailed(b.m, 0)), w) BY <1>2, <1>3, ChainQuiet
<1> QED BY <1>4, ChainBegin DEF HandleCancelFailed

(* A pause and then a reconciliation; the transport pause needs a way out.  *)
LEMMA ChainPauseBegin ==
  ASSUME NEW b, NEW w \in BOOLEAN, NEW v \in BOOLEAN, Chain(b, w), w => v,
         mgr \in Manager, results \in Seq(Nat),
         NEW r \in Reasons, r = "OrderWebSocket" => v
  PROVE  /\ Chain(BeginAccount(With(b, SetPause(b.m, r))), v)
         /\ Rests(BeginAccount(With(b, SetPause(b.m, r))))
<1>1. b.m \in Manager /\ ManagerInv(b.m) BY ChainManager
<1>2. ManagerInv(SetPause(b.m, r)) BY <1>1, SetPauseInv
<1>3. /\ Shift(b.m, SetPause(b.m, r), {})
      /\ SetPause(b.m, r).pauses = b.m.pauses \cup {r}
  BY <1>1, SetPauseShift
<1>4. "OrderWebSocket" \in SetPause(b.m, r).pauses => v BY <1>3 DEF Chain, LoopInv
<1>5. Chain(With(b, SetPause(b.m, r)), v) BY <1>2, <1>3, <1>4, ChainStill
<1> QED BY <1>5, ChainBegin

LEMMA ChainAuthenticated ==
  ASSUME NEW b, NEW w \in BOOLEAN, NEW v \in BOOLEAN, Chain(b, w), Rests(b), mgr \in Manager
  PROVE  /\ Chain(With(b, ClearPause(b.m, "OrderWebSocket")), v)
         /\ Rests(With(b, ClearPause(b.m, "OrderWebSocket")))
<1> DEFINE n == ClearPause(b.m, "OrderWebSocket")
<1>1. b.m \in Manager /\ ManagerInv(b.m) BY ChainManager
<1>2. ManagerInv(n) BY <1>1, ClearPauseInv DEF Reasons
<1>3. Shift(b.m, n, {}) /\ Quiet(b.m, n) /\ "OrderWebSocket" \notin n.pauses
  BY <1>1, ClearPauseShift
<1>4. Freeable(b, {}) BY DEF Freeable
<1> HIDE DEF n
<1> QED BY <1>2, <1>3, <1>4, ChainShift DEF n

(* Whatever event is handled, the loop keeps its invariant and rests again. *)
LEMMA ChainHandle ==
  ASSUME NEW b, NEW w \in BOOLEAN, NEW v \in BOOLEAN, Chain(b, w), Rests(b),
         mgr \in Manager, results \in Seq(Nat), b.m.nextId = mgr.nextId,
         NEW e, e.kind \in EventKinds,
         e.kind \in Ending => e.id \in Ids /\ ex[e.id] = "done",
         e.kind \in {"accepted", "partial"} => e.id \in Ids,
         e.kind = "disconnected" => v,
         e.kind # "authenticated" => (w => v)
  PROVE  Chain(Handle(b, e), v) /\ Rests(Handle(b, e))
<1>1. CASE e.kind = "accepted"
  <2>1. Handle(b, e) = HandleAccepted(b, e.id) BY <1>1 DEF Handle
  <2> QED BY <1>1, <2>1, ChainWeaken, ChainHandleAccepted
<1>2. CASE e.kind = "rejected"
  <2>1. Handle(b, e) = HandleRejected(b, e.id) BY <1>2 DEF Handle
  <2> QED BY <1>2, <2>1, ChainWeaken, ChainHandleRejected DEF Ending
<1>3. CASE e.kind = "canceled"
  <2>1. Handle(b, e) = With(b, OnCanceled(b.m, e.id, 0)) BY <1>3 DEF Handle
  <2> QED BY <1>3, <2>1, ChainWeaken, ChainCanceled DEF Ending
<1>4. CASE e.kind = "cancelFailed"
  <2>1. Handle(b, e) = HandleCancelFailed(b) BY <1>4 DEF Handle
  <2> QED BY <1>4, <2>1, ChainWeaken, ChainHandleCancelFailed
<1>5. CASE e.kind = "filled"
  <2>1. Handle(b, e) = HandleFill(b, e.id, TRUE) BY <1>5 DEF Handle
  <2> QED BY <1>5, <2>1, ChainWeaken, ChainHandleFill DEF Ending
<1>6. CASE e.kind = "partial"
  <2>1. Handle(b, e) = HandleFill(b, e.id, FALSE) BY <1>6 DEF Handle
  <2> QED BY <1>6, <2>1, ChainWeaken, ChainHandleFill
<1>7. CASE e.kind = "ambiguous"
  <2>1. Handle(b, e) = BeginAccount(b) BY <1>7 DEF Handle
  <2> QED BY <1>7, <2>1, ChainWeaken, ChainBegin
<1>8. CASE e.kind = "authenticated"
  <2>1. Handle(b, e) = With(b, ClearPause(b.m, "OrderWebSocket")) BY <1>8 DEF Handle
  <2> QED BY <2>1, ChainAuthenticated
<1>9. CASE e.kind = "disconnected"
  <2>1. Handle(b, e) = HandleDisconnected(b) BY <1>9 DEF Handle
  <2>2. w => v BY <1>9
  <2> QED BY <1>9, <2>1, <2>2, ChainPauseBegin DEF HandleDisconnected, Reasons
<1> QED BY <1>1, <1>2, <1>3, <1>4, <1>5, <1>6, <1>7, <1>8, <1>9 DEF EventKinds

----------------------------------------------------------------------------
(* The checks of the tick                                                   *)

LEMMA ChainPublications ==
  ASSUME NEW b, NEW w \in BOOLEAN, Chain(b, w), Rests(b), mgr \in Manager,
         NEW polled \in BOOLEAN
  PROVE  Chain(Publications(b, polled), w) /\ Rests(Publications(b, polled))
<1> DEFINE p == Publish(b.m)
           q == Publish(p)
<1>1. b.m \in Manager /\ ManagerInv(b.m) BY ChainManager
<1>2. ManagerInv(p) /\ ManagerInv(b.m) /\ p \in Manager
  BY <1>1, PublishInv DEF ManagerInv
<1>3. Shift(b.m, p, {}) /\ Quiet(b.m, p) BY <1>1, PublishShift
<1>4. Shift(b.m, b.m, {}) /\ Quiet(b.m, b.m) BY <1>1, CountersShift DEF Quiet
<1> HIDE DEF p
<1>5. ManagerInv(q) /\ Shift(p, q, {}) /\ Quiet(p, q) BY <1>2, PublishInv, PublishShift
<1> HIDE DEF q
<1>6. {} \cup {} = {} OBVIOUS
<1>7. Shift(b.m, q, {}) /\ Quiet(b.m, q)
  BY <1>1, <1>3, <1>5, <1>6, ShiftTrans, QuietTrans
<1>8. Publications(b, polled) = IF polled THEN With(b, q) ELSE With(b, b.m)
  BY DEF Publications, q, p
<1> QED BY <1>2, <1>4, <1>5, <1>7, <1>8, ChainQuiet

LEMMA ChainDepth ==
  ASSUME NEW b, NEW w \in BOOLEAN, Chain(b, w), Rests(b), mgr \in Manager, results \in Seq(Nat),
         NEW stale \in BOOLEAN
  PROVE  Chain(DepthCheck(b, stale), w) /\ Rests(DepthCheck(b, stale))
BY ChainPauseBegin DEF DepthCheck, Reasons

LEMMA ChainOutage ==
  ASSUME NEW b, NEW w \in BOOLEAN, Chain(b, w), mgr \in Manager, results \in Seq(Nat),
         NEW r \in {"MarketData", "RiskData"}
  PROVE  /\ Chain(BeginAccount(With(b, BeginReconciliation(SetPause(b.m, r)))), w)
         /\ Rests(BeginAccount(With(b, BeginReconciliation(SetPause(b.m, r)))))
<1> DEFINE p == SetPause(b.m, r)
           n == SetPause(p, "Reconciliation")
<1>1. b.m \in Manager /\ ManagerInv(b.m) /\ r \in Reasons BY ChainManager DEF Reasons
<1>2. ManagerInv(p) /\ Shift(b.m, p, {}) /\ p.pauses = b.m.pauses \cup {r}
  BY <1>1, SetPauseInv, SetPauseShift
<1>3. p \in Manager BY <1>2 DEF ManagerInv
<1> HIDE DEF p
<1>4. /\ ManagerInv(n) /\ Shift(p, n, {}) /\ n.pauses = p.pauses \cup {"Reconciliation"}
  BY <1>2, <1>3, SetPauseInv, SetPauseShift DEF Reasons
<1> HIDE DEF n
<1>5. {} \cup {} = {} OBVIOUS
<1>6. Shift(b.m, n, {}) BY <1>1, <1>2, <1>4, <1>5, ShiftTrans
<1>7. "OrderWebSocket" \in n.pauses => w BY <1>2, <1>4 DEF Chain, LoopInv
<1>8. Chain(With(b, n), w) BY <1>4, <1>6, <1>7, ChainStill
<1>9. BeginReconciliation(SetPause(b.m, r)) = n BY DEF BeginReconciliation, n, p
<1> QED BY <1>8, <1>9, ChainBegin

LEMMA ChainRisk ==
  ASSUME NEW b, NEW w \in BOOLEAN, Chain(b, w), Rests(b), mgr \in Manager, results \in Seq(Nat),
         NEW fresh \in BOOLEAN
  PROVE  Chain(RiskCheck(b, fresh), w) /\ Rests(RiskCheck(b, fresh))
<1> DEFINE i == InitializeBaseline(b.m, Position)
           n == ClearPause(i, "RiskData")
           p == SetPause(b.m, "RiskData")
<1>1. b.m \in Manager /\ ManagerInv(b.m) BY ChainManager
<1>2. CASE fresh /\ RefreshComplete(b.m)
  <2>1. RiskCheck(b, fresh) = With(b, n) BY <1>2 DEF RiskCheck
  <2>2. ManagerInv(i) /\ i.owed = 0 /\ Shift(b.m, i, {}) /\ Quiet(b.m, i)
    BY <1>1, <1>2, InitializeBaselineInv, InitializeBaselineShift, TradingAssumption
       DEF RefreshComplete
  <2>3. i \in Manager BY <2>2 DEF ManagerInv
  <2> HIDE DEF i
  <2>4. ManagerInv(n) /\ Shift(i, n, {}) /\ Quiet(i, n)
    BY <2>2, <2>3, ClearPauseInv, ClearPauseShift DEF Reasons
  <2> HIDE DEF n
  <2>5. {} \cup {} = {} OBVIOUS
  <2>6. Shift(b.m, n, {}) /\ Quiet(b.m, n)
    BY <1>1, <2>2, <2>4, <2>5, ShiftTrans, QuietTrans
  <2> QED BY <2>1, <2>4, <2>6, ChainQuiet
<1>3. CASE ~(fresh /\ RefreshComplete(b.m)) /\ ~fresh /\ "RiskData" \notin b.m.pauses
  <2>1. RiskCheck(b, fresh) = BeginAccount(With(b, BeginReconciliation(SetPause(b.m, "RiskData"))))
    BY <1>3 DEF RiskCheck
  <2> QED BY <2>1, ChainOutage
<1>4. CASE ~(fresh /\ RefreshComplete(b.m)) /\ ~(~fresh /\ "RiskData" \notin b.m.pauses)
  <2>1. RiskCheck(b, fresh) = With(b, p) BY <1>4 DEF RiskCheck
  <2>2. ManagerInv(p) /\ Shift(b.m, p, {}) /\ Quiet(b.m, p)
    BY <1>1, SetPauseInv, SetPauseShift DEF Reasons
  <2> HIDE DEF p
  <2> QED BY <2>1, <2>2, ChainQuiet
<1> QED BY <1>2, <1>3, <1>4

(* A snapshot shows only what the exchange has received, so neither an      *)
(* order on the wire nor one about to be written is settled by it.          *)
LEMMA ChainSettle ==
  ASSUME NEW b, NEW w \in BOOLEAN, Chain(b, w), NEW c \in LoopType,
         c.m = b.m, c.queue = b.queue, c.pending = b.pending, c.recGen = b.recGen,
         c.requests = b.requests, c.snap.open \subseteq b.snap.open,
         c.newReqs \subseteq b.newReqs,
         \A id \in b.newReqs : id \in c.newReqs \/ ex[id] \in {"open", "done"}
  PROVE  Chain(c, w) /\ (Rests(b) => Rests(c))
<1>1. SendsInv(c) BY DEF Chain, LoopInv, SendsInv
<1>2. ExposureInv(c)
  <2>1. ExposureInv(b) /\ SendsInv(b) BY DEF Chain, LoopInv
  <2>2. \A id \in Ids : ex[id] = "wire" => id \in c.newReqs BY <2>1 DEF ExposureInv
  <2>3. exec.pc = "write" => exec.id \in c.newReqs
    BY <2>1 DEF ExposureInv, SendsInv, Submitting, SendOK
  <2> QED BY <2>1, <2>2, <2>3 DEF ExposureInv
<1>3. SettledInv(c) BY DEF Chain, LoopInv, SettledInv
<1>4. LoopInv(c, w) BY <1>1, <1>2, <1>3 DEF Chain, LoopInv
<1> QED BY <1>4 DEF Chain, Owned, Ledgered, Rests

LEMMA ChainSnapshot ==
  ASSUME NEW b, NEW w \in BOOLEAN, Chain(b, w), Rests(b), mgr \in Manager, results \in Seq(Nat),
         NEW aged, NEW odd \in BOOLEAN, NEW before
  PROVE  Chain(SnapshotCheck(b, aged, odd, before), w)
         /\ Rests(SnapshotCheck(b, aged, odd, before))
<1> DEFINE c == [b EXCEPT !.snap = NoSnap]
           r == RequireRefresh(b.m)
           p == Promote(b.m, before)
           o == RequireRefresh(p)
           k == Promote(b.m, Confirmed(b))
           d == With(c, k)
           z == [c EXCEPT !.m = k, !.newReqs = b.newReqs \ b.snap.open]
<1>1. b \in LoopType /\ b.m \in Manager /\ ManagerInv(b.m) BY ChainManager
<1>2. NoSnap \in [polled: BOOLEAN, open: SUBSET Ids] /\ NoSnap.open = {} BY DEF NoSnap
<1>3. /\ c \in LoopType /\ c.m = b.m /\ c.queue = b.queue /\ c.pending = b.pending
      /\ c.recGen = b.recGen /\ c.requests = b.requests /\ c.snap = NoSnap
      /\ c.newReqs = b.newReqs
  BY <1>1, <1>2 DEF LoopType
<1>4. SnapshotCheck(b, aged, odd, before) \in
        {c, BeginAccount(With(c, r)), BeginAccount(With(c, o)), z}
  BY <1>3 DEF SnapshotCheck
<1>5. ManagerInv(p) /\ Shift(b.m, p, {}) /\ Quiet(b.m, p) BY <1>1, PromoteShift
<1>6. ManagerInv(k) /\ Shift(b.m, k, {}) /\ Quiet(b.m, k) BY <1>1, PromoteShift
<1>7. ManagerInv(r) /\ Shift(b.m, r, {}) /\ Quiet(b.m, r)
  BY <1>1, RequireRefreshInv, RequireRefreshShift
<1>8. p \in Manager /\ k \in Manager BY <1>5, <1>6 DEF ManagerInv
<1>9. Chain(c, w) /\ Rests(c)
  <2> HIDE DEF c
  <2>1. /\ c.snap.open \subseteq b.snap.open /\ c.newReqs \subseteq b.newReqs
        /\ \A id \in b.newReqs : id \in c.newReqs \/ ex[id] \in {"open", "done"}
    BY <1>2, <1>3
  <2> QED BY <1>3, <2>1, ChainSettle
<1> HIDE DEF p, r, k
<1>10. ManagerInv(o) /\ Shift(p, o, {}) /\ Quiet(p, o)
  BY <1>5, <1>8, RequireRefreshInv, RequireRefreshShift
<1> HIDE DEF o
<1>11. {} \cup {} = {} OBVIOUS
<1>12. Shift(b.m, o, {}) /\ Quiet(b.m, o)
  BY <1>1, <1>5, <1>10, <1>11, ShiftTrans, QuietTrans
<1>13. z \in LoopType /\ z.m = k /\ z.queue = c.queue /\ z.pending = c.pending
       /\ z.recGen = c.recGen /\ z.requests = c.requests /\ z.snap = c.snap
       /\ z.newReqs = c.newReqs \ b.snap.open
  BY <1>3, <1>8, <1>1 DEF LoopType
<1> HIDE DEF c, z
<1>14. Chain(d, w) /\ Rests(d) BY <1>3, <1>6, <1>9, ChainQuiet
<1>15. /\ d.m = k /\ d.queue = c.queue /\ d.pending = c.pending
       /\ d.recGen = c.recGen /\ d.requests = c.requests /\ d.snap = c.snap
       /\ d.newReqs = c.newReqs
  BY <1>3, <1>8, WithFacts
<1> HIDE DEF d
<1>16. /\ z.snap.open \subseteq d.snap.open /\ z.newReqs \subseteq d.newReqs
       /\ \A id \in d.newReqs : id \in z.newReqs \/ ex[id] \in {"open", "done"}
  BY <1>13, <1>15 DEF Chain, LoopInv, ExposureInv
<1>17. Chain(z, w) /\ Rests(z)
  BY <1>13, <1>14, <1>15, <1>16, ChainSettle
<1>18. Chain(BeginAccount(With(c, r)), w) /\ Rests(BeginAccount(With(c, r)))
  BY <1>3, <1>7, <1>9, ChainQuiet, ChainBegin
<1>19. Chain(BeginAccount(With(c, o)), w) /\ Rests(BeginAccount(With(c, o)))
  BY <1>3, <1>10, <1>12, <1>9, ChainQuiet, ChainBegin
<1> QED BY <1>4, <1>9, <1>17, <1>18, <1>19

LEMMA ChainSignal ==
  ASSUME NEW b, NEW w \in BOOLEAN, Chain(b, w), Rests(b), mgr \in Manager, results \in Seq(Nat),
         NEW signal
  PROVE  Chain(SignalCheck(b, signal), w) /\ Rests(SignalCheck(b, signal))
<1>1. Chain(Safety(b), w) BY ChainSafety
<1>2. SignalCheck(b, signal) \in
        {BeginIf(TrackedIds(b.m) # {}, b), BeginAccount(b), BeginAccount(Safety(b)), b}
  BY DEF SignalCheck
<1>3. Chain(BeginIf(TrackedIds(b.m) # {}, b), w) /\ Rests(BeginIf(TrackedIds(b.m) # {}, b))
  BY ChainBeginIf
<1>4. Chain(BeginAccount(b), w) /\ Rests(BeginAccount(b)) BY ChainBegin
<1>5. Chain(BeginAccount(Safety(b)), w) /\ Rests(BeginAccount(Safety(b)))
  BY <1>1, ChainBegin
<1> QED BY <1>2, <1>3, <1>4, <1>5

LEMMA ChainToken ==
  ASSUME NEW b, NEW w \in BOOLEAN, NEW v \in BOOLEAN, Chain(b, w), Rests(b),
         mgr \in Manager, results \in Seq(Nat),
         NEW expiring \in BOOLEAN, w => v, expiring => v
  PROVE  Chain(TokenCheck(b, expiring), v) /\ Rests(TokenCheck(b, expiring))
BY ChainPauseBegin, ChainWeaken DEF TokenCheck, Reasons

LEMMA ChainRecovery ==
  ASSUME NEW b, NEW w \in BOOLEAN, Chain(b, w), Rests(b), mgr \in Manager, results \in Seq(Nat),
         NEW cooled
  PROVE  Chain(RecoveryCheck(b, cooled), w) /\ Rests(RecoveryCheck(b, cooled))
<1> DEFINE sc == "Safety" \in cooled
           bc == "CircuitBreaker" \in cooled
           due == SafetyDue(b.m, sc) \/ BreakerDue(b.m, bc)
           n == SpendCooldowns(b.m, sc, bc)
<1>1. b.m \in Manager /\ ManagerInv(b.m) BY ChainManager
<1>2. sc \in BOOLEAN /\ bc \in BOOLEAN /\ due \in BOOLEAN BY <1>1, ManagerTypes DEF SafetyDue, BreakerDue
<1>3. RecoveryCheck(b, cooled) = BeginIf(due, With(b, n)) BY DEF RecoveryCheck
<1>4. /\ ManagerInv(n) /\ Shift(b.m, n, {}) /\ n.pauses = b.m.pauses
      /\ ~due => Quiet(b.m, n)
  <2> HIDE DEF sc, bc
  <2> QED BY <1>1, <1>2, SpendCooldownsInv, SpendCooldownsShift
<1> HIDE DEF n, due
<1>5. "OrderWebSocket" \in n.pauses => w BY <1>4 DEF Chain, LoopInv
<1>6. Chain(With(b, n), w) BY <1>4, <1>5, ChainStill
<1>7. ~due => Rests(With(b, n)) BY <1>4, ChainQuiet
<1> QED BY <1>2, <1>3, <1>6, <1>7, ChainBeginIf

LEMMA IdsFacts ==
  /\ MaxOrders \in Nat
  /\ \A id \in Ids : id \in Nat /\ id > 0 /\ id <= MaxOrders /\ id \in 0..MaxOrders
BY TradingAssumption DEF Ids

LEMMA QueuedTypes ==
  ASSUME NEW d \in DecisionQueued
  PROVE  /\ d.id \in Ids /\ d.id \in Nat /\ d.gen \in Nat
         /\ d.kind \in {"Send", "Cancel", "Replace"}
<1>1. d.id \in Ids /\ d.gen \in Nat /\ d.kind \in {"Send", "Cancel", "Replace"}
  BY DEF DecisionQueued
<1> QED BY <1>1, IdsFacts

----------------------------------------------------------------------------
(* Dispatch: the four possible decisions, one try_send after another        *)

Push(q, out, refused, g, i) ==
  IF i > Len(out) \/ out[i] \in refused THEN q ELSE Append(q, Queued(out[i], g))

Pushed(q, out, refused, g) ==
  Push(Push(Push(Push(q, out, refused, g, 1), out, refused, g, 2), out, refused, g, 3),
       out, refused, g, 4)

LEMMA SendAllFields ==
  ASSUME NEW b \in LoopType, NEW out, NEW refused,
         OnDispatchFailed(b.m, refused) \in Manager,
         Pushed(b.queue, out, refused, b.m.gen) \in Seq(DecisionQueued)
  PROVE  LET c == SendAll(b, out, refused)
         IN /\ c \in LoopType /\ c.m = OnDispatchFailed(b.m, refused)
            /\ c.queue = Pushed(b.queue, out, refused, b.m.gen)
            /\ c.pending = b.pending /\ c.recGen = b.recGen /\ c.requests = b.requests
            /\ c.snap = b.snap /\ c.newReqs = b.newReqs /\ c.cancelReqs = b.cancelReqs
<1> DEFINE q == Pushed(b.queue, out, refused, b.m.gen)
           n == OnDispatchFailed(b.m, refused)
<1>1. SendAll(b, out, refused) = [b EXCEPT !.queue = q, !.m = n]
  BY DEF SendAll, Pushed, Push
<1> HIDE DEF q, n
<1>2. /\ [b EXCEPT !.queue = q, !.m = n] \in LoopType
      /\ [b EXCEPT !.queue = q, !.m = n].m = n
      /\ [b EXCEPT !.queue = q, !.m = n].queue = q
      /\ [b EXCEPT !.queue = q, !.m = n].pending = b.pending
      /\ [b EXCEPT !.queue = q, !.m = n].recGen = b.recGen
      /\ [b EXCEPT !.queue = q, !.m = n].requests = b.requests
      /\ [b EXCEPT !.queue = q, !.m = n].snap = b.snap
      /\ [b EXCEPT !.queue = q, !.m = n].newReqs = b.newReqs
      /\ [b EXCEPT !.queue = q, !.m = n].cancelReqs = b.cancelReqs
  BY DEF LoopType, q, n
<1> QED BY <1>1, <1>2 DEF q, n

(* The decisions of one call name orders from n0 on in their sends, each    *)
(* once, and orders of the model throughout.                                *)
Sendable(out, n0) ==
  /\ out \in Seq(Decision)
  /\ \A i \in 1..Len(out) : /\ out[i].id \in Ids
                            /\ out[i].kind = "Send" => n0 <= out[i].id
  /\ \A i, j \in 1..Len(out) :
       out[i].kind = "Send" /\ out[j].kind = "Send" /\ out[i].id = out[j].id => i = j

(* After j of them: what is on the queue was there before, or is one of the *)
(* first j that was not refused; no order is there twice.                   *)
Sent(q0, out, refused, g, q, j) ==
  /\ q \in Seq(DecisionQueued)
  /\ \A i \in 1..Len(q) : IsSend(q, i) =>
       \/ \E k \in 1..Len(q0) : IsSend(q0, k) /\ q[i] = q0[k]
       \/ /\ q[i].gen = g
          /\ \E k \in 1..Len(out) : /\ k <= j /\ out[k] \notin refused
                                    /\ out[k].kind = "Send" /\ out[k].id = q[i].id
  /\ \A i, k \in 1..Len(q) : IsSend(q, i) /\ IsSend(q, k) /\ q[i].id = q[k].id => i = k

LEMMA PushSent ==
  ASSUME NEW q0 \in Seq(DecisionQueued), NEW n0 \in Nat, NEW out, Sendable(out, n0),
         \A k \in 1..Len(q0) : IsSend(q0, k) => q0[k].id < n0,
         NEW refused, NEW g \in Nat, NEW q, NEW j \in Nat, Sent(q0, out, refused, g, q, j)
  PROVE  Sent(q0, out, refused, g, Push(q, out, refused, g, j + 1), j + 1)
<1> DEFINE e == Queued(out[j + 1], g)
           p == Append(q, e)
<1>1. CASE j + 1 > Len(out) \/ out[j + 1] \in refused
  <2>1. Push(q, out, refused, g, j + 1) = q BY <1>1 DEF Push
  <2>2. \A k \in Nat : k <= j => k <= j + 1 OBVIOUS
  <2>3. \A k \in 1..Len(out) : k \in Nat OBVIOUS
  <2> QED BY <2>1, <2>2, <2>3 DEF Sent
<1>2. CASE ~(j + 1 > Len(out) \/ out[j + 1] \in refused)
  <2>1. Push(q, out, refused, g, j + 1) = p BY <1>2 DEF Push
  <2>2. out \in Seq(Decision) /\ Len(out) \in Nat BY EmptyFacts DEF Sendable
  <2>3. j + 1 \in 1..Len(out) /\ out[j + 1] \notin refused BY <1>2, <2>2
  <2>4. /\ out[j + 1].kind \in {"Send", "Cancel", "Replace"} /\ out[j + 1].id \in Ids
        /\ out[j + 1].kind = "Send" => n0 <= out[j + 1].id
    BY <2>2, <2>3, DecisionTypes DEF Sendable
  <2>5. /\ e \in DecisionQueued /\ e.kind = out[j + 1].kind /\ e.id = out[j + 1].id
        /\ e.kind = "Send" => e.gen = g
    BY <2>4 DEF Queued, DecisionQueued
  <2> HIDE DEF e
  <2>6. q \in Seq(DecisionQueued) BY DEF Sent
  <2>7. /\ p \in Seq(DecisionQueued) /\ Len(p) = Len(q) + 1 /\ Len(q) \in Nat
        /\ \A i \in 1..(Len(q) + 1) : p[i] = IF i = Len(q) + 1 THEN e ELSE q[i]
    BY <2>5, <2>6, AppendFacts
  <2> HIDE DEF p
  <2>8. ASSUME NEW i \in 1..Len(q)
        PROVE  p[i] = q[i] /\ i \in 1..Len(p) /\ i # Len(q) + 1 /\ (IsSend(p, i) <=> IsSend(q, i))
    BY <2>7 DEF IsSend
  <2>9. p[Len(q) + 1] = e /\ Len(q) + 1 \in 1..Len(p) BY <2>7
  <2>10. \A i \in 1..Len(p) : i = Len(q) + 1 \/ i \in 1..Len(q) BY <2>7
  <2>11. ASSUME NEW i \in 1..Len(q), IsSend(q, i), e.kind = "Send" PROVE q[i].id # e.id
    <3>1. CASE \E k \in 1..Len(q0) : IsSend(q0, k) /\ q[i] = q0[k]
      <4>1. PICK k \in 1..Len(q0) : IsSend(q0, k) /\ q[i] = q0[k] BY <3>1
      <4>2. q0[k].id < n0 /\ n0 <= e.id BY <2>4, <2>5, <2>11, <4>1
      <4>4. q0[k] \in DecisionQueued BY ElementFacts
      <4>3. q0[k].id \in Nat /\ e.id \in Nat BY <2>5, <4>4, QueuedTypes
      <4> QED BY <4>1, <4>2, <4>3
    <3>2. CASE \E k \in 1..Len(out) : /\ k <= j /\ out[k] \notin refused
                                      /\ out[k].kind = "Send" /\ out[k].id = q[i].id
      <4>1. PICK k \in 1..Len(out) : /\ k <= j /\ out[k] \notin refused
                                     /\ out[k].kind = "Send" /\ out[k].id = q[i].id
        BY <3>2
      <4>2. k # j + 1 BY <4>1
      <4> QED BY <2>3, <2>5, <2>11, <4>1, <4>2 DEF Sendable
    <3> QED BY <2>11, <3>1, <3>2 DEF Sent
  <2>12. ASSUME NEW i \in 1..Len(p), IsSend(p, i)
         PROVE  \/ \E k \in 1..Len(q0) : IsSend(q0, k) /\ p[i] = q0[k]
                \/ /\ p[i].gen = g
                   /\ \E k \in 1..Len(out) : /\ k <= j + 1 /\ out[k] \notin refused
                                             /\ out[k].kind = "Send" /\ out[k].id = p[i].id
    <3>1. CASE i = Len(q) + 1
      <4>1. e.kind = "Send" /\ p[i] = e BY <2>9, <2>12, <3>1 DEF IsSend
      <4>2. /\ j + 1 <= j + 1 /\ out[j + 1].kind = "Send" /\ out[j + 1].id = p[i].id
            /\ p[i].gen = g
        BY <2>5, <4>1
      <4> HIDE DEF e
      <4> DEFINE x == j + 1
      <4>3. x \in 1..Len(out) /\ x <= j + 1 /\ out[x] \notin refused
            /\ out[x].kind = "Send" /\ out[x].id = p[i].id
        BY <2>3, <4>2
      <4> HIDE DEF x
      <4> QED BY <4>2, <4>3
    <3>2. CASE i \in 1..Len(q)
      <4>1. \A k \in 1..Len(out) : k <= j => k <= j + 1 OBVIOUS
      <4> QED BY <2>8, <2>12, <3>2, <4>1 DEF Sent
    <3> QED BY <2>10, <3>1, <3>2
  <2>13. ASSUME NEW i \in 1..Len(p), NEW k \in 1..Len(p),
                IsSend(p, i), IsSend(p, k), p[i].id = p[k].id
         PROVE  i = k
    <3>1. CASE i \in 1..Len(q) /\ k \in 1..Len(q)
      BY <2>8, <2>13, <3>1 DEF Sent
    <3>2. CASE i \in 1..Len(q) /\ k = Len(q) + 1
      BY <2>8, <2>9, <2>11, <2>13, <3>2 DEF IsSend
    <3>3. CASE i = Len(q) + 1 /\ k \in 1..Len(q)
      BY <2>8, <2>9, <2>11, <2>13, <3>3 DEF IsSend
    <3> QED BY <2>10, <3>1, <3>2, <3>3
  <2> QED BY <2>1, <2>7, <2>12, <2>13 DEF Sent
<1> QED BY <1>1, <1>2

LEMMA AllSent ==
  ASSUME NEW q0 \in Seq(DecisionQueued), NEW n0 \in Nat, NEW out, Sendable(out, n0),
         \A k \in 1..Len(q0) : IsSend(q0, k) => q0[k].id < n0,
         \A i, k \in 1..Len(q0) : IsSend(q0, i) /\ IsSend(q0, k) /\ q0[i].id = q0[k].id => i = k,
         NEW refused, NEW g \in Nat
  PROVE  Sent(q0, out, refused, g, Pushed(q0, out, refused, g), 4)
<1>1. Sent(q0, out, refused, g, q0, 0) BY DEF Sent
<1> DEFINE q1 == Push(q0, out, refused, g, 1)
           q2 == Push(q1, out, refused, g, 2)
           q3 == Push(q2, out, refused, g, 3)
           q4 == Push(q3, out, refused, g, 4)
<1>2. Sent(q0, out, refused, g, q1, 1)
  <2>1. Sent(q0, out, refused, g, Push(q0, out, refused, g, 0 + 1), 0 + 1)
    BY <1>1, PushSent
  <2> QED BY <2>1
<1> HIDE DEF q1
<1>3. Sent(q0, out, refused, g, q2, 2)
  <2>1. Sent(q0, out, refused, g, Push(q1, out, refused, g, 1 + 1), 1 + 1)
    BY <1>2, PushSent
  <2> QED BY <2>1
<1> HIDE DEF q2
<1>4. Sent(q0, out, refused, g, q3, 3)
  <2>1. Sent(q0, out, refused, g, Push(q2, out, refused, g, 2 + 1), 2 + 1)
    BY <1>3, PushSent
  <2> QED BY <2>1
<1> HIDE DEF q3
<1>5. Sent(q0, out, refused, g, q4, 4)
  <2>1. Sent(q0, out, refused, g, Push(q3, out, refused, g, 3 + 1), 3 + 1)
    BY <1>4, PushSent
  <2> QED BY <2>1
<1> QED BY <1>5 DEF Pushed, q4, q3, q2, q1

(* The room the sends take does not depend on the generation they carry.    *)
LEMMA PushLength ==
  ASSUME NEW q \in Seq(DecisionQueued), NEW p \in Seq(DecisionQueued), Len(q) = Len(p),
         NEW out, NEW refused, NEW g, NEW h, NEW i,
         Push(q, out, refused, g, i) \in Seq(DecisionQueued),
         Push(p, out, refused, h, i) \in Seq(DecisionQueued)
  PROVE  Len(Push(q, out, refused, g, i)) = Len(Push(p, out, refused, h, i))
BY DEF Push

LEMMA PushType ==
  ASSUME NEW q \in Seq(DecisionQueued), NEW out \in Seq(Decision),
         \A i \in 1..Len(out) : out[i].id \in Ids, NEW refused, NEW g \in Nat, NEW i \in Nat \ {0}
  PROVE  Push(q, out, refused, g, i) \in Seq(DecisionQueued)
<1>1. CASE i > Len(out) BY <1>1 DEF Push
<1>2. CASE ~(i > Len(out))
  <2>1. i \in 1..Len(out) BY <1>2, EmptyFacts
  <2>2. out[i].id \in Ids /\ out[i].kind \in {"Send", "Cancel", "Replace"}
    BY <2>1, DecisionTypes
  <2>3. Queued(out[i], g) \in DecisionQueued BY <2>2 DEF Queued, DecisionQueued
  <2> QED BY <2>3 DEF Push
<1> QED BY <1>1, <1>2

LEMMA PushedLength ==
  ASSUME NEW q \in Seq(DecisionQueued), NEW out \in Seq(Decision),
         \A i \in 1..Len(out) : out[i].id \in Ids, NEW refused, NEW g \in Nat, NEW h \in Nat
  PROVE  /\ Pushed(q, out, refused, g) \in Seq(DecisionQueued)
         /\ Len(Pushed(q, out, refused, g)) = Len(Pushed(q, out, refused, h))
<1> DEFINE q1 == Push(q, out, refused, g, 1)
           q2 == Push(q1, out, refused, g, 2)
           q3 == Push(q2, out, refused, g, 3)
           q4 == Push(q3, out, refused, g, 4)
           p1 == Push(q, out, refused, h, 1)
           p2 == Push(p1, out, refused, h, 2)
           p3 == Push(p2, out, refused, h, 3)
           p4 == Push(p3, out, refused, h, 4)
<1>1. q1 \in Seq(DecisionQueued) /\ p1 \in Seq(DecisionQueued) BY PushType
<1>2. Len(q1) = Len(p1) BY SMTT(30), <1>1, PushLength
<1> HIDE DEF q1, p1
<1>3. q2 \in Seq(DecisionQueued) /\ p2 \in Seq(DecisionQueued) BY <1>1, PushType
<1>4. Len(q2) = Len(p2) BY <1>1, <1>2, <1>3, PushLength
<1> HIDE DEF q2, p2
<1>5. q3 \in Seq(DecisionQueued) /\ p3 \in Seq(DecisionQueued) BY <1>3, PushType
<1>6. Len(q3) = Len(p3) BY <1>3, <1>4, <1>5, PushLength
<1> HIDE DEF q3, p3
<1>7. q4 \in Seq(DecisionQueued) /\ p4 \in Seq(DecisionQueued) BY <1>5, PushType
<1>8. Len(q4) = Len(p4) BY <1>5, <1>6, <1>7, PushLength
<1> QED BY <1>7, <1>8 DEF Pushed, q4, q3, q2, q1, p4, p3, p2, p1

(* What a quote or a timeout sweep leaves in the slots.                     *)
LEMMA PlacingTracked ==
  ASSUME NEW m \in Manager, IdsInv(m), NEW r, Placing(m, r)
  PROVE  /\ \A id \in TrackedIds(m) : id \in TrackedIds(r.m) /\ id \in Nat /\ id < m.nextId
         /\ \A id \in TrackedIds(r.m) : id \in TrackedIds(m) \/ id >= m.nextId
         /\ r.m.nextId = m.nextId => TrackedIds(r.m) = TrackedIds(m)
<1>1. m.nextId \in Nat /\ r.m \in Manager /\ r.m.nextId \in Nat BY ManagerTypes DEF Placing
<1>2. \A s \in Slots : m.slots[s].id \in Nat /\ r.m.slots[s].id \in Nat
  BY <1>1, ManagerTypes, OrderTypes
<1>3. ASSUME NEW id \in TrackedIds(m)
      PROVE  id \in TrackedIds(r.m) /\ id \in Nat /\ id < m.nextId
  <2>1. PICK s \in Slots : Used(m, s) /\ m.slots[s].id = id BY <1>3, TrackedFacts
  <2>2. r.m.slots[s].id = m.slots[s].id BY <2>1 DEF Placing, SameButState
  <2>3. Used(r.m, s) /\ r.m.slots[s].id = id BY <2>1, <2>2 DEF Used
  <2> QED BY <1>2, <2>1, <2>3, TrackedFacts DEF IdsInv
<1>4. ASSUME NEW id \in TrackedIds(r.m)
      PROVE  id \in TrackedIds(m) \/ (m.nextId <= id /\ id < r.m.nextId /\ id \in Nat)
  <2>1. PICK s \in Slots : Used(r.m, s) /\ r.m.slots[s].id = id BY <1>4, TrackedFacts
  <2>2. CASE SameButState(m.slots[s], r.m.slots[s])
    <3>1. Used(m, s) /\ m.slots[s].id = id BY <2>1, <2>2 DEF SameButState, Used
    <3> QED BY <3>1, TrackedFacts
  <2>3. CASE m.nextId <= r.m.slots[s].id /\ r.m.slots[s].id < r.m.nextId
    BY <1>2, <2>1, <2>3
  <2> QED BY <2>2, <2>3 DEF Placing
<1>5. r.m.nextId = m.nextId => \A id \in TrackedIds(r.m) : id \in TrackedIds(m)
  BY <1>1, <1>4
<1> QED BY <1>1, <1>3, <1>4, <1>5

Backed(r) ==
  \A i \in 1..Len(r.out) : r.out[i].kind = "Send" =>
    r.out[i].id < r.m.nextId /\ r.out[i].id \in TrackedIds(r.m) /\ ~Stopped(r.m)

(* A batch of decisions r.out taken by a manager that became r.m, of which  *)
(* the queue has no room for those in `refused`.                            *)
Dispatchable(b, r, refused) ==
  /\ ManagerInv(r.m) /\ Placing(b.m, r) /\ r.m.nextId <= MaxOrders + 1
  /\ Sendable(r.out, b.m.nextId) /\ Backed(r)
  /\ b.m.nextId = r.m.nextId
       \/ (b.m.nextId = mgr.nextId /\ TrackedIds(b.m) = TrackedIds(mgr))
  /\ refused \in SUBSET {r.out[i] : i \in 1..Len(r.out)}
  /\ Len(Pushed(b.queue, r.out, refused, r.m.gen)) <= QueueCap

(* The orders sent are new to the exchange and tracked, and the refused     *)
(* ones are freed again.                                                    *)
LEMMA ChainDispatch ==
  ASSUME NEW b, NEW w \in BOOLEAN, Chain(b, w), mgr \in Manager,
         NEW r, NEW refused, Dispatchable(b, r, refused)
  PROVE  /\ Chain(SendAll(With(b, r.m), r.out, refused), w)
         /\ Rests(b) => Rests(SendAll(With(b, r.m), r.out, refused))
<1>0. /\ ManagerInv(r.m) /\ Placing(b.m, r) /\ r.m.nextId <= MaxOrders + 1
      /\ Sendable(r.out, b.m.nextId) /\ Backed(r)
      /\ b.m.nextId = r.m.nextId
           \/ (b.m.nextId = mgr.nextId /\ TrackedIds(b.m) = TrackedIds(mgr))
      /\ refused \in SUBSET {r.out[i] : i \in 1..Len(r.out)}
      /\ Len(Pushed(b.queue, r.out, refused, r.m.gen)) <= QueueCap
  BY DEF Dispatchable
<1> USE <1>0
<1> DEFINE n0 == b.m.nextId
           out == r.out
           g == r.m.gen
           q == Pushed(b.queue, out, refused, g)
           k == With(b, r.m)
           p == [k EXCEPT !.queue = q]
           n == OnDispatchFailed(r.m, refused)
           c == SendAll(k, out, refused)
           D == {d.id : d \in {x \in refused : x.kind = "Send"}}
<1>1. /\ b \in LoopType /\ b.m \in Manager /\ ManagerInv(b.m) /\ IdsInv(b.m) /\ OidInv(b.m)
      /\ r.m \in Manager /\ n0 \in Nat /\ g \in Nat /\ r.m.nextId \in Nat /\ b.m.gen \in Nat
      /\ r.m.nextId >= n0 /\ r.m.retired = b.m.retired /\ g = b.m.gen
      /\ r.m.pauses = b.m.pauses /\ r.m.shutdown = b.m.shutdown
      /\ r.m.safetyArmed = b.m.safetyArmed /\ r.m.breakerArmed = b.m.breakerArmed
  BY ChainManager, ManagerTypes DEF Placing
<1>2. b.queue \in Seq(DecisionQueued) /\ SendsInv(b) /\ ExposureInv(b) /\ SettledInv(b)
  BY <1>1, LoopTypes DEF Chain, LoopInv
<1>3. /\ \A i \in 1..Len(b.queue) : IsSend(b.queue, i) => b.queue[i].id < n0
      /\ \A i, j \in 1..Len(b.queue) :
           IsSend(b.queue, i) /\ IsSend(b.queue, j) /\ b.queue[i].id = b.queue[j].id => i = j
  BY <1>2 DEF SendsInv, SendOK
<1> HIDE DEF n0
<1>4. Sent(b.queue, out, refused, g, q, 4)
  <2> HIDE DEF g, out
  <2>1. Sendable(out, n0) BY DEF out, n0
  <2>2. b.queue \in Seq(DecisionQueued) /\ n0 \in Nat /\ g \in Nat BY <1>1, <1>2
  <2> QED BY <1>3, <2>1, <2>2, AllSent
<1>5. q \in Seq(DecisionQueued) /\ Len(q) <= QueueCap BY <1>4 DEF Sent
<1>6. /\ k \in LoopType /\ k.m = r.m /\ k.pending = b.pending /\ k.recGen = b.recGen
      /\ k.queue = b.queue /\ k.requests = b.requests /\ k.snap = b.snap
      /\ k.newReqs = b.newReqs /\ k.cancelReqs = b.cancelReqs
  BY <1>1, WithFacts
<1>7. ManagerInv(n) /\ n \in Manager BY OnDispatchFailedInv DEF ManagerInv
<1>8. /\ c \in LoopType /\ c.m = n /\ c.queue = q
      /\ c.pending = k.pending /\ c.recGen = k.recGen /\ c.requests = k.requests
      /\ c.snap = k.snap /\ c.newReqs = k.newReqs /\ c.cancelReqs = k.cancelReqs
  <2>1. q = Pushed(k.queue, out, refused, k.m.gen) /\ n = OnDispatchFailed(k.m, refused)
    BY <1>6
  <2> HIDE DEF k, q, n, c
  <2>2. c = SendAll(k, out, refused) BY DEF c
  <2> QED BY <1>5, <1>6, <1>7, <2>1, <2>2, SendAllFields
<1> HIDE DEF k, q
<1>9. /\ p \in LoopType /\ p.m = r.m /\ p.queue = q
      /\ p.pending = b.pending /\ p.recGen = b.recGen /\ p.requests = b.requests
      /\ p.snap = b.snap /\ p.newReqs = b.newReqs /\ p.cancelReqs = b.cancelReqs
  BY <1>5, <1>6 DEF LoopType
<1> HIDE DEF p
<1>10. /\ \A id \in TrackedIds(b.m) : id \in TrackedIds(r.m) /\ id \in Nat /\ id < n0
       /\ \A id \in TrackedIds(r.m) : id \in TrackedIds(b.m) \/ id >= n0
       /\ r.m.nextId = n0 => TrackedIds(r.m) = TrackedIds(b.m)
  BY <1>1, PlacingTracked DEF n0
<1>11. ASSUME NEW id, NEW h, SendOK(b.m, id, h) PROVE SendOK(r.m, id, h) /\ id < n0 /\ id \in Nat
  BY <1>1, <1>10, <1>11, IdsFacts DEF SendOK, Stopped, n0
<1>12. ASSUME NEW j \in 1..Len(out), out[j].kind = "Send"
       PROVE  /\ SendOK(r.m, out[j].id, g) /\ out[j].id >= n0 /\ out[j].id \in Ids
              /\ ex[out[j].id] = "none"
  <2>1. out[j].id \in Ids /\ out[j].id \in Nat /\ out[j].id >= n0 /\ out[j].id < r.m.nextId
    BY <1>12, IdsFacts, <1>1 DEF Sendable, Backed, n0
  <2>2. ex[out[j].id] = "none" BY <1>2, <2>1 DEF ExposureInv, n0
  <2> QED BY <1>1, <1>12, <2>1, <2>2 DEF SendOK, Backed
<1>13. SendsInv(p)
  <2>1. ASSUME NEW i \in 1..Len(q), IsSend(q, i)
        PROVE  /\ SendOK(r.m, q[i].id, q[i].gen)
               /\ Submitting => q[i].id # exec.id
    <3>1. CASE \E j \in 1..Len(b.queue) : IsSend(b.queue, j) /\ q[i] = b.queue[j]
      <4>1. PICK j \in 1..Len(b.queue) : IsSend(b.queue, j) /\ q[i] = b.queue[j] BY <3>1
      <4> QED BY <1>2, <1>11, <4>1 DEF SendsInv
    <3>2. CASE /\ q[i].gen = g
               /\ \E j \in 1..Len(out) : /\ j <= 4 /\ out[j] \notin refused
                                         /\ out[j].kind = "Send" /\ out[j].id = q[i].id
      <4>1. PICK j \in 1..Len(out) : out[j].kind = "Send" /\ out[j].id = q[i].id BY <3>2
      <4>2. SendOK(r.m, q[i].id, g) /\ q[i].id >= n0 /\ q[i].id \in Nat
        BY <1>12, <4>1, IdsFacts
      <4>3. Submitting => exec.id < n0 /\ exec.id \in Nat
        BY <1>2, <1>11 DEF SendsInv
      <4> QED BY <1>1, <3>2, <4>2, <4>3
    <3> QED BY <1>4, <2>1, <3>1, <3>2 DEF Sent
  <2>2. Submitting => SendOK(r.m, exec.id, exec.gen) BY <1>2, <1>11 DEF SendsInv
  <2>3. Committed => exec.id \in TrackedIds(r.m) BY <1>2, <1>10 DEF SendsInv
  <2> QED BY <1>4, <1>9, <2>1, <2>2, <2>3 DEF SendsInv, Sent
<1>14. ExposureInv(p)
  BY <1>1, <1>2, <1>9, <1>10, IdsFacts DEF ExposureInv, n0
<1>15. SettledInv(p) BY <1>2, <1>9 DEF SettledInv
<1>16. OidInv(r.m)
  BY <1>1 DEF OidInv, Placing, SameButState
<1>17. LoopInv(p, w)
  BY <1>1, <1>5, <1>9, <1>13, <1>14, <1>15, <1>16 DEF LoopInv, Chain
<1>18. Owned(p) BY <1>1, <1>9 DEF Owned, Chain
<1>19. Ledgered(p)
  <2>1. CASE n0 = r.m.nextId BY <1>9, <1>10, <2>1 DEF Ledgered, Chain, n0
  <2>2. CASE n0 # r.m.nextId /\ n0 = mgr.nextId /\ TrackedIds(b.m) = TrackedIds(mgr)
    BY <1>1, <1>9, <1>10, <2>2 DEF Ledgered
  <2> QED BY <2>1, <2>2 DEF n0
<1>20. Chain(p, w) BY <1>17, <1>18, <1>19 DEF Chain
<1>21. Rests(b) => Rests(p) BY <1>1, <1>9 DEF Rests, Armed
<1>22. ASSUME NEW d \in D
       PROVE  \E j \in 1..Len(out) : out[j] \in refused /\ out[j].kind = "Send" /\ out[j].id = d
  BY <1>22
<1> HIDE DEF D
<1>23. Freeable(p, D)
  <2>1. ASSUME NEW d \in D
        PROVE  /\ d \in Ids /\ ex[d] = "none" /\ d >= n0 /\ d \in Nat /\ d < r.m.nextId
               /\ \A i \in 1..Len(q) : IsSend(q, i) => q[i].id # d
               /\ Submitting => exec.id # d
    <3>1. PICK j \in 1..Len(out) : out[j] \in refused /\ out[j].kind = "Send" /\ out[j].id = d
      BY <1>22
    <3>2. d \in Ids /\ ex[d] = "none" /\ d >= n0 /\ d \in Nat /\ d < r.m.nextId
      BY <1>12, <3>1, IdsFacts DEF Backed
    <3>3. Submitting => exec.id # d BY <1>1, <1>2, <1>11, <3>2 DEF SendsInv
    <3>4. ASSUME NEW i \in 1..Len(q), IsSend(q, i) PROVE q[i].id # d
      <4>1. CASE \E l \in 1..Len(b.queue) : IsSend(b.queue, l) /\ q[i] = b.queue[l]
        <5>1. PICK l \in 1..Len(b.queue) : IsSend(b.queue, l) /\ q[i] = b.queue[l] BY <4>1
        <5>2. q[i].id < n0 /\ q[i].id \in Nat BY <1>2, <1>11, <5>1 DEF SendsInv
        <5> QED BY <1>1, <3>2, <5>2
      <4>2. CASE \E l \in 1..Len(out) : /\ l <= 4 /\ out[l] \notin refused
                                        /\ out[l].kind = "Send" /\ out[l].id = q[i].id
        <5>1. PICK l \in 1..Len(out) : /\ out[l] \notin refused
                                       /\ out[l].kind = "Send" /\ out[l].id = q[i].id
          BY <4>2
        <5>2. l # j BY <3>1, <5>1
        <5> QED BY <3>1, <5>1, <5>2 DEF Sendable
      <4> QED BY <1>4, <3>4, <4>1, <4>2 DEF Sent
    <3> QED BY <3>2, <3>3, <3>4
  <2>2. mgr.nextId \in Nat BY ManagerTypes
  <2>3. n0 = mgr.nextId \/ n0 = r.m.nextId BY DEF n0
  <2>4. r.m.nextId = mgr.nextId \/ \A d \in D : d >= mgr.nextId
    BY <1>1, <2>1, <2>2, <2>3
  <2> QED BY <1>9, <2>1, <2>4 DEF Freeable
<1>24. Shift(r.m, n, D) /\ Quiet(r.m, n)
  <2>1. \A d \in refused : d.kind = "Send" => d.id \in D BY DEF D
  <2> QED BY <1>1, <2>1, OnDispatchFailedShift
<1> HIDE DEF n
<1>25. "OrderWebSocket" \in n.pauses => w BY <1>17, <1>9, <1>24 DEF Quiet, LoopInv
<1>26. Chain(With(p, n), w) /\ (Rests(p) => Rests(With(p, n)))
  BY <1>7, <1>9, <1>20, <1>23, <1>24, <1>25, ChainShift
<1>27. c = With(p, n)
  BY ZenonT(60), <1>5, <1>6, <1>7, <1>8, <1>9 DEF LoopType, With
<1> QED BY <1>21, <1>26, <1>27 DEF c, k, out

LEMMA WithTwice ==
  ASSUME NEW b \in LoopType, NEW m \in Manager, NEW n \in Manager
  PROVE  With(With(b, m), n) = With(b, n) /\ With(b, b.m) = b
BY DEF With, LoopType

LEMMA PlacingNone ==
  ASSUME NEW m \in Manager, NEW out
  PROVE  Placing(m, [m |-> m, out |-> out])
BY ManagerTypes DEF Placing, SameButState

LEMMA RoomFacts ==
  ASSUME NEW b \in LoopType, ManagerInv(b.m), NEW out \in Seq(Decision),
         \A i \in 1..Len(out) : out[i].id \in Ids, NEW refused \in Refusals(b, out),
         NEW h \in Nat
  PROVE  /\ refused \in SUBSET {out[i] : i \in 1..Len(out)}
         /\ Len(Pushed(b.queue, out, refused, h)) <= QueueCap
<1>1. /\ refused \in SUBSET {out[i] : i \in 1..Len(out)}
      /\ Len(SendAll(b, out, refused).queue) <= QueueCap
  BY DEF Refusals
<1>2. b.m \in Manager /\ b.m.gen \in Nat /\ b.queue \in Seq(DecisionQueued)
  BY LoopTypes, ManagerTypes
<1>3. /\ Pushed(b.queue, out, refused, b.m.gen) \in Seq(DecisionQueued)
      /\ Len(Pushed(b.queue, out, refused, b.m.gen)) = Len(Pushed(b.queue, out, refused, h))
  BY <1>2, PushedLength
<1>4. OnDispatchFailed(b.m, refused) \in Manager BY OnDispatchFailedInv DEF ManagerInv
<1>5. SendAll(b, out, refused).queue = Pushed(b.queue, out, refused, b.m.gen)
  BY <1>3, <1>4, SendAllFields
<1> QED BY <1>1, <1>3, <1>5

(* Cancels of the slots found overdue.                                      *)
CancelsOnly(out) ==
  /\ out \in Seq(Decision)
  /\ \A i \in 1..Len(out) : out[i].kind = "Cancel" /\ out[i].id \in Ids

LEMMA LateCancels ==
  ASSUME NEW out, CancelsOnly(out), NEW id \in Ids
  PROVE  CancelsOnly(Append(out, CancelOf(id)))
<1> DEFINE d == CancelOf(id)
           p == Append(out, d)
<1>1. d \in Decision /\ d.kind = "Cancel" /\ d.id = id
  BY IdsFacts DEF CancelOf, Decision
<1> HIDE DEF d
<1>2. /\ p \in Seq(Decision) /\ Len(p) = Len(out) + 1 /\ Len(out) \in Nat
      /\ \A i \in 1..(Len(out) + 1) : p[i] = IF i = Len(out) + 1 THEN d ELSE out[i]
  BY <1>1, AppendFacts DEF CancelsOnly
<1> HIDE DEF p
<1>3. ASSUME NEW i \in 1..Len(p) PROVE p[i].kind = "Cancel" /\ p[i].id \in Ids
  <2>1. i = Len(out) + 1 \/ i \in 1..Len(out) BY <1>2
  <2> QED BY <1>1, <1>2, <2>1 DEF CancelsOnly
<1> QED BY <1>2, <1>3 DEF CancelsOnly, p, d

LEMMA TimeoutCancelsFacts ==
  ASSUME NEW b, NEW w, Chain(b, w), NEW overdue
  PROVE  CancelsOnly(TimeoutCancels(b, overdue))
<1> DEFINE Late(out, s) == IF s \notin TimedOut(b.m, overdue) THEN out
                           ELSE Append(out, CancelOf(b.m.slots[s].id))
           o1 == Late(<< >>, <<"Buy", 0>>)
           o2 == Late(o1, <<"Buy", 1>>)
           o3 == Late(o2, <<"Sell", 0>>)
           o4 == Late(o3, <<"Sell", 1>>)
<1>1. b.m \in Manager /\ IdsInv(b.m) /\ b.m.nextId \in Nat /\ b.m.nextId <= MaxOrders + 1
  BY ChainManager, ManagerTypes DEF Chain, LoopInv
<1>2. ASSUME NEW s \in Slots, s \in TimedOut(b.m, overdue) PROVE b.m.slots[s].id \in Ids
  <2>1. Used(b.m, s) /\ b.m.slots[s].id \in Nat /\ b.m.slots[s].id < b.m.nextId
    BY <1>1, <1>2, ManagerTypes, OrderTypes DEF TimedOut, IdsInv
  <2> QED BY <1>1, <2>1, IdsFacts DEF Used, Ids
<1>3. ASSUME NEW out, CancelsOnly(out), NEW s \in Slots PROVE CancelsOnly(Late(out, s))
  BY <1>2, <1>3, LateCancels
<1> HIDE DEF Late
<1>4. <<"Buy", 0>> \in Slots /\ <<"Buy", 1>> \in Slots /\ <<"Sell", 0>> \in Slots
      /\ <<"Sell", 1>> \in Slots
  BY DEF Slots, Sides, Levels
<1>5. CancelsOnly(<< >>) BY DEF CancelsOnly
<1>6. CancelsOnly(o1) BY <1>3, <1>4, <1>5
<1>7. CancelsOnly(o2) BY <1>3, <1>4, <1>6
<1>8. CancelsOnly(o3) BY <1>3, <1>4, <1>7
<1>9. CancelsOnly(o4) BY <1>3, <1>4, <1>8
<1>10. TimeoutCancels(b, overdue) = IF b.pending THEN << >> ELSE o4
  BY DEF TimeoutCancels, Late
<1> QED BY <1>5, <1>9, <1>10

LEMMA ChainTimeout ==
  ASSUME NEW b, NEW w \in BOOLEAN, Chain(b, w), Rests(b), mgr \in Manager, results \in Seq(Nat),
         NEW overdue, NEW refused \in Refusals(b, TimeoutCancels(b, overdue))
  PROVE  /\ Chain(TimeoutCheck(b, overdue, refused), w)
         /\ Rests(TimeoutCheck(b, overdue, refused))
<1> DEFINE out == TimeoutCancels(b, overdue)
           n == OnTimeouts(b.m, overdue)
           k == With(b, n)
           r == [m |-> n, out |-> out]
           c == SendAll(k, out, refused)
<1>1. b \in LoopType /\ b.m \in Manager /\ ManagerInv(b.m) BY ChainManager
<1>2. CancelsOnly(out) BY TimeoutCancelsFacts
<1>3. TimeoutCheck(b, overdue, refused) \in {b, BeginAccount(c), BeginAccount(Safety(c))}
  BY DEF TimeoutCheck
<1>4. ManagerInv(n) /\ Shift(b.m, n, {}) /\ ("OrderWebSocket" \in n.pauses => w)
  <2>1. Shift(b.m, b.m, {}) BY <1>1, CountersShift
  <2>2. /\ Shift(b.m, SetPause(b.m, "Reconciliation"), {})
        /\ SetPause(b.m, "Reconciliation").pauses = b.m.pauses \cup {"Reconciliation"}
    BY <1>1, SetPauseShift DEF Reasons
  <2>3. n \in {b.m, SetPause(b.m, "Reconciliation")} BY DEF OnTimeouts, BeginReconciliation
  <2>4. ManagerInv(n) BY <1>1, OnTimeoutsInv
  <2> HIDE DEF n
  <2> QED BY <2>1, <2>2, <2>3, <2>4 DEF Chain, LoopInv
<1>5. n \in Manager BY <1>4 DEF ManagerInv
<1> HIDE DEF n
<1>6. Chain(k, w) BY <1>4, ChainStill
<1>7. k \in LoopType /\ k.m = n /\ k.queue = b.queue BY <1>1, <1>5, WithFacts
<1>8. With(k, n) = k BY <1>1, <1>5, WithTwice
<1> HIDE DEF k, out
<1>9. /\ refused \in SUBSET {out[i] : i \in 1..Len(out)}
      /\ Len(Pushed(b.queue, out, refused, n.gen)) <= QueueCap
  <2>1. n.gen \in Nat BY <1>5, ManagerTypes
  <2>2. refused \in Refusals(b, out) BY DEF out
  <2>3. out \in Seq(Decision) /\ \A i \in 1..Len(out) : out[i].id \in Ids
    BY <1>2 DEF CancelsOnly
  <2> QED BY <1>1, <2>1, <2>2, <2>3, RoomFacts
<1>10. Placing(n, r) BY <1>5, PlacingNone
<1>11. r.m = n /\ r.out = out OBVIOUS
<1> HIDE DEF r
<1>12. n.nextId \in Nat /\ n.nextId <= MaxOrders + 1
  BY <1>5, <1>6, <1>7, ManagerTypes DEF Chain, LoopInv
<1>13. Sendable(out, n.nextId) BY <1>2 DEF CancelsOnly, Sendable
<1>14. \A i \in 1..Len(out) : out[i].kind # "Send" BY <1>2 DEF CancelsOnly
<1>15. Chain(SendAll(With(k, r.m), r.out, refused), w)
  <2>1. Dispatchable(k, r, refused)
    BY <1>4, <1>7, <1>9, <1>10, <1>11, <1>12, <1>13, <1>14
       DEF Backed, Dispatchable
  <2> QED BY <1>6, <2>1, ChainDispatch
<1>16. Chain(c, w) BY <1>8, <1>11, <1>15
<1> HIDE DEF c
<1>17. Chain(Safety(c), w) BY <1>16, ChainSafety
<1> QED BY <1>3, <1>16, <1>17, ChainBegin

LEMMA ChainQuote ==
  ASSUME NEW b, NEW w \in BOOLEAN, Chain(b, w), Rests(b), mgr \in Manager, results \in Seq(Nat),
         b.m.nextId = mgr.nextId, TrackedIds(b.m) = TrackedIds(mgr),
         NEW q \in Quote, NEW old,
         NEW r, r = OnQuote(b.m, q, Position, MaxDollar, old),
         NEW refused \in Refusals(b, r.out), InBounds(QuoteAndSend(b, r, refused))
  PROVE  Chain(QuoteAndSend(b, r, refused), w) /\ Rests(QuoteAndSend(b, r, refused))
<1> DEFINE c == SendAll(With(b, r.m), r.out, refused)
           z == QuoteAndSend(b, r, refused)
           p == SetPause(b.m, "RiskData")
           k == With(b, p)
           n == OnDispatchFailed(r.m, refused)
<1>1. /\ b \in LoopType /\ b.m \in Manager /\ ManagerInv(b.m) /\ IdsInv(b.m) /\ b.m.nextId > 0
      /\ b.m.nextId \in Nat
  BY ChainManager, ManagerTypes DEF ManagerInv
<1>2. ManagerInv(r.m) BY <1>1, OnQuoteInv, TradingAssumption
<1>3. r.m \in Manager /\ r.m.nextId \in Nat /\ r.m.gen \in Nat BY <1>2, ManagerTypes DEF ManagerInv
<1>4. /\ NamesOrders(b.m, r)
      /\ \/ ~Stopped(b.m) /\ Placing(b.m, r)
         \/ Placing(p, r) /\ r.m.nextId = b.m.nextId
         \/ r.m = b.m /\ r.out = << >>
  BY <1>1, OnQuotePlaces, TradingAssumption
<1>5. r.m.nextId >= b.m.nextId
  <2>2. Placing(b.m, r) => r.m.nextId >= b.m.nextId BY DEF Placing
  <2> QED BY <1>1, <1>3, <1>4, <2>2
<1>6. /\ With(b, r.m) \in LoopType /\ With(b, r.m).m = r.m /\ With(b, r.m).queue = b.queue
  BY <1>1, <1>3, WithFacts
<1>7. z \in {c, BeginAccount(Safety(c))} BY DEF QuoteAndSend
(* The bound on the identities handed out holds before the sends, too.      *)
<1>8. r.out \in Seq(Decision) BY <1>4 DEF NamesOrders
<1>9. \A i \in 1..Len(r.out) : r.out[i].id \in Nat BY <1>8, DecisionTypes
<1>10. ManagerInv(n) /\ n.nextId = r.m.nextId /\ n \in Manager
  <2>1. ManagerInv(n) BY <1>2, OnDispatchFailedInv
  <2>2. Shift(r.m, n, {d.id : d \in refused}) BY <1>3, OnDispatchFailedShift
  <2> QED BY <2>1, <2>2 DEF Shift, ManagerInv
<1>11. c.m = n
  BY <1>6 DEF SendAll, LoopType
<1>12. z.m.nextId = r.m.nextId
  <2>1. b.pending \in BOOLEAN BY <1>1, LoopTypes
  <2>2. Shift(n, TriggerSafety(n), {}) BY <1>10, TriggerSafetyShift
  <2>3. TriggerSafety(n) \in Manager /\ TriggerSafety(n).nextId = n.nextId
    BY <2>2 DEF Shift
  <2>4. EnterReconciliation(TriggerSafety(n)).nextId = n.nextId
    BY <2>3, EnterReconciliationShift DEF Shift
  <2>5. /\ Safety(c).m = TriggerSafety(n)
        /\ BeginAccount(Safety(c)).m \in {TriggerSafety(n), EnterReconciliation(TriggerSafety(n))}
    <3>1. c = [With(b, r.m) EXCEPT !.queue = c.queue, !.m = n]
      BY <1>6, <1>11 DEF SendAll, LoopType
    <3>2. DOMAIN With(b, r.m) = DOMAIN c /\ "m" \in DOMAIN c
      BY <1>6, <3>1 DEF LoopType
    <3> HIDE DEF c, n
    <3> DEFINE x == Safety(c)
    <3>3. x.m = TriggerSafety(n) /\ "m" \in DOMAIN x BY <1>11, <3>2 DEF Safety, With
    <3> HIDE DEF x
    <3>4. BeginAccount(x).m \in {x.m, EnterReconciliation(x.m)}
      BY <3>3 DEF BeginAccount
    <3> QED BY <3>3, <3>4 DEF x
  <2> QED BY <1>7, <1>10, <1>11, <2>3, <2>4, <2>5
<1>13. r.m.nextId <= MaxOrders + 1 BY <1>12 DEF InBounds
<1>14. \A i \in 1..Len(r.out) :
         /\ r.out[i].id \in TrackedIds(r.m) /\ r.out[i].id \in Ids
         /\ r.out[i].id < r.m.nextId
         /\ r.out[i].kind = "Send" => b.m.nextId <= r.out[i].id
  <2> SUFFICES ASSUME NEW i \in 1..Len(r.out)
               PROVE  /\ r.out[i].id \in TrackedIds(r.m) /\ r.out[i].id \in Ids
                      /\ r.out[i].id < r.m.nextId
                      /\ r.out[i].kind = "Send" => b.m.nextId <= r.out[i].id
    OBVIOUS
  <2>1. PICK s \in Slots : Used(r.m, s) /\ r.m.slots[s].id = r.out[i].id
    BY <1>4 DEF NamesOrders
  <2>2. r.out[i].id \in TrackedIds(r.m) BY <2>1, TrackedFacts
  <2>3. r.out[i].id < r.m.nextId BY <1>2, <2>1 DEF ManagerInv, IdsInv
  <2>4. r.out[i].id > 0 /\ r.out[i].id \in Nat BY <1>9, <2>1 DEF Used
  <2>5. r.out[i].id \in Ids BY <1>3, <1>13, <2>3, <2>4, IdsFacts DEF Ids
  <2> QED BY <1>4, <2>2, <2>3, <2>5 DEF NamesOrders
<1>15. Sendable(r.out, b.m.nextId)
  BY <1>8, <1>14, <1>4 DEF Sendable, NamesOrders
<1>16. /\ refused \in SUBSET {r.out[i] : i \in 1..Len(r.out)}
       /\ Len(Pushed(b.queue, r.out, refused, r.m.gen)) <= QueueCap
  BY <1>1, <1>3, <1>8, <1>14, RoomFacts
<1>17. Chain(c, w) /\ Rests(c)
  <2>1. CASE ~Stopped(b.m) /\ Placing(b.m, r)
    <3>1. ~Stopped(r.m) BY <2>1 DEF Stopped, Placing
    <3>2. Backed(r) BY <1>14, <3>1 DEF Backed
    <3>3. Dispatchable(b, r, refused)
      BY <1>2, <1>13, <1>15, <1>16, <2>1, <3>2 DEF Dispatchable
    <3> QED BY <3>3, ChainDispatch
  <2>2. CASE r.m = b.m /\ r.out = << >>
    <3>1. Placing(b.m, r) BY <1>1, <2>2, ManagerTypes DEF Placing, SameButState
    <3>2. Backed(r) BY <2>2 DEF Backed
    <3>3. Dispatchable(b, r, refused)
      BY <1>2, <1>13, <1>15, <1>16, <2>2, <3>1, <3>2 DEF Dispatchable
    <3> QED BY <3>3, ChainDispatch
  <2>3. CASE Placing(p, r) /\ r.m.nextId = b.m.nextId
    <3>1. /\ ManagerInv(p) /\ Shift(b.m, p, {}) /\ Quiet(b.m, p) /\ p.nextId = b.m.nextId
      BY <1>1, SetPauseInv, SetPauseShift, SetPauseEffect DEF SameOrders, Reasons
    <3>2. p \in Manager BY <3>1 DEF ManagerInv
    <3> HIDE DEF p
    <3>3. Chain(k, w) /\ Rests(k) BY <3>1, ChainQuiet
    <3>4. k.m = p /\ k.queue = b.queue BY <1>1, <3>2, WithFacts
    <3>5. With(k, r.m) = With(b, r.m) BY <1>1, <1>3, <3>2, WithTwice
    <3> HIDE DEF k
    <3>6. Backed(r) BY <1>1, <1>9, <1>14, <2>3 DEF Backed
    <3>7. Dispatchable(k, r, refused)
      BY <1>2, <1>13, <1>15, <1>16, <2>3, <3>1, <3>4, <3>6 DEF Dispatchable
    <3>8. /\ Chain(SendAll(With(k, r.m), r.out, refused), w)
          /\ Rests(SendAll(With(k, r.m), r.out, refused))
      BY <3>3, <3>7, ChainDispatch
    <3> QED BY <3>5, <3>8
  <2> QED BY <1>4, <2>1, <2>2, <2>3
<1> HIDE DEF c, z
<1>18. Chain(Safety(c), w) BY <1>17, ChainSafety
<1>19. Chain(BeginAccount(Safety(c)), w) /\ Rests(BeginAccount(Safety(c)))
  BY <1>18, ChainBegin
<1> QED BY <1>7, <1>17, <1>19 DEF z

----------------------------------------------------------------------------
(* The steps of the event loop                                              *)

LEMMA LoopFields ==
  /\ Loop.m = mgr /\ Loop.pending = pending /\ Loop.recGen = recGen
  /\ Loop.queue = queue /\ Loop.requests = requests /\ Loop.snap = snap
  /\ Loop.newReqs = newReqs /\ Loop.cancelReqs = cancelReqs
  /\ Loop'.m = mgr' /\ Loop'.pending = pending' /\ Loop'.recGen = recGen'
  /\ Loop'.queue = queue' /\ Loop'.requests = requests' /\ Loop'.snap = snap'
  /\ Loop'.newReqs = newReqs' /\ Loop'.cancelReqs = cancelReqs'
BY DEF Loop

LEMMA LoopStarts ==
  ASSUME Inv, main = "loop"
  PROVE  /\ Chain(Loop, Way) /\ Rests(Loop) /\ Way \in BOOLEAN
         /\ mgr \in Manager /\ results \in Seq(Nat)
         /\ Loop.m = mgr
BY LoopFields DEF Inv, Chain, Ledgered, TypeOK, Way

(* Whatever the loop computed becomes the state; the other tasks, the       *)
(* exchange and what is owed to the way out stand as they were.             *)
LEMMA BecomeKeeps ==
  ASSUME Inv, main = "loop", NEW c, Become(c),
         NEW w \in BOOLEAN, LoopInv(c, w), w => Transport',
         SettledInv(c)', Owned(c)', Rests(c)
  PROVE  LoopInv(Loop, Way)' /\ Owned(Loop)' /\ Rests(Loop)'
<1>1. /\ mgr' = c.m /\ pending' = c.pending /\ recGen' = c.recGen
      /\ queue' = c.queue /\ requests' = c.requests
      /\ snap' = IF c.pending THEN NoSnap ELSE c.snap
      /\ newReqs' = c.newReqs /\ cancelReqs' = c.cancelReqs
      /\ exec' = exec /\ worker' = worker /\ ex' = ex /\ main' = main /\ verified' = verified
  BY DEF Become, exchVars, endVars
<1>2. c \in LoopType /\ LoopInv(c, w) /\ Rests(c) BY DEF LoopInv
<1>3. NoSnap \in [polled: BOOLEAN, open: SUBSET Ids] /\ NoSnap.open = {} BY DEF NoSnap
<1>4. /\ mgr' \in Manager /\ pending' \in BOOLEAN /\ recGen' \in Nat
      /\ queue' \in Seq(DecisionQueued) /\ requests' \in Seq(Nat)
      /\ snap' \in [polled: BOOLEAN, open: SUBSET Ids]
      /\ newReqs' \in SUBSET Ids /\ cancelReqs' \in SUBSET Ids
  BY <1>1, <1>2, <1>3, LoopTypes
<1>5. Loop' \in LoopType BY <1>4 DEF Loop, LoopType
<1>6. snap'.open \subseteq c.snap.open BY <1>1, <1>3
<1>7. /\ Loop'.m = c.m /\ Loop'.queue = c.queue /\ Loop'.newReqs = c.newReqs
      /\ Loop'.requests = c.requests /\ Loop'.pending = c.pending
      /\ Loop'.recGen = c.recGen /\ Loop'.snap.open \subseteq c.snap.open
  BY <1>1, <1>6, LoopFields
<1>8. SendsInv(Loop)'
  BY <1>1, <1>2, <1>7 DEF LoopInv, SendsInv, SendOK, Submitting, Committed
<1>9. ExposureInv(Loop)'
  BY <1>1, <1>2, <1>7 DEF LoopInv, ExposureInv, Exposed
<1>10. SettledInv(Loop)' BY <1>1, <1>7 DEF SettledInv
<1>11. LoopInv(Loop, Way)'
  BY <1>1, <1>2, <1>5, <1>7, <1>8, <1>9, <1>10 DEF LoopInv, Way
<1>12. Owned(Loop)' BY <1>1, <1>7 DEF Owned
<1>13. Rests(Loop)' BY <1>2, <1>7 DEF Rests
<1> QED BY <1>11, <1>12, <1>13

(* The part of the type invariant a handler writes.                         *)
LEMMA BecomeTypes ==
  ASSUME Inv, main = "loop", NEW c, Become(c), NEW w, LoopInv(c, w)
  PROVE  /\ mgr' \in Manager /\ genOf' \in [Ids -> Nat] /\ pending' \in BOOLEAN /\ recGen' \in Nat
         /\ queue' \in Seq(DecisionQueued) /\ Len(queue') <= QueueCap
         /\ requests' \in Seq(Nat) /\ snap' \in [polled: BOOLEAN, open: SUBSET Ids]
         /\ newReqs' \subseteq Ids /\ cancelReqs' \subseteq Ids
<1>1. /\ mgr' = c.m /\ pending' = c.pending /\ recGen' = c.recGen
      /\ queue' = c.queue /\ requests' = c.requests
      /\ snap' = IF c.pending THEN NoSnap ELSE c.snap
      /\ newReqs' = c.newReqs /\ cancelReqs' = c.cancelReqs
      /\ genOf' = [id \in Ids |->
           IF id \in mgr.nextId..(c.m.nextId - 1) THEN mgr.gen ELSE genOf[id]]
  BY DEF Become
<1>2. c \in LoopType /\ Len(c.queue) <= QueueCap BY DEF LoopInv
<1>3. NoSnap \in [polled: BOOLEAN, open: SUBSET Ids] BY DEF NoSnap
<1>4. mgr.gen \in Nat /\ genOf \in [Ids -> Nat] BY ManagerTypes DEF Inv, TypeOK
<1> QED BY <1>1, <1>2, <1>3, <1>4, LoopTypes

(* What a step of the loop does to the orders the exchange may have: it     *)
(* forgets some, or gives out identities and keeps some of those.           *)
LedgerStep ==
  /\ ex' = ex
  /\ \/ mgr'.nextId = mgr.nextId /\ TrackedIds(mgr') \subseteq TrackedIds(mgr)
     \/ /\ mgr.nextId < mgr'.nextId
        /\ \A id \in TrackedIds(mgr) : id < mgr.nextId /\ id \in TrackedIds(mgr')
        /\ \A id \in TrackedIds(mgr') : id \in TrackedIds(mgr) \/ id >= mgr.nextId

(* A step of the loop that takes no reconciliation result.                  *)
LEMMA LoopStep ==
  ASSUME Inv, main = "loop", NEW c, Become(c), NEW w \in BOOLEAN, Chain(c, w), Rests(c),
         w => Transport', results' = results, faults' \in 0..FaultCap,
         events' \in Seq([kind: EventKinds, id: 0..MaxOrders]), Len(events') <= EventCap + 1,
         conn' \in {"up", "closing", "down"}, trouble' \in 0..MaxTrouble, AnswersInv'
  PROVE  Inv' /\ LedgerStep
<1>1. /\ exec' = exec /\ lock' = lock /\ worker' = worker
      /\ ex' = ex /\ cancels' = cancels /\ resp' = resp
      /\ main' = main /\ attempts' = attempts /\ verified' = verified
      /\ newReqs' = c.newReqs
  BY DEF Become, exchVars, endVars
<1>2. SettledInv(c)' /\ Owned(c)' /\ LoopInv(c, w)
  BY <1>1 DEF Chain, LoopInv, SettledInv, Owned
<1>3. LoopInv(Loop, Way)' /\ Owned(Loop)' /\ Rests(Loop)' BY <1>2, BecomeKeeps
<1>4. TypeOK' BY SMTT(30), <1>1, <1>2, BecomeTypes DEF Inv, TypeOK
<1>5. LockInv' BY <1>1 DEF Inv, LockInv
<1>6. VerdictInv' BY <1>1 DEF Inv, VerdictInv, Exposed, Committed
<1>7. mgr' = c.m BY DEF Become
<1>8. LedgerStep BY <1>1, <1>7 DEF Chain, Ledgered, LedgerStep
<1> QED BY <1>3, <1>4, <1>5, <1>6, <1>8 DEF Inv

LEMMA Trouble ==
  ASSUME trouble \in 0..MaxTrouble
  PROVE  /\ \A f : Suffer(f) => trouble' \in 0..MaxTrouble
         /\ \A f, c : SufferIf(c, f) => trouble' \in 0..MaxTrouble
BY TradingAssumption DEF Suffer, SufferIf

(* The answers in flight stay true while the exchange stands still.         *)
LEMMA AnswersStand ==
  ASSUME Inv, ex' = ex, resp' = resp, events' = events, conn' = conn \/ conn' # "up"
  PROVE  AnswersInv' /\ (Transport => Transport')
BY DEF Inv, AnswersInv, Transport

LEMMA EventsTail ==
  ASSUME Inv, events # << >>, events' = Tail(events), ex' = ex, resp' = resp, conn' = conn
  PROVE  /\ AnswersInv' /\ events' \in Seq([kind: EventKinds, id: 0..MaxOrders])
         /\ Len(events') <= EventCap + 1
         /\ Head(events).kind = "disconnected" => Transport'
         /\ Head(events).kind # "authenticated" => (Transport => Transport')
         /\ Head(events).kind \in EventKinds
         /\ Head(events).kind \in Ending =>
              Head(events).id \in Ids /\ ex[Head(events).id] = "done"
         /\ Head(events).kind \in {"accepted", "partial"} => Head(events).id \in Ids
<1> DEFINE n == Len(events)
<1>1. events \in Seq([kind: EventKinds, id: 0..MaxOrders]) /\ Len(events) <= EventCap + 1
      /\ EventCap \in Nat /\ AnswersInv
  BY TradingAssumption DEF Inv, TypeOK
<1>2. /\ events' \in Seq([kind: EventKinds, id: 0..MaxOrders]) /\ n \in Nat /\ n > 0
      /\ Len(events') = n - 1 /\ Head(events) = events[1]
      /\ \A i \in 1..(n - 1) : i + 1 \in 1..n /\ events'[i] = events[i + 1]
  BY <1>1, TailFacts
<1>3. ASSUME NEW j \in 1..n, j > 1
      PROVE  j - 1 \in 1..Len(events') /\ events'[j - 1] = events[j]
  <2>1. j - 1 \in 1..(n - 1) /\ (j - 1) + 1 = j BY <1>2, <1>3
  <2> QED BY <1>2, <2>1
<1>4. 1 \in 1..n BY <1>2
<1> HIDE DEF n
<1>5. ASSUME NEW i \in 1..n, NEW j \in 1..n, j > i, i >= 1, events[j].kind = "authenticated"
      PROVE  \E k \in 1..Len(events') : k > i - 1 /\ events'[k].kind = "authenticated"
  <2>1. j > 1 /\ j - 1 > i - 1 BY <1>2, <1>5
  <2> QED BY <1>3, <1>5, <2>1
<1>6. ASSUME NEW i \in 1..Len(events')
      PROVE  /\ events'[i].kind \in EventKinds
             /\ events'[i].kind \in Ending => events'[i].id \in Ids /\ ex[events'[i].id] = "done"
             /\ events'[i].kind \in {"accepted", "partial"} => events'[i].id \in Ids
             /\ events'[i].kind = "disconnected" =>
                  conn # "up" \/ \E k \in 1..Len(events') : k > i /\ events'[k].kind = "authenticated"
  <2>1. i + 1 \in 1..n /\ events'[i] = events[i + 1] /\ i + 1 >= 1 /\ (i + 1) - 1 = i
    BY <1>2, <1>6 DEF n
  <2> DEFINE l == i + 1
  <2>2. /\ events[l].kind \in EventKinds
        /\ events[l].kind \in Ending => events[l].id \in Ids /\ ex[events[l].id] = "done"
        /\ events[l].kind \in {"accepted", "partial"} => events[l].id \in Ids
        /\ events[l].kind = "disconnected" =>
             conn # "up" \/ \E j \in 1..n : j > l /\ events[j].kind = "authenticated"
    BY <1>1, <2>1 DEF AnswersInv, n
  <2>3. l \in 1..n /\ events'[i] = events[l] /\ l >= 1 /\ l - 1 = i BY <2>1
  <2> HIDE DEF l
  <2> QED BY <1>5, <2>2, <2>3
<1>7. AnswersInv' BY <1>1, <1>6 DEF AnswersInv
<1>8. Head(events).kind = "disconnected" => Transport'
  <2>1. SUFFICES ASSUME events[1].kind = "disconnected", conn = "up" PROVE Transport'
    BY <1>2 DEF Transport
  <2>2. PICK j \in 1..n : j > 1 /\ events[j].kind = "authenticated"
    BY <1>1, <1>4, <2>1 DEF AnswersInv, n
  <2> QED BY <1>3, <2>2 DEF Transport
<1>9. Head(events).kind # "authenticated" => (Transport => Transport')
  <2>1. SUFFICES ASSUME events[1].kind # "authenticated", conn = "up", Transport PROVE Transport'
    BY <1>2 DEF Transport
  <2>2. PICK j \in 1..n : events[j].kind = "authenticated" BY <2>1 DEF Transport, n
  <2>3. j > 1 BY <1>2, <2>1, <2>2
  <2> QED BY <1>3, <2>2, <2>3 DEF Transport
<1> QED BY <1>1, <1>2, <1>4, <1>7, <1>8, <1>9 DEF AnswersInv, n

LEMMA OrderEventInv ==
  ASSUME Inv, OrderEvent
  PROVE  Inv' /\ LedgerStep
<1> DEFINE e == Head(events)
           c == Handle(Loop, e)
           v == Transport'
<1>1. /\ events # << >> /\ events' = Tail(events) /\ Become(c) /\ main = "loop"
      /\ results' = results /\ faults' = faults /\ conn' = conn /\ trouble' = trouble
      /\ ex' = ex /\ resp' = resp
  BY DEF OrderEvent, Become, exchVars
<1>2. /\ AnswersInv' /\ events' \in Seq([kind: EventKinds, id: 0..MaxOrders])
      /\ Len(events') <= EventCap + 1
      /\ e.kind = "disconnected" => v
      /\ e.kind # "authenticated" => (Transport => v)
      /\ e.kind \in EventKinds
      /\ e.kind \in Ending => e.id \in Ids /\ ex[e.id] = "done"
      /\ e.kind \in {"accepted", "partial"} => e.id \in Ids
  BY <1>1, EventsTail
<1>3. /\ Chain(Loop, Way) /\ Rests(Loop) /\ mgr \in Manager /\ results \in Seq(Nat)
      /\ Loop.m.nextId = mgr.nextId /\ Way \in BOOLEAN
  BY <1>1, LoopStarts
<1>4. v \in BOOLEAN /\ (v => Transport') BY DEF Transport
<1>5. Way => Transport BY <1>1 DEF Way
<1> HIDE DEF e, v
<1>6. Chain(c, v) /\ Rests(c) BY <1>2, <1>3, <1>4, <1>5, ChainHandle
<1>7. /\ faults' \in 0..FaultCap /\ conn' \in {"up", "closing", "down"}
      /\ trouble' \in 0..MaxTrouble
  BY <1>1 DEF Inv, TypeOK
<1> HIDE DEF c
<1> QED BY <1>1, <1>2, <1>4, <1>6, <1>7, LoopStep

(* A step of the loop that leaves events and results alone.                 *)
LEMMA QuietStep ==
  ASSUME Inv, main = "loop", NEW c, Become(c), NEW w \in BOOLEAN, Chain(c, w), Rests(c),
         w => Transport', results' = results, events' = events, faults' \in 0..FaultCap,
         conn' \in {conn, "closing"}, trouble' \in 0..MaxTrouble
  PROVE  Inv' /\ LedgerStep
<1>1. ex' = ex /\ resp' = resp BY DEF Become, exchVars
<1>2. AnswersInv' BY <1>1, AnswersStand
<1>3. /\ events' \in Seq([kind: EventKinds, id: 0..MaxOrders]) /\ Len(events') <= EventCap + 1
      /\ conn' \in {"up", "closing", "down"}
  BY DEF Inv, TypeOK
<1> QED BY <1>2, <1>3, LoopStep

LEMMA WayStands ==
  ASSUME Inv, main = "loop", ex' = ex, resp' = resp, events' = events,
         conn' \in {conn, "closing"}
  PROVE  Way => Transport'
BY AnswersStand DEF Way

LEMMA ExecutorFaultInv ==
  ASSUME Inv, ExecutorFault
  PROVE  Inv' /\ LedgerStep
<1> DEFINE c == BeginAccount(Safety(Loop))
<1>1. /\ Become(c) /\ main = "loop" /\ results' = results /\ events' = events
      /\ faults > 0 /\ faults' = faults - 1 /\ conn' = conn /\ trouble' = trouble
      /\ ex' = ex /\ resp' = resp
  BY DEF ExecutorFault, Become, exchVars
<1>2. Chain(Loop, Way) /\ mgr \in Manager /\ results \in Seq(Nat) /\ Way \in BOOLEAN
  BY <1>1, LoopStarts
<1>3. Chain(c, Way) /\ Rests(c) BY <1>2, ChainSafety, ChainBegin
<1>4. Way => Transport' BY <1>1, WayStands
<1>5. /\ faults' \in 0..FaultCap /\ trouble' \in 0..MaxTrouble
  BY <1>1, TradingAssumption DEF Inv, TypeOK
<1> HIDE DEF c
<1> QED BY <1>1, <1>2, <1>3, <1>4, <1>5, QuietStep

LEMMA MarketOutageInv ==
  ASSUME Inv, MarketOutage
  PROVE  Inv' /\ LedgerStep
<1> DEFINE c == BeginAccount(With(Loop, BeginReconciliation(SetPause(mgr, "MarketData"))))
           b == BeginAccount(Loop)
           p == SetPause(b.m, "MarketData")
           d == With(b, p)
<1>1. PICK z \in {c, d} : Become(z)
  BY DEF MarketOutage
<1>2. /\ main = "loop" /\ results' = results /\ events' = events /\ Suffer("market lost")
      /\ faults' = faults /\ conn' = conn /\ ex' = ex /\ resp' = resp
  BY <1>1 DEF MarketOutage, Become, exchVars
<1>3. /\ Chain(Loop, Way) /\ mgr \in Manager /\ results \in Seq(Nat) /\ Way \in BOOLEAN
      /\ Loop.m = mgr
  BY <1>2, LoopStarts
<1>4. Chain(c, Way) /\ Rests(c) BY <1>3, ChainOutage
<1>5. Chain(b, Way) /\ Rests(b) BY <1>3, ChainBegin
<1>6. b.m \in Manager /\ ManagerInv(b.m) BY <1>5, ChainManager
<1> HIDE DEF b, c
<1>7. ManagerInv(p) /\ Shift(b.m, p, {}) /\ Quiet(b.m, p)
  BY <1>6, SetPauseInv, SetPauseShift DEF Reasons
<1> HIDE DEF p
<1>8. Chain(d, Way) /\ Rests(d) BY <1>3, <1>5, <1>7, ChainQuiet
<1> HIDE DEF d
<1>9. Way => Transport' BY <1>2, WayStands
<1>10. /\ faults' \in 0..FaultCap /\ trouble' \in 0..MaxTrouble
  BY <1>2, Trouble DEF Inv, TypeOK
<1> QED BY <1>1, <1>2, <1>3, <1>4, <1>8, <1>9, <1>10, QuietStep

LEMMA DepthQuoteInv ==
  ASSUME Inv, NEW q \in Quotes, NEW old, DepthQuote(q, old)
  PROVE  Inv' /\ LedgerStep
<1> DEFINE n == ClearPause(mgr, "MarketData")
           b == With(Loop, n)
           r == OnQuote(b.m, q, Position, MaxDollar, old)
<1>1. PICK refused \in Refusals(b, r.out) : Become(QuoteAndSend(b, r, refused))
  BY DEF DepthQuote
<1> DEFINE c == QuoteAndSend(b, r, refused)
<1>2. /\ main = "loop" /\ results' = results /\ events' = events /\ trouble' = trouble
      /\ faults' = faults /\ conn' = conn /\ ex' = ex /\ resp' = resp /\ InBounds(c)
  BY <1>1 DEF DepthQuote, Become, exchVars
<1>3. /\ Chain(Loop, Way) /\ Rests(Loop) /\ mgr \in Manager /\ results \in Seq(Nat)
      /\ Way \in BOOLEAN /\ Loop.m = mgr
  BY <1>2, LoopStarts
<1>4. ManagerInv(mgr) /\ Loop \in LoopType BY <1>3, ChainManager
<1>5. /\ ManagerInv(n) /\ Shift(mgr, n, {}) /\ Quiet(mgr, n)
      /\ n.nextId = mgr.nextId /\ n.slots = mgr.slots
  BY ZenonT(60), <1>3, <1>4, ClearPauseInv, ClearPauseShift, ClearPauseEffect DEF Reasons, SameOrders
<1>6. n \in Manager /\ TrackedIds(n) = TrackedIds(mgr)
  BY <1>5 DEF ManagerInv, TrackedIds, Used
<1> HIDE DEF n
<1>7. Chain(b, Way) /\ Rests(b) /\ b.m = n
  BY <1>3, <1>4, <1>5, <1>6, ChainQuiet, WithFacts
<1>8. q \in Quote BY TradingAssumption
<1> HIDE DEF b
<1>9. Chain(c, Way) /\ Rests(c)
  <2>1. r = OnQuote(b.m, q, Position, MaxDollar, old) OBVIOUS
  <2> HIDE DEF r
  <2> QED BY <1>2, <1>3, <1>5, <1>6, <1>7, <1>8, <2>1, ChainQuote
<1>10. Way => Transport' BY <1>2, WayStands
<1>11. faults' \in 0..FaultCap /\ trouble' \in 0..MaxTrouble BY <1>2 DEF Inv, TypeOK
<1> HIDE DEF r
<1> QED BY <1>1, <1>2, <1>3, <1>9, <1>10, <1>11, QuietStep

LEMMA TickInv ==
  ASSUME Inv, NEW fault, NEW polled \in BOOLEAN, NEW cooled, NEW late,
         Tick(fault, polled, cooled, late), trouble' \in 0..MaxTrouble
  PROVE  Inv' /\ LedgerStep
<1> DEFINE expiring == fault = "token expiring" /\ conn = "up"
           v == Transport'
<1> DEFINE x(before) == BeforeTimeouts(fault, polled, late, before)
           y(b, refused) ==
             RecoveryCheck(TokenCheck(TimeoutCheck(b, late, refused), expiring), cooled)
<1>17. /\ \E before : \E refused \in Refusals(x(before), TimeoutCancels(x(before), late)) :
              Become(y(x(before), refused))
       /\ conn' = IF expiring THEN "closing" ELSE conn
       /\ UNCHANGED <<results, faults, events>>
  BY DEF Tick
<1>18. PICK before : \E refused \in Refusals(x(before), TimeoutCancels(x(before), late)) :
                       Become(y(x(before), refused))
  BY <1>17
<1> DEFINE b == x(before)
<1>1. PICK refused \in Refusals(b, TimeoutCancels(b, late)) : Become(y(b, refused))
  BY <1>18
<1> DEFINE f == Publications(Loop, polled)
           d == DepthCheck(f, fault = "depth stale")
           k == RiskCheck(d, fault # "risk stale")
           s == SnapshotCheck(k, late, fault = "odd order", before)
           t == TimeoutCheck(b, late, refused)
           u == TokenCheck(t, expiring)
           c == RecoveryCheck(u, cooled)
<1>2. /\ main = "loop" /\ results' = results /\ events' = events
      /\ faults' = faults /\ ex' = ex /\ resp' = resp
      /\ conn' \in {conn, "closing"} /\ (expiring => conn' = "closing")
  BY <1>1, <1>17 DEF Become, exchVars
<1>3. /\ Chain(Loop, Way) /\ Rests(Loop) /\ mgr \in Manager /\ results \in Seq(Nat)
      /\ Way \in BOOLEAN
  BY <1>2, LoopStarts
<1>4. Chain(f, Way) /\ Rests(f) BY <1>3, ChainPublications
<1> HIDE DEF f
<1>5. Chain(d, Way) /\ Rests(d) BY <1>3, <1>4, ChainDepth
<1> HIDE DEF d
<1>6. Chain(k, Way) /\ Rests(k) BY <1>3, <1>5, ChainRisk
<1> HIDE DEF k
<1>7. Chain(s, Way) /\ Rests(s) BY <1>3, <1>6, ChainSnapshot
<1>8. b = SignalCheck(s, fault) BY DEF BeforeTimeouts, s, k, d, f
<1> HIDE DEF s, x
<1>9. Chain(b, Way) /\ Rests(b) BY <1>3, <1>7, <1>8, ChainSignal
<1>10. Chain(t, Way) /\ Rests(t) BY <1>3, <1>9, ChainTimeout
<1> HIDE DEF t
<1>11. v \in BOOLEAN /\ (v => Transport') /\ (expiring => v) BY <1>2 DEF Transport
<1>12. Way => v BY <1>2, WayStands
<1> HIDE DEF v
<1>13. Chain(u, v) /\ Rests(u)
  <2>1. expiring \in BOOLEAN OBVIOUS
  <2> HIDE DEF expiring
  <2> QED BY <1>3, <1>10, <1>11, <1>12, <2>1, ChainToken
<1> HIDE DEF u
<1>14. Chain(c, v) /\ Rests(c) BY <1>3, <1>11, <1>13, ChainRecovery
<1>15. Become(c) BY <1>1 DEF c, u, t
<1> HIDE DEF c
<1>16. faults' \in 0..FaultCap BY <1>2 DEF Inv, TypeOK
<1> QED BY <1>2, <1>11, <1>14, <1>15, <1>16, QuietStep

(* A verified cleanup: nothing is exposed, nothing is unresolved, and every *)
(* decision on its way is of a generation that is retired with it.          *)
LEMMA VerifiedFacts ==
  ASSUME Inv, main = "loop", results # << >>
  PROVE  /\ pending /\ "Reconciliation" \in mgr.pauses /\ requests = << >>
         /\ worker.pc = "idle" /\ Len(results) = 1 /\ Head(results) = recGen
         /\ Exposed = {} /\ ~Committed /\ newReqs = {}
<1>1. /\ Len(requests) + Len(results) + (IF worker.pc = "idle" THEN 0 ELSE 1)
           = (IF pending THEN 1 ELSE 0)
      /\ pending => "Reconciliation" \in mgr.pauses
      /\ Head(results) = recGen
  BY LoopFields DEF Inv, Owned
<1>2. /\ Len(results) \in Nat /\ (Len(results) = 0 <=> results = << >>)
      /\ Len(requests) \in Nat /\ (Len(requests) = 0 <=> requests = << >>)
      /\ pending \in BOOLEAN
  BY EmptyFacts DEF Inv, TypeOK
<1> DEFINE x == IF worker.pc = "idle" THEN 0 ELSE 1
           y == IF pending THEN 1 ELSE 0
           l == Len(results)
           k == Len(requests)
<1>3. k + l + x = y /\ l # 0 /\ k \in Nat /\ l \in Nat /\ x \in {0, 1} /\ y \in {0, 1}
  BY <1>1, <1>2
<1>4. (x = 0 => worker.pc = "idle") /\ (y = 1 => pending) BY <1>2
<1> HIDE DEF x, y, l, k
<1>5. x = 0 /\ y = 1 /\ l = 1 /\ k = 0 BY <1>3
<1>6. pending /\ worker.pc = "idle" /\ Len(results) = 1 /\ requests = << >>
  BY <1>2, <1>4, <1>5 DEF l, k
<1>7. Exposed = {} /\ ~Committed BY DEF Inv, VerdictInv
<1>8. newReqs = {} BY LoopFields DEF Inv, LoopInv, SettledInv
<1> QED BY <1>1, <1>6, <1>7, <1>8

LEMMA ReconciliationVerifiedInv ==
  ASSUME Inv, ReconciliationVerified
  PROVE  Inv' /\ LedgerStep
<1> DEFINE n == LeaveReconciliation(mgr)
<1>28. PICK c : c = FinishAccount(Loop) OBVIOUS
<1>1. /\ main = "loop" /\ results # << >> /\ results' = Tail(results)
      /\ faults' = faults /\ events' = events /\ conn' = conn /\ trouble' = trouble
      /\ ex' = ex /\ resp' = resp /\ exec' = exec /\ lock' = lock /\ worker' = worker
      /\ cancels' = cancels
      /\ main' = main /\ attempts' = attempts /\ verified' = verified
  BY DEF ReconciliationVerified, Become, exchVars, endVars
<1>2. /\ pending /\ "Reconciliation" \in mgr.pauses /\ requests = << >>
      /\ worker.pc = "idle" /\ Len(results) = 1 /\ Head(results) = recGen
      /\ Exposed = {} /\ ~Committed /\ newReqs = {}
  BY <1>1, VerifiedFacts
<1>3. Become(c) BY <1>2, <1>28 DEF ReconciliationVerified
<1>4. /\ LoopInv(Loop, Way) /\ Loop \in LoopType /\ Loop.m = mgr /\ mgr \in Manager
      /\ ManagerInv(mgr) /\ Way \in BOOLEAN
  BY <1>1, LoopStarts, ChainManager DEF Chain
<1>5. ManagerInv(n) /\ n \in Manager BY <1>4, LeaveReconciliationInv DEF ManagerInv
<1>6. /\ n.retired >= mgr.gen /\ n.gen = n.retired
      /\ \A s \in Slots : n.slots[s] = FreeSlot
      /\ n.nextId = mgr.nextId /\ n.pauses = (mgr.pauses \cup {"RiskData"}) \ Latched
  BY <1>4, LeaveReconciliationSafe
<1>7. FreeSlot.id = 0 /\ FreeSlot.oid = 0 BY DEF FreeSlot
<1>8. OidInv(n) /\ TrackedIds(n) = {} BY <1>6, <1>7 DEF OidInv, TrackedIds, Used
<1>9. c = [Loop EXCEPT !.newReqs = {}, !.cancelReqs = {}, !.pending = FALSE, !.m = n]
  BY <1>4, <1>28 DEF FinishAccount
<1> HIDE DEF n
<1>10. /\ c \in LoopType /\ c.m = n /\ c.queue = Loop.queue /\ c.snap = Loop.snap
       /\ c.requests = Loop.requests /\ c.pending = FALSE /\ c.newReqs = {}
  BY <1>4, <1>5, <1>9 DEF LoopType
<1>11. Stopped(mgr) BY <1>2 DEF Stopped
<1>12. \A id, g : SendOK(mgr, id, g) => SendOK(n, id, g)
  <2> SUFFICES ASSUME NEW id, NEW g, SendOK(mgr, id, g) PROVE SendOK(n, id, g)
    OBVIOUS
  <2>1. n.gen \in Nat /\ mgr.gen \in Nat /\ n.retired \in Nat BY <1>4, <1>5, ManagerTypes
  <2> QED BY <1>6, <1>11, <2>1 DEF SendOK
<1>13. SendsInv(c) BY <1>2, <1>4, <1>10, <1>12 DEF LoopInv, SendsInv
<1>14. ExposureInv(c)
  BY <1>2, <1>4, <1>6, <1>10 DEF LoopInv, ExposureInv, Exposed, Committed
<1>15. SettledInv(c) /\ SettledInv(c)' BY <1>10 DEF SettledInv
<1>16. "OrderWebSocket" \in n.pauses => Way BY <1>4, <1>6 DEF LoopInv
<1>17. LoopInv(c, Way)
  BY <1>4, <1>5, <1>6, <1>8, <1>10, <1>13, <1>14, <1>15, <1>16 DEF LoopInv
<1>18. results' \in Seq(Nat) /\ Len(results') = 0 /\ results' = << >>
  <2>1. results \in Seq(Nat) BY DEF Inv, TypeOK
  <2>2. results' \in Seq(Nat) /\ Len(results') = 0 BY <1>1, <1>2, <2>1, TailFacts
  <2> QED BY <2>2, EmptyFacts
<1>19. Owned(c)'
  BY <1>1, <1>2, <1>10, <1>18, LoopFields DEF Owned
<1>20. Rests(c) BY <1>6, <1>10 DEF Rests, Armed, Latched
<1>21. AnswersInv' /\ (Transport => Transport') BY <1>1, AnswersStand
<1>22. Way => Transport' BY <1>1, <1>21 DEF Way
<1>23. LoopInv(Loop, Way)' /\ Owned(Loop)' /\ Rests(Loop)'
  BY <1>1, <1>3, <1>4, <1>15, <1>17, <1>19, <1>20, <1>22, BecomeKeeps
<1>24. TypeOK'
  <2>1. /\ mgr' \in Manager /\ genOf' \in [Ids -> Nat] /\ pending' \in BOOLEAN /\ recGen' \in Nat
        /\ queue' \in Seq(DecisionQueued) /\ Len(queue') <= QueueCap
        /\ requests' \in Seq(Nat) /\ snap' \in [polled: BOOLEAN, open: SUBSET Ids]
        /\ newReqs' \subseteq Ids /\ cancelReqs' \subseteq Ids
    BY <1>1, <1>3, <1>17, BecomeTypes
  <2>2. TypeOK BY DEF Inv
  <2>3. /\ faults' \in 0..FaultCap
        /\ events' \in Seq([kind: EventKinds, id: 0..MaxOrders]) /\ Len(events') <= EventCap + 1
        /\ trouble' \in 0..MaxTrouble
    BY <1>1, <2>2 DEF TypeOK
  <2>4. /\ exec' \in [pc: {"idle", "lock", "sign", "insert", "write", "cancel", "fault"},
                     id: 0..MaxOrders, gen: Nat]
        /\ lock' \in {"free", "exec", "cleanup"}
        /\ worker' \in [pc: {"idle", "acquire", "query", "resolve", "cancel", "verify"},
                       gen: Nat, settled: BOOLEAN]
    BY <1>1, <2>2 DEF TypeOK
  <2>5. /\ cancels' \subseteq Ids /\ conn' \in {"up", "closing", "down"}
        /\ ex' \in [Ids -> {"none", "wire", "open", "done", "lost"}]
        /\ resp' \subseteq [kind: ResponseKinds, id: Ids]
        /\ main' \in {"loop", "shutdown", "exit"}
        /\ attempts' \in 0..MaxAttempts /\ verified' \in BOOLEAN
    BY <1>1, <2>2 DEF TypeOK
  <2> QED BY <1>18, <2>1, <2>3, <2>4, <2>5, Zenon DEF TypeOK
<1>25. LockInv' BY <1>1 DEF Inv, LockInv
<1>26. VerdictInv' BY <1>1, <1>2, <1>18 DEF Inv, VerdictInv, Exposed, Committed
<1>27. LedgerStep BY <1>1, <1>3, <1>6, <1>8, <1>10 DEF Become, LedgerStep
<1> QED BY <1>21, <1>23, <1>24, <1>25, <1>26, <1>27 DEF Inv

----------------------------------------------------------------------------
(* The tasks beside the loop                                                *)

(* What they leave of the invariant when the manager stands still.          *)
LEMMA StillLoop ==
  ASSUME Inv, mgr' = mgr, TypeOK', Way => Way', SendsInv(Loop)', ExposureInv(Loop)', SettledInv(Loop)'
  PROVE  LoopInv(Loop, Way)'
<1>1. /\ mgr' \in Manager /\ pending' \in BOOLEAN /\ recGen' \in Nat
      /\ queue' \in Seq(DecisionQueued) /\ Len(queue') <= QueueCap /\ requests' \in Seq(Nat)
      /\ snap' \in [polled: BOOLEAN, open: SUBSET Ids]
      /\ newReqs' \in SUBSET Ids /\ cancelReqs' \in SUBSET Ids
  BY DEF TypeOK
<1>2. Loop' \in LoopType BY <1>1 DEF Loop, LoopType
<1>3. Loop.m = mgr /\ Loop'.m = mgr /\ Loop'.queue = queue' BY LoopFields
<1>4. /\ ManagerInv(mgr) /\ OidInv(mgr) /\ mgr.nextId <= MaxOrders + 1
      /\ "OrderWebSocket" \in mgr.pauses => Way'
  BY <1>3 DEF Inv, LoopInv
<1>5. ManagerInv(Loop'.m) /\ OidInv(Loop'.m) /\ Loop'.m.nextId <= MaxOrders + 1
  BY <1>3, <1>4
<1>6. Loop' \in LoopType /\ Len(Loop'.queue) <= QueueCap BY <1>1, <1>2, <1>3
<1>7. "OrderWebSocket" \in Loop'.m.pauses => Way' BY <1>3, <1>4
<1> QED BY <1>5, <1>6, <1>7 DEF LoopInv

(* An order the exchange has moves on towards its end; the others stay.     *)
MovesOn(id) ==
  \/ ex'[id] = ex[id]
  \/ ex[id] = "wire" /\ ex'[id] \in {"open", "done", "lost"}
  \/ ex[id] = "open" /\ ex'[id] = "done"

(* A step of the exchange or of the order socket: some orders move on, and  *)
(* only requests whose order is not on the wire are settled.                *)
LEMMA OutsideStep ==
  ASSUME Inv, mgr' = mgr, pending' = pending, recGen' = recGen, queue' = queue,
         requests' = requests, snap' = snap, exec' = exec, worker' = worker,
         results' = results, verified' = verified, main' = main, lock' = lock,
         attempts' = attempts, genOf' = genOf, faults' = faults,
         ex' \in [Ids -> {"none", "wire", "open", "done", "lost"}],
         \A id \in Ids : MovesOn(id),
         newReqs' \subseteq newReqs, cancelReqs' \subseteq cancelReqs, cancels' \subseteq cancels,
         \A id \in newReqs : id \in newReqs' \/ ex[id] \in {"open", "done"},
         events' \in Seq([kind: EventKinds, id: 0..MaxOrders]), Len(events') <= EventCap + 1,
         main # "loop" => events' = << >>,
         resp' \subseteq [kind: ResponseKinds, id: Ids], conn' \in {"up", "closing", "down"},
         trouble' \in 0..MaxTrouble, AnswersInv', Way => Way'
  PROVE  Inv'
<1>1. TypeOK' BY SMTT(30) DEF Inv, TypeOK
<1>2. SendsInv(Loop) /\ ExposureInv(Loop) /\ SettledInv(Loop)
  BY DEF Inv, LoopInv
<1>3. SendsInv(Loop)'
  <2>1. \A id, g : SendOK(mgr, id, g) => SendOK(mgr, id, g)'
    BY DEF SendOK, MovesOn
  <2>2. \A i \in 1..Len(queue) : IsSend(queue, i) => SendOK(mgr, queue[i].id, queue[i].gen)'
    BY <1>2, <2>1, LoopFields DEF SendsInv
  <2>3. Submitting => SendOK(mgr, exec.id, exec.gen)'
    BY <1>2, <2>1, LoopFields DEF SendsInv
  <2>4. \A i \in 1..Len(queue') : IsSend(queue', i) => SendOK(mgr, queue[i].id, queue[i].gen)'
    BY <2>2
  <2>5. Submitting' => SendOK(mgr, exec.id, exec.gen)'
    BY <2>3 DEF Submitting
  <2> QED BY <1>2, <2>4, <2>5, LoopFields DEF SendsInv, Submitting, Committed, IsSend, SendOK
<1>4. ExposureInv(Loop)'
  <2>1. \A id \in Ids : ex'[id] \in {"wire", "open"} => ex[id] \in {"wire", "open"}
    BY DEF MovesOn
  <2>2. Exposed' \subseteq TrackedIds(mgr)
    BY <1>2, <2>1, LoopFields DEF ExposureInv, Exposed
  <2>3. \A id \in Ids : ex'[id] = "wire" => id \in newReqs'
    BY <1>2, LoopFields DEF ExposureInv, MovesOn
  <2>4. exec.pc = "write" => exec.id \in newReqs'
    BY <1>2, LoopFields DEF ExposureInv, SendsInv, SendOK, Submitting
  <2>5. \A id \in Ids : id >= mgr.nextId => ex'[id] = "none"
    BY <1>2, LoopFields DEF ExposureInv, MovesOn
  <2>6. \A id \in snap.open : ex'[id] \in {"open", "done"}
    <3>1. snap.open \subseteq Ids BY DEF Inv, TypeOK
    <3> QED BY <1>2, <3>1, LoopFields DEF ExposureInv, MovesOn
  <2> QED BY <2>2, <2>3, <2>4, <2>5, <2>6, LoopFields DEF ExposureInv
<1>5. SettledInv(Loop)' BY <1>2, LoopFields DEF SettledInv
<1>7. LoopInv(Loop, Way)' BY <1>1, <1>3, <1>4, <1>5, StillLoop
<1>8. (main = "loop" => Owned(Loop) /\ Rests(Loop))'
  BY LoopFields DEF Inv, Owned, Rests
<1>9. LockInv' BY DEF Inv, LockInv
<1>10. VerdictInv' BY DEF Inv, VerdictInv, Exposed, Committed, MovesOn
<1> QED BY <1>1, <1>7, <1>8, <1>9, <1>10 DEF Inv

(* An event joins the queue, or nobody reads it any more.                   *)
LEMMA EmitKeeps ==
  ASSUME Inv, NEW k \in EventKinds, NEW i \in 0..MaxOrders, Emit(k, i), main' = main,
         ex' = ex, resp' \subseteq resp,
         k \in Ending => i \in Ids /\ ex[i] = "done", k \in {"accepted", "partial"} => i \in Ids,
         k = "disconnected" => conn' # "up",
         conn' # "up" \/ conn' = conn \/ k = "authenticated"
  PROVE  /\ AnswersInv' /\ events' \in Seq([kind: EventKinds, id: 0..MaxOrders])
         /\ Len(events') <= EventCap + 1 /\ (main # "loop" => events' = << >>)
         /\ Way => Way'
<1>1. /\ events \in Seq([kind: EventKinds, id: 0..MaxOrders]) /\ Len(events) <= EventCap
      /\ Len(events) \in Nat /\ EventCap \in Nat /\ AnswersInv
  BY TradingAssumption, EmptyFacts DEF Inv, TypeOK, Emit, ReaderFree
<1>2. \A r \in resp' : /\ r.kind \in ResponseKinds
                       /\ r.kind \in Ending => ex'[r.id] = "done"
                       /\ r.kind = "accepted" => ex'[r.id] \in {"open", "done"}
  BY <1>1 DEF AnswersInv
<1>3. CASE main # "loop"
  <2>1. events' = << >> /\ events = << >> BY <1>3 DEF Emit, Inv, VerdictInv
  <2>2. 1..Len(events') = {} BY <2>1, EmptyFacts
  <2> QED BY <1>1, <1>2, <1>3, <2>1, <2>2 DEF AnswersInv, Way
<1>4. CASE main = "loop"
  <2> DEFINE e == [kind |-> k, id |-> i]
             n == Len(events)
  <2>2. e \in [kind: EventKinds, id: 0..MaxOrders] /\ e.kind = k /\ e.id = i OBVIOUS
  <2>3. events' = Append(events, e) BY <1>4 DEF Emit
  <2> HIDE DEF e
  <2>4. /\ events' \in Seq([kind: EventKinds, id: 0..MaxOrders]) /\ Len(events') = n + 1
        /\ \A j \in 1..(n + 1) : events'[j] = IF j = n + 1 THEN e ELSE events[j]
    BY <1>1, <2>2, <2>3, AppendFacts
  <2>5. \A j \in 1..n : j \in 1..(n + 1) /\ j # n + 1 /\ n + 1 > j /\ events'[j] = events[j]
    BY SMTT(30), <1>1, <2>4
  <2>6. n + 1 \in 1..(n + 1) /\ events'[n + 1] = e BY <1>1, <2>4
  <2>7. \A j \in 1..(n + 1) : j \in 1..n \/ j = n + 1 BY <1>1
  <2>8. \A j \in 1..n :
          /\ events[j].kind \in EventKinds
          /\ events[j].kind \in Ending => events[j].id \in Ids /\ ex[events[j].id] = "done"
          /\ events[j].kind \in {"accepted", "partial"} => events[j].id \in Ids
          /\ events[j].kind = "disconnected" =>
               conn # "up" \/ \E l \in 1..n : l > j /\ events[l].kind = "authenticated"
    BY <1>1 DEF AnswersInv
  <2> HIDE DEF n
  <2>9. ASSUME NEW j \in 1..(n + 1)
        PROVE  /\ events'[j].kind \in EventKinds
               /\ events'[j].kind \in Ending => events'[j].id \in Ids /\ ex'[events'[j].id] = "done"
               /\ events'[j].kind \in {"accepted", "partial"} => events'[j].id \in Ids
               /\ events'[j].kind = "disconnected" =>
                    conn' # "up" \/ \E l \in 1..(n + 1) : l > j /\ events'[l].kind = "authenticated"
    <3>1. CASE j = n + 1 BY <2>2, <2>6, <3>1
    <3>2. CASE j \in 1..n
      <4>1. events'[j] = events[j] /\ n + 1 > j BY <2>5, <3>2
      <4>2. SUFFICES ASSUME events[j].kind = "disconnected", conn' = "up"
                     PROVE  \E l \in 1..(n + 1) : l > j /\ events'[l].kind = "authenticated"
        BY <2>8, <3>2, <4>1
      <4>3. CASE k = "authenticated" BY <2>2, <2>6, <4>1, <4>3
      <4>4. CASE conn = "up"
        <5>1. PICK l \in 1..n : l > j /\ events[l].kind = "authenticated"
          BY <2>8, <3>2, <4>2, <4>4
        <5> QED BY <2>5, <5>1
      <4> QED BY <4>2, <4>3, <4>4
    <3> QED BY <2>7, <3>1, <3>2
  <2>10. AnswersInv' BY <1>2, <2>4, <2>9 DEF AnswersInv, n
  <2>11. Transport => Transport'
    <3>1. SUFFICES ASSUME Transport, conn' = "up" PROVE Transport'
      BY DEF Transport
    <3>2. CASE k = "authenticated" BY <2>2, <2>4, <2>6, <3>2 DEF Transport
    <3>3. CASE conn = "up"
      <4>1. PICK l \in 1..n : events[l].kind = "authenticated"
        BY <3>1, <3>3 DEF Transport, n
      <4> QED BY <2>4, <2>5, <4>1 DEF Transport
    <3> QED BY <3>1, <3>2, <3>3
  <2> QED BY <1>1, <1>4, <2>4, <2>10, <2>11 DEF Way, n
<1> QED BY <1>3, <1>4

LEMMA EndTypes ==
  ASSUME Inv, endVars' = endVars
  PROVE  main' = main /\ attempts' = attempts /\ verified' = verified
BY DEF endVars

(* What the reader does not write.                                          *)
LEMMA WsFields ==
  ASSUME WsUnchanged
  PROVE  /\ mgr' = mgr /\ pending' = pending /\ recGen' = recGen /\ queue' = queue
         /\ requests' = requests /\ snap' = snap /\ exec' = exec /\ worker' = worker
         /\ results' = results /\ verified' = verified /\ main' = main /\ lock' = lock
         /\ attempts' = attempts /\ genOf' = genOf /\ faults' = faults
         /\ ex' = ex /\ cancels' = cancels
         /\ \A id \in Ids : MovesOn(id)
BY DEF WsUnchanged, loopVars, endVars, MovesOn

LEMMA OddResponseInv ==
  ASSUME Inv, OddResponse
  PROVE  Inv'
<1>1. /\ Emit("ambiguous", 0) /\ trouble' \in 0..MaxTrouble /\ resp' = resp /\ conn' = conn
      /\ newReqs' = newReqs /\ cancelReqs' = cancelReqs /\ WsUnchanged
  BY Trouble DEF Inv, TypeOK, OddResponse, reqVars
<1>2. "ambiguous" \in EventKinds /\ "ambiguous" \notin Ending /\ 0 \in 0..MaxOrders
  BY TradingAssumption DEF EventKinds, Ending
<1>3. /\ AnswersInv' /\ events' \in Seq([kind: EventKinds, id: 0..MaxOrders])
      /\ Len(events') <= EventCap + 1 /\ (main # "loop" => events' = << >>)
      /\ Way => Way'
  BY <1>1, <1>2, WsFields, EmitKeeps
<1>4. /\ ex \in [Ids -> {"none", "wire", "open", "done", "lost"}]
      /\ resp \subseteq [kind: ResponseKinds, id: Ids] /\ conn \in {"up", "closing", "down"}
  BY DEF Inv, TypeOK
<1> QED BY <1>1, <1>3, <1>4, WsFields, OutsideStep

LEMMA DisconnectInv ==
  ASSUME Inv, Disconnect
  PROVE  Inv'
<1>1. /\ Emit("disconnected", 0) /\ trouble' \in 0..MaxTrouble /\ resp' = {} /\ conn' = "down"
      /\ newReqs' = newReqs /\ cancelReqs' = cancelReqs /\ WsUnchanged
  BY Trouble DEF Inv, TypeOK, Disconnect, reqVars
<1>2. "disconnected" \in EventKinds /\ "disconnected" \notin Ending /\ 0 \in 0..MaxOrders
  BY TradingAssumption DEF EventKinds, Ending
<1>3. /\ AnswersInv' /\ events' \in Seq([kind: EventKinds, id: 0..MaxOrders])
      /\ Len(events') <= EventCap + 1 /\ (main # "loop" => events' = << >>)
      /\ Way => Way'
  BY <1>1, <1>2, WsFields, EmitKeeps
<1>4. ex \in [Ids -> {"none", "wire", "open", "done", "lost"}] BY DEF Inv, TypeOK
<1> QED BY <1>1, <1>3, <1>4, WsFields, OutsideStep

LEMMA AuthenticateInv ==
  ASSUME Inv, Authenticate
  PROVE  Inv'
<1>1. /\ Emit("authenticated", 0) /\ trouble' = trouble /\ resp' = resp /\ conn' = "up"
      /\ newReqs' = newReqs /\ cancelReqs' = cancelReqs /\ WsUnchanged
  BY DEF Authenticate, reqVars
<1>2. "authenticated" \in EventKinds /\ "authenticated" \notin Ending /\ 0 \in 0..MaxOrders
  BY TradingAssumption DEF EventKinds, Ending
<1>3. /\ AnswersInv' /\ events' \in Seq([kind: EventKinds, id: 0..MaxOrders])
      /\ Len(events') <= EventCap + 1 /\ (main # "loop" => events' = << >>)
      /\ Way => Way'
  BY <1>1, <1>2, WsFields, EmitKeeps
<1>4. /\ ex \in [Ids -> {"none", "wire", "open", "done", "lost"}]
      /\ resp \subseteq [kind: ResponseKinds, id: Ids] /\ trouble \in 0..MaxTrouble
  BY DEF Inv, TypeOK
<1> QED BY <1>1, <1>3, <1>4, WsFields, OutsideStep

LEMMA HandleResponseInv ==
  ASSUME Inv, NEW r \in resp, HandleResponse(r)
  PROVE  Inv'
<1>1. /\ r.kind \in ResponseKinds /\ r.id \in Ids
      /\ r.kind \in Ending => ex[r.id] = "done"
      /\ r.kind = "accepted" => ex[r.id] \in {"open", "done"}
  BY DEF Inv, TypeOK, AnswersInv
<1>2. /\ resp' = resp \ {r} /\ trouble' = trouble /\ conn' = conn /\ WsUnchanged
      /\ Emit(r.kind, r.id) \/ events' = events
  BY <1>1 DEF HandleResponse, Correlate, ResponseKinds
<1>3. /\ newReqs' \subseteq newReqs /\ cancelReqs' \subseteq cancelReqs
      /\ \A id \in newReqs : id \in newReqs' \/ ex[id] \in {"open", "done"}
  BY <1>1 DEF HandleResponse, Ending
<1>4. /\ ex \in [Ids -> {"none", "wire", "open", "done", "lost"}]
      /\ resp \subseteq [kind: ResponseKinds, id: Ids] /\ trouble \in 0..MaxTrouble
      /\ conn \in {"up", "closing", "down"}
      /\ events \in Seq([kind: EventKinds, id: 0..MaxOrders]) /\ Len(events) <= EventCap + 1
      /\ main # "loop" => events = << >>
  BY DEF Inv, TypeOK, VerdictInv
<1>5. /\ AnswersInv' /\ events' \in Seq([kind: EventKinds, id: 0..MaxOrders])
      /\ Len(events') <= EventCap + 1 /\ (main # "loop" => events' = << >>)
      /\ Way => Way'
  <2>1. CASE events' = events
    <3>1. AnswersInv' BY <1>2, <2>1, WsFields DEF Inv, AnswersInv
    <3>2. Way => Way' BY <1>2, <2>1, WsFields DEF Way, Transport
    <3> QED BY <1>4, <2>1, <3>1, <3>2
  <2>2. CASE Emit(r.kind, r.id)
    <3>1. r.kind \in EventKinds /\ r.id \in 0..MaxOrders /\ r.kind # "disconnected"
      BY <1>1, TradingAssumption DEF EventKinds, ResponseKinds, Ids
    <3> QED BY <1>1, <1>2, <2>2, <3>1, WsFields, EmitKeeps
  <2> QED BY <1>2, <2>1, <2>2
<1> QED BY <1>2, <1>3, <1>4, <1>5, WsFields, OutsideStep

----------------------------------------------------------------------------
(* The exchange *)

LEMMA ExchangeFields ==
  ASSUME ExchangeUnchanged
  PROVE  /\ mgr' = mgr /\ pending' = pending /\ recGen' = recGen /\ queue' = queue
         /\ requests' = requests /\ snap' = snap /\ exec' = exec /\ worker' = worker
         /\ results' = results /\ verified' = verified /\ main' = main /\ lock' = lock
         /\ attempts' = attempts /\ genOf' = genOf /\ faults' = faults
         /\ events' = events /\ conn' = conn /\ newReqs' = newReqs
         /\ cancelReqs' = cancelReqs
         /\ Way => Way'
BY DEF ExchangeUnchanged, loopVars, endVars, reqVars, Way, Transport

(* One order moves on, and an answer that says so may be sent.              *)
LEMMA ExchangeStep ==
  ASSUME Inv, ExchangeUnchanged, NEW id \in Ids, NEW st \in {"open", "done", "lost"},
         ex' = [ex EXCEPT ![id] = st] \/ ex' = ex, MovesOn(id),
         cancels' \subseteq cancels, trouble' \in 0..MaxTrouble,
         NEW k \in ResponseKinds, resp' \subseteq resp \cup {[kind |-> k, id |-> id]},
         resp' \subseteq resp \/ (k \in Ending => ex'[id] = "done"),
         resp' \subseteq resp \/ (k = "accepted" => ex'[id] \in {"open", "done"})
  PROVE  Inv'
<1>1. /\ ex \in [Ids -> {"none", "wire", "open", "done", "lost"}]
      /\ resp \subseteq [kind: ResponseKinds, id: Ids]
      /\ conn \in {"up", "closing", "down"}
      /\ events \in Seq([kind: EventKinds, id: 0..MaxOrders]) /\ Len(events) <= EventCap + 1
      /\ main # "loop" => events = << >>
      /\ AnswersInv
  BY DEF Inv, TypeOK, VerdictInv
<1>2. \A i \in Ids : MovesOn(i) BY <1>1 DEF MovesOn
<1>3. /\ ex' \in [Ids -> {"none", "wire", "open", "done", "lost"}]
      /\ resp' \subseteq [kind: ResponseKinds, id: Ids]
  BY <1>1
<1>4. \A i \in Ids : /\ ex[i] = "done" => ex'[i] = "done"
                     /\ ex[i] \in {"open", "done"} => ex'[i] \in {"open", "done"}
  BY <1>2 DEF MovesOn
<1>5. ASSUME NEW r \in resp'
      PROVE  /\ r.kind \in ResponseKinds
             /\ r.kind \in Ending => ex'[r.id] = "done"
             /\ r.kind = "accepted" => ex'[r.id] \in {"open", "done"}
  <2>1. CASE r \in resp
    <3>1. r.id \in Ids BY <1>1, <2>1
    <3>2. /\ r.kind \in ResponseKinds
          /\ r.kind \in Ending => ex[r.id] = "done"
          /\ r.kind = "accepted" => ex[r.id] \in {"open", "done"}
      BY <1>1, <2>1 DEF AnswersInv
    <3> QED BY <1>4, <3>1, <3>2
  <2>2. CASE r \notin resp BY <1>5, <2>2
  <2> QED BY <2>1, <2>2
<1>6. AnswersInv' BY <1>1, <1>4, <1>5, ExchangeFields DEF AnswersInv
<1> QED BY <1>1, <1>2, <1>3, <1>6, ExchangeFields, OutsideStep

LEMMA ReceiveOrderInv ==
  ASSUME Inv, NEW id \in Ids, NEW accept \in BOOLEAN, NEW answered \in BOOLEAN,
         ReceiveOrder(id, accept, answered)
  PROVE  Inv' /\ MovesOn(id)
<1> DEFINE st == IF accept THEN "open" ELSE "done"
           k == IF accept THEN "accepted" ELSE "rejected"
<1>1. /\ ex[id] = "wire" /\ ex' = [ex EXCEPT ![id] = st] /\ cancels' = cancels
      /\ trouble' \in 0..MaxTrouble
      /\ resp' \subseteq resp \cup {[kind |-> k, id |-> id]} /\ ExchangeUnchanged
  BY Trouble DEF ReceiveOrder, Reply, Inv, TypeOK
<1>2. ex \in [Ids -> {"none", "wire", "open", "done", "lost"}] BY DEF Inv, TypeOK
<1>3. /\ st \in {"open", "done", "lost"} /\ k \in ResponseKinds /\ ex'[id] = st
      /\ (k \in Ending => st = "done") /\ (k = "accepted" => st = "open")
  BY <1>1, <1>2 DEF ResponseKinds, Ending
<1> HIDE DEF st, k
<1>4. MovesOn(id) BY <1>1, <1>3 DEF MovesOn
<1> QED BY <1>1, <1>3, <1>4, ExchangeStep

LEMMA LoseOrderInv ==
  ASSUME Inv, NEW id \in Ids, LoseOrder(id)
  PROVE  Inv' /\ MovesOn(id)
<1>1. /\ ex[id] = "wire" /\ ex' = [ex EXCEPT ![id] = "lost"] /\ cancels' = cancels
      /\ trouble' \in 0..MaxTrouble /\ resp' = resp /\ ExchangeUnchanged
      /\ ex \in [Ids -> {"none", "wire", "open", "done", "lost"}]
  BY DEF LoseOrder, Inv, TypeOK
<1>2. MovesOn(id) BY <1>1 DEF MovesOn
<1>3. "partial" \in ResponseKinds BY DEF ResponseKinds
<1> QED BY <1>1, <1>2, <1>3, ExchangeStep

LEMMA ReceiveCancelInv ==
  ASSUME Inv, NEW id \in Ids, NEW answered \in BOOLEAN, ReceiveCancel(id, answered)
  PROVE  Inv' /\ MovesOn(id)
<1> DEFINE k == IF ex[id] = "open" THEN "canceled" ELSE "cancelFailed"
<1>1. /\ cancels' \subseteq cancels /\ trouble' \in 0..MaxTrouble
      /\ ex' = IF ex[id] = "open" THEN [ex EXCEPT ![id] = "done"] ELSE ex
      /\ resp' \subseteq resp \cup {[kind |-> k, id |-> id]} /\ ExchangeUnchanged
  BY Trouble DEF ReceiveCancel, Reply, Inv, TypeOK
<1>2. ex \in [Ids -> {"none", "wire", "open", "done", "lost"}] BY DEF Inv, TypeOK
<1>3. k \in ResponseKinds /\ k # "accepted" /\ (k \in Ending => ex[id] = "open")
  BY DEF ResponseKinds, Ending
<1> HIDE DEF k
<1>4. MovesOn(id) /\ (ex[id] = "open" => ex'[id] = "done") BY <1>1, <1>2 DEF MovesOn
<1> QED BY <1>1, <1>3, <1>4, ExchangeStep

LEMMA FillInv ==
  ASSUME Inv, NEW id \in Ids, NEW full \in BOOLEAN, NEW told \in BOOLEAN, Fill(id, full, told)
  PROVE  Inv' /\ MovesOn(id)
<1> DEFINE k == IF full THEN "filled" ELSE "partial"
<1>1. /\ cancels' = cancels /\ trouble' \in 0..MaxTrouble /\ ex[id] = "open"
      /\ ex' = IF full THEN [ex EXCEPT ![id] = "done"] ELSE ex
      /\ resp' \subseteq resp \cup {[kind |-> k, id |-> id]} /\ ExchangeUnchanged
  BY Trouble DEF Fill, Inv, TypeOK
<1>2. ex \in [Ids -> {"none", "wire", "open", "done", "lost"}] BY DEF Inv, TypeOK
<1>3. k \in ResponseKinds /\ k # "accepted" /\ (k \in Ending => full)
  BY DEF ResponseKinds, Ending
<1> HIDE DEF k
<1>4. MovesOn(id) /\ (full => ex'[id] = "done") BY <1>1, <1>2 DEF MovesOn
<1> QED BY <1>1, <1>3, <1>4, ExchangeStep

----------------------------------------------------------------------------
(* The snapshots and the executor *)

LEMMA PollOpenOrdersInv ==
  ASSUME Inv, PollOpenOrders
  PROVE  Inv'
<1>1. /\ mgr' = mgr /\ pending' = pending /\ recGen' = recGen /\ queue' = queue
      /\ requests' = requests /\ exec' = exec /\ worker' = worker
      /\ results' = results /\ verified' = verified /\ main' = main /\ lock' = lock
      /\ attempts' = attempts /\ genOf' = genOf /\ faults' = faults /\ trouble' = trouble
      /\ events' = events /\ conn' = conn /\ newReqs' = newReqs /\ cancelReqs' = cancelReqs
      /\ ex' = ex /\ cancels' = cancels /\ resp' = resp
      /\ snap' = [polled |-> TRUE, open |-> Resting]
  BY DEF PollOpenOrders, loopVars, reqVars, exchVars, endVars
<1>2. Resting \subseteq Ids /\ \A id \in Resting : ex[id] = "open" BY DEF Resting
<1>3. snap' \in [polled: BOOLEAN, open: SUBSET Ids] /\ snap'.open = Resting BY <1>1, <1>2
<1>4. TypeOK' BY <1>1, <1>3 DEF Inv, TypeOK
<1>5. SendsInv(Loop)'
  BY <1>1, LoopFields DEF Inv, LoopInv, SendsInv, SendOK, Submitting, Committed
<1>6. ExposureInv(Loop)'
  BY <1>1, <1>2, <1>3, LoopFields DEF Inv, LoopInv, ExposureInv, Exposed
<1>7. SettledInv(Loop)' BY <1>1, LoopFields DEF Inv, LoopInv, SettledInv
<1>8. Way => Way' BY <1>1 DEF Way, Transport
<1>9. LoopInv(Loop, Way)' BY <1>1, <1>4, <1>5, <1>6, <1>7, <1>8, StillLoop
<1>10. (main = "loop" => Owned(Loop) /\ Rests(Loop))'
  BY <1>1, LoopFields DEF Inv, Owned, Rests
<1>11. AnswersInv' /\ LockInv' /\ VerdictInv'
  BY <1>1 DEF Inv, AnswersInv, LockInv, VerdictInv, Exposed, Committed
<1> QED BY <1>4, <1>9, <1>10, <1>11 DEF Inv

(* What a step of the executor leaves alone, and what it owes.              *)
LEMMA ExecFields ==
  ASSUME ExecUnchanged
  PROVE  /\ mgr' = mgr /\ pending' = pending /\ recGen' = recGen
         /\ requests' = requests /\ snap' = snap /\ worker' = worker
         /\ results' = results /\ verified' = verified /\ main' = main
         /\ attempts' = attempts /\ genOf' = genOf
         /\ events' = events /\ conn' = conn /\ resp' = resp
         /\ Way => Way'
BY DEF ExecUnchanged, endVars, Way, Transport

LEMMA ExecStep ==
  ASSUME Inv, ExecUnchanged,
         queue' \in Seq(DecisionQueued), Len(queue') <= QueueCap, faults' \in 0..FaultCap,
         exec' \in [pc: {"idle", "lock", "sign", "insert", "write", "cancel", "fault"},
                    id: 0..MaxOrders, gen: Nat],
         lock' \in {"free", "exec", "cleanup"}, newReqs' \subseteq Ids, cancelReqs' \subseteq Ids,
         cancels' \subseteq Ids, ex' \in [Ids -> {"none", "wire", "open", "done", "lost"}],
         trouble' \in 0..MaxTrouble,
         SendsInv(Loop)', ExposureInv(Loop)', SettledInv(Loop)', LockInv',
         \A id \in Ids : ex'[id] = ex[id] \/ ex[id] = "none",
         \A id \in Ids : results # << >> \/ verified => ex'[id] = ex[id],
         results # << >> => ~Committed'
  PROVE  Inv'
<1>1. TypeOK' BY ExecFields DEF Inv, TypeOK
<1>2. LoopInv(Loop, Way)' BY <1>1, ExecFields, StillLoop
<1>3. (main = "loop" => Owned(Loop) /\ Rests(Loop))'
  BY ExecFields, LoopFields DEF Inv, Owned, Rests
<1>4. AnswersInv'
  <2>1. \A r \in resp : r.id \in Ids BY DEF Inv, TypeOK
  <2> QED BY <2>1, ExecFields DEF Inv, AnswersInv
<1>5. VerdictInv' BY ExecFields DEF Inv, VerdictInv, Exposed
<1> QED BY <1>1, <1>2, <1>3, <1>4, <1>5 DEF Inv

LEMMA SendsNext ==
  ASSUME mgr' = mgr, ex' = ex,
         \A i \in 1..Len(queue') :
           IsSend(queue', i) => SendOK(mgr, queue'[i].id, queue'[i].gen),
         \A i, j \in 1..Len(queue') :
           IsSend(queue', i) /\ IsSend(queue', j) /\ queue'[i].id = queue'[j].id => i = j,
         Submitting' => /\ SendOK(mgr, exec'.id, exec'.gen)
                        /\ \A i \in 1..Len(queue') :
                             IsSend(queue', i) => queue'[i].id # exec'.id,
         Committed' => exec'.id \in TrackedIds(mgr)
  PROVE  SendsInv(Loop)'
<1>1. \A id, g : SendOK(mgr, id, g) =>
        /\ id \in Ids /\ id < mgr'.nextId /\ ex'[id] = "none"
        /\ g \in Nat /\ g <= mgr'.gen
        /\ Stopped(mgr') => g < mgr'.gen
        /\ g >= mgr'.retired => id \in TrackedIds(mgr')
  BY DEF SendOK
<1> QED BY <1>1, LoopFields DEF SendsInv, SendOK

LEMMA TakeDecisionInv ==
  ASSUME Inv, TakeDecision
  PROVE  Inv'
<1> DEFINE d == Head(queue)
<1>1. /\ exec.pc = "idle" /\ queue # << >> /\ queue' = Tail(queue) /\ ExecUnchanged
      /\ exec' = [pc |-> IF d.kind = "Send" THEN "lock" ELSE "cancel", id |-> d.id, gen |-> d.gen]
      /\ faults' = faults /\ lock' = lock /\ newReqs' = newReqs /\ cancelReqs' = cancelReqs
      /\ ex' = ex /\ cancels' = cancels /\ trouble' = trouble
  BY DEF TakeDecision, reqVars
<1>2. /\ queue \in Seq(DecisionQueued) /\ Len(queue) <= QueueCap /\ QueueCap \in Nat
      /\ SendsInv(Loop) /\ ExposureInv(Loop) /\ SettledInv(Loop) /\ LockInv
  BY TradingAssumption DEF Inv, TypeOK, LoopInv
<1>3. /\ queue' \in Seq(DecisionQueued) /\ Len(queue) \in Nat /\ Len(queue) > 0
      /\ Len(queue') = Len(queue) - 1 /\ d = queue[1] /\ d \in DecisionQueued
      /\ \A i \in 1..(Len(queue) - 1) : i + 1 \in 1..Len(queue) /\ queue'[i] = queue[i + 1]
  BY <1>1, <1>2, TailFacts
<1>4. d.id \in Ids /\ d.gen \in Nat /\ Ids \subseteq 0..MaxOrders
  BY <1>3, TradingAssumption DEF DecisionQueued, Ids
<1>5. 1 \in 1..Len(queue) /\ (d.kind = "Send" => IsSend(queue, 1)) BY <1>3 DEF IsSend
<1> HIDE DEF d
<1>6. /\ exec'.pc \in {"lock", "cancel"} /\ exec'.id = d.id /\ exec'.gen = d.gen
      /\ exec'.pc = "lock" => d.kind = "Send"
      /\ exec' \in [pc: {"idle", "lock", "sign", "insert", "write", "cancel", "fault"},
                    id: 0..MaxOrders, gen: Nat]
  BY <1>1, <1>4
<1>7. SendsInv(Loop)'
  <2>2. ASSUME NEW i \in 1..Len(queue'), IsSend(queue', i)
        PROVE  /\ i + 1 \in 1..Len(queue) /\ queue'[i] = queue[i + 1] /\ IsSend(queue, i + 1)
               /\ SendOK(mgr, queue'[i].id, queue'[i].gen)
               /\ d.kind = "Send" => queue'[i].id # d.id
    <3>1. i + 1 \in 1..Len(queue) /\ queue'[i] = queue[i + 1] /\ i + 1 # 1
      BY <1>3
    <3>2. IsSend(queue, i + 1) BY <2>2, <3>1 DEF IsSend
    <3>3. SendOK(mgr, queue[i + 1].id, queue[i + 1].gen)
      BY <1>2, <3>1, <3>2, LoopFields DEF SendsInv
    <3>4. d.kind = "Send" => queue[i + 1].id # d.id
      BY <1>2, <1>3, <1>5, <3>1, <3>2, LoopFields DEF SendsInv
    <3> QED BY <3>1, <3>2, <3>3, <3>4
  <2>3. ASSUME NEW i \in 1..Len(queue'), NEW j \in 1..Len(queue'), IsSend(queue', i),
               IsSend(queue', j), queue'[i].id = queue'[j].id
        PROVE  i = j
    <3>1. /\ i + 1 \in 1..Len(queue) /\ IsSend(queue, i + 1) /\ queue'[i] = queue[i + 1]
          /\ j + 1 \in 1..Len(queue) /\ IsSend(queue, j + 1) /\ queue'[j] = queue[j + 1]
      BY <2>2, <2>3
    <3>2. i + 1 = j + 1 BY <1>2, <2>3, <3>1, LoopFields DEF SendsInv
    <3> QED BY <3>2
  <2>4. Submitting' => d.kind = "Send" /\ SendOK(mgr, exec'.id, exec'.gen)
    <3>1. SUFFICES ASSUME d.kind = "Send" PROVE SendOK(mgr, exec'.id, exec'.gen)
      BY <1>6 DEF Submitting
    <3>2. SendOK(mgr, d.id, d.gen)
      BY <1>2, <1>3, <1>5, <3>1, LoopFields DEF SendsInv, d
    <3> QED BY <1>6, <3>2
  <2>5. ~Committed' BY <1>6 DEF Committed
  <2> QED BY <1>1, <1>6, <2>2, <2>3, <2>4, <2>5, SendsNext, ExecFields
<1>8. ExposureInv(Loop)'
  BY <1>1, <1>2, <1>6, ExecFields, LoopFields DEF ExposureInv, Exposed
<1>9. SettledInv(Loop)' BY <1>1, <1>2, ExecFields, LoopFields DEF SettledInv
<1>10. LockInv' BY <1>1, <1>2, <1>4, <1>6, ExecFields DEF LockInv
<1>11. ~Committed' BY <1>6 DEF Committed
<1>12. /\ faults \in 0..FaultCap /\ lock \in {"free", "exec", "cleanup"}
       /\ newReqs \subseteq Ids /\ cancelReqs \subseteq Ids /\ cancels \subseteq Ids
       /\ ex \in [Ids -> {"none", "wire", "open", "done", "lost"}]
       /\ trouble \in 0..MaxTrouble
  BY DEF Inv, TypeOK
<1>13. Len(queue') <= QueueCap BY <1>2, <1>3
<1> QED
  BY <1>1, <1>3, <1>6, <1>7, <1>8, <1>9, <1>10, <1>11, <1>12, <1>13, ExecStep

(* The executor goes on with the order it has, or gives it up.              *)
LEMMA SendsGoOn ==
  ASSUME Inv, mgr' = mgr, ex' = ex, queue' = queue,
         Submitting' => Submitting /\ exec'.id = exec.id /\ exec'.gen = exec.gen,
         Committed' => exec'.id \in TrackedIds(mgr)
  PROVE  SendsInv(Loop)'
<1>1. SendsInv(Loop) BY DEF Inv, LoopInv
<1>2. \A i \in 1..Len(queue') :
        IsSend(queue', i) => SendOK(mgr, queue'[i].id, queue'[i].gen)
  BY <1>1, LoopFields DEF SendsInv
<1>3. \A i, j \in 1..Len(queue') :
        IsSend(queue', i) /\ IsSend(queue', j) /\ queue'[i].id = queue'[j].id => i = j
  BY <1>1, LoopFields DEF SendsInv
<1>4. Submitting' => /\ SendOK(mgr, exec'.id, exec'.gen)
                     /\ \A i \in 1..Len(queue') : IsSend(queue', i) => queue'[i].id # exec'.id
  <2>1. Submitting => /\ SendOK(mgr, exec.id, exec.gen)
                      /\ \A i \in 1..Len(queue) : IsSend(queue, i) => queue[i].id # exec.id
    BY <1>1, LoopFields DEF SendsInv
  <2> QED BY <2>1
<1> QED BY <1>2, <1>3, <1>4, SendsNext

(* The part of the type invariant the executor writes.                      *)
LEMMA ExecTypes ==
  ASSUME Inv
  PROVE  /\ queue \in Seq(DecisionQueued) /\ Len(queue) <= QueueCap /\ faults \in 0..FaultCap
         /\ exec \in [pc: {"idle", "lock", "sign", "insert", "write", "cancel", "fault"},
                      id: 0..MaxOrders, gen: Nat]
         /\ lock \in {"free", "exec", "cleanup"}
         /\ newReqs \subseteq Ids /\ cancelReqs \subseteq Ids /\ cancels \subseteq Ids
         /\ ex \in [Ids -> {"none", "wire", "open", "done", "lost"}]
         /\ trouble \in 0..MaxTrouble
BY DEF Inv, TypeOK

(* A permission check: the order goes on when it is passed.                 *)
LEMMA GateInv1 ==
  ASSUME Inv, NEW open \in BOOLEAN, NEW pc \in {"sign", "insert"}, Gate(open, pc),
         exec.pc \in {"lock", "sign"}, lock # "cleanup",
         open /\ pc = "insert" => exec.id \in TrackedIds(mgr) /\ results = << >>
  PROVE  Inv'
<1>1. /\ ExecUnchanged /\ queue' = queue /\ faults' = faults /\ newReqs' = newReqs
      /\ cancelReqs' = cancelReqs /\ ex' = ex /\ cancels' = cancels /\ trouble' = trouble
      /\ lock' = IF open THEN "exec" ELSE "free"
      /\ exec' = [exec EXCEPT !.pc = IF open THEN pc ELSE "fault"]
  BY DEF Gate, reqVars
<1>2. /\ exec'.id = exec.id /\ exec'.gen = exec.gen
      /\ exec'.pc = IF open THEN pc ELSE "fault"
      /\ exec' \in [pc: {"idle", "lock", "sign", "insert", "write", "cancel", "fault"},
                    id: 0..MaxOrders, gen: Nat]
  BY <1>1, ExecTypes
<1>3. Committed' => open /\ pc = "insert" BY <1>2 DEF Committed
<1>4. SendsInv(Loop)'
  <2>1. Submitting BY DEF Submitting
  <2> QED BY <1>1, <1>2, <1>3, <2>1, SendsGoOn, ExecFields
<1>5. ExposureInv(Loop)'
  BY <1>1, <1>2, ExecFields, LoopFields DEF Inv, LoopInv, ExposureInv, Exposed
<1>6. SettledInv(Loop)' BY <1>1, ExecFields, LoopFields DEF Inv, LoopInv, SettledInv
<1>7. LockInv' BY <1>1, <1>2, ExecFields DEF Inv, LockInv
<1> QED BY <1>1, <1>2, <1>3, <1>4, <1>5, <1>6, <1>7, ExecTypes, ExecStep

LEMMA AcquireSubmissionInv ==
  ASSUME Inv, AcquireSubmission
  PROVE  Inv'
<1> DEFINE o == Permitted /\ conn = "up"
<1>1. Gate(o, "sign") /\ exec.pc = "lock" /\ lock = "free" BY DEF AcquireSubmission
<1>2. o \in BOOLEAN BY DEF Permitted, Permits
<1> HIDE DEF o
<1> QED BY <1>1, <1>2, GateInv1

(* What passes the last check is of the present generation, so its order is *)
(* in a slot; and no verdict is waiting, for its pause is up until taken.   *)
LEMMA RecheckInv ==
  ASSUME Inv, Recheck
  PROVE  Inv'
<1>1. PICK writer \in BOOLEAN : Gate(Permitted /\ writer, "insert")
  BY DEF Recheck
<1> DEFINE o == Permitted /\ writer
<1>2. exec.pc = "sign" /\ lock # "cleanup" BY DEF Recheck, Inv, LockInv
<1>3. o \in BOOLEAN BY DEF Permitted, Permits
<1>4. o => exec.id \in TrackedIds(mgr) /\ results = << >>
  <2>1. SUFFICES ASSUME Permitted
                 PROVE  exec.id \in TrackedIds(mgr) /\ results = << >>
    OBVIOUS
  <2>2. exec.gen = mgr.gen /\ mgr.pauses = {} BY <2>1 DEF Permitted, Permits
  <2>3. SendOK(mgr, exec.id, exec.gen)
    BY <1>2, LoopFields DEF Inv, LoopInv, SendsInv, Submitting
  <2>4. mgr.retired <= mgr.gen /\ mgr.retired \in Nat /\ mgr.gen \in Nat
    BY ManagerTypes, LoopFields DEF Inv, LoopInv, ManagerInv, GenInv
  <2>5. exec.id \in TrackedIds(mgr) BY <2>2, <2>3, <2>4 DEF SendOK
  <2>6. results # << >> => main = "loop" BY DEF Inv, VerdictInv
  <2> QED BY <2>2, <2>5, <2>6, VerifiedFacts
<1> HIDE DEF o
<1>5. Gate(o, "insert") BY <1>1 DEF o
<1> QED BY <1>2, <1>3, <1>4, <1>5, GateInv1

LEMMA InsertRequestInv ==
  ASSUME Inv, InsertRequest
  PROVE  Inv'
<1>1. /\ ExecUnchanged /\ queue' = queue /\ faults' = faults /\ lock' = lock
      /\ cancelReqs' = cancelReqs /\ ex' = ex /\ cancels' = cancels /\ trouble' = trouble
      /\ newReqs' = newReqs \cup {exec.id} /\ exec' = [exec EXCEPT !.pc = "write"]
      /\ exec.pc = "insert" /\ main # "exit"
  BY DEF InsertRequest
<1>2. /\ exec'.id = exec.id /\ exec'.gen = exec.gen /\ exec'.pc = "write"
      /\ exec' \in [pc: {"idle", "lock", "sign", "insert", "write", "cancel", "fault"},
                    id: 0..MaxOrders, gen: Nat]
  BY <1>1, ExecTypes
<1>3. /\ SendsInv(Loop) /\ ExposureInv(Loop) /\ LockInv /\ VerdictInv
      /\ Committed /\ Submitting /\ exec.id \in TrackedIds(mgr) /\ exec.id \in Ids
  BY <1>1, LoopFields DEF Inv, LoopInv, SendsInv, SendOK, Committed, Submitting
<1>4. SendsInv(Loop)' BY <1>1, <1>2, <1>3, SendsGoOn, ExecFields
<1>5. ExposureInv(Loop)'
  BY <1>1, <1>2, <1>3, ExecFields, LoopFields DEF ExposureInv, Exposed
<1>6. results = << >> /\ ~verified /\ worker.pc \notin {"cancel", "verify"}
  BY <1>1, <1>3 DEF VerdictInv, LockInv
<1>7. SettledInv(Loop)' BY <1>1, <1>6, ExecFields DEF SettledInv
<1>8. LockInv' BY <1>1, <1>2, <1>3, ExecFields DEF LockInv
<1>9. newReqs' \subseteq Ids BY <1>1, <1>3, ExecTypes
<1> QED BY <1>1, <1>2, <1>4, <1>5, <1>6, <1>7, <1>8, <1>9, ExecTypes, ExecStep

(* A write: the order is tracked and its request known, whatever became of  *)
(* the write.                                                               *)
(* The submission mutex is the executor's, no cleanup looks and no verdict  *)
(* waits, and the order is in pending_requests.                             *)
Guarded(id) ==
  /\ lock = "exec" /\ worker.pc \notin {"query", "resolve", "cancel", "verify"}
  /\ results = << >> /\ ~verified
  /\ id \in newReqs

LEMMA WriteOrderInv ==
  ASSUME Inv, NEW ok \in BOOLEAN, NEW reached \in BOOLEAN, WriteOrder(ok, reached)
  PROVE  /\ Inv' /\ exec.id \in Ids /\ exec.id \in TrackedIds(mgr) /\ ex[exec.id] = "none"
         /\ Guarded(exec.id)
         /\ mgr' = mgr /\ ex' = [ex EXCEPT ![exec.id] = IF reached THEN "wire" ELSE "lost"]
<1> DEFINE st == IF reached THEN "wire" ELSE "lost"
<1>1. /\ ExecUnchanged /\ queue' = queue /\ faults' = faults /\ newReqs' = newReqs
      /\ cancelReqs' = cancelReqs /\ cancels' = cancels /\ trouble' \in 0..MaxTrouble
      /\ ex' = [ex EXCEPT ![exec.id] = st] /\ lock' = "free"
      /\ exec' = IF ok THEN Idle ELSE [exec EXCEPT !.pc = "fault"]
      /\ exec.pc = "write" /\ main # "exit"
  BY Trouble DEF WriteOrder, reqVars, Inv, TypeOK
<1>2. /\ exec'.pc \in {"idle", "fault"}
      /\ exec' \in [pc: {"idle", "lock", "sign", "insert", "write", "cancel", "fault"},
                    id: 0..MaxOrders, gen: Nat]
  BY SMTT(30), <1>1, ExecTypes, TradingAssumption DEF Idle
<1>3. /\ SendsInv(Loop) /\ ExposureInv(Loop) /\ LockInv /\ VerdictInv
      /\ Committed /\ Submitting /\ exec.id \in TrackedIds(mgr)
      /\ SendOK(mgr, exec.id, exec.gen) /\ exec.id \in newReqs
      /\ \A i \in 1..Len(queue) : IsSend(queue, i) => queue[i].id # exec.id
  BY <1>1, LoopFields DEF Inv, LoopInv, SendsInv, ExposureInv, Committed, Submitting
<1>4. exec.id \in Ids /\ ex[exec.id] = "none" /\ exec.id < mgr.nextId BY <1>3 DEF SendOK
<1>5. st \in {"wire", "lost"} OBVIOUS
<1> HIDE DEF st
<1>6. /\ ex' \in [Ids -> {"none", "wire", "open", "done", "lost"}] /\ ex'[exec.id] = st
      /\ \A id \in Ids : id # exec.id => ex'[id] = ex[id]
  BY <1>1, <1>4, <1>5, ExecTypes
<1>7. ~Submitting' /\ ~Committed' BY <1>2 DEF Submitting, Committed
<1>8. SendsInv(Loop)'
  <2>1. ASSUME NEW i \in 1..Len(queue), IsSend(queue, i)
        PROVE  SendOK(mgr, queue[i].id, queue[i].gen) /\ ex'[queue[i].id] = "none"
    <3>1. SendOK(mgr, queue[i].id, queue[i].gen) /\ queue[i].id # exec.id
      BY <1>3, <2>1, LoopFields DEF SendsInv
    <3> QED BY <1>6, <3>1 DEF SendOK
  <2>2. \A i, j \in 1..Len(queue) :
          IsSend(queue, i) /\ IsSend(queue, j) /\ queue[i].id = queue[j].id => i = j
    BY <1>3, LoopFields DEF SendsInv
  <2> QED BY <1>1, <1>7, <2>1, <2>2, ExecFields, LoopFields DEF SendsInv, SendOK, IsSend
<1>9. ExposureInv(Loop)'
  <2>1. Exposed' \subseteq Exposed \cup {exec.id} BY <1>6 DEF Exposed
  <2>2. \A id \in snap.open : id # exec.id /\ id \in Ids
    BY <1>3, <1>4, LoopFields DEF Inv, TypeOK, ExposureInv
  <2>3. \A id \in Ids : id >= mgr.nextId => id # exec.id
    <3>1. mgr.nextId \in Nat BY ManagerTypes DEF Inv, TypeOK
    <3> QED BY <1>4, <3>1, TradingAssumption DEF Ids
  <2> QED
    BY <1>1, <1>2, <1>3, <1>6, <2>1, <2>2, <2>3, ExecFields, LoopFields DEF ExposureInv
<1>10. results = << >> /\ ~verified BY <1>1, <1>3 DEF VerdictInv
<1>11. SettledInv(Loop)' BY <1>1, ExecFields, LoopFields DEF Inv, LoopInv, SettledInv
<1>12. LockInv' BY <1>1, <1>2, <1>3, ExecFields DEF LockInv
<1>13. Inv'
  <2>1. \A id \in Ids : ex'[id] = ex[id] \/ ex[id] = "none" BY <1>4, <1>6
  <2> QED
    BY <1>1, <1>2, <1>6, <1>7, <1>8, <1>9, <1>10, <1>11, <1>12, <2>1, ExecTypes, ExecStep
<1>14. Guarded(exec.id)
  <2>1. lock = "exec" /\ lock # "cleanup" BY <1>1, <1>3 DEF LockInv
  <2> QED BY <1>3, <1>10, <2>1 DEF Guarded, LockInv
<1> QED BY <1>1, <1>3, <1>4, <1>13, <1>14, ExecFields DEF st

LEMMA SendCancelInv ==
  ASSUME Inv, NEW ok \in BOOLEAN, NEW reached \in BOOLEAN, SendCancel(ok, reached)
  PROVE  Inv'
<1>1. /\ ExecUnchanged /\ queue' = queue /\ faults' = faults /\ lock' = lock
      /\ newReqs' = newReqs /\ ex' = ex /\ trouble' \in 0..MaxTrouble
      /\ cancels' \subseteq cancels \cup {exec.id}
      /\ cancelReqs' \subseteq cancelReqs \cup {exec.id}
      /\ exec' = IF ok THEN Idle ELSE [exec EXCEPT !.pc = "fault"]
      /\ exec.pc = "cancel"
  BY Trouble DEF SendCancel, Inv, TypeOK
<1>2. /\ exec'.pc \in {"idle", "fault"}
      /\ exec' \in [pc: {"idle", "lock", "sign", "insert", "write", "cancel", "fault"},
                    id: 0..MaxOrders, gen: Nat]
  BY SMTT(30), <1>1, ExecTypes, TradingAssumption DEF Idle
<1>3. exec.id \in Ids /\ LockInv BY <1>1 DEF Inv, LockInv
<1>4. ~Submitting' /\ ~Committed' BY <1>2 DEF Submitting, Committed
<1>5. SendsInv(Loop)' BY <1>1, <1>4, SendsGoOn, ExecFields
<1>6. ExposureInv(Loop)'
  BY <1>1, <1>2, ExecFields, LoopFields DEF Inv, LoopInv, ExposureInv, Exposed
<1>7. SettledInv(Loop)' BY <1>1, ExecFields, LoopFields DEF Inv, LoopInv, SettledInv
<1>8. LockInv' BY <1>1, <1>2, <1>3, ExecFields DEF LockInv
<1>9. cancels' \subseteq Ids /\ cancelReqs' \subseteq Ids BY <1>1, <1>3, ExecTypes
<1> QED BY <1>1, <1>2, <1>4, <1>5, <1>6, <1>7, <1>8, <1>9, ExecTypes, ExecStep

LEMMA ReportFaultInv ==
  ASSUME Inv, ReportFault
  PROVE  Inv'
<1>1. /\ ExecUnchanged /\ queue' = queue /\ lock' = lock /\ newReqs' = newReqs
      /\ cancelReqs' = cancelReqs /\ ex' = ex /\ cancels' = cancels /\ trouble' = trouble
      /\ faults' \in {faults, faults + 1} /\ faults < FaultCap
      /\ exec' = Idle /\ exec.pc = "fault"
  BY DEF ReportFault, reqVars
<1>2. /\ exec'.pc = "idle"
      /\ exec' \in [pc: {"idle", "lock", "sign", "insert", "write", "cancel", "fault"},
                    id: 0..MaxOrders, gen: Nat]
  BY <1>1, TradingAssumption DEF Idle
<1>3. ~Submitting' /\ ~Committed' BY <1>2 DEF Submitting, Committed
<1>4. SendsInv(Loop)' BY <1>1, <1>3, SendsGoOn, ExecFields
<1>5. ExposureInv(Loop)'
  BY <1>1, <1>2, ExecFields, LoopFields DEF Inv, LoopInv, ExposureInv, Exposed
<1>6. SettledInv(Loop)' BY <1>1, ExecFields, LoopFields DEF Inv, LoopInv, SettledInv
<1>7. LockInv' BY <1>1, <1>2, ExecFields DEF Inv, LockInv
<1>8. faults' \in 0..FaultCap BY <1>1, ExecTypes, TradingAssumption
<1> QED BY <1>1, <1>2, <1>3, <1>4, <1>5, <1>6, <1>7, <1>8, ExecTypes, ExecStep

----------------------------------------------------------------------------
(* Cleanup *)

(* What a cleanup leaves alone.                                             *)
LEMMA WorkFields ==
  ASSUME WorkUnchanged
  PROVE  /\ mgr' = mgr /\ genOf' = genOf /\ pending' = pending /\ recGen' = recGen
         /\ queue' = queue /\ faults' = faults /\ events' = events /\ snap' = snap
         /\ exec' = exec /\ cancelReqs' = cancelReqs /\ conn' = conn /\ cancels' = cancels
         /\ resp' = resp
BY DEF WorkUnchanged

(* The answers under way stay true of orders that only move on.             *)
LEMMA AnswersMoveOn ==
  ASSUME AnswersInv, \A r \in resp : r.id \in Ids,
         events' = events, resp' = resp, conn' = conn,
         \A id \in Ids : /\ ex[id] = "done" => ex'[id] = "done"
                         /\ ex[id] \in {"open", "done"} => ex'[id] \in {"open", "done"}
  PROVE  AnswersInv'
<1>1. \A i \in 1..Len(events) :
        events[i].kind \in Ending => events[i].id \in Ids /\ ex'[events[i].id] = "done"
  BY Zenon DEF AnswersInv
<1>2. \A r \in resp : /\ r.kind \in Ending => ex'[r.id] = "done"
                      /\ r.kind = "accepted" => ex'[r.id] \in {"open", "done"}
  BY Zenon DEF AnswersInv
<1> QED BY <1>1, <1>2 DEF AnswersInv

LEMMA CleanupStep ==
  ASSUME Inv, WorkUnchanged,
         requests' \in Seq(Nat), results' \in Seq(Nat), lock' \in {"free", "exec", "cleanup"},
         worker' \in [pc: {"idle", "acquire", "query", "resolve", "cancel", "verify"},
                      gen: Nat, settled: BOOLEAN],
         newReqs' \subseteq newReqs,
         \A id \in newReqs : id \in newReqs' \/ ex[id] \in {"open", "done"},
         ex' \in [Ids -> {"none", "wire", "open", "done", "lost"}],
         \A id \in Ids : MovesOn(id),
         main' \in {"loop", "shutdown", "exit"}, main' = "loop" => main = "loop",
         attempts' \in 0..MaxAttempts, verified' \in BOOLEAN, trouble' \in 0..MaxTrouble,
         SettledInv(Loop)', main' = "loop" => Owned(Loop)', LockInv', VerdictInv'
  PROVE  Inv'
<1>1. TypeOK' BY WorkFields DEF Inv, TypeOK
<1>2. /\ SendsInv(Loop) /\ ExposureInv(Loop) BY DEF Inv, LoopInv
<1>3. \A id \in Ids : ex'[id] \in {"wire", "open"} => ex[id] \in {"wire", "open"}
  BY DEF MovesOn
<1>4. SendsInv(Loop)'
  <2>1. \A id, g : SendOK(mgr, id, g) => SendOK(mgr, id, g) /\ ex'[id] = "none"
    BY DEF SendOK, MovesOn
  <2>2. \A i \in 1..Len(queue) :
          IsSend(queue, i) => SendOK(mgr, queue[i].id, queue[i].gen) /\ ex'[queue[i].id] = "none"
    BY <1>2, <2>1, LoopFields DEF SendsInv
  <2>3. Submitting => SendOK(mgr, exec.id, exec.gen) /\ ex'[exec.id] = "none"
    BY <1>2, <2>1, LoopFields DEF SendsInv
  <2> QED
    BY <1>2, <2>2, <2>3, WorkFields, LoopFields
       DEF SendsInv, SendOK, Submitting, Committed, IsSend
<1>5. ExposureInv(Loop)'
  <2>1. Exposed' \subseteq TrackedIds(mgr)
    BY <1>2, <1>3, LoopFields DEF ExposureInv, Exposed
  <2>2. \A id \in Ids : ex'[id] = "wire" => id \in newReqs'
    BY <1>2, LoopFields DEF ExposureInv, MovesOn
  <2>3. exec.pc = "write" => exec.id \in newReqs'
    BY <1>2, LoopFields DEF ExposureInv, SendsInv, SendOK, Submitting
  <2>4. \A id \in Ids : id >= mgr.nextId => ex'[id] = "none"
    BY <1>2, LoopFields DEF ExposureInv, MovesOn
  <2>5. \A id \in snap.open : ex'[id] \in {"open", "done"}
    <3>1. snap.open \subseteq Ids BY DEF Inv, TypeOK
    <3> QED BY <1>2, <3>1, LoopFields DEF ExposureInv, MovesOn
  <2> QED BY <2>1, <2>2, <2>3, <2>4, <2>5, WorkFields, LoopFields DEF ExposureInv
<1>6. Way => Way' BY WorkFields DEF Way, Transport
<1>7. LoopInv(Loop, Way)' BY <1>1, <1>4, <1>5, <1>6, WorkFields, StillLoop
<1>8. (main = "loop" => Owned(Loop) /\ Rests(Loop))'
  BY WorkFields, LoopFields DEF Inv, Rests
<1>9. AnswersInv'
  <2>1. AnswersInv /\ \A r \in resp : r.id \in Ids BY DEF Inv, TypeOK
  <2>2. \A id \in Ids : /\ ex[id] = "done" => ex'[id] = "done"
                        /\ ex[id] \in {"open", "done"} => ex'[id] \in {"open", "done"}
    BY DEF MovesOn
  <2>3. events' = events /\ resp' = resp /\ conn' = conn BY WorkFields
  <2> QED BY <2>1, <2>2, <2>3, AnswersMoveOn, Zenon
<1> QED BY <1>1, <1>7, <1>8, <1>9 DEF Inv

LEMMA CleanupTypes ==
  ASSUME Inv
  PROVE  /\ requests \in Seq(Nat) /\ results \in Seq(Nat) /\ lock \in {"free", "exec", "cleanup"}
         /\ worker \in [pc: {"idle", "acquire", "query", "resolve", "cancel", "verify"},
                        gen: Nat, settled: BOOLEAN]
         /\ ex \in [Ids -> {"none", "wire", "open", "done", "lost"}]
         /\ main \in {"loop", "shutdown", "exit"} /\ attempts \in 0..MaxAttempts
         /\ verified \in BOOLEAN /\ trouble \in 0..MaxTrouble
         /\ NoWork \in [pc: {"idle", "acquire", "query", "resolve", "cancel", "verify"},
                        gen: Nat, settled: BOOLEAN]
BY DEF Inv, TypeOK, NoWork

(* One request, one worker or one result stands for the reconciliation.     *)
LEMMA OwnedFacts ==
  ASSUME Inv, main = "loop"
  PROVE  /\ requests # << >> => pending /\ Len(requests) = 1 /\ results = << >>
                                /\ worker.pc = "idle" /\ requests[Len(requests)] = recGen
         /\ worker.pc # "idle" => /\ pending /\ requests = << >> /\ results = << >>
                                  /\ worker.gen = recGen
         /\ pending => "Reconciliation" \in mgr.pauses
<1>1. /\ Len(requests) + Len(results) + (IF worker.pc = "idle" THEN 0 ELSE 1)
           = (IF pending THEN 1 ELSE 0)
      /\ pending => "Reconciliation" \in mgr.pauses
      /\ requests # << >> => requests[Len(requests)] = recGen
      /\ worker.pc # "idle" => worker.gen = recGen
  BY LoopFields DEF Inv, Owned
<1>2. /\ Len(results) \in Nat /\ (Len(results) = 0 <=> results = << >>)
      /\ Len(requests) \in Nat /\ (Len(requests) = 0 <=> requests = << >>)
  BY EmptyFacts DEF Inv, TypeOK
<1>3. pending \in BOOLEAN BY DEF Inv, TypeOK
<1> DEFINE x == IF worker.pc = "idle" THEN 0 ELSE 1
           y == IF pending THEN 1 ELSE 0
           l == Len(results)
           k == Len(requests)
<1>4. k + l + x = y /\ k \in Nat /\ l \in Nat /\ x \in {0, 1} /\ y \in {0, 1}
  BY <1>1, <1>2
<1>5. (x = 0 <=> worker.pc = "idle") /\ (y = 1 <=> pending) BY <1>3
<1> HIDE DEF x, y, l, k
<1>6. (k # 0 => k = 1 /\ l = 0 /\ x = 0 /\ y = 1) /\ (x # 0 => k = 0 /\ l = 0 /\ y = 1) BY <1>4
<1>7. (k = 0 <=> requests = << >>) /\ (l = 0 <=> results = << >>) BY <1>2 DEF k, l
<1> QED BY <1>1, <1>5, <1>6, <1>7 DEF k

LEMMA WorkerTakeInv ==
  ASSUME Inv, WorkerTake
  PROVE  Inv'
<1>1. /\ main = "loop" /\ worker.pc = "idle" /\ requests # << >> /\ requests' = << >>
      /\ worker' = [pc |-> "acquire", gen |-> requests[Len(requests)], settled |-> FALSE]
      /\ results' = results /\ lock' = lock /\ newReqs' = newReqs /\ ex' = ex
      /\ main' = main /\ attempts' = attempts /\ verified' = verified /\ trouble' = trouble
      /\ WorkUnchanged
  BY DEF WorkerTake, endVars
<1>2. /\ pending /\ "Reconciliation" \in mgr.pauses /\ results = << >>
      /\ requests[Len(requests)] = recGen /\ recGen \in Nat
  BY <1>1, OwnedFacts DEF Inv, TypeOK
<1>3. /\ worker'.pc = "acquire" /\ worker'.gen = recGen
      /\ worker' \in [pc: {"idle", "acquire", "query", "resolve", "cancel", "verify"},
                      gen: Nat, settled: BOOLEAN]
  BY <1>1, <1>2
<1>4. << >> \in Seq(Nat) /\ Len(<< >>) = 0 BY <1>1, EmptyFacts, CleanupTypes
<1>5. Owned(Loop)' BY <1>1, <1>2, <1>3, <1>4, WorkFields, LoopFields DEF Owned
<1>6. SettledInv(Loop)' BY <1>1, <1>3, LoopFields DEF Inv, LoopInv, SettledInv
<1>7. LockInv' BY <1>1, <1>3, WorkFields DEF Inv, LockInv
<1>8. VerdictInv' BY <1>1, <1>3, WorkFields DEF Inv, VerdictInv, Exposed, Committed
<1>9. \A id \in Ids : MovesOn(id) BY <1>1 DEF MovesOn
<1> QED BY <1>1, <1>3, <1>4, <1>5, <1>6, <1>7, <1>8, <1>9, CleanupTypes, CleanupStep

(* A step of a cleanup that is under way and goes on.                       *)
LEMMA WorkGoesOn ==
  ASSUME Inv, WorkUnchanged, NEW pc \in {"acquire", "query", "resolve", "cancel", "verify"},
         NEW b \in BOOLEAN, worker' = [worker EXCEPT !.pc = pc, !.settled = b],
         worker.pc # "idle", requests' = requests, results' = results,
         main' = main
  PROVE  /\ worker' \in [pc: {"idle", "acquire", "query", "resolve", "cancel", "verify"},
                         gen: Nat, settled: BOOLEAN]
         /\ worker'.pc = pc /\ worker'.settled = b
         /\ main' = "loop" => Owned(Loop)'
<1>1. /\ worker' \in [pc: {"idle", "acquire", "query", "resolve", "cancel", "verify"},
                      gen: Nat, settled: BOOLEAN]
      /\ worker'.pc = pc /\ worker'.settled = b /\ worker'.gen = worker.gen
  BY CleanupTypes
<1>2. main = "loop" => Owned(Loop) BY DEF Inv
<1> QED BY <1>1, <1>2, WorkFields, LoopFields DEF Owned

LEMMA CleanupLockInv ==
  ASSUME Inv, CleanupLock
  PROVE  Inv'
<1>1. /\ worker.pc = "acquire" /\ lock = "free" /\ lock' = "cleanup"
      /\ worker' = [worker EXCEPT !.pc = "query"]
      /\ requests' = requests /\ results' = results /\ newReqs' = newReqs /\ ex' = ex
      /\ main' = main /\ attempts' = attempts /\ verified' = verified /\ trouble' = trouble
      /\ WorkUnchanged
  BY DEF CleanupLock, endVars
<1>2. worker.settled \in BOOLEAN /\ worker' = [worker EXCEPT !.pc = "query", !.settled = worker.settled]
  BY <1>1, CleanupTypes
<1>3. /\ worker' \in [pc: {"idle", "acquire", "query", "resolve", "cancel", "verify"},
                      gen: Nat, settled: BOOLEAN]
      /\ worker'.pc = "query" /\ (main' = "loop" => Owned(Loop)')
  BY <1>1, <1>2, WorkGoesOn
<1>4. SettledInv(Loop)' BY <1>1, <1>3, LoopFields DEF Inv, LoopInv, SettledInv
<1>5. LockInv' BY <1>1, <1>3, WorkFields DEF Inv, LockInv
<1>6. VerdictInv' BY <1>1, <1>3, WorkFields DEF Inv, VerdictInv, Exposed, Committed
<1>7. \A id \in Ids : MovesOn(id) BY <1>1 DEF MovesOn
<1> QED BY <1>1, <1>3, <1>4, <1>5, <1>6, <1>7, CleanupTypes, CleanupStep

LEMMA CleanupQueryInv ==
  ASSUME Inv, CleanupQuery
  PROVE  Inv'
<1>1. /\ worker.pc = "query" /\ newReqs' = newReqs \ Resting
      /\ worker' = [worker EXCEPT !.pc = "resolve"]
      /\ requests' = requests /\ results' = results /\ lock' = lock /\ ex' = ex
      /\ main' = main /\ attempts' = attempts /\ verified' = verified /\ trouble' = trouble
      /\ WorkUnchanged
  BY DEF CleanupQuery, endVars
<1>2. worker.settled \in BOOLEAN /\ worker' = [worker EXCEPT !.pc = "resolve", !.settled = worker.settled]
  BY <1>1, CleanupTypes
<1>3. /\ worker' \in [pc: {"idle", "acquire", "query", "resolve", "cancel", "verify"},
                      gen: Nat, settled: BOOLEAN]
      /\ worker'.pc = "resolve" /\ (main' = "loop" => Owned(Loop)')
  BY <1>1, <1>2, WorkGoesOn
<1>4. SettledInv(Loop)' BY <1>1, <1>3, LoopFields DEF Inv, LoopInv, SettledInv
<1>5. LockInv' BY <1>1, <1>3, WorkFields DEF Inv, LockInv
<1>6. VerdictInv' BY <1>1, <1>3, WorkFields DEF Inv, VerdictInv, Exposed, Committed
<1>7. \A id \in Ids : MovesOn(id) BY <1>1 DEF MovesOn
<1>8. \A id \in newReqs : id \in newReqs' \/ ex[id] \in {"open", "done"}
  BY <1>1 DEF Resting
<1> QED BY <1>1, <1>3, <1>4, <1>5, <1>6, <1>7, <1>8, CleanupTypes, CleanupStep

LEMMA CleanupResolveInv ==
  ASSUME Inv, CleanupResolve
  PROVE  Inv'
<1>1. PICK told \in SUBSET {id \in newReqs : ex[id] \in {"open", "done"}} :
        /\ SufferIf(told # {id \in newReqs : ex[id] \in {"open", "done"}}, "REST error")
        /\ newReqs' = newReqs \ told
        /\ worker' = [worker EXCEPT !.pc = "cancel", !.settled = (newReqs \ told = {})]
  BY DEF CleanupResolve
<1>2. /\ worker.pc = "resolve"
      /\ requests' = requests /\ results' = results /\ lock' = lock /\ ex' = ex
      /\ main' = main /\ attempts' = attempts /\ verified' = verified
      /\ WorkUnchanged
  BY DEF CleanupResolve, endVars
<1> DEFINE b == newReqs \ told = {}
<1>3. b \in BOOLEAN /\ trouble' \in 0..MaxTrouble /\ (b => newReqs' = {})
  BY <1>1, Trouble, CleanupTypes
<1>4. worker' = [worker EXCEPT !.pc = "cancel", !.settled = b] BY <1>1
<1> HIDE DEF b
<1>5. /\ worker' \in [pc: {"idle", "acquire", "query", "resolve", "cancel", "verify"},
                      gen: Nat, settled: BOOLEAN]
      /\ worker'.pc = "cancel" /\ worker'.settled = b /\ (main' = "loop" => Owned(Loop)')
  BY <1>2, <1>3, <1>4, WorkGoesOn
<1>6. SettledInv(Loop)'
  BY <1>1, <1>2, <1>3, <1>5, LoopFields DEF Inv, LoopInv, SettledInv
<1>7. LockInv' BY <1>2, <1>5, WorkFields DEF Inv, LockInv
<1>8. VerdictInv' BY <1>2, <1>5, WorkFields DEF Inv, VerdictInv, Exposed, Committed
<1>9. \A id \in Ids : MovesOn(id) BY <1>2 DEF MovesOn
<1> QED BY <1>1, <1>2, <1>3, <1>5, <1>6, <1>7, <1>8, <1>9, CleanupTypes, CleanupStep

LEMMA CleanupCancelInv ==
  ASSUME Inv, CleanupCancel
  PROVE  Inv' /\ mgr' = mgr /\ \A id \in Ids : MovesOn(id)
<1>1. PICK left \in SUBSET Resting :
        /\ SufferIf(left # {}, "REST error")
        /\ ex' = [id \in Ids |-> IF id \in Resting \ left THEN "done" ELSE ex[id]]
  BY DEF CleanupCancel
<1>2. /\ worker.pc = "cancel" /\ worker' = [worker EXCEPT !.pc = "verify"]
      /\ requests' = requests /\ results' = results /\ lock' = lock /\ newReqs' = newReqs
      /\ main' = main /\ attempts' = attempts /\ verified' = verified
      /\ WorkUnchanged
  BY DEF CleanupCancel, endVars
<1>3. trouble' \in 0..MaxTrouble BY <1>1, Trouble, CleanupTypes
<1>4. worker.settled \in BOOLEAN /\ worker' = [worker EXCEPT !.pc = "verify", !.settled = worker.settled]
  BY <1>2, CleanupTypes
<1>5. /\ worker' \in [pc: {"idle", "acquire", "query", "resolve", "cancel", "verify"},
                      gen: Nat, settled: BOOLEAN]
      /\ worker'.pc = "verify" /\ worker'.settled = worker.settled
      /\ (main' = "loop" => Owned(Loop)')
  BY <1>2, <1>4, WorkGoesOn
<1>6. /\ ex' \in [Ids -> {"none", "wire", "open", "done", "lost"}]
      /\ \A id \in Ids : MovesOn(id)
  BY <1>1, CleanupTypes DEF Resting, MovesOn
<1>7. SettledInv(Loop)' BY <1>2, <1>5, LoopFields DEF Inv, LoopInv, SettledInv
<1>8. LockInv' BY <1>2, <1>5, WorkFields DEF Inv, LockInv
<1>9. VerdictInv' BY <1>2, <1>5, <1>6, WorkFields DEF Inv, VerdictInv, Exposed, Committed, MovesOn
<1> QED BY <1>2, <1>3, <1>5, <1>6, <1>7, <1>8, <1>9, WorkFields, CleanupTypes, CleanupStep

(* A failed attempt is followed by another, or by the end of the process.   *)
LEMMA RetryCleanupInv ==
  ASSUME Inv, RetryCleanup, worker.pc \in {"query", "cancel", "verify"},
         trouble' \in 0..MaxTrouble
  PROVE  Inv' /\ mgr' = mgr /\ ex' = ex
<1>1. /\ lock' = "free" /\ requests' = requests /\ results' = results /\ newReqs' = newReqs
      /\ ex' = ex /\ WorkUnchanged
  BY DEF RetryCleanup
<1>2. \A id \in Ids : MovesOn(id) BY <1>1 DEF MovesOn
<1>3. /\ worker.settled \in BOOLEAN /\ MaxAttempts \in Nat /\ attempts \in 0..MaxAttempts
      /\ main \in {"loop", "shutdown"}
  BY CleanupTypes, TradingAssumption DEF Inv, VerdictInv
<1>4. CASE worker' = [worker EXCEPT !.pc = "acquire"] /\ main' = main
  <2>1. worker' = [worker EXCEPT !.pc = "acquire", !.settled = worker.settled]
    BY <1>3, <1>4, CleanupTypes
  <2>2. /\ worker' \in [pc: {"idle", "acquire", "query", "resolve", "cancel", "verify"},
                        gen: Nat, settled: BOOLEAN]
        /\ worker'.pc = "acquire" /\ (main' = "loop" => Owned(Loop)')
    BY <1>1, <1>3, <1>4, <2>1, WorkGoesOn
  <2>3. /\ verified' = verified /\ attempts' \in 0..MaxAttempts
        /\ main = "loop" => attempts' = attempts
        /\ main = "shutdown" => attempts' < MaxAttempts
    <3>1. CASE main = "loop" BY <1>3, <3>1 DEF RetryCleanup, endVars
    <3>2. CASE main # "loop"
      <4>1. /\ attempts' = attempts + 1 /\ verified' = verified
            /\ main' = IF attempts + 1 < MaxAttempts THEN main ELSE "exit"
        BY <3>2 DEF RetryCleanup
      <4> QED BY <1>3, <1>4, <3>2, <4>1
    <3> QED BY <3>1, <3>2
  <2>4. SettledInv(Loop)' BY <1>1, <2>2, <2>3, LoopFields DEF Inv, LoopInv, SettledInv
  <2>5. LockInv' BY <1>1, <2>2, WorkFields DEF Inv, LockInv
  <2>6. VerdictInv'
    BY <1>1, <1>3, <1>4, <2>2, <2>3, WorkFields DEF Inv, VerdictInv, Exposed, Committed
  <2> QED
    BY <1>1, <1>2, <1>4, <2>2, <2>3, <2>4, <2>5, <2>6, WorkFields, CleanupTypes, CleanupStep
<1>5. CASE main = "shutdown" /\ worker' = NoWork /\ main' = "exit" /\ attempts' = attempts + 1
           /\ verified' = verified /\ ~(attempts + 1 < MaxAttempts)
  <2>1. worker'.pc = "idle" /\ main' # "loop" BY <1>5 DEF NoWork
  <2>2. attempts' \in 0..MaxAttempts BY <1>3, <1>5 DEF Inv, VerdictInv
  <2>3. SettledInv(Loop)' BY <1>1, <1>5, <2>1, LoopFields DEF Inv, LoopInv, SettledInv
  <2>4. LockInv' BY <1>1, <2>1, WorkFields DEF Inv, LockInv
  <2>5. VerdictInv'
    BY <1>1, <1>3, <1>5, <2>1, WorkFields DEF Inv, VerdictInv, Exposed, Committed
  <2> QED
    BY <1>1, <1>2, <1>5, <2>1, <2>2, <2>3, <2>4, <2>5, WorkFields, CleanupTypes, CleanupStep
<1> QED
  BY <1>3, <1>4, <1>5 DEF RetryCleanup, endVars

LEMMA CleanupErrorInv ==
  ASSUME Inv, CleanupError
  PROVE  Inv' /\ mgr' = mgr /\ ex' = ex
BY Trouble, CleanupTypes, RetryCleanupInv DEF CleanupError

(* A verdict: nothing rests, everything submitted is settled, and with the  *)
(* mutex held by the cleanup no submission is under way.                    *)
LEMMA CleanupVerifyInv ==
  ASSUME Inv, CleanupVerify
  PROVE  Inv' /\ mgr' = mgr /\ ex' = ex
<1>1. worker.pc = "verify" /\ trouble' = trouble BY DEF CleanupVerify
<1>2. CASE ~(Resting = {} /\ worker.settled)
  <2>1. RetryCleanup BY <1>2 DEF CleanupVerify
  <2> QED BY <1>1, <2>1, CleanupTypes, RetryCleanupInv
<1>3. CASE Resting = {} /\ worker.settled
  <2>1. /\ lock' = "free" /\ worker' = NoWork
        /\ requests' = requests /\ newReqs' = newReqs /\ ex' = ex /\ WorkUnchanged
    BY <1>3 DEF CleanupVerify
  <2>2. newReqs = {} BY <1>1, <1>3, LoopFields DEF Inv, LoopInv, SettledInv
  <2>3. Exposed = {}
    BY <1>3, <2>2, LoopFields DEF Inv, LoopInv, ExposureInv, Exposed, Resting
  <2>4. lock = "cleanup" /\ ~Committed BY <1>1 DEF Inv, LockInv, Committed
  <2>5. worker'.pc = "idle" BY <2>1 DEF NoWork
  <2>6. \A id \in Ids : MovesOn(id) BY <2>1 DEF MovesOn
  <2>7. SettledInv(Loop)' BY <2>1, <2>2, LoopFields DEF SettledInv
  <2>8. LockInv' BY <2>1, <2>4, <2>5, WorkFields DEF Inv, LockInv
  <2>9. CASE main = "loop"
    <3>1. results' = Append(results, worker.gen) /\ main' = main /\ attempts' = attempts
          /\ verified' = verified
      BY <1>3, <2>9 DEF CleanupVerify, endVars
    <3>2. pending /\ requests = << >> /\ results = << >> /\ worker.gen = recGen
          /\ "Reconciliation" \in mgr.pauses
      BY <1>1, <2>9, OwnedFacts
    <3>3. results \in Seq(Nat) /\ worker.gen \in Nat BY CleanupTypes
    <3>4. /\ results' \in Seq(Nat) /\ Len(results') = Len(results) + 1 /\ results' # << >>
          /\ results'[Len(results) + 1] = worker.gen /\ Len(results) = 0
      BY <3>1, <3>2, <3>3, AppendFacts, EmptyFacts
    <3>5. Head(results') = worker.gen BY <3>4
    <3>6. Len(requests) = 0 BY <3>2, EmptyFacts, CleanupTypes
    <3>7. Owned(Loop)'
      BY <2>1, <2>5, <3>2, <3>4, <3>5, <3>6, WorkFields, LoopFields DEF Owned
    <3>8. VerdictInv'
      BY <2>1, <2>3, <2>4, <2>5, <2>9, <3>1, WorkFields DEF Inv, VerdictInv, Exposed, Committed
    <3> QED
      BY <1>1, <2>1, <2>6, <2>7, <2>8, <2>9, <3>1, <3>4, <3>7, <3>8, WorkFields, CleanupTypes,
         CleanupStep
  <2>10. CASE main # "loop"
    <3>1. main' = "exit" /\ verified' = TRUE /\ results' = results /\ attempts' = attempts
      BY <1>3, <2>10 DEF CleanupVerify
    <3>2. VerdictInv'
      BY <2>1, <2>3, <2>5, <2>10, <3>1, WorkFields DEF Inv, VerdictInv, Exposed, Committed
    <3> QED
      BY <1>1, <2>1, <2>6, <2>7, <2>8, <3>1, <3>2, WorkFields, CleanupTypes, CleanupStep
  <2> QED BY <2>9, <2>10
<1> QED BY <1>2, <1>3

----------------------------------------------------------------------------
(* Shutdown *)

LEMMA ShutdownShift ==
  ASSUME NEW m \in Manager
  PROVE  Shift(m, ShutdownManager(m), {})
<1> DEFINE n == ShutdownManager(m)
<1>1. m.gen \in Nat /\ m.gen + 1 \in Nat BY ManagerTypes
<1>2. /\ n \in Manager /\ n.slots = m.slots /\ n.pauses = m.pauses /\ n.nextId = m.nextId
      /\ n.retired = m.retired /\ n.gen = m.gen + 1
  <2> DEFINE g == m.gen + 1
  <2>1. g \in Nat /\ n = [m EXCEPT !.shutdown = TRUE, !.gen = g] BY <1>1 DEF ShutdownManager
  <2> HIDE DEF g, n
  <2>2. /\ n \in Manager /\ n.slots = m.slots /\ n.pauses = m.pauses /\ n.nextId = m.nextId
        /\ n.retired = m.retired /\ n.gen = g
    BY <2>1 DEF Manager
  <2> QED BY <2>2 DEF g
<1>3. n.gen > m.gen /\ n.gen >= m.gen BY <1>1, <1>2
<1> HIDE DEF n
<1>4. Shift(m, n, {}) BY <1>2, <1>3 DEF Shift
<1> QED BY <1>4 DEF n

LEMMA ShutdownStepInv ==
  ASSUME Inv, Shutdown
  PROVE  Inv' /\ LedgerStep
<1> DEFINE n == ShutdownManager(mgr)
<1>1. /\ main = "loop" /\ main' = "shutdown" /\ mgr' = n
      /\ worker' = [NoWork EXCEPT !.pc = "acquire"]
      /\ lock' = IF lock = "cleanup" THEN "free" ELSE lock
      /\ requests' = << >> /\ results' = << >> /\ events' = << >>
      /\ faults' = 0 /\ snap' = NoSnap
      /\ genOf' = genOf /\ pending' = pending /\ recGen' = recGen /\ queue' = queue
      /\ exec' = exec /\ newReqs' = newReqs /\ cancelReqs' = cancelReqs /\ conn' = conn
      /\ ex' = ex /\ cancels' = cancels /\ resp' = resp
      /\ attempts' = attempts /\ verified' = verified /\ trouble' = trouble
  BY DEF Shutdown, reqVars, exchVars
<1>2. mgr \in Manager /\ ManagerInv(mgr) /\ LoopInv(Loop, Way) /\ TypeOK
  BY LoopFields DEF Inv, LoopInv, TypeOK
<1>3. ManagerInv(n) /\ Shift(mgr, n, {}) BY <1>2, ShutdownInv, ShutdownShift
<1> HIDE DEF n
<1>4. OidInv(n) /\ n \in Manager /\ n.nextId = mgr.nextId
  BY <1>2, <1>3, ShiftOid, LoopFields DEF LoopInv, Shift
<1>5. \A id : id \in TrackedIds(n) <=> id \in TrackedIds(mgr)
  BY <1>3, ShiftTracked
<1>6. /\ worker' \in [pc: {"idle", "acquire", "query", "resolve", "cancel", "verify"},
                      gen: Nat, settled: BOOLEAN]
      /\ worker'.pc = "acquire"
  BY <1>1 DEF NoWork
<1>7. NoSnap \in [polled: BOOLEAN, open: SUBSET Ids] /\ NoSnap.open = {} BY DEF NoSnap
<1>8. /\ << >> \in Seq(Nat) /\ << >> \in Seq([kind: EventKinds, id: 0..MaxOrders])
      /\ Len(<< >>) = 0 /\ 0 \in 0..FaultCap /\ 0 <= EventCap + 1
  BY <1>2, EmptyFacts, TradingAssumption DEF TypeOK
<1>9. TypeOK' BY <1>1, <1>2, <1>4, <1>6, <1>7, <1>8 DEF TypeOK
<1>10. Loop' \in LoopType BY <1>9 DEF Loop, LoopType, TypeOK
<1>11. \A id, g : SendOK(mgr, id, g) => SendOK(n, id, g)
  BY <1>2, <1>3, ShiftSend
<1>12. SendsInv(Loop)'
  <2>1. \A i \in 1..Len(queue) : IsSend(queue, i) => SendOK(n, queue[i].id, queue[i].gen)
    BY <1>2, <1>11, LoopFields DEF LoopInv, SendsInv
  <2>2. Submitting => SendOK(n, exec.id, exec.gen)
    BY <1>2, <1>11, LoopFields DEF LoopInv, SendsInv
  <2>3. SendsInv(Loop) BY <1>2 DEF LoopInv
  <2>4. Committed => exec.id \in TrackedIds(n) BY <1>5, <2>3, LoopFields DEF SendsInv
  <2> QED
    BY <1>1, <2>1, <2>2, <2>3, <2>4, LoopFields
       DEF SendsInv, SendOK, Submitting, Committed, IsSend
<1>13. ExposureInv(Loop)'
  BY <1>1, <1>2, <1>4, <1>5, <1>7, LoopFields DEF LoopInv, ExposureInv, Exposed
<1>14. ~verified BY <1>1 DEF Inv, VerdictInv
<1>15. SettledInv(Loop)' BY <1>1, <1>6, <1>14 DEF SettledInv
<1>16. LoopInv(Loop, Way)'
  <2>1. Loop'.m = n /\ Loop'.queue = queue BY <1>1, LoopFields
  <2>2. n.nextId <= MaxOrders + 1 BY <1>2, <1>4, LoopFields DEF LoopInv
  <2>3. Way' BY <1>1 DEF Way
  <2> QED
    BY <1>2, <1>3, <1>4, <1>10, <1>12, <1>13, <1>15, <2>1, <2>2, <2>3 DEF LoopInv, TypeOK
<1>17. AnswersInv'
  <2>1. 1..Len(events') = {} BY <1>1, <1>8
  <2> QED BY <1>1, <2>1 DEF Inv, AnswersInv
<1>18. LockInv' BY <1>1, <1>6 DEF Inv, LockInv
<1>19. VerdictInv'
  BY <1>1, <1>6, <1>14, TradingAssumption DEF Inv, VerdictInv
<1>20. LedgerStep BY <1>1, <1>4, <1>5 DEF LedgerStep
<1> QED BY <1>1, <1>9, <1>16, <1>17, <1>18, <1>19, <1>20 DEF Inv

LEMMA ShutdownTimeoutInv ==
  ASSUME Inv, ShutdownTimeout
  PROVE  Inv' /\ mgr' = mgr /\ ex' = ex
<1>1. /\ main = "shutdown" /\ main' = "exit" /\ worker' = NoWork
      /\ lock' = IF lock = "cleanup" THEN "free" ELSE lock
      /\ mgr' = mgr /\ pending' = pending /\ recGen' = recGen /\ queue' = queue
      /\ requests' = requests /\ genOf' = genOf /\ results' = results /\ faults' = faults
      /\ events' = events /\ snap' = snap /\ exec' = exec /\ newReqs' = newReqs
      /\ cancelReqs' = cancelReqs /\ conn' = conn
      /\ ex' = ex /\ cancels' = cancels /\ resp' = resp
      /\ attempts' = attempts /\ verified' = verified /\ trouble' = trouble
  BY DEF ShutdownTimeout, loopVars, reqVars, exchVars
<1>2. worker'.pc = "idle" BY <1>1 DEF NoWork
<1>3. WorkUnchanged BY <1>1 DEF WorkUnchanged
<1>4. \A id \in Ids : MovesOn(id) BY <1>1 DEF MovesOn
<1>5. SettledInv(Loop)' BY <1>1, <1>2, LoopFields DEF Inv, LoopInv, SettledInv
<1>6. LockInv' BY <1>1, <1>2 DEF Inv, LockInv
<1>7. VerdictInv' BY <1>1, <1>2 DEF Inv, VerdictInv, Exposed, Committed
<1> QED BY <1>1, <1>2, <1>3, <1>4, <1>5, <1>6, <1>7, CleanupTypes, CleanupStep

----------------------------------------------------------------------------
(* The whole *)

LEMMA InitInv ==
  ASSUME Init
  PROVE  Inv /\ mgr.nextId = 1 /\ TrackedIds(mgr) = {} /\ \A id \in Ids : ex[id] = "none"
<1> DEFINE n == NewManager
           a == SetPause(n, "OrderWebSocket")
           b == SetPause(a, "MarketData")
           c == SetPause(b, "RiskData")
<1>1. /\ n \in Manager /\ n.nextId = 1 /\ n.pauses = {}
      /\ \A s \in Slots : n.slots[s].id = 0 /\ n.slots[s].oid = 0
      /\ n.retired = 0 /\ n.gen = 0 /\ n.owed = 0
  BY FreeSlotType, FreeSlotBare DEF NewManager, Manager, FreeSlot
<1>2. ManagerInv(n)
  BY <1>1 DEF ManagerInv, IdsInv, GenInv, GateInv, Used
<1> HIDE DEF n
<1>3. ManagerInv(a) /\ a \in Manager /\ a.pauses = {"OrderWebSocket"} /\ SameOrders(n, a)
  BY ZenonT(60), <1>1, <1>2, SetPauseInv, SetPauseEffect DEF Reasons, ManagerInv
<1> HIDE DEF a
<1>4. /\ ManagerInv(b) /\ b \in Manager /\ SameOrders(a, b)
      /\ b.pauses = {"OrderWebSocket", "MarketData"}
  <2>1. "MarketData" \in Reasons BY DEF Reasons
  <2>2. ManagerInv(b) BY <1>3, <2>1, SetPauseInv
  <2>3. SameOrders(a, b) /\ b.pauses = a.pauses \cup {"MarketData"}
    BY <1>3, <2>1, SetPauseInv, SetPauseEffect
  <2>4. b \in Manager BY <2>2 DEF ManagerInv
  <2> HIDE DEF b
  <2> QED BY <1>3, <2>2, <2>3, <2>4
<1> HIDE DEF b
<1>5. /\ ManagerInv(c) /\ c \in Manager /\ SameOrders(b, c)
      /\ c.pauses = {"OrderWebSocket", "MarketData", "RiskData"}
  BY ZenonT(60), <1>4, SetPauseInv, SetPauseEffect DEF Reasons, ManagerInv
<1>6. /\ mgr = c /\ pending = FALSE /\ recGen = 0
      /\ queue = << >> /\ requests = << >> /\ results = << >> /\ events = << >>
      /\ faults = 0 /\ snap = NoSnap
      /\ exec = Idle /\ lock = "free" /\ worker = NoWork
      /\ newReqs = {} /\ cancelReqs = {} /\ conn = "down"
      /\ genOf = [id \in Ids |-> 0]
      /\ ex = [id \in Ids |-> "none"] /\ cancels = {} /\ resp = {}
      /\ main = "loop" /\ attempts = 0 /\ verified = FALSE
      /\ trouble = MaxTrouble
  BY DEF Init, a, b, n
<1> HIDE DEF c
<1>7. /\ mgr.nextId = 1 /\ mgr.slots = n.slots
  BY <1>1, <1>3, <1>4, <1>5, <1>6 DEF SameOrders
<1>8. TrackedIds(mgr) = {} /\ OidInv(mgr)
  BY <1>1, <1>7 DEF TrackedIds, Used, OidInv
<1>9. \A id \in Ids : ex[id] = "none" BY <1>6
<1>10. /\ Exposed = {} /\ ~Submitting /\ ~Committed /\ worker.pc = "idle" /\ exec.pc = "idle"
       /\ snap.open = {}
  BY <1>6, <1>9 DEF Exposed, Submitting, Committed, Idle, NoWork, NoSnap
<1>11. \A S : << >> \in Seq(S) /\ Len(<< >>) = 0 /\ 1..Len(<< >>) = {} OBVIOUS
<1>12. TypeOK
  <2>1. /\ NoSnap \in [polled: BOOLEAN, open: SUBSET Ids]
        /\ Idle \in [pc: {"idle", "lock", "sign", "insert", "write", "cancel", "fault"},
                     id: 0..MaxOrders, gen: Nat]
        /\ NoWork \in [pc: {"idle", "acquire", "query", "resolve", "cancel", "verify"},
                       gen: Nat, settled: BOOLEAN]
    BY TradingAssumption DEF NoSnap, Idle, NoWork
  <2>2. /\ 0 <= QueueCap /\ 0 <= EventCap + 1 /\ 0 \in 0..FaultCap /\ 0 \in 0..MaxAttempts
        /\ MaxTrouble \in 0..MaxTrouble
    BY TradingAssumption
  <2> QED BY <1>5, <1>6, <1>11, <2>1, <2>2 DEF TypeOK
<1>13. Loop \in LoopType BY <1>12 DEF Loop, LoopType, TypeOK
<1>14. SendsInv(Loop)
  BY <1>6, <1>10, <1>11, LoopFields DEF SendsInv
<1>15. ExposureInv(Loop)
  BY <1>6, <1>9, <1>10, LoopFields DEF ExposureInv
<1>16. SettledInv(Loop) BY <1>6, LoopFields DEF SettledInv
<1>17. Way BY <1>6 DEF Way, Transport
<1>18. LoopInv(Loop, Way)
  <2>1. mgr.nextId <= MaxOrders + 1 BY <1>7, TradingAssumption
  <2>2. Len(queue) <= QueueCap BY <1>12 DEF TypeOK
  <2> QED
    BY <1>5, <1>6, <1>8, <1>13, <1>14, <1>15, <1>16, <1>17, <2>1, <2>2, LoopFields DEF LoopInv
<1>19. Owned(Loop) BY <1>6, <1>10, <1>11, LoopFields DEF Owned
<1>20. Rests(Loop) BY <1>5, <1>6, LoopFields DEF Rests, Armed
<1>21. AnswersInv BY <1>6, <1>11 DEF AnswersInv
<1>22. LockInv BY <1>6, <1>10 DEF LockInv
<1>23. VerdictInv BY <1>6, <1>10 DEF VerdictInv
<1> QED
  BY <1>7, <1>8, <1>9, <1>12, <1>18, <1>19, <1>20, <1>21, <1>22, <1>23 DEF Inv

(* What any step does to the orders at the exchange and in the slots: the   *)
(* loop forgets or places, the executor submits one the manager tracks, or  *)
(* orders move on towards their end.                                        *)
Submits ==
  /\ mgr' = mgr
  /\ \E id \in Ids : /\ id \in TrackedIds(mgr) /\ ex[id] = "none" /\ Guarded(id)
                     /\ \E st \in {"wire", "lost"} : ex' = [ex EXCEPT ![id] = st]
Ends == mgr' = mgr /\ \A id \in Ids : MovesOn(id)
Transfers == LedgerStep \/ Submits \/ Ends

LEMMA Unmoved ==
  ASSUME mgr' = mgr, ex' = ex
  PROVE  Ends
BY DEF Ends, MovesOn

LEMMA EventLoopInv ==
  ASSUME Inv, EventLoop
  PROVE  Inv' /\ Transfers
<1>1. CASE \E q \in Quotes, old \in {{}, LiveSlots} : DepthQuote(q, old)
  BY <1>1, DepthQuoteInv DEF Transfers
<1>2. CASE OrderEvent \/ ExecutorFault \/ ReconciliationVerified \/ MarketOutage
  BY <1>2, OrderEventInv, ExecutorFaultInv, ReconciliationVerifiedInv, MarketOutageInv
     DEF Transfers
<1>3. CASE PollOpenOrders
  <2>1. mgr' = mgr /\ ex' = ex BY <1>3 DEF PollOpenOrders, loopVars, exchVars
  <2> QED BY <1>3, <2>1, PollOpenOrdersInv, Unmoved DEF Transfers
<1>4. ASSUME NEW polled \in {FALSE, mgr.owed > 0}, NEW late \in {{}, UsedSlots},
             NEW cooled \in SUBSET (mgr.pauses \cap {"Safety", "CircuitBreaker"}),
             \/ Tick("none", polled, cooled, late) /\ UNCHANGED trouble
             \/ \E fault \in TickFaults : Suffer(fault) /\ Tick(fault, polled, cooled, late)
      PROVE  Inv' /\ LedgerStep
  <2> DEFINE owes == mgr.owed > 0
  <2>1. owes \in BOOLEAN OBVIOUS
  <2> HIDE DEF owes
  <2>2. polled \in BOOLEAN BY <2>1 DEF owes
  <2>3. trouble \in 0..MaxTrouble BY DEF Inv, TypeOK
  <2>4. CASE Tick("none", polled, cooled, late) /\ UNCHANGED trouble
    BY <2>2, <2>3, <2>4, TickInv
  <2>5. CASE \E fault \in TickFaults : Suffer(fault) /\ Tick(fault, polled, cooled, late)
    <3>1. PICK fault \in TickFaults : Suffer(fault) /\ Tick(fault, polled, cooled, late)
      BY <2>5
    <3>2. trouble' \in 0..MaxTrouble BY <2>3, <3>1, Trouble
    <3> QED BY <2>2, <3>1, <3>2, TickInv
  <2> QED BY <1>4, <2>4, <2>5
<1>5. CASE \E polled \in {FALSE, mgr.owed > 0}, late \in {{}, UsedSlots},
              cooled \in SUBSET (mgr.pauses \cap {"Safety", "CircuitBreaker"}) :
             \/ Tick("none", polled, cooled, late) /\ UNCHANGED trouble
             \/ \E fault \in TickFaults : Suffer(fault) /\ Tick(fault, polled, cooled, late)
  BY <1>4, <1>5 DEF Transfers
<1> QED BY <1>1, <1>2, <1>3, <1>5 DEF EventLoop

LEMMA ExecutorInv ==
  ASSUME Inv, Executor
  PROVE  Inv' /\ Transfers
<1>1. CASE TakeDecision \/ InsertRequest \/ ReportFault
  <2>1. mgr' = mgr /\ ex' = ex
    BY <1>1, ExecFields DEF TakeDecision, InsertRequest, ReportFault
  <2> QED BY <1>1, <2>1, TakeDecisionInv, InsertRequestInv, ReportFaultInv, Unmoved DEF Transfers
<1>2. CASE AcquireSubmission \/ Recheck
  <2>1. mgr' = mgr /\ ex' = ex
    BY <1>2, ExecFields DEF AcquireSubmission, Recheck, Gate
  <2> QED BY <1>2, <2>1, AcquireSubmissionInv, RecheckInv, Unmoved DEF Transfers
<1>3. ASSUME NEW ok \in BOOLEAN, NEW reached \in BOOLEAN, WriteOrder(ok, reached)
      PROVE  Inv' /\ Transfers
  <2>1. Submits BY <1>3, WriteOrderInv DEF Submits
  <2> QED BY <1>3, <2>1, WriteOrderInv DEF Transfers
<1>4. ASSUME NEW ok \in BOOLEAN, NEW reached \in BOOLEAN, SendCancel(ok, reached)
      PROVE  Inv' /\ Transfers
  <2>1. mgr' = mgr /\ ex' = ex BY <1>4, ExecFields DEF SendCancel
  <2> QED BY <1>4, <2>1, SendCancelInv, Unmoved DEF Transfers
<1> QED BY <1>1, <1>2, <1>3, <1>4 DEF Executor

LEMMA OrderSocketInv ==
  ASSUME Inv, OrderSocket
  PROVE  Inv' /\ Transfers
<1>1. WsUnchanged
  BY DEF OrderSocket, HandleResponse, OddResponse, Disconnect, Authenticate
<1>2. Ends BY <1>1, WsFields, Unmoved
<1> QED
  BY <1>2, HandleResponseInv, OddResponseInv, DisconnectInv, AuthenticateInv
     DEF OrderSocket, Transfers

LEMMA ExchangeInv ==
  ASSUME Inv, Exchange
  PROVE  Inv' /\ Transfers
<1>1. PICK id \in Ids :
        \/ LoseOrder(id)
        \/ \E a, b \in BOOLEAN : ReceiveOrder(id, a, b) \/ Fill(id, a, b)
        \/ \E a \in BOOLEAN : ReceiveCancel(id, a)
  BY DEF Exchange
<1>2. Inv' /\ MovesOn(id)
  BY <1>1, LoseOrderInv, ReceiveOrderInv, FillInv, ReceiveCancelInv
<1>3. ExchangeUnchanged
  BY <1>1 DEF LoseOrder, ReceiveOrder, Fill, ReceiveCancel
<1>4. \A i \in Ids : i # id => ex'[i] = ex[i]
  <2>1. \E st : ex' \in {ex, [ex EXCEPT ![id] = st]}
    BY <1>1 DEF LoseOrder, ReceiveOrder, Fill, ReceiveCancel
  <2>2. ex \in [Ids -> {"none", "wire", "open", "done", "lost"}] BY DEF Inv, TypeOK
  <2> QED BY <2>1, <2>2
<1>5. Ends BY <1>2, <1>3, <1>4, ExchangeFields DEF Ends, MovesOn
<1> QED BY <1>2, <1>5 DEF Transfers

LEMMA CleanupInv ==
  ASSUME Inv, Cleanup
  PROVE  Inv' /\ Transfers
<1>1. CASE WorkerTake \/ CleanupLock \/ CleanupQuery \/ CleanupResolve
  <2>1. mgr' = mgr /\ ex' = ex
    BY <1>1, WorkFields DEF WorkerTake, CleanupLock, CleanupQuery, CleanupResolve
  <2> QED
    BY <1>1, <2>1, WorkerTakeInv, CleanupLockInv, CleanupQueryInv, CleanupResolveInv, Unmoved
       DEF Transfers
<1>2. CASE CleanupCancel BY <1>2, CleanupCancelInv DEF Transfers, Ends
<1>3. CASE CleanupError \/ CleanupVerify
  BY <1>3, CleanupErrorInv, CleanupVerifyInv, Unmoved DEF Transfers
<1> QED BY <1>1, <1>2, <1>3 DEF Cleanup

LEMMA StutterInv ==
  ASSUME Inv, UNCHANGED vars
  PROVE  Inv' /\ Ends
<1>1. /\ mgr' = mgr /\ pending' = pending /\ recGen' = recGen /\ queue' = queue
      /\ requests' = requests /\ genOf' = genOf /\ results' = results /\ faults' = faults
      /\ events' = events /\ snap' = snap /\ exec' = exec /\ lock' = lock /\ worker' = worker
      /\ newReqs' = newReqs /\ cancelReqs' = cancelReqs /\ conn' = conn
      /\ ex' = ex /\ cancels' = cancels /\ resp' = resp /\ main' = main
      /\ attempts' = attempts /\ verified' = verified /\ trouble' = trouble
  BY DEF vars
<1>2. WorkUnchanged BY <1>1 DEF WorkUnchanged
<1>3. \A id \in Ids : MovesOn(id) BY <1>1 DEF MovesOn
<1>4. SettledInv(Loop)' BY <1>1, LoopFields DEF Inv, LoopInv, SettledInv
<1>5. main' = "loop" => Owned(Loop)' BY <1>1, LoopFields DEF Inv, Owned
<1>6. LockInv' BY <1>1 DEF Inv, LockInv
<1>7. VerdictInv' BY <1>1 DEF Inv, VerdictInv, Exposed, Committed
<1> QED
  BY <1>1, <1>2, <1>3, <1>4, <1>5, <1>6, <1>7, CleanupTypes, CleanupStep DEF Ends

LEMMA NextInv ==
  ASSUME Inv, [Next]_vars
  PROVE  Inv' /\ Transfers
<1>1. CASE UNCHANGED vars BY <1>1, StutterInv DEF Transfers
<1>2. CASE Exited BY <1>2, StutterInv DEF Exited, Transfers
<1>3. CASE EventLoop BY <1>3, EventLoopInv
<1>4. CASE Executor BY <1>4, ExecutorInv
<1>5. CASE OrderSocket BY <1>5, OrderSocketInv
<1>6. CASE Exchange BY <1>6, ExchangeInv
<1>7. CASE Cleanup BY <1>7, CleanupInv
<1>8. CASE Shutdown BY <1>8, ShutdownStepInv DEF Transfers
<1>9. CASE ShutdownTimeout BY <1>9, ShutdownTimeoutInv, Unmoved DEF Transfers
<1> QED BY <1>1, <1>2, <1>3, <1>4, <1>5, <1>6, <1>7, <1>8, <1>9 DEF Next

LEMMA Invariance == Spec => []Inv
<1>1. Init => Inv BY InitInv
<1>2. Inv /\ [Next]_vars => Inv' BY NextInv
<1> QED BY <1>1, <1>2, PTL DEF Spec

(* Every channel keeps within its capacity, and every variable its type,    *)
(* whatever the capacities and however the tasks are interleaved: the       *)
(* reader holds one event past a full channel, the executor waits for room  *)
(* (main.rs, order_ws.rs).                                                  *)
THEOREM TradingTypes == Spec => []TypeOK
<1>1. Inv => TypeOK BY DEF Inv
<1> QED BY <1>1, Invariance, PTL

(* For any number of orders, quotes, failures and reconciliations: no order *)
(* rests at the exchange, or is on its way there, that the order manager    *)
(* does not reserve notional for (the event loop, place_order,              *)
(* cancel_and_verify).                                                      *)
THEOREM ExposureIsTracked == Spec => []EveryExposureTracked
<1>1. Inv => EveryExposureTracked
  BY LoopFields DEF Inv, LoopInv, ExposureInv, EveryExposureTracked
<1> QED BY <1>1, Invariance, PTL

(* A cleanup's verdict stands until the loop has taken it, and for good     *)
(* when it is shutdown's: nothing rests, nothing is on the wire, nothing is *)
(* unresolved (reconciliation_worker, cancel_and_verify).                   *)
THEOREM VerdictsHold == Spec => []VerifiedMeansClean
<1>1. Inv => VerifiedMeansClean
  BY LoopFields DEF Inv, VerdictInv, LoopInv, SettledInv, VerifiedMeansClean
<1> QED BY <1>1, Invariance, PTL

(* A reconciliation is owned by exactly one request, worker or result until *)
(* it is over, so none is lost and none is run twice                        *)
(* (begin_account_reconciliation, finish_account_reconciliation).           *)
THEOREM ReconciliationIsOwned == Spec => []ReconciliationOwned
<1>1. Inv => ReconciliationOwned
  <2> SUFFICES ASSUME Inv, main = "loop"
               PROVE  /\ Len(requests) + Len(results) + (IF worker.pc = "idle" THEN 0 ELSE 1)
                           = (IF pending THEN 1 ELSE 0)
                      /\ pending <=> "Reconciliation" \in mgr.pauses
                      /\ results # << >> => Head(results) = recGen
    BY DEF ReconciliationOwned
  <2>1. Owned(Loop) /\ Rests(Loop) BY DEF Inv
  <2>2. pending \in BOOLEAN BY DEF Inv, TypeOK
  <2> QED BY <2>1, <2>2, LoopFields DEF Owned, Rests
<1> QED BY <1>1, Invariance, PTL

(* Whatever raised a pause, something under way will lift it: a cleanup, an *)
(* armed cooldown that starts one, or the socket's return                   *)
(* (check_safety_pause_recovery, check_circuit_breaker_recovery, the        *)
(* authentication event).                                                   *)
THEOREM PausesHaveWayOut == Spec => []EveryPauseHasWayOut
<1>1. Inv => EveryPauseHasWayOut
  BY LoopFields DEF Inv, LoopInv, Rests, Armed, Way, Transport, EveryPauseHasWayOut
<1> QED BY <1>1, Invariance, PTL

----------------------------------------------------------------------------
(* The refinement of the ledger of exposure *)

(* Identities are handed out in order, from 1.                              *)
LEMMA TrackedBelow ==
  ASSUME Inv
  PROVE  /\ mgr.nextId \in Nat /\ mgr.nextId <= MaxOrders + 1
         /\ \A id \in TrackedIds(mgr) : id \in Ids /\ id < mgr.nextId
         /\ Exposed \subseteq TrackedIds(mgr)
<1>1. /\ ManagerInv(mgr) /\ mgr \in Manager /\ mgr.nextId <= MaxOrders + 1
      /\ Exposed \subseteq TrackedIds(mgr)
  BY LoopFields DEF Inv, LoopInv, ExposureInv, TypeOK
<1>2. ASSUME NEW id \in TrackedIds(mgr) PROVE id \in Ids /\ id < mgr.nextId
  <2>1. PICK s \in Slots : Used(mgr, s) /\ mgr.slots[s].id = id BY <1>2, TrackedFacts
  <2>2. id < mgr.nextId /\ id # 0 BY <1>1, <2>1 DEF ManagerInv, IdsInv, Used
  <2>3. mgr.slots[s] \in Order /\ mgr.nextId \in Nat BY <1>1, ManagerTypes
  <2>4. id \in Nat BY <2>1, <2>3 DEF Order
  <2> QED BY <1>1, <2>2, <2>3, <2>4, TradingAssumption DEF Ids
<1> QED BY <1>1, <1>2, ManagerTypes

LEMMA LoopTransfers ==
  ASSUME Inv, Inv', LedgerStep
  PROVE  [Ledger!Next]_(Ledger!vars)
<1> DEFINE used == 1..(mgr.nextId - 1)
           tracked == TrackedIds(mgr)
           spent == {id \in Ids : ex[id] \in {"done", "lost"}}
<1>1. Exposed' = Exposed /\ spent' = spent BY DEF LedgerStep, Exposed
<1>2. /\ mgr.nextId \in Nat /\ mgr.nextId <= MaxOrders + 1
      /\ \A id \in tracked : id \in Ids /\ id < mgr.nextId
      /\ Exposed \subseteq tracked
  BY TrackedBelow
<1>3. /\ mgr'.nextId \in Nat /\ mgr'.nextId <= MaxOrders + 1
      /\ \A id \in TrackedIds(mgr') : id \in Ids /\ id < mgr'.nextId
      /\ Exposed' \subseteq TrackedIds(mgr')
  <2>1. (/\ mgr.nextId \in Nat /\ mgr.nextId <= MaxOrders + 1
         /\ \A id \in TrackedIds(mgr) : id \in Ids /\ id < mgr.nextId
         /\ Exposed \subseteq TrackedIds(mgr))'
    BY TrackedBelow, PTL
  <2> QED BY <2>1
<1>4. CASE mgr'.nextId = mgr.nextId /\ TrackedIds(mgr') \subseteq TrackedIds(mgr)
  <2> DEFINE ids == TrackedIds(mgr) \ TrackedIds(mgr')
  <2>1. ids \in SUBSET Ids /\ ids \subseteq tracked \ Exposed BY <1>1, <1>2, <1>3
  <2>2. TrackedIds(mgr') = TrackedIds(mgr) \ ids BY <1>4
  <2>3. CASE ids = {}
    <3>1. TrackedIds(mgr') = TrackedIds(mgr) BY <2>2, <2>3
    <3> QED BY <1>1, <1>4, <3>1 DEF Ledger!vars
  <2>4. CASE ids # {}
    <3>1. Ledger!Forget(ids) BY <1>1, <1>4, <2>1, <2>2, <2>4 DEF Ledger!Forget
    <3> QED BY <2>1, <3>1 DEF Ledger!Next
  <2> QED BY <2>3, <2>4
<1>5. CASE /\ mgr.nextId < mgr'.nextId
           /\ \A id \in TrackedIds(mgr) : id < mgr.nextId /\ id \in TrackedIds(mgr')
           /\ \A id \in TrackedIds(mgr') : id \in TrackedIds(mgr) \/ id >= mgr.nextId
  <2> DEFINE new == mgr.nextId..(mgr'.nextId - 1)
             kept == TrackedIds(mgr') \ TrackedIds(mgr)
  <2>1. mgr.nextId >= 1 /\ mgr'.nextId \in Nat
    BY <1>2, <1>3, LoopFields DEF Inv, LoopInv, ManagerInv
  <2>2. new # {} /\ new \cap used = {} /\ 1..(mgr'.nextId - 1) = used \cup new
    BY <1>2, <1>5, <2>1
  <2>3. new \subseteq Ids BY <1>2, <1>3, <2>1, TradingAssumption DEF Ids
  <2>4. kept \subseteq new
    <3>1. ASSUME NEW id \in kept PROVE id \in new
      <4>1. id \in Ids /\ id < mgr'.nextId /\ id >= mgr.nextId BY <1>3, <1>5, <3>1
      <4> QED BY <1>2, <1>3, <4>1, TradingAssumption DEF Ids
    <3> QED BY <3>1
  <2>5. TrackedIds(mgr') = TrackedIds(mgr) \cup kept BY <1>5
  <2> HIDE DEF new, kept
  <2>6. Ledger!Place(new, kept)
    BY <1>1, <2>2, <2>4, <2>5 DEF Ledger!Place
  <2> QED BY <2>3, <2>4, <2>6 DEF Ledger!Next
<1> QED BY <1>4, <1>5 DEF LedgerStep

LEMMA SubmissionTransfers ==
  ASSUME Inv, Submits
  PROVE  Ledger!Next
<1> DEFINE spent == {i \in Ids : ex[i] \in {"done", "lost"}}
<1>1. PICK id \in Ids : /\ id \in TrackedIds(mgr) /\ ex[id] = "none" /\ Guarded(id)
                        /\ \E st \in {"wire", "lost"} : ex' = [ex EXCEPT ![id] = st]
  BY DEF Submits
<1>2. PICK st \in {"wire", "lost"} : ex' = [ex EXCEPT ![id] = st] BY <1>1
<1>3. ex \in [Ids -> {"none", "wire", "open", "done", "lost"}] BY DEF Inv, TypeOK
<1>4. mgr' = mgr BY DEF Submits
<1>5. ex'[id] = st /\ \A i \in Ids : i # id => ex'[i] = ex[i] BY <1>2, <1>3
<1>6. id \in TrackedIds(mgr) \ (Exposed \cup spent) BY <1>1 DEF Exposed
<1>7. CASE st = "wire"
  <2>1. Exposed' = Exposed \cup {id} /\ spent' = spent BY <1>1, <1>5, <1>7 DEF Exposed
  <2>2. Ledger!Expose(id) BY <1>4, <1>6, <2>1 DEF Ledger!Expose
  <2> QED BY <2>2 DEF Ledger!Next
<1>8. CASE st = "lost"
  <2>1. Exposed' = Exposed /\ spent' = spent \cup {id} BY <1>1, <1>5, <1>8 DEF Exposed
  <2>2. Ledger!Lose(id) BY <1>4, <1>6, <2>1 DEF Ledger!Lose
  <2> QED BY <2>2 DEF Ledger!Next
<1> QED BY <1>7, <1>8

LEMMA EndTransfers ==
  ASSUME Inv, Inv', Ends
  PROVE  [Ledger!Next]_(Ledger!vars)
<1> DEFINE spent == {i \in Ids : ex[i] \in {"done", "lost"}}
           ids == {i \in Ids : ex[i] \in {"wire", "open"} /\ ex'[i] \in {"done", "lost"}}
<1>1. mgr' = mgr /\ \A i \in Ids : MovesOn(i) BY DEF Ends
<1>2. Exposed' = Exposed \ ids /\ spent' = spent \cup ids
  BY <1>1 DEF Exposed, MovesOn
<1>3. ids \in SUBSET Ids /\ ids \subseteq Exposed BY DEF Exposed
<1> HIDE DEF ids
<1>4. CASE ids = {}
  <2>1. Exposed' = Exposed /\ spent' = spent BY <1>2, <1>4
  <2> QED BY <1>1, <2>1 DEF Ledger!vars
<1>5. CASE ids # {}
  <2>1. PICK gone \in SUBSET Ids : gone = ids BY <1>3
  <2>2. Ledger!End(gone) BY <1>1, <1>2, <1>3, <1>5, <2>1 DEF Ledger!End
  <2>3. \E d \in SUBSET Ids : Ledger!End(d) BY <2>2
  <2> QED BY <2>3 DEF Ledger!Next
<1> QED BY <1>4, <1>5

(* The trading loop implements the ledger: whatever the tasks do, an order  *)
(* becomes exposed only while a slot tracks it, is forgotten only when it   *)
(* is not exposed, and never comes back (the event loop, order_executor,    *)
(* the exchange's answers and both cleanups together).                      *)
THEOREM LedgerIsKept == Spec => KeepsLedger
<1>1. Init => Ledger!Init
  <2> SUFFICES ASSUME Init PROVE Ledger!Init
    OBVIOUS
  <2>1. mgr.nextId = 1 /\ TrackedIds(mgr) = {} /\ \A id \in Ids : ex[id] = "none" BY InitInv
  <2>2. 1..(mgr.nextId - 1) = {} /\ Exposed = {} /\ {id \in Ids : ex[id] \in {"done", "lost"}} = {}
    BY <2>1 DEF Exposed
  <2> QED BY <2>1, <2>2 DEF Ledger!Init
<1>2. Inv /\ Inv' /\ [Next]_vars => [Ledger!Next]_(Ledger!vars)
  BY NextInv, LoopTransfers, SubmissionTransfers, EndTransfers DEF Transfers
<1> QED BY <1>1, <1>2, Invariance, PTL DEF Spec, KeepsLedger, Ledger!Spec

----------------------------------------------------------------------------
(* What follows for the life of an order *)

(* An order goes out only while the manager reserves its notional, while    *)
(* its answer and every later cleanup will find it in pending_requests, and *)
(* never between the first query of a cleanup and the moment its verdict is *)
(* taken: the submission mutex keeps the two apart (place_order,            *)
(* cancel_and_verify).                                                      *)
THEOREM SubmissionsAreGuarded ==
  Spec => [][\A id \in Ids : ex[id] = "none" /\ ex'[id] # "none" =>
                               id \in TrackedIds(mgr) /\ Guarded(id)]_vars
<1>1. ASSUME Inv, [Next]_vars, NEW id \in Ids, ex[id] = "none", ex'[id] # "none"
      PROVE  id \in TrackedIds(mgr) /\ Guarded(id)
  <2>1. Submits
    BY <1>1, NextInv DEF Transfers, LedgerStep, Ends, MovesOn
  <2>2. PICK i \in Ids : /\ i \in TrackedIds(mgr) /\ Guarded(i)
                         /\ \E st \in {"wire", "lost"} : ex' = [ex EXCEPT ![i] = st]
    BY <2>1 DEF Submits
  <2>3. ex \in [Ids -> {"none", "wire", "open", "done", "lost"}] BY <1>1 DEF Inv, TypeOK
  <2>4. i = id BY <1>1, <2>2, <2>3
  <2> QED BY <2>2, <2>4
<1>2. Inv /\ [Next]_vars =>
        [\A id \in Ids : ex[id] = "none" /\ ex'[id] # "none" =>
                           id \in TrackedIds(mgr) /\ Guarded(id)]_vars
  BY <1>1
<1> QED BY <1>2, Invariance, PTL DEF Spec

(* The ledger balances, whatever it records.                                *)
LEMMA LedgerBalances == Ledger!Spec => []Ledger!Balanced
<1>1. Ledger!Init => Ledger!Balanced
  BY DEF Ledger!Init, Ledger!Balanced
<1>2. Ledger!Balanced /\ [Ledger!Next]_(Ledger!vars) => Ledger!Balanced'
  BY DEF Ledger!Balanced, Ledger!Next, Ledger!vars, Ledger!Place, Ledger!Expose, Ledger!Lose,
         Ledger!End, Ledger!Forget
<1> QED BY <1>1, <1>2, PTL DEF Ledger!Spec

LEMMA LedgerForgets ==
  ASSUME NEW id, Ledger!Forgotten(id), [Ledger!Next]_(Ledger!vars)
  PROVE  Ledger!Forgotten(id)'
BY DEF Ledger!Forgotten, Ledger!Next, Ledger!vars, Ledger!Place, Ledger!Expose, Ledger!Lose,
       Ledger!End, Ledger!Forget

LEMMA LedgerSpends ==
  ASSUME NEW id, Ledger!Balanced, Ledger!Spent(id), [Ledger!Next]_(Ledger!vars)
  PROVE  Ledger!Spent(id)'
BY DEF Ledger!Spent, Ledger!Next, Ledger!vars, Ledger!Place, Ledger!Expose, Ledger!Lose,
       Ledger!End, Ledger!Forget

(* The ledger of the loop balances at every moment: what is exposed has a   *)
(* slot, what has a slot was given an identity, and what is over is not     *)
(* exposed.                                                                 *)
THEOREM BooksBalance == Spec => []Ledger!Balanced
BY LedgerIsKept, LedgerBalances, PTL DEF KeepsLedger

(* Once the manager has forgotten an order, be it after an answer, a        *)
(* refused dispatch, a fault or a reconciliation, that order is never again *)
(* in a slot nor at the exchange or on its way there, whatever decisions,   *)
(* answers and restarts of the connection are still to come: the account    *)
(* cannot hold what the sizing does not know of.                            *)
THEOREM ForgottenForGood ==
  ASSUME NEW id
  PROVE  Spec => [](Ledger!Forgotten(id) => [](id \notin TrackedIds(mgr) \cup Exposed))
<1>1. Ledger!Forgotten(id) /\ [Ledger!Next]_(Ledger!vars) => Ledger!Forgotten(id)'
  BY LedgerForgets
<1>2. Ledger!Balanced /\ Ledger!Forgotten(id) => id \notin TrackedIds(mgr) \cup Exposed
  BY DEF Ledger!Balanced, Ledger!Forgotten
<1>3. Ledger!Spec =>
        [](Ledger!Forgotten(id) => [](id \notin TrackedIds(mgr) \cup Exposed))
  BY <1>1, <1>2, LedgerBalances, PTL DEF Ledger!Spec
<1> QED BY <1>3, LedgerIsKept, PTL DEF KeepsLedger

(* An order is exposed once: when its exposure is over, filled, canceled,   *)
(* rejected or lost, no later write or answer exposes it again.             *)
THEOREM ExposedOnce ==
  ASSUME NEW id
  PROVE  Spec => [](Ledger!Spent(id) => [](id \notin Exposed))
<1>1. Ledger!Balanced /\ Ledger!Spent(id) /\ [Ledger!Next]_(Ledger!vars) => Ledger!Spent(id)'
  BY LedgerSpends
<1>2. Ledger!Balanced /\ Ledger!Spent(id) => id \notin Exposed
  BY DEF Ledger!Balanced, Ledger!Spent
<1>3. Ledger!Spec => [](Ledger!Spent(id) => [](id \notin Exposed))
  BY <1>1, <1>2, LedgerBalances, PTL DEF Ledger!Spec
<1> QED BY <1>3, LedgerIsKept, PTL DEF KeepsLedger
=============================================================================
