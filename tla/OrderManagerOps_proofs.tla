---------------------- MODULE OrderManagerOps_proofs ----------------------
(***************************************************************************)
(* What the operators on an order manager do to it, for every              *)
(* configuration: the invariant each keeps, and the changes each may make. *)
(* The proofs of the manager on its own and of the trading loop cite these *)
(* lemmas.                                                                 *)
(***************************************************************************)
EXTENDS OrderManagerOps, TLAPS

Stopped(m) == m.shutdown \/ m.pauses # {}

(* What is inductive: besides the invariants proved, generations only       *)
(* relate to one another when every tracked one lies between the retired    *)
(* and the present one, strictly below while quoting is stopped.            *)
IdsInv(m) ==
  /\ \A s \in Slots : Used(m, s) => m.slots[s].id < m.nextId
  /\ \A s, t \in Slots : Used(m, s) /\ m.slots[s].id = m.slots[t].id => s = t
GenInv(m) ==
  /\ m.retired <= m.gen
  /\ \A s \in Slots : Used(m, s) =>
       /\ m.retired <= m.slots[s].gen
       /\ m.slots[s].gen <= m.gen
       /\ Stopped(m) => m.slots[s].gen < m.gen
GateInv(m) == m.owed > 0 => "RiskData" \in m.pauses
ManagerInv(m) == m \in Manager /\ m.nextId > 0 /\ IdsInv(m) /\ GenInv(m) /\ GateInv(m)

(* A step of the manager that places nothing: slots are kept or freed, the  *)
(* generation does not fall, and it grows with the first reason to stop.    *)
Keeps(m, n) ==
  /\ n \in Manager
  /\ n.nextId = m.nextId /\ n.retired = m.retired /\ n.gen >= m.gen
  /\ Stopped(n) => Stopped(m) \/ n.gen > m.gen
  /\ \A s \in Slots : Used(n, s) =>
       n.slots[s].id = m.slots[s].id /\ n.slots[s].gen = m.slots[s].gen

LEMMA ManagerTypes ==
  ASSUME NEW m \in Manager
  PROVE  /\ m.slots \in [Slots -> Order]
         /\ \A s \in Slots : m.slots[s] \in Order
         /\ m.pauses \in SUBSET Reasons /\ m.shutdown \in BOOLEAN
         /\ m.gen \in Nat /\ m.retired \in Nat /\ m.nextId \in Nat /\ m.rejections \in Nat
         /\ m.breakerArmed \in BOOLEAN /\ m.safetyArmed \in BOOLEAN
         /\ m.owed \in 0..2 /\ m.hasBaseline \in BOOLEAN /\ m.baseline \in Int
  BY DEF Manager

LEMMA OrderTypes ==
  ASSUME NEW o \in Order
  PROVE  /\ o.id \in Nat /\ o.gen \in Nat /\ o.oid \in Int
         /\ o.price \in Nat /\ o.qty \in Nat /\ o.fails \in Nat
         /\ o.state \in {"Free", "Pending", "Live", "Canceling"}
  BY DEF Order

LEMMA FreeSlotType == FreeSlot \in Order /\ FreeSlot.id = 0
  BY DEF FreeSlot, Order

(* Keeping steps preserve the invariant as long as the fill gate holds.     *)
LEMMA KeepsInv ==
  ASSUME NEW m, NEW n, ManagerInv(m), Keeps(m, n), GateInv(n)
  PROVE  ManagerInv(n)
<1>1. /\ m \in Manager /\ n \in Manager
      /\ \A s \in Slots : m.slots[s] \in Order /\ n.slots[s] \in Order
      /\ m.gen \in Nat /\ n.gen \in Nat /\ m.retired \in Nat /\ m.nextId \in Nat
  BY ManagerTypes DEF ManagerInv, Keeps
<1>2. \A s \in Slots : /\ m.slots[s].id \in Nat /\ n.slots[s].id \in Nat
                       /\ m.slots[s].gen \in Nat
  BY <1>1, OrderTypes
<1>3. IdsInv(n)
  BY <1>2 DEF ManagerInv, Keeps, IdsInv, Used
<1>4. GenInv(n)
  BY <1>1, <1>2 DEF ManagerInv, Keeps, GenInv, Used
<1> QED
  BY <1>1, <1>3, <1>4 DEF ManagerInv, Keeps

----------------------------------------------------------------------------
(* One lemma for each operator on the manager                               *)

LEMMA SetPauseInv ==
  ASSUME NEW m, ManagerInv(m), NEW r \in Reasons
  PROVE  /\ ManagerInv(SetPause(m, r))
         /\ SetPause(m, r).pauses = m.pauses \cup {r}
         /\ SetPause(m, r).shutdown = m.shutdown
         /\ SetPause(m, r).slots = m.slots
<1>1. m \in Manager BY DEF ManagerInv
<1> DEFINE n == SetPause(m, r)
<1>2. /\ n \in Manager /\ n.slots = m.slots /\ n.nextId = m.nextId /\ n.retired = m.retired
      /\ n.pauses = m.pauses \cup {r} /\ n.shutdown = m.shutdown /\ n.owed = m.owed
      /\ n.gen = IF r \in m.pauses THEN m.gen ELSE m.gen + 1
  <2>1. CASE r \in m.pauses BY <1>1, <2>1 DEF SetPause
  <2>2. CASE r \notin m.pauses
    <3>1. n = [m EXCEPT !.pauses = @ \cup {r}, !.gen = @ + 1]
      BY <2>2 DEF SetPause
    <3>2. m.gen + 1 \in Nat /\ m.pauses \cup {r} \in SUBSET Reasons
      BY <1>1, ManagerTypes
    <3>3. n \in Manager
      BY <1>1, <3>1, <3>2 DEF Manager
    <3> QED
      BY <1>1, <2>2, <3>1, <3>3 DEF Manager
  <2> QED BY <2>1, <2>2
<1>3. Keeps(m, n)
  BY <1>1, <1>2, ManagerTypes DEF Keeps, Stopped, Used
<1>4. GateInv(n)
  BY <1>2 DEF GateInv, ManagerInv
<1> QED
  BY <1>2, <1>3, <1>4, KeepsInv

LEMMA ClearPauseInv ==
  ASSUME NEW m, ManagerInv(m), NEW r \in Reasons, r # "RiskData" \/ m.owed = 0
  PROVE  ManagerInv(ClearPause(m, r))
<1> DEFINE n == ClearPause(m, r)
<1>1. m \in Manager BY DEF ManagerInv
<1>2. /\ n \in Manager /\ n.slots = m.slots /\ n.nextId = m.nextId /\ n.retired = m.retired
      /\ n.pauses = m.pauses \ {r} /\ n.shutdown = m.shutdown /\ n.owed = m.owed
      /\ n.gen = m.gen
  BY <1>1 DEF ClearPause, Manager
<1>3. Keeps(m, n)
  BY <1>1, <1>2, ManagerTypes DEF Keeps, Stopped, Used
<1>4. GateInv(n)
  BY <1>1, <1>2, ManagerTypes DEF GateInv, ManagerInv
<1> QED
  BY <1>3, <1>4, KeepsInv

(* Replacing slots by ones that keep or free their order.                   *)
LEMMA SlotsInv ==
  ASSUME NEW m, ManagerInv(m), NEW f \in [Slots -> Order],
         \A s \in Slots : f[s].id # 0 =>
            f[s].id = m.slots[s].id /\ f[s].gen = m.slots[s].gen
  PROVE  /\ ManagerInv([m EXCEPT !.slots = f])
         /\ [m EXCEPT !.slots = f].pauses = m.pauses
         /\ [m EXCEPT !.slots = f].shutdown = m.shutdown
<1> DEFINE n == [m EXCEPT !.slots = f]
<1>1. m \in Manager BY DEF ManagerInv
<1>2. /\ n \in Manager /\ n.slots = f /\ n.nextId = m.nextId /\ n.retired = m.retired
      /\ n.pauses = m.pauses /\ n.shutdown = m.shutdown /\ n.owed = m.owed /\ n.gen = m.gen
  BY <1>1 DEF Manager
<1>3. Keeps(m, n)
  BY <1>1, <1>2, ManagerTypes DEF Keeps, Stopped, Used
<1>4. GateInv(n)
  BY <1>2 DEF GateInv, ManagerInv
<1> QED
  BY <1>2, <1>3, <1>4, KeepsInv

(* Changing what the invariant does not speak of.                           *)
LEMMA CountersInv ==
  ASSUME NEW m, ManagerInv(m), NEW n \in Manager,
         n.slots = m.slots, n.nextId = m.nextId, n.retired = m.retired,
         n.pauses = m.pauses, n.shutdown = m.shutdown, n.gen = m.gen,
         n.owed = m.owed \/ n.owed = 0 \/ "RiskData" \in m.pauses
  PROVE  ManagerInv(n)
<1>1. m \in Manager BY DEF ManagerInv
<1>2. Keeps(m, n)
  BY <1>1, ManagerTypes DEF Keeps, Stopped, Used
<1>3. GateInv(n)
  BY DEF GateInv, ManagerInv
<1> QED
  BY <1>2, <1>3, KeepsInv

LEMMA RequireRefreshInv ==
  ASSUME NEW m, ManagerInv(m)
  PROVE  ManagerInv(RequireRefresh(m)) /\ RequireRefresh(m).slots = m.slots
<1>1. m \in Manager BY DEF ManagerInv
<1> DEFINE n == RequireRefresh(m)
           o == [m EXCEPT !.owed = 2]
<1>2. /\ o \in Manager /\ o.slots = m.slots /\ o.nextId = m.nextId /\ o.retired = m.retired
      /\ o.pauses = m.pauses /\ o.shutdown = m.shutdown /\ o.owed = 2 /\ o.gen = m.gen
  BY <1>1 DEF Manager
<1>3. n = IF "RiskData" \in m.pauses THEN o
          ELSE [o EXCEPT !.pauses = @ \cup {"RiskData"}, !.gen = @ + 1]
  BY <1>2 DEF RequireRefresh, SetPause
<1>4. o.gen + 1 \in Nat /\ o.pauses \cup {"RiskData"} \in SUBSET Reasons
  BY <1>1, <1>2, ManagerTypes DEF Reasons
<1>5. n \in Manager
  <2>1. o \in Manager BY <1>2
  <2>2. PICK g, q : g = o.gen + 1 /\ q = o.pauses \cup {"RiskData"} OBVIOUS
  <2>3. n = o \/ n = [o EXCEPT !.pauses = q, !.gen = g] BY <1>3, <2>2, Zenon
  <2>4. g \in Nat /\ q \in SUBSET Reasons BY <1>4, <2>2
  <2> QED BY <2>1, <2>3, <2>4 DEF Manager
<1>6. /\ n.slots = m.slots /\ n.nextId = m.nextId /\ n.retired = m.retired
      /\ n.pauses = m.pauses \cup {"RiskData"} /\ n.shutdown = m.shutdown /\ n.owed = 2
      /\ n.gen = IF "RiskData" \in m.pauses THEN m.gen ELSE m.gen + 1
  BY <1>2, <1>3, <1>5 DEF Manager
<1>7. Keeps(m, n)
  BY <1>1, <1>5, <1>6, ManagerTypes DEF Keeps, Stopped, Used
<1>8. GateInv(n)
  BY <1>6 DEF GateInv
<1> QED
  BY <1>6, <1>7, <1>8, KeepsInv

LEMMA PublishInv ==
  ASSUME NEW m, ManagerInv(m)
  PROVE  ManagerInv(Publish(m))
<1> DEFINE n == Publish(m)
<1>1. m \in Manager BY DEF ManagerInv
<1>2. m.owed \in 0..2 BY <1>1, ManagerTypes
<1>3. (IF m.owed = 0 THEN 0 ELSE m.owed - 1) \in 0..2 BY <1>2
<1>4. n \in Manager BY <1>1, <1>3 DEF Publish, Manager
<1>5. /\ n.slots = m.slots /\ n.nextId = m.nextId /\ n.retired = m.retired
      /\ n.pauses = m.pauses /\ n.shutdown = m.shutdown /\ n.gen = m.gen
      /\ n.owed = IF m.owed = 0 THEN 0 ELSE m.owed - 1
  BY <1>1 DEF Publish, Manager
<1>6. n.owed = 0 \/ "RiskData" \in m.pauses
  BY <1>2, <1>5 DEF ManagerInv, GateInv
<1> QED
  BY <1>4, <1>5, <1>6, CountersInv

LEMMA InitializeBaselineInv ==
  ASSUME NEW m, ManagerInv(m), NEW p \in Int
  PROVE  ManagerInv(InitializeBaseline(m, p)) /\ InitializeBaseline(m, p).owed = m.owed
<1> DEFINE n == InitializeBaseline(m, p)
<1>1. m \in Manager BY DEF ManagerInv
<1>2. n \in Manager BY <1>1 DEF InitializeBaseline, Manager
<1>3. /\ n.slots = m.slots /\ n.nextId = m.nextId /\ n.retired = m.retired
      /\ n.pauses = m.pauses /\ n.shutdown = m.shutdown /\ n.gen = m.gen /\ n.owed = m.owed
  BY <1>1 DEF InitializeBaseline, Manager
<1> QED
  BY <1>2, <1>3, CountersInv

LEMMA TriggerSafetyInv ==
  ASSUME NEW m, ManagerInv(m)
  PROVE  ManagerInv(TriggerSafety(m))
<1> DEFINE k == SetPause(m, "Safety")
           n == TriggerSafety(m)
<1>1. ManagerInv(k) BY SetPauseInv DEF Reasons
<1>2. k \in Manager BY <1>1 DEF ManagerInv
<1>3. n = [k EXCEPT !.safetyArmed = TRUE] BY DEF TriggerSafety
<1>4. /\ n \in Manager /\ n.slots = k.slots /\ n.nextId = k.nextId /\ n.retired = k.retired
      /\ n.pauses = k.pauses /\ n.shutdown = k.shutdown /\ n.gen = k.gen /\ n.owed = k.owed
  BY <1>2, <1>3 DEF Manager
<1> QED
  BY <1>1, <1>4, CountersInv

LEMMA SpendCooldownsInv ==
  ASSUME NEW m, ManagerInv(m), NEW sc \in BOOLEAN, NEW bc \in BOOLEAN
  PROVE  ManagerInv(SpendCooldowns(m, sc, bc))
<1> DEFINE n == SpendCooldowns(m, sc, bc)
           sa == m.safetyArmed /\ ~SafetyDue(m, sc)
           ba == m.breakerArmed /\ ~BreakerDue(m, bc)
<1>1. m \in Manager BY DEF ManagerInv
<1>2. sa \in BOOLEAN /\ ba \in BOOLEAN OBVIOUS
<1>3. n = [m EXCEPT !.safetyArmed = sa, !.breakerArmed = ba]
  BY DEF SpendCooldowns
<1>4. n \in Manager
  <2> HIDE DEF sa, ba
  <2> QED BY <1>1, <1>2, <1>3 DEF Manager
<1>5. /\ n.slots = m.slots /\ n.nextId = m.nextId /\ n.retired = m.retired
      /\ n.pauses = m.pauses /\ n.shutdown = m.shutdown /\ n.gen = m.gen /\ n.owed = m.owed
  <2> HIDE DEF sa, ba
  <2> QED BY <1>1, <1>3 DEF Manager
<1> QED
  BY <1>4, <1>5, CountersInv

LEMMA EnterReconciliationInv ==
  ASSUME NEW m, ManagerInv(m)
  PROVE  ManagerInv(EnterReconciliation(m))
BY RequireRefreshInv, SetPauseInv DEF EnterReconciliation, BeginReconciliation, Reasons

LEMMA LeaveReconciliationInv ==
  ASSUME NEW m, ManagerInv(m)
  PROVE  ManagerInv(LeaveReconciliation(m))
<1> DEFINE k == RequireRefresh(m)
           n == LeaveReconciliation(m)
           f == [s \in Slots |-> FreeSlot]
<1>1. ManagerInv(k) BY RequireRefreshInv
<1>2. k \in Manager BY <1>1 DEF ManagerInv
<1>3. f \in [Slots -> Order] /\ \A s \in Slots : f[s].id = 0
  BY FreeSlotType
<1>4. /\ n.slots = f /\ n.retired = k.gen /\ n.gen = k.gen /\ n.nextId = k.nextId
      /\ n.pauses = k.pauses \ {"Safety", "CircuitBreaker", "Reconciliation"}
      /\ n.owed = k.owed
  BY <1>2 DEF LeaveReconciliation, FinishReconciliation, Manager
<1>5. n \in Manager
  <2> HIDE DEF k
  <2>1. n = [k EXCEPT !.retired = k.gen, !.slots = f,
                      !.safetyArmed = FALSE, !.breakerArmed = FALSE, !.rejections = 0,
                      !.pauses = @ \ {"Safety", "CircuitBreaker", "Reconciliation"}]
    BY DEF LeaveReconciliation, FinishReconciliation, k
  <2> HIDE DEF f, n
  <2> QED BY <1>2, <1>3, <2>1 DEF Manager
<1>6. IdsInv(n) BY <1>3, <1>4 DEF IdsInv, Used
<1>7. GenInv(n) BY <1>2, <1>3, <1>4, ManagerTypes DEF GenInv, Used
<1>8. GateInv(n) BY <1>1, <1>4 DEF GateInv, ManagerInv
<1>9. n.nextId > 0 BY <1>1, <1>4 DEF ManagerInv
<1> QED
  BY <1>5, <1>6, <1>7, <1>8, <1>9 DEF ManagerInv

LEMMA ShutdownInv ==
  ASSUME NEW m, ManagerInv(m)
  PROVE  ManagerInv(ShutdownManager(m))
<1> DEFINE n == ShutdownManager(m)
<1>1. m \in Manager BY DEF ManagerInv
<1>2. m.gen \in Nat /\ m.gen + 1 \in Nat BY <1>1, ManagerTypes
<1>3. /\ n \in Manager /\ n.slots = m.slots /\ n.nextId = m.nextId /\ n.retired = m.retired
      /\ n.pauses = m.pauses /\ n.owed = m.owed /\ n.gen = m.gen + 1
  BY <1>1, <1>2 DEF ShutdownManager, Manager
<1>4. Keeps(m, n) /\ GateInv(n)
  BY <1>1, <1>2, <1>3, ManagerTypes DEF Keeps, Stopped, Used, GateInv, ManagerInv
<1> QED
  BY <1>4, KeepsInv

----------------------------------------------------------------------------
(* Order events                                                             *)

LEMMA FreeIdInv ==
  ASSUME NEW m, ManagerInv(m), NEW id
  PROVE  ManagerInv(FreeId(m, id))
<1> DEFINE f == [s \in Slots |-> IF m.slots[s].id = id THEN FreeSlot ELSE m.slots[s]]
<1>1. m \in Manager BY DEF ManagerInv
<1>2. f \in [Slots -> Order] BY <1>1, ManagerTypes, FreeSlotType
<1>3. \A s \in Slots : f[s].id # 0 =>
         f[s].id = m.slots[s].id /\ f[s].gen = m.slots[s].gen
  BY FreeSlotType
<1>4. FreeId(m, id) = [m EXCEPT !.slots = f] BY DEF FreeId
<1> HIDE DEF f
<1> QED
  BY <1>2, <1>3, <1>4, SlotsInv

LEMMA OnCanceledInv ==
  ASSUME NEW m, ManagerInv(m), NEW id, NEW oid
  PROVE  ManagerInv(OnCanceled(m, id, oid))
<1> DEFINE f == [s \in Slots |-> IF oid # 0 /\ m.slots[s].oid = oid
                                 THEN FreeSlot ELSE m.slots[s]]
<1>1. m \in Manager BY DEF ManagerInv
<1>2. f \in [Slots -> Order] BY <1>1, ManagerTypes, FreeSlotType
<1>3. \A s \in Slots : f[s].id # 0 =>
         f[s].id = m.slots[s].id /\ f[s].gen = m.slots[s].gen
  BY FreeSlotType
<1>4. OnCanceledByOid(m, oid) = [m EXCEPT !.slots = f] BY DEF OnCanceledByOid
<1>5. ManagerInv(OnCanceledByOid(m, oid))
  <2> HIDE DEF f
  <2> QED BY <1>2, <1>3, <1>4, SlotsInv
<1> QED
  BY <1>5, FreeIdInv DEF OnCanceled, OnCanceledById

LEMMA OnAcceptedInv ==
  ASSUME NEW m, ManagerInv(m), NEW id, NEW oid \in Int
  PROVE  ManagerInv(OnAccepted(m, id, oid))
<1> DEFINE f == [s \in Slots |->
                   IF m.slots[s].id # id THEN m.slots[s]
                   ELSE [m.slots[s] EXCEPT
                          !.oid = IF oid = 0 THEN @ ELSE oid,
                          !.state = IF @ = "Pending" THEN "Live" ELSE @]]
           k == [m EXCEPT !.rejections = 0]
<1>1. m \in Manager BY DEF ManagerInv
<1>2. \A s \in Slots : f[s] \in Order /\ f[s].id = m.slots[s].id /\ f[s].gen = m.slots[s].gen
  <2> SUFFICES ASSUME NEW s \in Slots
               PROVE f[s] \in Order /\ f[s].id = m.slots[s].id /\ f[s].gen = m.slots[s].gen
    OBVIOUS
  <2>1. m.slots[s] \in Order BY <1>1, ManagerTypes
  <2> QED BY <2>1 DEF Order
<1>3. f \in [Slots -> Order] BY <1>2
<1>4. /\ k \in Manager /\ k.slots = m.slots /\ k.nextId = m.nextId /\ k.retired = m.retired
      /\ k.pauses = m.pauses /\ k.shutdown = m.shutdown /\ k.gen = m.gen /\ k.owed = m.owed
  BY <1>1 DEF Manager
<1>5. ManagerInv(k) BY <1>4, CountersInv
<1>6. CASE ~CanBind(m, id, oid) BY <1>6 DEF OnAccepted
<1>7. CASE CanBind(m, id, oid)
  <2>1. OnAccepted(m, id, oid) = [k EXCEPT !.slots = f]
    BY <1>1, <1>7 DEF OnAccepted, Manager
  <2> HIDE DEF f, k
  <2> QED BY <1>2, <1>3, <1>4, <1>5, <2>1, SlotsInv
<1> QED BY <1>6, <1>7

LEMMA OnRejectedInv ==
  ASSUME NEW m, ManagerInv(m), NEW id
  PROVE  ManagerInv(OnRejected(m, id))
<1> DEFINE k == FreeId(m, id)
           n == [k EXCEPT !.rejections = @ + 1]
           p == SetPause(n, "CircuitBreaker")
           a == [p EXCEPT !.breakerArmed = TRUE]
<1>1. ManagerInv(k) BY FreeIdInv
<1>2. k \in Manager /\ k.rejections + 1 \in Nat BY <1>1, ManagerTypes DEF ManagerInv
<1>3. /\ n \in Manager /\ n.slots = k.slots /\ n.nextId = k.nextId /\ n.retired = k.retired
      /\ n.pauses = k.pauses /\ n.shutdown = k.shutdown /\ n.gen = k.gen /\ n.owed = k.owed
  <2> HIDE DEF k
  <2> QED BY <1>2 DEF Manager
<1>4. ManagerInv(n)
  <2> HIDE DEF k, n
  <2> QED BY <1>1, <1>3, CountersInv
<1>5. ManagerInv(p) /\ p \in Manager
  <2> HIDE DEF k, n
  <2> QED BY <1>4, SetPauseInv DEF Reasons, ManagerInv
<1>6. /\ a \in Manager /\ a.slots = p.slots /\ a.nextId = p.nextId /\ a.retired = p.retired
      /\ a.pauses = p.pauses /\ a.shutdown = p.shutdown /\ a.gen = p.gen /\ a.owed = p.owed
  <2> HIDE DEF k, n, p
  <2> QED BY <1>5 DEF Manager
<1>7. ManagerInv(a)
  <2> HIDE DEF k, n, p, a
  <2> QED BY <1>5, <1>6, CountersInv
<1>8. OnRejected(m, id) \in {n, a} BY DEF OnRejected, TripBreaker
<1> HIDE DEF k, n, p, a
<1> QED
  BY <1>4, <1>7, <1>8

LEMMA OnFillInv ==
  ASSUME NEW m, ManagerInv(m), NEW id, NEW oid, NEW full \in BOOLEAN
  PROVE  ManagerInv(OnFill(m, id, oid, full))
<1> DEFINE hit == FillMatches(m, id, oid)
           first == CHOOSE s \in hit : \A t \in hit : ScanIndex(s) <= ScanIndex(t)
           k == RequireRefresh(m)
           f == [k.slots EXCEPT ![first] = FreeSlot]
<1>1. ManagerInv(k) BY RequireRefreshInv
<1>2. k \in Manager /\ k.slots \in [Slots -> Order] BY <1>1, ManagerTypes DEF ManagerInv
<1>3. f \in [Slots -> Order] BY <1>2, FreeSlotType
<1>4. \A s \in Slots : f[s].id # 0 =>
         f[s].id = k.slots[s].id /\ f[s].gen = k.slots[s].gen
  <2> HIDE DEF first, k
  <2> QED BY <1>2, FreeSlotType
<1>5. [k EXCEPT !.slots[first] = FreeSlot] = [k EXCEPT !.slots = f]
  <2> HIDE DEF first, k
  <2> QED BY <1>2 DEF Manager
<1>6. ManagerInv([k EXCEPT !.slots = f])
  <2> HIDE DEF f, k
  <2> QED BY <1>1, <1>3, <1>4, SlotsInv
<1>7. OnFill(m, id, oid, full) \in {m, k, [k EXCEPT !.slots[first] = FreeSlot]}
  BY DEF OnFill
<1> HIDE DEF f, k, first
<1> QED BY <1>1, <1>5, <1>6, <1>7

LEMMA OnCancelFailedInv ==
  ASSUME NEW m, ManagerInv(m), NEW oid
  PROVE  ManagerInv(OnCancelFailed(m, oid))
<1> DEFINE hit == CancelFailures(m, oid)
           f == [s \in Slots |->
              IF s \notin hit THEN m.slots[s]
              ELSE [m.slots[s] EXCEPT
                     !.fails = @ + 1,
                     !.state = IF m.slots[s].fails + 1 >= MaxCancelFailures
                               THEN "Canceling" ELSE "Live"]]
           n == [m EXCEPT !.slots = f]
<1>1. m \in Manager BY DEF ManagerInv
<1>2. \A s \in Slots : f[s] \in Order /\ f[s].id = m.slots[s].id /\ f[s].gen = m.slots[s].gen
  <2> SUFFICES ASSUME NEW s \in Slots
               PROVE f[s] \in Order /\ f[s].id = m.slots[s].id /\ f[s].gen = m.slots[s].gen
    OBVIOUS
  <2>1. m.slots[s] \in Order /\ m.slots[s].fails + 1 \in Nat
    BY <1>1, ManagerTypes, OrderTypes
  <2> HIDE DEF hit
  <2> QED BY <2>1 DEF Order
<1>3. f \in [Slots -> Order] BY <1>2
<1>4. ManagerInv(n)
  <2> HIDE DEF f
  <2> QED BY <1>2, <1>3, SlotsInv
<1>5. OnCancelFailed(m, oid) \in {n, SetPause(SetPause(n, "Safety"), "Reconciliation")}
  BY DEF OnCancelFailed
<1> HIDE DEF n
<1> QED BY <1>4, <1>5, SetPauseInv DEF Reasons

LEMMA OnDispatchFailedInv ==
  ASSUME NEW m, ManagerInv(m), NEW refused
  PROVE  ManagerInv(OnDispatchFailed(m, refused))
<1> DEFINE Named(s, k) == Used(m, s) /\ [kind |-> k, id |-> m.slots[s].id] \in refused
           f == [s \in Slots |->
                  IF Named(s, "Send") THEN FreeSlot
                  ELSE IF Named(s, "Cancel") \/ Named(s, "Replace")
                  THEN [m.slots[s] EXCEPT !.state = "Live"]
                  ELSE m.slots[s]]
<1>1. m \in Manager BY DEF ManagerInv
<1>2. \A s \in Slots : /\ f[s] \in Order
                       /\ f[s].id # 0 => f[s].id = m.slots[s].id /\ f[s].gen = m.slots[s].gen
  <2> SUFFICES ASSUME NEW s \in Slots
               PROVE  /\ f[s] \in Order
                      /\ f[s].id # 0 => f[s].id = m.slots[s].id /\ f[s].gen = m.slots[s].gen
    OBVIOUS
  <2>1. m.slots[s] \in Order BY <1>1, ManagerTypes
  <2>2. [m.slots[s] EXCEPT !.state = "Live"] \in Order
        /\ [m.slots[s] EXCEPT !.state = "Live"].id = m.slots[s].id
        /\ [m.slots[s] EXCEPT !.state = "Live"].gen = m.slots[s].gen
    BY <2>1 DEF Order
  <2> HIDE DEF Named
  <2> QED BY <2>1, <2>2, FreeSlotType
<1>3. f \in [Slots -> Order] BY <1>2
<1>4. OnDispatchFailed(m, refused) = [m EXCEPT !.slots = f] BY DEF OnDispatchFailed
<1> HIDE DEF f
<1> QED BY <1>2, <1>3, <1>4, SlotsInv

LEMMA OnTimeoutsInv ==
  ASSUME NEW m, ManagerInv(m), NEW overdue
  PROVE  ManagerInv(OnTimeouts(m, overdue))
BY SetPauseInv DEF OnTimeouts, BeginReconciliation, Reasons

----------------------------------------------------------------------------
(* Quotes                                                                   *)

LEMMA ToCancelingInv ==
  ASSUME NEW m, ManagerInv(m), NEW s \in Slots
  PROVE  /\ ManagerInv(ToCanceling(m, s))
         /\ ToCanceling(m, s).pauses = m.pauses
         /\ ToCanceling(m, s).shutdown = m.shutdown
<1> DEFINE f == [m.slots EXCEPT ![s].state = "Canceling"]
<1>1. m \in Manager /\ m.slots \in [Slots -> Order] /\ m.slots[s] \in Order
  BY ManagerTypes DEF ManagerInv
<1>2. /\ [m.slots[s] EXCEPT !.state = "Canceling"] \in Order
      /\ [m.slots[s] EXCEPT !.state = "Canceling"].id = m.slots[s].id
      /\ [m.slots[s] EXCEPT !.state = "Canceling"].gen = m.slots[s].gen
  BY <1>1 DEF Order
<1>3. f = [m.slots EXCEPT ![s] = [m.slots[s] EXCEPT !.state = "Canceling"]]
  BY <1>1
<1>4. f \in [Slots -> Order] BY <1>1, <1>2, <1>3
<1>5. \A t \in Slots : f[t].id = m.slots[t].id /\ f[t].gen = m.slots[t].gen
  BY <1>1, <1>2, <1>3
<1>6. ToCanceling(m, s) = [m EXCEPT !.slots = f]
  BY <1>1 DEF ToCanceling, Manager
<1> HIDE DEF f
<1> QED BY <1>4, <1>5, <1>6, SlotsInv

(* A new order gets the next id and the present generation.                 *)
LEMMA PlacePendingInv ==
  ASSUME NEW r, ManagerInv(r.m), ~Stopped(r.m), NEW s \in Slots,
         NEW price \in Nat, NEW qty \in Nat
  PROVE  /\ ManagerInv(PlacePending(r, s, price, qty).m)
         /\ ~Stopped(PlacePending(r, s, price, qty).m)
<1> DEFINE m == r.m
           o == [id |-> m.nextId, gen |-> m.gen, oid |-> 0, price |-> price, qty |-> qty,
                 state |-> "Pending", fails |-> 0]
           f == [m.slots EXCEPT ![s] = o]
           n == PlacePending(r, s, price, qty).m
<1>1. m \in Manager BY DEF ManagerInv
<1>2. /\ m.nextId \in Nat /\ m.nextId + 1 \in Nat /\ m.gen \in Nat /\ m.retired \in Nat
      /\ m.slots \in [Slots -> Order]
      /\ \A t \in Slots : m.slots[t] \in Order /\ m.slots[t].id \in Nat /\ m.slots[t].gen \in Nat
  BY <1>1, ManagerTypes, OrderTypes
<1>3. o \in Order BY <1>2 DEF Order
<1>4. f \in [Slots -> Order] BY <1>2, <1>3
<1>5. n = [m EXCEPT !.nextId = @ + 1, !.slots = f]
  BY <1>1 DEF PlacePending, Manager
<1>6. /\ n.slots = f /\ n.nextId = m.nextId + 1 /\ n.retired = m.retired /\ n.gen = m.gen
      /\ n.pauses = m.pauses /\ n.shutdown = m.shutdown /\ n.owed = m.owed
  <2> HIDE DEF m, f, n
  <2> QED BY <1>1, <1>5 DEF Manager
<1>7. n \in Manager
  <2> HIDE DEF m, f, n
  <2> QED BY <1>1, <1>2, <1>4, <1>5 DEF Manager
<1>8. \A t \in Slots : /\ t = s => f[t].id = m.nextId /\ f[t].gen = m.gen
                       /\ t # s => f[t] = m.slots[t]
  <2> HIDE DEF m
  <2> QED BY <1>2
<1>9. IdsInv(m) /\ GenInv(m) /\ GateInv(m) /\ m.nextId > 0 /\ ~Stopped(m)
  BY DEF ManagerInv
<1> HIDE DEF m, o, f, n
<1>10. IdsInv(n)
  BY <1>2, <1>6, <1>8, <1>9 DEF IdsInv, Used
<1>11. ~Stopped(n) BY <1>6, <1>9 DEF Stopped
<1>12. GenInv(n)
  BY <1>2, <1>6, <1>8, <1>9, <1>11 DEF GenInv, Used
<1>13. GateInv(n) BY <1>6, <1>9 DEF GateInv
<1>14. n.nextId > 0 BY <1>2, <1>6
<1>15. ManagerInv(n) BY <1>7, <1>10, <1>12, <1>13, <1>14 DEF ManagerInv
<1> QED BY <1>11, <1>15 DEF n

LEMMA SizeOrderType ==
  ASSUME NEW q \in Quote, NEW budget \in Nat, NEW price \in Nat \ {0}
  PROVE  SizeOrder(q, budget, price) \in Nat
<1>1. q.qty \in Nat /\ q.mid \in Nat \ {0} BY DEF Quote
<1>2. MaxOf(price, q.mid) \in Nat \ {0} BY <1>1 DEF MaxOf
<1>3. budget \div MaxOf(price, q.mid) \in Nat BY <1>2
<1>4. MaxOrderDollar \div price \in Nat BY ConfigAssumption
<1>5. MinOf(q.qty, budget \div MaxOf(price, q.mid)) \in Nat BY <1>1, <1>3 DEF MinOf
<1> QED BY <1>4, <1>5 DEF SizeOrder, MinOf

LEMMA BudgetType ==
  ASSUME NEW m \in Manager, NEW pos \in Int, NEW lim \in Int, NEW md \in Nat,
         NEW s \in Slots
  PROVE  Budget(m, pos, lim, md, s) \in Nat
<1>1. OtherLevel(s) \in Slots BY DEF OtherLevel, Slots, Sides, Levels
<1>2. Mark(m.slots[OtherLevel(s)], md) \in Int
  <2>1. m.slots[OtherLevel(s)] \in Order BY <1>1, ManagerTypes
  <2>2. /\ m.slots[OtherLevel(s)].qty \in Nat /\ m.slots[OtherLevel(s)].price \in Nat
    BY <2>1, OrderTypes
  <2> QED BY <2>2 DEF Mark, MaxOf
<1>3. SignOf(s[1]) \in Int BY DEF SignOf
<1>4. Headroom(m, pos, lim, md, s[1]) \in Int
  <2>1. m.baseline \in Int BY ManagerTypes
  <2>2. lim - SignOf(s[1]) * pos * md \in Int BY <1>3
  <2>3. \A b \in Int : AbsMaxDollar - SignOf(s[1]) * (pos - b) * md \in Int
    BY <1>3, ConfigAssumption
  <2> QED BY <2>1, <2>2, <2>3 DEF Headroom, MinOf
<1> QED BY <1>2, <1>4 DEF Budget, MaxOf

LEMMA CancelSlotInv ==
  ASSUME NEW r, ManagerInv(r.m), NEW s \in Slots, NEW kind
  PROVE  /\ ManagerInv(CancelSlot(r, s, kind).m)
         /\ Stopped(CancelSlot(r, s, kind).m) <=> Stopped(r.m)
<1>1. CancelSlot(r, s, kind).m = ToCanceling(r.m, s) BY DEF CancelSlot
<1> QED BY <1>1, ToCancelingInv DEF Stopped

LEMMA QuoteSlotInv ==
  ASSUME NEW r, ManagerInv(r.m), ~Stopped(r.m), NEW q \in Quote,
         NEW pos \in Int, NEW lim \in Int, NEW s \in Slots, NEW old
  PROVE  /\ ManagerInv(QuoteSlot(r, q, pos, lim, s, old).m)
         /\ ~Stopped(QuoteSlot(r, q, pos, lim, s, old).m)
<1> DEFINE budget == Budget(r.m, pos, lim, q.mid, s)
           qty == SizeOrder(q, budget, q.price[s])
           tooOld == s \in old
           side == ProcessSideLevel(r, s, q.price[s], qty, tooOld)
<1>1. q.price[s] \in Nat \ {0} /\ q.mid \in Nat BY DEF Quote
<1>2. budget \in Nat BY <1>1, BudgetType DEF ManagerInv
<1>3. qty \in Nat
  <2> HIDE DEF budget
  <2> QED BY <1>1, <1>2, SizeOrderType
<1> HIDE DEF budget, qty, tooOld
<1>4. ManagerInv(side.m) /\ ~Stopped(side.m)
  BY <1>1, <1>3, PlacePendingInv, CancelSlotInv DEF ProcessSideLevel
<1>5. QuoteSlot(r, q, pos, lim, s, old) \in {r, CancelSlot(r, s, "Cancel"), side}
  BY DEF QuoteSlot, budget, qty, tooOld
<1> QED BY <1>4, <1>5, CancelSlotInv

LEMMA CancelIfOpenInv ==
  ASSUME NEW r, ManagerInv(r.m), NEW s \in Slots
  PROVE  ManagerInv(CancelIfOpen(r, s).m)
BY CancelSlotInv DEF CancelIfOpen

LEMMA OnQuoteInv ==
  ASSUME NEW m, ManagerInv(m), NEW q \in Quote, NEW pos \in Int, NEW lim \in Int, NEW old
  PROVE  ManagerInv(OnQuote(m, q, pos, lim, old).m)
<1> DEFINE r == [m |-> m, out |-> << >>]
           c == [r EXCEPT !.m = SetPause(m, "RiskData")]
           b == QuoteSide(r, q, pos, lim, "Buy", old)
<1>1. r.m = m /\ c.m = SetPause(m, "RiskData") OBVIOUS
<1>2. \A side \in Sides : <<side, 0>> \in Slots /\ <<side, 1>> \in Slots
  BY DEF Slots, Levels
<1>3. ManagerInv(c.m) BY <1>1, SetPauseInv DEF Reasons
<1>4. ManagerInv(CancelExposure(c).m)
  <2> HIDE DEF c
  <2> QED BY <1>2, <1>3, CancelIfOpenInv DEF CancelExposure, Sides
<1>5. ASSUME NEW x, ManagerInv(x.m), ~Stopped(x.m), NEW side \in Sides
      PROVE  /\ ManagerInv(QuoteSide(x, q, pos, lim, side, old).m)
             /\ ~Stopped(QuoteSide(x, q, pos, lim, side, old).m)
  BY <1>2, <1>5, QuoteSlotInv DEF QuoteSide
<1>6. ASSUME ~Stopped(m)
      PROVE  ManagerInv(QuoteSide(b, q, pos, lim, "Sell", old).m)
  <2>1. ManagerInv(b.m) /\ ~Stopped(b.m) BY <1>1, <1>5, <1>6 DEF Sides
  <2> HIDE DEF b
  <2> QED BY <1>5, <2>1 DEF Sides
<1>7. \/ OnQuote(m, q, pos, lim, old) \in {r, CancelExposure(c)}
      \/ ~Stopped(m) /\ OnQuote(m, q, pos, lim, old) = QuoteSide(b, q, pos, lim, "Sell", old)
  BY DEF OnQuote, Stopped
<1> HIDE DEF r, c, b
<1> QED BY <1>1, <1>4, <1>6, <1>7

----------------------------------------------------------------------------
(* What the operators change, field by field                                *)

(* The fields no pause reason, cooldown or position gate touches.           *)
SameOrders(m, n) ==
  /\ n \in Manager
  /\ n.slots = m.slots /\ n.nextId = m.nextId /\ n.retired = m.retired
  /\ n.shutdown = m.shutdown

(* The generation advances exactly with a reason that was not up yet.       *)
Raises(m, n, rs) ==
  /\ n.pauses = m.pauses \cup rs
  /\ n.gen >= m.gen
  /\ rs \subseteq m.pauses \/ n.gen > m.gen

LEMMA SetPauseEffect ==
  ASSUME NEW m \in Manager, NEW r \in Reasons
  PROVE  /\ SameOrders(m, SetPause(m, r)) /\ Raises(m, SetPause(m, r), {r})
         /\ SetPause(m, r).rejections = m.rejections /\ SetPause(m, r).owed = m.owed
         /\ SetPause(m, r).breakerArmed = m.breakerArmed
         /\ SetPause(m, r).safetyArmed = m.safetyArmed
<1> DEFINE n == SetPause(m, r)
<1>1. m.gen \in Nat /\ m.pauses \in SUBSET Reasons BY ManagerTypes
<1>2. CASE r \in m.pauses
  BY <1>1, <1>2 DEF SetPause, SameOrders, Raises
<1>3. CASE r \notin m.pauses
  <2>1. n = [m EXCEPT !.pauses = m.pauses \cup {r}, !.gen = m.gen + 1]
    BY <1>3 DEF SetPause
  <2>2. m.gen + 1 \in Nat /\ m.gen + 1 > m.gen /\ m.pauses \cup {r} \in SUBSET Reasons BY <1>1
  <2>3. n \in Manager BY <2>1, <2>2 DEF Manager
  <2>4. /\ n.pauses = m.pauses \cup {r} /\ n.gen = m.gen + 1 /\ n.slots = m.slots
        /\ n.nextId = m.nextId /\ n.retired = m.retired /\ n.shutdown = m.shutdown
        /\ n.rejections = m.rejections /\ n.owed = m.owed
        /\ n.breakerArmed = m.breakerArmed /\ n.safetyArmed = m.safetyArmed
    BY <2>1 DEF Manager
  <2> HIDE DEF n
  <2>5. SameOrders(m, n) /\ Raises(m, n, {r})
    BY <1>1, <2>2, <2>3, <2>4 DEF SameOrders, Raises
  <2> QED BY <2>4, <2>5 DEF n
<1> QED BY <1>2, <1>3

LEMMA ClearPauseEffect ==
  ASSUME NEW m \in Manager, NEW r
  PROVE  /\ SameOrders(m, ClearPause(m, r))
         /\ ClearPause(m, r).pauses = m.pauses \ {r} /\ ClearPause(m, r).gen = m.gen
         /\ ClearPause(m, r).rejections = m.rejections /\ ClearPause(m, r).owed = m.owed
         /\ ClearPause(m, r).breakerArmed = m.breakerArmed
         /\ ClearPause(m, r).safetyArmed = m.safetyArmed
         /\ ClearPause(m, r).hasBaseline = m.hasBaseline
         /\ ClearPause(m, r).baseline = m.baseline
  BY DEF ClearPause, SameOrders, Manager

LEMMA RequireRefreshEffect ==
  ASSUME NEW m \in Manager
  PROVE  /\ SameOrders(m, RequireRefresh(m)) /\ Raises(m, RequireRefresh(m), {"RiskData"})
         /\ RequireRefresh(m).rejections = m.rejections
         /\ RequireRefresh(m).breakerArmed = m.breakerArmed
         /\ RequireRefresh(m).safetyArmed = m.safetyArmed
<1> DEFINE o == [m EXCEPT !.owed = 2]
<1>1. /\ o \in Manager /\ o.pauses = m.pauses /\ o.gen = m.gen /\ SameOrders(m, o)
      /\ o.rejections = m.rejections /\ o.breakerArmed = m.breakerArmed
      /\ o.safetyArmed = m.safetyArmed
  BY DEF Manager, SameOrders
<1>2. RequireRefresh(m) = SetPause(o, "RiskData") BY DEF RequireRefresh
<1> HIDE DEF o
<1> QED BY <1>1, <1>2, SetPauseEffect DEF SameOrders, Raises, Reasons

LEMMA TriggerSafetyEffect ==
  ASSUME NEW m \in Manager
  PROVE  /\ SameOrders(m, TriggerSafety(m)) /\ Raises(m, TriggerSafety(m), {"Safety"})
         /\ TriggerSafety(m).safetyArmed
         /\ TriggerSafety(m).rejections = m.rejections
         /\ TriggerSafety(m).breakerArmed = m.breakerArmed
<1> DEFINE k == SetPause(m, "Safety")
           n == TriggerSafety(m)
<1>1. /\ k \in Manager /\ SameOrders(m, k) /\ Raises(m, k, {"Safety"})
      /\ k.rejections = m.rejections /\ k.breakerArmed = m.breakerArmed
  BY SetPauseEffect DEF SameOrders, Reasons
<1>2. n = [k EXCEPT !.safetyArmed = TRUE] BY DEF TriggerSafety
<1> HIDE DEF k
<1>3. n \in Manager BY <1>1, <1>2 DEF Manager
<1>4. /\ n.slots = k.slots /\ n.nextId = k.nextId /\ n.retired = k.retired
      /\ n.shutdown = k.shutdown /\ n.pauses = k.pauses /\ n.gen = k.gen
      /\ n.rejections = k.rejections /\ n.breakerArmed = k.breakerArmed /\ n.safetyArmed
  BY <1>1, <1>2 DEF Manager
<1> HIDE DEF n
<1>5. SameOrders(m, n) /\ Raises(m, n, {"Safety"})
  BY <1>1, <1>3, <1>4 DEF SameOrders, Raises
<1> QED BY <1>1, <1>4, <1>5 DEF n

LEMMA EnterReconciliationEffect ==
  ASSUME NEW m \in Manager
  PROVE  /\ SameOrders(m, EnterReconciliation(m))
         /\ \/ EnterReconciliation(m) = m /\ "Reconciliation" \in m.pauses
            \/ Raises(m, EnterReconciliation(m), {"RiskData", "Reconciliation"})
         /\ EnterReconciliation(m).rejections = m.rejections
         /\ EnterReconciliation(m).breakerArmed = m.breakerArmed
         /\ EnterReconciliation(m).safetyArmed = m.safetyArmed
<1> DEFINE k == RequireRefresh(m)
           n == SetPause(k, "Reconciliation")
<1>1. m.gen \in Nat BY ManagerTypes
<1>2. CASE "Reconciliation" \in m.pauses
  BY <1>2 DEF EnterReconciliation, BeginReconciliation, SetPause, SameOrders
<1>3. CASE "Reconciliation" \notin m.pauses
  <2>1. EnterReconciliation(m) = n BY <1>3 DEF EnterReconciliation, BeginReconciliation
  <2>2. /\ SameOrders(m, k) /\ Raises(m, k, {"RiskData"}) /\ k \in Manager
        /\ k.rejections = m.rejections
        /\ k.breakerArmed = m.breakerArmed /\ k.safetyArmed = m.safetyArmed
    BY RequireRefreshEffect DEF SameOrders
  <2> HIDE DEF k
  <2>3. /\ SameOrders(k, n) /\ Raises(k, n, {"Reconciliation"})
        /\ n.rejections = k.rejections
        /\ n.breakerArmed = k.breakerArmed /\ n.safetyArmed = k.safetyArmed
    BY <2>2, SetPauseEffect DEF Reasons
  <2>4. k.gen \in Nat /\ n.gen \in Nat BY <2>2, <2>3, ManagerTypes DEF SameOrders
  <2> HIDE DEF n
  <2>5. SameOrders(m, n) BY <2>2, <2>3 DEF SameOrders
  <2>6. Raises(m, n, {"RiskData", "Reconciliation"})
    BY <1>1, <2>2, <2>3, <2>4 DEF Raises
  <2> QED BY <2>1, <2>2, <2>3, <2>5, <2>6
<1> QED BY <1>2, <1>3

----------------------------------------------------------------------------
(* The latches: pauses only a verified cleanup clears, and what a slot must *)
(* not lose.                                                                *)
Latched == {"Safety", "CircuitBreaker", "Reconciliation"}

BareInv(m) ==
  \A s \in Slots : ~Used(m, s) =>
    m.slots[s].oid = 0 /\ m.slots[s].fails = 0 /\ m.slots[s].qty = 0
BoundInv(m) ==
  \A s, t \in Slots :
    m.slots[s].oid # 0 /\ m.slots[s].oid = m.slots[t].oid => s = t
BreakerInv(m) ==
  BreakerRejections > 0 /\ m.rejections >= BreakerRejections => "CircuitBreaker" \in m.pauses
StuckInv(m) ==
  \A s \in Slots : m.slots[s].fails >= MaxCancelFailures
    => {"Safety", "Reconciliation"} \subseteq m.pauses
SafeInv(m) == m \in Manager /\ BareInv(m) /\ BoundInv(m) /\ BreakerInv(m) /\ StuckInv(m)

(* What no operator undoes but the end of a reconciliation and a placement. *)
Holds(m, n) ==
  /\ n \in Manager
  /\ m.pauses \cap Latched \subseteq n.pauses
  /\ \A s \in Slots :
       \/ n.slots[s].id = 0 /\ n.slots[s].qty = 0
       \/ /\ n.slots[s].id = m.slots[s].id
          /\ n.slots[s].price = m.slots[s].price /\ n.slots[s].qty = m.slots[s].qty

(* A step that binds no exchange id and counts no failure or rejection.     *)
Frame(m, n) ==
  /\ Holds(m, n)
  /\ n.rejections \in {m.rejections, 0}
  /\ \A s \in Slots :
       \/ n.slots[s] = FreeSlot
       \/ /\ n.slots[s].id = m.slots[s].id
          /\ n.slots[s].oid = m.slots[s].oid /\ n.slots[s].fails = m.slots[s].fails

LEMMA HoldsTrans ==
  ASSUME NEW m, NEW n, NEW k, Holds(m, n), Holds(n, k)
  PROVE  Holds(m, k)
  BY DEF Holds

LEMMA FreeSlotBare ==
  /\ FreeSlot \in Order /\ FreeSlot.id = 0 /\ FreeSlot.oid = 0 /\ FreeSlot.fails = 0
  /\ FreeSlot.price = 0 /\ FreeSlot.qty = 0 /\ FreeSlot.gen = 0 /\ FreeSlot.state = "Free"
  BY DEF FreeSlot, Order

LEMMA FrameSafe ==
  ASSUME NEW m, NEW n, SafeInv(m), Frame(m, n)
  PROVE  SafeInv(n)
<1>1. n \in Manager BY DEF Frame, Holds
<1>2. /\ m.rejections \in Nat /\ \A s \in Slots : m.slots[s] \in Order /\ n.slots[s] \in Order
  BY <1>1, ManagerTypes DEF SafeInv
<1>3. BareInv(n)
  BY FreeSlotBare DEF SafeInv, Frame, Holds, BareInv, Used
<1>4. BoundInv(n)
  BY FreeSlotBare DEF SafeInv, Frame, BoundInv
<1>5. BreakerInv(n)
  <2>1. "CircuitBreaker" \in m.pauses => "CircuitBreaker" \in n.pauses
    BY DEF Frame, Holds, Latched
  <2> QED BY <1>2, <2>1, ConfigAssumption DEF SafeInv, Frame, BreakerInv
<1>6. StuckInv(n)
  <2>1. \A r \in {"Safety", "Reconciliation"} : r \in m.pauses => r \in n.pauses
    BY DEF Frame, Holds, Latched
  <2>2. ~(FreeSlot.fails >= MaxCancelFailures) BY FreeSlotBare DEF MaxCancelFailures
  <2> QED BY <2>1, <2>2 DEF SafeInv, Frame, StuckInv
<1> QED BY <1>1, <1>3, <1>4, <1>5, <1>6 DEF SafeInv

(* Pauses raised, cooldowns and gates changed, or slots freed.              *)
LEMMA SameOrdersFrame ==
  ASSUME NEW m \in Manager, NEW n, SameOrders(m, n), n.rejections = m.rejections,
         m.pauses \cap Latched \subseteq n.pauses
  PROVE  Frame(m, n)
  BY DEF SameOrders, Frame, Holds

LEMMA SlotsFrame ==
  ASSUME NEW m \in Manager, NEW f \in [Slots -> Order],
         \A s \in Slots :
            \/ f[s] = FreeSlot
            \/ /\ f[s].id = m.slots[s].id /\ f[s].oid = m.slots[s].oid
               /\ f[s].price = m.slots[s].price /\ f[s].qty = m.slots[s].qty
               /\ f[s].fails = m.slots[s].fails
  PROVE  Frame(m, [m EXCEPT !.slots = f])
<1> DEFINE n == [m EXCEPT !.slots = f]
<1>1. n \in Manager /\ n.slots = f /\ n.pauses = m.pauses /\ n.rejections = m.rejections
  BY DEF Manager
<1> HIDE DEF n
<1>2. Frame(m, n) BY <1>1, FreeSlotBare DEF Frame, Holds
<1> QED BY <1>2 DEF n

LEMMA SetPauseFrame ==
  ASSUME NEW m \in Manager, NEW r \in Reasons
  PROVE  Frame(m, SetPause(m, r))
  BY SetPauseEffect, SameOrdersFrame DEF Raises

LEMMA ClearPauseFrame ==
  ASSUME NEW m \in Manager, NEW r, r \notin Latched
  PROVE  Frame(m, ClearPause(m, r))
<1>1. m.pauses \cap Latched \subseteq ClearPause(m, r).pauses BY ClearPauseEffect
<1> QED BY <1>1, ClearPauseEffect, SameOrdersFrame

LEMMA RequireRefreshFrame ==
  ASSUME NEW m \in Manager
  PROVE  Frame(m, RequireRefresh(m))
  BY RequireRefreshEffect, SameOrdersFrame DEF Raises

LEMMA TriggerSafetyFrame ==
  ASSUME NEW m \in Manager
  PROVE  Frame(m, TriggerSafety(m))
  BY TriggerSafetyEffect, SameOrdersFrame DEF Raises

LEMMA EnterReconciliationFrame ==
  ASSUME NEW m \in Manager
  PROVE  Frame(m, EnterReconciliation(m))
<1>1. m.pauses \cap Latched \subseteq EnterReconciliation(m).pauses
  BY EnterReconciliationEffect DEF Raises
<1> QED BY <1>1, EnterReconciliationEffect, SameOrdersFrame

LEMMA CountersFrame ==
  ASSUME NEW m \in Manager, NEW n \in Manager,
         n.slots = m.slots, n.pauses = m.pauses, n.rejections = m.rejections
  PROVE  Frame(m, n)
  BY DEF Frame, Holds

LEMMA PublishFrame ==
  ASSUME NEW m \in Manager
  PROVE  Frame(m, Publish(m))
<1>1. (IF m.owed = 0 THEN 0 ELSE m.owed - 1) \in 0..2 BY ManagerTypes
<1>2. Publish(m) = [m EXCEPT !.owed = IF m.owed = 0 THEN 0 ELSE m.owed - 1] BY DEF Publish
<1>3. Publish(m) \in Manager BY <1>1, <1>2 DEF Manager
<1>4. /\ Publish(m).slots = m.slots /\ Publish(m).pauses = m.pauses
      /\ Publish(m).rejections = m.rejections
  BY <1>2 DEF Manager
<1> QED BY <1>3, <1>4, CountersFrame

LEMMA InitializeBaselineFrame ==
  ASSUME NEW m \in Manager, NEW p \in Int
  PROVE  Frame(m, InitializeBaseline(m, p))
<1> DEFINE n == InitializeBaseline(m, p)
<1>1. n \in Manager BY DEF InitializeBaseline, Manager
<1>2. n.slots = m.slots /\ n.pauses = m.pauses /\ n.rejections = m.rejections
  BY DEF InitializeBaseline, Manager
<1> HIDE DEF n
<1>3. Frame(m, n) BY <1>1, <1>2, CountersFrame
<1> QED BY <1>3 DEF n

LEMMA SpendCooldownsFrame ==
  ASSUME NEW m \in Manager, NEW sc \in BOOLEAN, NEW bc \in BOOLEAN
  PROVE  Frame(m, SpendCooldowns(m, sc, bc))
<1> DEFINE sa == m.safetyArmed /\ ~SafetyDue(m, sc)
           ba == m.breakerArmed /\ ~BreakerDue(m, bc)
           n == [m EXCEPT !.safetyArmed = sa, !.breakerArmed = ba]
<1>1. sa \in BOOLEAN /\ ba \in BOOLEAN OBVIOUS
<1>2. SpendCooldowns(m, sc, bc) = n BY DEF SpendCooldowns
<1> HIDE DEF sa, ba
<1>3. n \in Manager /\ n.slots = m.slots /\ n.pauses = m.pauses /\ n.rejections = m.rejections
  BY <1>1 DEF Manager
<1> HIDE DEF n
<1> QED BY <1>2, <1>3, CountersFrame

LEMMA ShutdownFrame ==
  ASSUME NEW m \in Manager
  PROVE  Frame(m, ShutdownManager(m))
<1> DEFINE n == ShutdownManager(m)
<1>1. m.gen + 1 \in Nat BY ManagerTypes
<1>2. n \in Manager /\ n.slots = m.slots /\ n.pauses = m.pauses /\ n.rejections = m.rejections
  BY <1>1 DEF ShutdownManager, Manager
<1> HIDE DEF n
<1>3. Frame(m, n) BY <1>2, CountersFrame
<1> QED BY <1>3 DEF n

LEMMA FreeIdFrame ==
  ASSUME NEW m \in Manager, NEW id
  PROVE  Frame(m, FreeId(m, id))
<1> DEFINE f == [s \in Slots |-> IF m.slots[s].id = id THEN FreeSlot ELSE m.slots[s]]
<1>1. f \in [Slots -> Order] BY ManagerTypes, FreeSlotBare
<1>2. FreeId(m, id) = [m EXCEPT !.slots = f] BY DEF FreeId
<1>3. \A s \in Slots : f[s] = FreeSlot \/ f[s] = m.slots[s] OBVIOUS
<1> HIDE DEF f
<1> QED BY <1>1, <1>2, <1>3, SlotsFrame

LEMMA OnCanceledFrame ==
  ASSUME NEW m \in Manager, NEW id, NEW oid
  PROVE  Frame(m, OnCanceled(m, id, oid))
<1> DEFINE f == [s \in Slots |-> IF oid # 0 /\ m.slots[s].oid = oid
                                 THEN FreeSlot ELSE m.slots[s]]
<1>1. f \in [Slots -> Order] BY ManagerTypes, FreeSlotBare
<1>2. OnCanceledByOid(m, oid) = [m EXCEPT !.slots = f] BY DEF OnCanceledByOid
<1>3. \A s \in Slots : f[s] = FreeSlot \/ f[s] = m.slots[s] OBVIOUS
<1> HIDE DEF f
<1>4. Frame(m, OnCanceledByOid(m, oid)) BY <1>1, <1>2, <1>3, SlotsFrame
<1> QED BY <1>4, FreeIdFrame DEF OnCanceled, OnCanceledById

(* An acceptance binds an exchange id no other slot holds.                  *)
LEMMA OnAcceptedSafe ==
  ASSUME NEW m, SafeInv(m), IdsInv(m), NEW id, NEW oid \in Int
  PROVE  SafeInv(OnAccepted(m, id, oid)) /\ Holds(m, OnAccepted(m, id, oid))
<1> DEFINE f == [s \in Slots |->
                   IF m.slots[s].id # id THEN m.slots[s]
                   ELSE [m.slots[s] EXCEPT
                          !.oid = IF oid = 0 THEN @ ELSE oid,
                          !.state = IF @ = "Pending" THEN "Live" ELSE @]]
           n == [m EXCEPT !.rejections = 0, !.slots = f]
<1>1. m \in Manager BY DEF SafeInv
<1>2. \A s \in Slots :
         /\ f[s] \in Order /\ f[s].id = m.slots[s].id
         /\ f[s].price = m.slots[s].price /\ f[s].qty = m.slots[s].qty
         /\ f[s].fails = m.slots[s].fails
         /\ f[s].oid = IF m.slots[s].id = id /\ oid # 0 THEN oid ELSE m.slots[s].oid
  <2> SUFFICES ASSUME NEW s \in Slots
               PROVE  /\ f[s] \in Order /\ f[s].id = m.slots[s].id
                      /\ f[s].price = m.slots[s].price /\ f[s].qty = m.slots[s].qty
                      /\ f[s].fails = m.slots[s].fails
                      /\ f[s].oid = IF m.slots[s].id = id /\ oid # 0 THEN oid ELSE m.slots[s].oid
    OBVIOUS
  <2>1. m.slots[s] \in Order BY <1>1, ManagerTypes
  <2> QED BY <2>1 DEF Order
<1>3. f \in [Slots -> Order] BY <1>2
<1>4. CASE ~CanBind(m, id, oid)
  BY <1>1, <1>4 DEF OnAccepted, Holds
<1>5. CASE CanBind(m, id, oid)
  <2>1. OnAccepted(m, id, oid) = n BY <1>5 DEF OnAccepted
  <2> HIDE DEF f
  <2>2. n \in Manager /\ n.slots = f /\ n.rejections = 0 /\ n.pauses = m.pauses
    BY <1>1, <1>3 DEF Manager
  <2> HIDE DEF n
  <2>3. Holds(m, n) BY <1>2, <2>2 DEF Holds
  <2>4. PICK u \in Slots : /\ Used(m, u) /\ m.slots[u].id = id
                           /\ oid # 0 => \A t \in Slots : m.slots[t].oid = oid => m.slots[t].id = id
    BY <1>5 DEF CanBind
  <2>5. \A t \in Slots : m.slots[t].id = id => t = u BY <2>4 DEF IdsInv
  <2>6. BareInv(n)
    BY <1>2, <2>2, <2>4, <2>5 DEF SafeInv, BareInv, Used
  <2>7. BoundInv(n)
    BY <1>2, <2>2, <2>4, <2>5 DEF SafeInv, BoundInv
  <2>8. BreakerInv(n) BY <2>2, ConfigAssumption DEF BreakerInv
  <2>9. StuckInv(n) BY <1>2, <2>2 DEF SafeInv, StuckInv
  <2> QED BY <2>1, <2>2, <2>3, <2>6, <2>7, <2>8, <2>9 DEF SafeInv
<1> QED BY <1>4, <1>5

(* A rejection that reaches the limit leaves with the breaker pause.        *)
LEMMA OnRejectedSafe ==
  ASSUME NEW m, SafeInv(m), NEW id
  PROVE  SafeInv(OnRejected(m, id)) /\ Holds(m, OnRejected(m, id))
<1> DEFINE k == FreeId(m, id)
           n == [k EXCEPT !.rejections = @ + 1]
           p == SetPause(n, "CircuitBreaker")
           a == [p EXCEPT !.breakerArmed = TRUE]
<1>1. SafeInv(k) /\ Holds(m, k) /\ k \in Manager
  BY FreeIdFrame, FrameSafe DEF SafeInv, Frame
<1>2. k.rejections \in Nat /\ k.rejections + 1 \in Nat BY <1>1, ManagerTypes
<1>3. n \in Manager /\ n.slots = k.slots /\ n.pauses = k.pauses /\ n.rejections = k.rejections + 1
  <2> HIDE DEF k
  <2> QED BY <1>1, <1>2 DEF Manager
<1>4. BareInv(n) /\ BoundInv(n) /\ StuckInv(n) /\ Holds(m, n)
  <2> HIDE DEF k, n
  <2> QED BY <1>1, <1>3 DEF SafeInv, BareInv, BoundInv, StuckInv, Used, Holds
<1>5. /\ p \in Manager /\ p.slots = n.slots /\ p.pauses = n.pauses \cup {"CircuitBreaker"}
      /\ p.rejections = n.rejections
  <2> HIDE DEF k, n
  <2> QED BY <1>3, SetPauseEffect DEF SameOrders, Raises, Reasons
<1>6. /\ a \in Manager /\ a.slots = p.slots /\ a.pauses = p.pauses /\ a.rejections = p.rejections
  <2> HIDE DEF k, n, p
  <2> QED BY <1>5 DEF Manager
<1>7. OnRejected(m, id) =
        IF BreakerRejections > 0 /\ n.rejections >= BreakerRejections THEN a ELSE n
  BY DEF OnRejected, TripBreaker
<1> HIDE DEF k, n, p, a
<1>8. SafeInv(a) /\ Holds(m, a)
  BY <1>4, <1>3, <1>5, <1>6
  DEF SafeInv, BareInv, BoundInv, BreakerInv, StuckInv, Used, Holds
<1>9. ~(BreakerRejections > 0 /\ n.rejections >= BreakerRejections) => SafeInv(n)
  BY <1>3, <1>4 DEF SafeInv, BreakerInv
<1> QED BY <1>4, <1>7, <1>8, <1>9

LEMMA OnFillFrame ==
  ASSUME NEW m \in Manager, NEW id, NEW oid, NEW full \in BOOLEAN
  PROVE  Frame(m, OnFill(m, id, oid, full))
<1> DEFINE hit == FillMatches(m, id, oid)
           first == CHOOSE s \in hit : \A t \in hit : ScanIndex(s) <= ScanIndex(t)
           k == RequireRefresh(m)
           f == [k.slots EXCEPT ![first] = FreeSlot]
<1>1. k \in Manager /\ k.slots \in [Slots -> Order] /\ k.slots = m.slots
      /\ Frame(m, k)
  BY RequireRefreshFrame, RequireRefreshEffect, ManagerTypes DEF SameOrders
<1>2. f \in [Slots -> Order] BY <1>1, FreeSlotBare
<1>3. \A s \in Slots : f[s] = FreeSlot \/ f[s] = m.slots[s]
  <2> HIDE DEF first, k
  <2> QED BY <1>1
<1>4. [k EXCEPT !.slots[first] = FreeSlot] = [k EXCEPT !.slots = f]
  <2> HIDE DEF first, k
  <2> QED BY <1>1 DEF Manager
<1>5. /\ [k EXCEPT !.slots = f] \in Manager
      /\ [k EXCEPT !.slots = f].slots = f
      /\ [k EXCEPT !.slots = f].pauses = k.pauses
      /\ [k EXCEPT !.slots = f].rejections = k.rejections
  <2> HIDE DEF f, k
  <2> QED BY <1>1, <1>2 DEF Manager
<1>6. OnFill(m, id, oid, full) \in {m, k, [k EXCEPT !.slots[first] = FreeSlot]}
  BY DEF OnFill
<1> HIDE DEF f, k, first
<1>7. Frame(m, m) BY DEF Frame, Holds
<1>8. Frame(m, [k EXCEPT !.slots = f])
  BY <1>1, <1>3, <1>5, FreeSlotBare DEF Frame, Holds
<1> QED BY <1>1, <1>4, <1>6, <1>7, <1>8

(* The third failed cancel of a slot leaves with both pauses.               *)
LEMMA OnCancelFailedSafe ==
  ASSUME NEW m, SafeInv(m), NEW oid
  PROVE  SafeInv(OnCancelFailed(m, oid)) /\ Holds(m, OnCancelFailed(m, oid))
<1> DEFINE hit == CancelFailures(m, oid)
           exhausted == \E s \in hit : m.slots[s].fails + 1 >= MaxCancelFailures
           f == [s \in Slots |->
              IF s \notin hit THEN m.slots[s]
              ELSE [m.slots[s] EXCEPT
                     !.fails = @ + 1,
                     !.state = IF m.slots[s].fails + 1 >= MaxCancelFailures
                               THEN "Canceling" ELSE "Live"]]
           n == [m EXCEPT !.slots = f]
           p == SetPause(n, "Safety")
           a == SetPause(p, "Reconciliation")
<1>1. m \in Manager BY DEF SafeInv
<1>2. \A s \in hit : m.slots[s].oid # 0 BY DEF CancelFailures
<1>3. \A s \in Slots :
         /\ f[s] \in Order /\ f[s].id = m.slots[s].id /\ f[s].oid = m.slots[s].oid
         /\ f[s].price = m.slots[s].price /\ f[s].qty = m.slots[s].qty
         /\ f[s].fails = IF s \in hit THEN m.slots[s].fails + 1 ELSE m.slots[s].fails
  <2> SUFFICES ASSUME NEW s \in Slots
               PROVE  /\ f[s] \in Order /\ f[s].id = m.slots[s].id /\ f[s].oid = m.slots[s].oid
                      /\ f[s].price = m.slots[s].price /\ f[s].qty = m.slots[s].qty
                      /\ f[s].fails = IF s \in hit THEN m.slots[s].fails + 1 ELSE m.slots[s].fails
    OBVIOUS
  <2>1. m.slots[s] \in Order /\ m.slots[s].fails + 1 \in Nat
    BY <1>1, ManagerTypes, OrderTypes
  <2> HIDE DEF hit
  <2> QED BY <2>1 DEF Order
<1>4. f \in [Slots -> Order] BY <1>3
<1>5. OnCancelFailed(m, oid) = IF exhausted THEN a ELSE n
  BY DEF OnCancelFailed
<1> HIDE DEF hit, f
<1>6. n \in Manager /\ n.slots = f /\ n.pauses = m.pauses /\ n.rejections = m.rejections
  BY <1>1, <1>4 DEF Manager
<1>7. /\ p \in Manager /\ p.slots = n.slots /\ p.pauses = n.pauses \cup {"Safety"}
      /\ p.rejections = n.rejections
  <2> HIDE DEF n
  <2> QED BY <1>6, SetPauseEffect DEF SameOrders, Raises, Reasons
<1>8. /\ a \in Manager /\ a.slots = f
      /\ a.pauses = m.pauses \cup {"Safety", "Reconciliation"} /\ a.rejections = m.rejections
  <2>1. /\ a \in Manager /\ a.slots = p.slots /\ a.pauses = p.pauses \cup {"Reconciliation"}
        /\ a.rejections = p.rejections
    <3> HIDE DEF p
    <3> QED BY <1>7, SetPauseEffect DEF SameOrders, Raises, Reasons
  <2> HIDE DEF n, p, a
  <2> QED BY <1>6, <1>7, <2>1
<1> HIDE DEF n, p, a
<1>9. ASSUME NEW k \in Manager, k.slots = f, k.rejections = m.rejections,
             m.pauses \subseteq k.pauses,
             exhausted => {"Safety", "Reconciliation"} \subseteq k.pauses
      PROVE  SafeInv(k) /\ Holds(m, k)
  <2>1. Holds(m, k) BY <1>3, <1>9 DEF Holds
  <2>2. BareInv(k) BY <1>2, <1>3, <1>9 DEF SafeInv, BareInv, Used
  <2>3. BoundInv(k) BY <1>3, <1>9 DEF SafeInv, BoundInv
  <2>4. BreakerInv(k) BY <1>9 DEF SafeInv, BreakerInv
  <2>5. StuckInv(k)
    BY <1>3, <1>9 DEF SafeInv, StuckInv
  <2> QED BY <1>9, <2>1, <2>2, <2>3, <2>4, <2>5 DEF SafeInv
<1> QED BY <1>5, <1>6, <1>8, <1>9

LEMMA OnDispatchFailedFrame ==
  ASSUME NEW m \in Manager, NEW refused
  PROVE  Frame(m, OnDispatchFailed(m, refused))
<1> DEFINE Named(s, k) == Used(m, s) /\ [kind |-> k, id |-> m.slots[s].id] \in refused
           f == [s \in Slots |->
                  IF Named(s, "Send") THEN FreeSlot
                  ELSE IF Named(s, "Cancel") \/ Named(s, "Replace")
                  THEN [m.slots[s] EXCEPT !.state = "Live"]
                  ELSE m.slots[s]]
<1>1. \A s \in Slots :
         /\ f[s] \in Order
         /\ \/ f[s] = FreeSlot
            \/ /\ f[s].id = m.slots[s].id /\ f[s].oid = m.slots[s].oid
               /\ f[s].price = m.slots[s].price /\ f[s].qty = m.slots[s].qty
               /\ f[s].fails = m.slots[s].fails
  <2> SUFFICES ASSUME NEW s \in Slots
               PROVE  /\ f[s] \in Order
                      /\ \/ f[s] = FreeSlot
                         \/ /\ f[s].id = m.slots[s].id /\ f[s].oid = m.slots[s].oid
                            /\ f[s].price = m.slots[s].price /\ f[s].qty = m.slots[s].qty
                            /\ f[s].fails = m.slots[s].fails
    OBVIOUS
  <2>1. m.slots[s] \in Order BY ManagerTypes
  <2> HIDE DEF Named
  <2> QED BY <2>1, FreeSlotBare DEF Order
<1>2. f \in [Slots -> Order] BY <1>1
<1>3. OnDispatchFailed(m, refused) = [m EXCEPT !.slots = f] BY DEF OnDispatchFailed
<1> HIDE DEF f
<1> QED BY <1>1, <1>2, <1>3, SlotsFrame

LEMMA OnTimeoutsFrame ==
  ASSUME NEW m \in Manager, NEW overdue
  PROVE  Frame(m, OnTimeouts(m, overdue))
<1>1. Frame(m, m) BY DEF Frame, Holds
<1> QED BY <1>1, SetPauseFrame DEF OnTimeouts, BeginReconciliation, Reasons

LEMMA LeaveReconciliationSafe ==
  ASSUME NEW m \in Manager
  PROVE  /\ SafeInv(LeaveReconciliation(m))
         /\ LeaveReconciliation(m).retired >= m.gen
         /\ LeaveReconciliation(m).gen = LeaveReconciliation(m).retired
         /\ Stopped(m) \/ LeaveReconciliation(m).retired > m.gen
         /\ \A s \in Slots : LeaveReconciliation(m).slots[s] = FreeSlot
         /\ LeaveReconciliation(m).nextId = m.nextId
         /\ LeaveReconciliation(m).shutdown = m.shutdown
         /\ LeaveReconciliation(m).pauses = (m.pauses \cup {"RiskData"}) \ Latched
<1> DEFINE k == RequireRefresh(m)
           f == [s \in Slots |-> FreeSlot]
           n == [k EXCEPT !.retired = k.gen, !.slots = f,
                          !.safetyArmed = FALSE, !.breakerArmed = FALSE, !.rejections = 0,
                          !.pauses = @ \ {"Safety", "CircuitBreaker", "Reconciliation"}]
<1>1. SameOrders(m, k) /\ Raises(m, k, {"RiskData"}) /\ k \in Manager
  BY RequireRefreshEffect DEF SameOrders
<1>2. LeaveReconciliation(m) = n BY DEF LeaveReconciliation, FinishReconciliation
<1>3. f \in [Slots -> Order] /\ \A s \in Slots : f[s] = FreeSlot BY FreeSlotBare
<1>4. k.gen \in Nat /\ m.gen \in Nat BY <1>1, ManagerTypes
<1> HIDE DEF k, f
<1>5. /\ n \in Manager /\ n.slots = f /\ n.retired = k.gen /\ n.gen = k.gen
      /\ n.nextId = k.nextId /\ n.rejections = 0 /\ n.shutdown = k.shutdown
      /\ n.pauses = k.pauses \ {"Safety", "CircuitBreaker", "Reconciliation"}
  BY <1>1, <1>3, <1>4 DEF Manager
<1> HIDE DEF n
<1>6. BareInv(n) /\ BoundInv(n) /\ StuckInv(n)
  BY <1>3, <1>5, FreeSlotBare DEF BareInv, BoundInv, StuckInv, MaxCancelFailures
<1>7. BreakerInv(n) BY <1>5, ConfigAssumption DEF BreakerInv
<1>8. n.pauses = (m.pauses \cup {"RiskData"}) \ Latched
  BY <1>1, <1>5 DEF Raises, Latched
<1>9. Stopped(m) \/ n.retired > m.gen BY <1>1, <1>5 DEF Raises, Stopped
<1> QED BY <1>1, <1>2, <1>3, <1>5, <1>6, <1>7, <1>8, <1>9 DEF SafeInv, SameOrders, Raises

----------------------------------------------------------------------------
(* What a quote does between a manager m and its result r: the orders it    *)
(* finds keep their slots, a new order takes a free one and the next id,    *)
(* and each decision names an order in a slot, a new one exactly once.      *)
SameButState(o, p) ==
  /\ p.id = o.id /\ p.gen = o.gen /\ p.oid = o.oid
  /\ p.price = o.price /\ p.qty = o.qty /\ p.fails = o.fails

Placing(m, r) ==
  /\ r.m \in Manager
  /\ r.m.nextId >= m.nextId
  /\ r.m.retired = m.retired /\ r.m.gen = m.gen /\ r.m.pauses = m.pauses
  /\ r.m.shutdown = m.shutdown /\ r.m.rejections = m.rejections
  /\ r.m.hasBaseline = m.hasBaseline /\ r.m.baseline = m.baseline
  /\ r.m.safetyArmed = m.safetyArmed /\ r.m.breakerArmed = m.breakerArmed
  /\ \A s \in Slots :
       \/ SameButState(m.slots[s], r.m.slots[s])
       \/ /\ ~Used(m, s)
          /\ m.nextId <= r.m.slots[s].id /\ r.m.slots[s].id < r.m.nextId
          /\ r.m.slots[s].oid = 0 /\ r.m.slots[s].fails = 0 /\ r.m.slots[s].gen = m.gen

NamesOrders(m, r) ==
  /\ r.out \in Seq(Decision)
  /\ \A i \in 1..Len(r.out) :
       /\ \E s \in Slots : Used(r.m, s) /\ r.m.slots[s].id = r.out[i].id
       /\ r.out[i].kind = "Send" => m.nextId <= r.out[i].id /\ r.out[i].id < r.m.nextId
  /\ \A i, j \in 1..Len(r.out) :
       r.out[i].kind = "Send" /\ r.out[j].kind = "Send" /\ r.out[i].id = r.out[j].id => i = j

LEMMA DecisionTypes ==
  ASSUME NEW q \in Seq(Decision), NEW i \in 1..Len(q)
  PROVE  q[i] \in Decision /\ q[i].id \in Nat /\ q[i].kind \in {"Send", "Cancel", "Replace"}
<1>1. q[i] \in Decision OBVIOUS
<1> QED BY <1>1 DEF Decision

LEMMA ToCancelingEffect ==
  ASSUME NEW m \in Manager, NEW s \in Slots
  PROVE  /\ ToCanceling(m, s) \in Manager
         /\ \A t \in Slots : SameButState(m.slots[t], ToCanceling(m, s).slots[t])
         /\ ToCanceling(m, s).nextId = m.nextId /\ ToCanceling(m, s).retired = m.retired
         /\ ToCanceling(m, s).gen = m.gen /\ ToCanceling(m, s).pauses = m.pauses
         /\ ToCanceling(m, s).shutdown = m.shutdown
         /\ ToCanceling(m, s).rejections = m.rejections
         /\ ToCanceling(m, s).hasBaseline = m.hasBaseline
         /\ ToCanceling(m, s).baseline = m.baseline
         /\ ToCanceling(m, s).safetyArmed = m.safetyArmed
         /\ ToCanceling(m, s).breakerArmed = m.breakerArmed
<1> DEFINE o == [m.slots[s] EXCEPT !.state = "Canceling"]
           f == [m.slots EXCEPT ![s] = o]
           n == [m EXCEPT !.slots = f]
<1>1. m.slots \in [Slots -> Order] /\ m.slots[s] \in Order BY ManagerTypes
<1>2. o \in Order /\ SameButState(m.slots[s], o) BY <1>1 DEF Order, SameButState
<1>3. ToCanceling(m, s) = n BY <1>1 DEF ToCanceling, Manager
<1> HIDE DEF o
<1>4. f \in [Slots -> Order] /\ \A t \in Slots : SameButState(m.slots[t], f[t])
  BY <1>1, <1>2 DEF SameButState
<1> HIDE DEF f
<1> QED BY <1>3, <1>4 DEF Manager

LEMMA CancelSlotPlaces ==
  ASSUME NEW m \in Manager, NEW r, Placing(m, r), NamesOrders(m, r), NEW s \in Slots,
         Used(r.m, s), NEW kind \in {"Cancel", "Replace"}
  PROVE  /\ Placing(m, CancelSlot(r, s, kind)) /\ NamesOrders(m, CancelSlot(r, s, kind))
         /\ CancelSlot(r, s, kind).m.nextId = r.m.nextId
         /\ Len(CancelSlot(r, s, kind).out) = Len(r.out) + 1
         /\ \A t \in Slots : SameButState(r.m.slots[t], CancelSlot(r, s, kind).m.slots[t])
<1> DEFINE c == CancelSlot(r, s, kind)
           d == [kind |-> kind, id |-> r.m.slots[s].id]
<1>1. c.m = ToCanceling(r.m, s) /\ c.out = Append(r.out, d) BY DEF CancelSlot
<1>2. r.m \in Manager /\ r.m.slots[s] \in Order BY ManagerTypes DEF Placing
<1>3. d \in Decision /\ d.kind # "Send" /\ d.id = r.m.slots[s].id
  BY <1>2, OrderTypes DEF Decision
<1>4. \A t \in Slots : SameButState(r.m.slots[t], c.m.slots[t])
  BY <1>1, <1>2, ToCancelingEffect
<1>5. c.m \in Manager /\ c.m.nextId = r.m.nextId BY <1>1, <1>2, ToCancelingEffect
<1>6. Placing(m, c)
  <2>1. /\ c.m.retired = r.m.retired /\ c.m.gen = r.m.gen /\ c.m.pauses = r.m.pauses
        /\ c.m.shutdown = r.m.shutdown /\ c.m.rejections = r.m.rejections
        /\ c.m.hasBaseline = r.m.hasBaseline /\ c.m.baseline = r.m.baseline
        /\ c.m.safetyArmed = r.m.safetyArmed /\ c.m.breakerArmed = r.m.breakerArmed
    BY <1>1, <1>2, ToCancelingEffect
  <2> HIDE DEF c
  <2> QED BY <1>4, <1>5, <2>1 DEF Placing, SameButState
<1> HIDE DEF c, d
<1>7. Len(c.out) = Len(r.out) + 1 /\ c.out \in Seq(Decision)
  BY <1>1, <1>3 DEF NamesOrders
<1>8. \A i \in 1..Len(c.out) : c.out[i] = IF i = Len(r.out) + 1 THEN d ELSE r.out[i]
  BY <1>1, <1>3 DEF NamesOrders
<1>9. \A t \in Slots : Used(r.m, t) => Used(c.m, t) /\ c.m.slots[t].id = r.m.slots[t].id
  BY <1>4 DEF Used, SameButState
<1>10. Len(r.out) \in Nat BY DEF NamesOrders
<1>11. ASSUME NEW i \in 1..Len(c.out)
       PROVE  /\ \E t \in Slots : Used(c.m, t) /\ c.m.slots[t].id = c.out[i].id
              /\ c.out[i].kind = "Send" =>
                   /\ i \in 1..Len(r.out) /\ c.out[i] = r.out[i]
                   /\ m.nextId <= c.out[i].id /\ c.out[i].id < c.m.nextId
  <2>1. CASE i = Len(r.out) + 1
    <3>1. c.out[i] = d BY <1>8, <2>1
    <3> QED BY <1>3, <1>9, <3>1
  <2>2. CASE i # Len(r.out) + 1
    <3>1. c.out[i] = r.out[i] /\ i \in 1..Len(r.out) BY <1>7, <1>8, <1>10, <2>2
    <3> QED BY <1>5, <1>9, <3>1 DEF NamesOrders
  <2> QED BY <2>1, <2>2
<1>12. NamesOrders(m, c)
  BY <1>7, <1>11 DEF NamesOrders
<1> QED BY <1>4, <1>5, <1>6, <1>7, <1>12 DEF c

LEMMA PlacePendingPlaces ==
  ASSUME NEW m \in Manager, NEW r, Placing(m, r), NamesOrders(m, r), NEW s \in Slots,
         ~Used(r.m, s), r.m.nextId > 0, NEW price \in Nat, NEW qty \in Nat
  PROVE  /\ Placing(m, PlacePending(r, s, price, qty))
         /\ NamesOrders(m, PlacePending(r, s, price, qty))
         /\ PlacePending(r, s, price, qty).m.nextId = r.m.nextId + 1
         /\ Len(PlacePending(r, s, price, qty).out) = Len(r.out) + 1
         /\ \A t \in Slots \ {s} :
              PlacePending(r, s, price, qty).m.slots[t] = r.m.slots[t]
         /\ PlacePending(r, s, price, qty).m.slots[s].price = price
         /\ PlacePending(r, s, price, qty).m.slots[s].qty = qty
<1> DEFINE k == r.m
           o == [id |-> k.nextId, gen |-> k.gen, oid |-> 0, price |-> price, qty |-> qty,
                 state |-> "Pending", fails |-> 0]
           f == [k.slots EXCEPT ![s] = o]
           n == [k EXCEPT !.nextId = k.nextId + 1, !.slots = f]
           c == PlacePending(r, s, price, qty)
           d == SendOf(k.nextId)
<1>1. k \in Manager BY DEF Placing
<1>2. /\ k.nextId \in Nat /\ k.nextId + 1 \in Nat /\ k.gen \in Nat /\ m.nextId \in Nat
      /\ k.slots \in [Slots -> Order]
  BY <1>1, ManagerTypes
<1>3. o \in Order BY <1>2 DEF Order
<1>4. /\ f \in [Slots -> Order] /\ f[s] = o /\ \A t \in Slots \ {s} : f[t] = k.slots[t]
  BY <1>2, <1>3
<1>5. c.m = n /\ c.out = Append(r.out, d)
  BY <1>1 DEF PlacePending, Manager
<1>6. d \in Decision /\ d.kind = "Send" /\ d.id = k.nextId BY <1>2 DEF SendOf, Decision
<1>7. /\ o.id = k.nextId /\ o.gen = k.gen /\ o.oid = 0 /\ o.price = price /\ o.qty = qty
      /\ o.fails = 0
  OBVIOUS
<1> HIDE DEF k, o, f, c, d
<1>8. /\ n \in Manager /\ n.slots = f /\ n.nextId = k.nextId + 1
      /\ n.retired = k.retired /\ n.gen = k.gen /\ n.pauses = k.pauses
      /\ n.shutdown = k.shutdown /\ n.rejections = k.rejections
      /\ n.hasBaseline = k.hasBaseline /\ n.baseline = k.baseline
      /\ n.safetyArmed = k.safetyArmed /\ n.breakerArmed = k.breakerArmed
  BY <1>1, <1>2, <1>4 DEF Manager
<1> HIDE DEF n
<1>9. k = r.m BY DEF k
<1>10. ~Used(m, s) /\ k.nextId >= m.nextId
  BY <1>2, <1>9 DEF Placing, Used, SameButState
<1>11. ~Used(k, s) /\ k.nextId > 0 BY <1>9
<1>12. Placing(m, c)
  <2>1. /\ n.nextId >= m.nextId /\ n.retired = m.retired /\ n.gen = m.gen
        /\ n.pauses = m.pauses /\ n.shutdown = m.shutdown /\ n.rejections = m.rejections
        /\ n.hasBaseline = m.hasBaseline /\ n.baseline = m.baseline
        /\ n.safetyArmed = m.safetyArmed /\ n.breakerArmed = m.breakerArmed
    BY <1>2, <1>8, <1>9, <1>10 DEF Placing
  <2>2. ASSUME NEW t \in Slots
        PROVE  \/ SameButState(m.slots[t], n.slots[t])
               \/ /\ ~Used(m, t) /\ m.nextId <= n.slots[t].id /\ n.slots[t].id < n.nextId
                  /\ n.slots[t].oid = 0 /\ n.slots[t].fails = 0 /\ n.slots[t].gen = m.gen
    <3>1. CASE t = s
      <4>1. n.slots[t] = o /\ k.gen = m.gen BY <1>4, <1>8, <1>9, <3>1 DEF Placing
      <4> QED BY <1>2, <1>7, <1>8, <1>10, <3>1, <4>1
    <3>2. CASE t # s
      <4>1. n.slots[t] = k.slots[t] BY <1>4, <1>8, <3>2
      <4>2. k.slots[t] \in Order /\ k.slots[t].id \in Nat BY <1>2, OrderTypes
      <4> QED BY <1>2, <1>8, <1>9, <4>1, <4>2 DEF Placing
    <3> QED BY <3>1, <3>2
  <2> QED BY <1>5, <1>8, <2>1, <2>2 DEF Placing
<1>13. r.out \in Seq(Decision) /\ Len(r.out) \in Nat BY DEF NamesOrders
<1>14. Len(c.out) = Len(r.out) + 1 /\ c.out \in Seq(Decision)
  BY <1>5, <1>6, <1>13
<1>15. \A i \in 1..Len(c.out) : c.out[i] = IF i = Len(r.out) + 1 THEN d ELSE r.out[i]
  BY <1>5, <1>6, <1>13
<1>16. ASSUME NEW i \in 1..Len(c.out)
       PROVE  /\ \E t \in Slots : Used(c.m, t) /\ c.m.slots[t].id = c.out[i].id
              /\ c.out[i].kind = "Send" => m.nextId <= c.out[i].id /\ c.out[i].id < c.m.nextId
  <2>1. CASE i = Len(r.out) + 1
    <3>1. c.out[i] = d BY <1>15, <2>1
    <3>2. c.m.slots[s] = o BY <1>4, <1>5, <1>8
    <3> QED BY <1>2, <1>5, <1>6, <1>7, <1>8, <1>10, <1>11, <3>1, <3>2 DEF Used
  <2>2. CASE i # Len(r.out) + 1
    <3>1. c.out[i] = r.out[i] /\ i \in 1..Len(r.out) BY <1>13, <1>14, <1>15, <2>2
    <3>2. PICK t \in Slots : Used(k, t) /\ k.slots[t].id = r.out[i].id
      BY <1>9, <3>1 DEF NamesOrders
    <3>3. t # s BY <1>11, <3>2
    <3>4. c.m.slots[t] = k.slots[t] BY <1>4, <1>5, <1>8, <3>3
    <3>5. c.out[i].kind = "Send" => m.nextId <= c.out[i].id /\ c.out[i].id < k.nextId
      BY <1>9, <3>1 DEF NamesOrders
    <3>6. r.out[i].id \in Nat BY <1>13, <3>1, DecisionTypes
    <3> QED BY <1>2, <1>5, <1>8, <3>1, <3>2, <3>4, <3>5, <3>6 DEF Used
  <2> QED BY <2>1, <2>2
<1>17. ASSUME NEW i \in 1..Len(c.out), NEW j \in 1..Len(c.out),
              c.out[i].kind = "Send", c.out[j].kind = "Send", c.out[i].id = c.out[j].id
       PROVE  i = j
  <2>1. \A l \in 1..Len(r.out) : r.out[l].kind = "Send" => r.out[l].id # k.nextId
    <3> SUFFICES ASSUME NEW l \in 1..Len(r.out), r.out[l].kind = "Send"
                 PROVE  r.out[l].id # k.nextId
      OBVIOUS
    <3>1. r.out[l].id < k.nextId BY <1>9 DEF NamesOrders
    <3>2. r.out[l].id \in Nat BY <1>13, DecisionTypes
    <3> QED BY <1>2, <3>1, <3>2
  <2>2. \A l \in 1..Len(c.out) : l # Len(r.out) + 1 => l \in 1..Len(r.out) BY <1>13, <1>14
  <2> QED BY <1>6, <1>15, <1>17, <2>1, <2>2 DEF NamesOrders
<1>18. NamesOrders(m, c) BY <1>14, <1>16, <1>17 DEF NamesOrders
<1>19. \A t \in Slots \ {s} : c.m.slots[t] = r.m.slots[t] BY <1>4, <1>5, <1>8, <1>9
<1>20. c.m.slots[s].price = price /\ c.m.slots[s].qty = qty BY <1>4, <1>5, <1>7, <1>8
<1>21. c.m.nextId = r.m.nextId + 1 BY <1>5, <1>8, <1>9
<1> QED BY <1>12, <1>14, <1>18, <1>19, <1>20, <1>21 DEF c

(* The orders placed since m fit: with the other level of its side, each is *)
(* within the headroom it was sized from, and within the cap on one order.  *)
Fitted(m, r, pos, lim, md) ==
  \A s \in Slots : r.m.slots[s].id >= m.nextId =>
    /\ Mark(r.m.slots[s], md) + Mark(r.m.slots[OtherLevel(s)], md)
         <= Headroom(m, pos, lim, md, s[1])
    /\ MaxOrderDollar # NoCap => r.m.slots[s].qty * r.m.slots[s].price <= MaxOrderDollar

LEMMA FloorFits ==
  ASSUME NEW q \in Nat, NEW b \in Nat, NEW p \in Nat \ {0}, q <= b \div p
  PROVE  q * p <= b
<1>1. b \div p \in Nat OBVIOUS
<1>2. (b \div p) * p <= b
  <2>1. b = p * (b \div p) + (b % p) /\ b % p \in Nat OBVIOUS
  <2>2. (b \div p) * p = p * (b \div p) BY <1>1
  <2>3. p * (b \div p) \in Nat BY <1>1
  <2> QED BY <2>1, <2>2, <2>3
<1>3. \A x, y \in Nat : x <= y => x * p <= y * p
  <2> SUFFICES ASSUME NEW x \in Nat, NEW y \in Nat, x <= y PROVE x * p <= y * p OBVIOUS
  <2>1. PICK z \in Nat : y = x + z
    <3>1. y - x \in Nat /\ y = x + (y - x) OBVIOUS
    <3> QED BY <3>1
  <2>2. y * p = x * p + z * p BY <2>1
  <2>3. z * p \in Nat /\ x * p \in Nat OBVIOUS
  <2> QED BY <2>2, <2>3
<1>4. q * p <= (b \div p) * p BY <1>1, <1>3
<1>5. q * p \in Nat /\ (b \div p) * p \in Nat BY <1>1
<1> QED BY <1>2, <1>4, <1>5

(* size_order: what it returns fits the budget at the worse of the order's  *)
(* price and the mid, and the cap at its price.                             *)
LEMMA SizeOrderFits ==
  ASSUME NEW q \in Quote, NEW budget \in Nat, NEW price \in Nat \ {0}
  PROVE  /\ SizeOrder(q, budget, price) * MaxOf(price, q.mid) <= budget
         /\ MaxOrderDollar # NoCap =>
              SizeOrder(q, budget, price) * price <= MaxOrderDollar
<1> DEFINE mx == MaxOf(price, q.mid)
           lots == SizeOrder(q, budget, price)
           a == budget \div mx
           b == MaxOrderDollar \div price
<1>1. q.qty \in Nat \ {0} /\ q.mid \in Nat \ {0} BY DEF Quote
<1>2. mx \in Nat \ {0} BY <1>1 DEF MaxOf
<1>3. MaxOrderDollar \in Nat BY ConfigAssumption
<1>4. a \in Nat /\ b \in Nat
  <2> HIDE DEF mx
  <2> QED BY <1>2, <1>3
<1>5. lots \in Nat BY SizeOrderType
<1>6. lots <= a /\ (MaxOrderDollar # NoCap => lots <= b)
  <2>1. \/ lots = 0
        \/ lots = MinOf(q.qty, a) /\ MaxOrderDollar = NoCap
        \/ lots = MinOf(MinOf(q.qty, a), b)
    BY DEF SizeOrder
  <2> HIDE DEF a, b, lots
  <2> QED BY <1>1, <1>4, <2>1 DEF MinOf
<1>7. lots * mx <= budget
  <2> HIDE DEF lots, mx
  <2> QED BY <1>2, <1>5, <1>6, FloorFits
<1>8. MaxOrderDollar # NoCap => lots * price <= MaxOrderDollar
  <2> HIDE DEF lots
  <2> QED BY <1>3, <1>5, <1>6, FloorFits
<1> QED BY <1>7, <1>8

LEMMA MarkType ==
  ASSUME NEW o \in Order, NEW md \in Nat
  PROVE  Mark(o, md) \in Nat
<1>1. o.qty \in Nat /\ o.price \in Nat BY OrderTypes
<1>2. MaxOf(o.price, md) \in Nat BY <1>1 DEF MaxOf
<1> QED BY <1>1, <1>2 DEF Mark

LEMMA OtherLevelSlot ==
  ASSUME NEW s \in Slots
  PROVE  /\ OtherLevel(s) \in Slots /\ OtherLevel(s) # s /\ OtherLevel(s)[1] = s[1]
         /\ \A t \in Slots : OtherLevel(t) = s => t = OtherLevel(s)
<1>1. PICK sd \in Sides, l \in Levels : s = <<sd, l>> BY DEF Slots
<1>2. OtherLevel(s) = <<sd, 1 - l>> BY <1>1 DEF OtherLevel
<1>3. 1 - l \in Levels /\ 1 - l # l BY DEF Levels
<1>4. ASSUME NEW t \in Slots, OtherLevel(t) = s PROVE t = OtherLevel(s)
  <2>1. PICK td \in Sides, k \in Levels : t = <<td, k>> BY DEF Slots
  <2>2. OtherLevel(t) = <<td, 1 - k>> BY <2>1 DEF OtherLevel
  <2>3. td = sd /\ 1 - k = l BY <1>1, <1>4, <2>2
  <2>4. k = 1 - l BY <2>3 DEF Levels
  <2> QED BY <1>2, <2>1, <2>3, <2>4
<1> QED BY <1>1, <1>2, <1>3, <1>4 DEF Slots

LEMMA HeadroomType ==
  ASSUME NEW m \in Manager, NEW pos \in Int, NEW lim \in Int, NEW md \in Nat, NEW side
  PROVE  Headroom(m, pos, lim, md, side) \in Int
<1>1. m.baseline \in Int BY ManagerTypes
<1>2. SignOf(side) \in Int BY DEF SignOf
<1>3. lim - SignOf(side) * pos * md \in Int BY <1>2
<1>4. \A b \in Int : AbsMaxDollar - SignOf(side) * (pos - b) * md \in Int
  BY <1>2, ConfigAssumption
<1> QED BY <1>1, <1>3, <1>4 DEF Headroom, MinOf

LEMMA CancelSlotFitted ==
  ASSUME NEW m \in Manager, NEW r, NEW c, NEW pos, NEW lim, NEW md,
         Fitted(m, r, pos, lim, md),
         \A t \in Slots : SameButState(r.m.slots[t], c.m.slots[t])
  PROVE  Fitted(m, c, pos, lim, md)
  BY OtherLevelSlot DEF Fitted, SameButState, Mark

LEMMA PlacePendingFitted ==
  ASSUME NEW m \in Manager, NEW r, Placing(m, r), NEW s \in Slots, NEW c,
         NEW q \in Quote, NEW pos \in Int, NEW lim \in Int,
         Fitted(m, r, pos, lim, q.mid),
         c.m \in Manager, \A t \in Slots \ {s} : c.m.slots[t] = r.m.slots[t],
         c.m.slots[s].price = q.price[s],
         c.m.slots[s].qty = SizeOrder(q, Budget(r.m, pos, lim, q.mid, s), q.price[s]),
         c.m.slots[s].qty > 0
  PROVE  Fitted(m, c, pos, lim, q.mid)
<1> DEFINE u == OtherLevel(s)
           md == q.mid
           budget == Budget(r.m, pos, lim, md, s)
           room == Headroom(m, pos, lim, md, s[1])
           n == c.m.slots[s]
           o == r.m.slots[u]
<1>1. u \in Slots /\ u # s /\ u[1] = s[1] /\ \A t \in Slots : OtherLevel(t) = s => t = u
  BY OtherLevelSlot
<1>2. q.price[s] \in Nat \ {0} /\ md \in Nat \ {0} BY DEF Quote
<1>3. r.m \in Manager BY DEF Placing
<1>4. budget \in Nat BY <1>2, <1>3, BudgetType
<1>5. n \in Order /\ o \in Order /\ n.qty \in Nat /\ n.price \in Nat
  BY <1>1, <1>3, ManagerTypes, OrderTypes
<1>6. room \in Int BY <1>2, HeadroomType
<1>7. Mark(n, md) \in Nat /\ Mark(o, md) \in Nat BY <1>2, <1>5, MarkType
<1>8. budget = MaxOf(0, room - Mark(o, md))
  BY DEF Budget, Headroom, Placing
<1>9. /\ Mark(n, md) <= budget
      /\ MaxOrderDollar # NoCap => n.qty * n.price <= MaxOrderDollar
  BY <1>2, <1>4, SizeOrderFits DEF Mark
<1>10. Mark(n, md) > 0
  <2>1. MaxOf(n.price, md) \in Nat \ {0} BY <1>2, <1>5 DEF MaxOf
  <2> HIDE DEF n
  <2> QED BY <1>5, <2>1 DEF Mark, n
<1> HIDE DEF budget, room, n, o, u, md
<1>11. Mark(n, md) + Mark(o, md) <= room
  BY <1>6, <1>7, <1>8, <1>9, <1>10 DEF MaxOf
<1>12. c.m.slots[s] = n /\ c.m.slots[u] = o BY <1>1 DEF n, o
<1>13. ASSUME NEW t \in Slots, c.m.slots[t].id >= m.nextId
       PROVE  /\ Mark(c.m.slots[t], md) + Mark(c.m.slots[OtherLevel(t)], md)
                   <= Headroom(m, pos, lim, md, t[1])
              /\ MaxOrderDollar # NoCap => c.m.slots[t].qty * c.m.slots[t].price <= MaxOrderDollar
  <2>1. CASE t = s BY <1>9, <1>11, <1>12, <2>1 DEF u, room
  <2>2. CASE t = u
    <3>1. OtherLevel(t) = s BY <2>2, <1>1, OtherLevelSlot DEF u
    <3>2. c.m.slots[t] = r.m.slots[t] BY <1>1, <2>2
    <3>3. MaxOrderDollar # NoCap => c.m.slots[t].qty * c.m.slots[t].price <= MaxOrderDollar
      BY <1>13, <3>2 DEF Fitted, md
    <3> QED BY <1>1, <1>7, <1>11, <1>12, <2>2, <3>1, <3>3 DEF room
  <2>3. CASE t # s /\ t # u
    <3>1. OtherLevel(t) \in Slots \ {s} BY <1>1, <2>3, OtherLevelSlot
    <3> QED BY <1>13, <2>3, <3>1 DEF Fitted, md
  <2> QED BY <2>1, <2>2, <2>3
<1> QED BY <1>13 DEF Fitted, md

Quoted(m, r, pos, lim, md) ==
  Placing(m, r) /\ NamesOrders(m, r) /\ Fitted(m, r, pos, lim, md)

LEMMA QuoteSlotPlaces ==
  ASSUME NEW m \in Manager, m.nextId > 0, NEW q \in Quote, NEW pos \in Int, NEW lim \in Int,
         NEW r, Quoted(m, r, pos, lim, q.mid), NEW s \in Slots, NEW old
  PROVE  /\ Quoted(m, QuoteSlot(r, q, pos, lim, s, old), pos, lim, q.mid)
         /\ Len(QuoteSlot(r, q, pos, lim, s, old).out) <= Len(r.out) + 1
<1> DEFINE budget == Budget(r.m, pos, lim, q.mid, s)
           price == q.price[s]
           qty == SizeOrder(q, budget, price)
           tooOld == s \in old
           p == PlacePending(r, s, price, qty)
           cc == CancelSlot(r, s, "Cancel")
           cr == CancelSlot(r, s, "Replace")
           c == QuoteSlot(r, q, pos, lim, s, old)
<1>1. price \in Nat \ {0} /\ q.mid \in Nat BY DEF Quote
<1>2. r.m \in Manager /\ r.m.nextId \in Nat /\ m.nextId \in Nat /\ r.m.nextId > 0
      /\ Len(r.out) \in Nat
  <2>1. r.m \in Manager BY DEF Quoted, Placing
  <2> QED BY <2>1, ManagerTypes DEF Quoted, Placing, NamesOrders
<1>3. budget \in Nat BY <1>1, <1>2, BudgetType
<1>4. qty \in Nat
  <2> HIDE DEF budget, price
  <2> QED BY <1>1, <1>3, SizeOrderType
<1>5. \/ c = r
      \/ Used(r.m, s) /\ c = cc
      \/ Used(r.m, s) /\ c = cr
      \/ ~Used(r.m, s) /\ qty > 0 /\ c = p
  <2>1. \/ c = r
        \/ Used(r.m, s) /\ c = cc
        \/ qty > 0 /\ c = ProcessSideLevel(r, s, price, qty, tooOld)
    <3> HIDE DEF cc, qty, budget
    <3> QED BY DEF QuoteSlot, cc, qty, budget
  <2>2. ProcessSideLevel(r, s, price, qty, tooOld) = IF ~Used(r.m, s) THEN p ELSE
          IF r.m.slots[s].state = "Live"
             /\ (ShouldReprice(r.m.slots[s].price, price) \/ tooOld \/ r.m.slots[s].qty # qty)
          THEN cr ELSE r
    BY DEF ProcessSideLevel
  <2> HIDE DEF c, cc, cr, p, qty, price, tooOld, budget
  <2> QED BY <2>1, <2>2
<1>6. CASE c = r BY <1>2, <1>6
<1>7. ASSUME NEW kind \in {"Cancel", "Replace"}, Used(r.m, s)
      PROVE  /\ Quoted(m, CancelSlot(r, s, kind), pos, lim, q.mid)
             /\ Len(CancelSlot(r, s, kind).out) = Len(r.out) + 1
  <2> DEFINE x == CancelSlot(r, s, kind)
  <2>1. /\ Placing(m, x) /\ NamesOrders(m, x) /\ Len(x.out) = Len(r.out) + 1
        /\ \A t \in Slots : SameButState(r.m.slots[t], x.m.slots[t])
    BY <1>7, CancelSlotPlaces DEF Quoted
  <2> HIDE DEF x
  <2>2. Fitted(m, x, pos, lim, q.mid) BY <2>1, CancelSlotFitted DEF Quoted
  <2> QED BY <2>1, <2>2 DEF Quoted, x
<1>8. CASE ~Used(r.m, s) /\ qty > 0 /\ c = p
  <2>1. /\ Placing(m, p) /\ NamesOrders(m, p) /\ Len(p.out) = Len(r.out) + 1
        /\ \A t \in Slots \ {s} : p.m.slots[t] = r.m.slots[t]
        /\ p.m.slots[s].price = price /\ p.m.slots[s].qty = qty
    <3> HIDE DEF qty, price, p
    <3>1. p = PlacePending(r, s, price, qty) BY DEF p
    <3>2. /\ Placing(m, r) /\ NamesOrders(m, r) /\ ~Used(r.m, s) /\ r.m.nextId > 0
          /\ price \in Nat /\ qty \in Nat
      BY <1>1, <1>2, <1>4, <1>8 DEF Quoted
    <3> QED BY <1>8, <3>1, <3>2, PlacePendingPlaces
  <2>2. p.m \in Manager BY <2>1 DEF Placing
  <2> HIDE DEF p
  <2>3. Fitted(m, p, pos, lim, q.mid) BY <1>8, <2>1, <2>2, PlacePendingFitted DEF Quoted
  <2>4. Quoted(m, p, pos, lim, q.mid) BY <2>1, <2>3 DEF Quoted
  <2> HIDE DEF c
  <2> QED BY <1>2, <1>8, <2>1, <2>4 DEF c
<1> HIDE DEF c
<1> QED BY <1>5, <1>6, <1>7, <1>8 DEF c

LEMMA CancelIfOpenPlaces ==
  ASSUME NEW m \in Manager, NEW r, Placing(m, r), NamesOrders(m, r), NEW s \in Slots
  PROVE  /\ Placing(m, CancelIfOpen(r, s)) /\ NamesOrders(m, CancelIfOpen(r, s))
         /\ CancelIfOpen(r, s).m.nextId = r.m.nextId
         /\ Len(CancelIfOpen(r, s).out) <= Len(r.out) + 1
<1>1. Len(r.out) \in Nat BY DEF NamesOrders
<1>2. CASE Used(r.m, s) /\ r.m.slots[s].state # "Canceling"
  <2>1. CancelIfOpen(r, s) = CancelSlot(r, s, "Cancel") BY <1>2 DEF CancelIfOpen
  <2> QED BY <1>1, <1>2, <2>1, CancelSlotPlaces
<1>3. CASE ~(Used(r.m, s) /\ r.m.slots[s].state # "Canceling")
  <2>1. CancelIfOpen(r, s) = r BY <1>3 DEF CancelIfOpen
  <2> QED BY <1>1, <2>1
<1> QED BY <1>2, <1>3

LEMMA PlacingNothing ==
  ASSUME NEW m \in Manager
  PROVE  /\ Placing(m, [m |-> m, out |-> << >>])
         /\ NamesOrders(m, [m |-> m, out |-> << >>])
<1> DEFINE r == [m |-> m, out |-> << >>]
<1>1. r.m = m /\ r.out = << >> /\ m.nextId \in Nat BY ManagerTypes
<1>2. r.out \in Seq(Decision) /\ Len(r.out) = 0 BY <1>1
<1> HIDE DEF r
<1>3. Placing(m, r) BY <1>1 DEF Placing, SameButState
<1>4. NamesOrders(m, r) BY <1>2 DEF NamesOrders
<1> QED BY <1>3, <1>4 DEF r

(* A quote places into free slots while nothing stops it; with an unusable  *)
(* limit it cancels under a raised risk pause; otherwise it does nothing.   *)
LEMMA OnQuotePlaces ==
  ASSUME NEW m \in Manager, m.nextId > 0, IdsInv(m), NEW q \in Quote,
         NEW pos \in Int, NEW lim \in Int, NEW old
  PROVE  /\ NamesOrders(m, OnQuote(m, q, pos, lim, old))
         /\ Len(OnQuote(m, q, pos, lim, old).out) <= 4
         /\ \/ /\ ~Stopped(m)
               /\ Placing(m, OnQuote(m, q, pos, lim, old))
               /\ Fitted(m, OnQuote(m, q, pos, lim, old), pos, lim, q.mid)
            \/ /\ Placing(SetPause(m, "RiskData"), OnQuote(m, q, pos, lim, old))
               /\ OnQuote(m, q, pos, lim, old).m.nextId = m.nextId
            \/ /\ OnQuote(m, q, pos, lim, old).m = m
               /\ OnQuote(m, q, pos, lim, old).out = << >>
<1> DEFINE z == OnQuote(m, q, pos, lim, old)
           r == [m |-> m, out |-> << >>]
           k == SetPause(m, "RiskData")
           c == [r EXCEPT !.m = k]
           b == QuoteSide(r, q, pos, lim, "Buy", old)
           e == QuoteSide(b, q, pos, lim, "Sell", old)
<1>1. \A side \in Sides : <<side, 0>> \in Slots /\ <<side, 1>> \in Slots
  BY DEF Slots, Levels
<1>2. "Buy" \in Sides /\ "Sell" \in Sides BY DEF Sides
<1>3. r.m = m /\ r.out = << >> /\ Len(r.out) = 0 OBVIOUS
<1>4. \/ z = r
      \/ ~Stopped(m) /\ z = e
      \/ z = CancelExposure(c)
  BY DEF OnQuote, Stopped
<1>5. CASE z = r
  <2>1. NamesOrders(m, z) BY <1>5, PlacingNothing
  <2> HIDE DEF z, r
  <2> QED BY <1>3, <1>5, <2>1 DEF z
<1>6. CASE ~Stopped(m) /\ z = e
  <2>1. Quoted(m, r, pos, lim, q.mid)
    <3>1. \A s \in Slots : ~(m.slots[s].id >= m.nextId)
      <4> SUFFICES ASSUME NEW s \in Slots PROVE ~(m.slots[s].id >= m.nextId) OBVIOUS
      <4>1. m.slots[s].id \in Nat /\ m.nextId \in Nat BY ManagerTypes, OrderTypes
      <4>2. m.slots[s].id # 0 => m.slots[s].id < m.nextId BY DEF IdsInv, Used
      <4> QED BY <4>1, <4>2
    <3>2. Fitted(m, r, pos, lim, q.mid) BY <1>3, <3>1 DEF Fitted
    <3> QED BY <3>2, PlacingNothing DEF Quoted
  <2>2. ASSUME NEW x, Quoted(m, x, pos, lim, q.mid), NEW side \in Sides
        PROVE  /\ Quoted(m, QuoteSide(x, q, pos, lim, side, old), pos, lim, q.mid)
               /\ Len(QuoteSide(x, q, pos, lim, side, old).out) <= Len(x.out) + 2
    <3> DEFINE x0 == QuoteSlot(x, q, pos, lim, <<side, 0>>, old)
               x1 == QuoteSlot(x0, q, pos, lim, <<side, 1>>, old)
    <3>1. Quoted(m, x0, pos, lim, q.mid) /\ Len(x0.out) <= Len(x.out) + 1
      BY <1>1, <2>2, QuoteSlotPlaces
    <3>2. Quoted(m, x1, pos, lim, q.mid) /\ Len(x1.out) <= Len(x0.out) + 1
      <4> HIDE DEF x0
      <4> QED BY <1>1, <3>1, QuoteSlotPlaces
    <3>3. QuoteSide(x, q, pos, lim, side, old) = x1 BY DEF QuoteSide
    <3>4. Len(x.out) \in Nat /\ Len(x0.out) \in Nat /\ Len(x1.out) \in Nat
      <4> HIDE DEF x0, x1
      <4> QED BY <2>2, <3>1, <3>2 DEF Quoted, NamesOrders
    <3> HIDE DEF x0, x1
    <3> QED BY <3>1, <3>2, <3>3, <3>4
  <2>3. Quoted(m, b, pos, lim, q.mid) /\ Len(b.out) <= 2
    <3> HIDE DEF r
    <3> QED BY <1>2, <1>3, <2>1, <2>2
  <2>4. Quoted(m, e, pos, lim, q.mid) /\ Len(e.out) <= Len(b.out) + 2
    <3> HIDE DEF b
    <3> QED BY <1>2, <2>2, <2>3
  <2>5. Len(b.out) \in Nat /\ Len(e.out) \in Nat
    <3> HIDE DEF b, e
    <3> QED BY <2>3, <2>4 DEF Quoted, NamesOrders
  <2> HIDE DEF b, e, z
  <2> QED BY <1>6, <2>3, <2>4, <2>5 DEF Quoted, z
<1>7. CASE z = CancelExposure(c)
  <2>1. SameOrders(m, k) /\ k \in Manager BY SetPauseEffect DEF SameOrders, Reasons
  <2>2. c = [m |-> k, out |-> << >>] OBVIOUS
  <2>3. c.m = k /\ c.out = << >> /\ Len(c.out) = 0 BY <2>2
  <2>4. Placing(k, c) /\ NamesOrders(k, c) BY <2>1, <2>2, PlacingNothing
  <2> DEFINE b0 == CancelIfOpen(c, <<"Buy", 0>>)
             b1 == CancelIfOpen(b0, <<"Buy", 1>>)
             s0 == CancelIfOpen(b1, <<"Sell", 0>>)
             s1 == CancelIfOpen(s0, <<"Sell", 1>>)
  <2>5. z = s1 BY <1>7 DEF CancelExposure
  <2> HIDE DEF z, c, k
  <2>6. /\ Placing(k, b0) /\ NamesOrders(k, b0) /\ b0.m.nextId = c.m.nextId
        /\ Len(b0.out) <= Len(c.out) + 1
    BY <1>1, <1>2, <2>1, <2>4, CancelIfOpenPlaces
  <2> HIDE DEF b0
  <2>7. /\ Placing(k, b1) /\ NamesOrders(k, b1) /\ b1.m.nextId = b0.m.nextId
        /\ Len(b1.out) <= Len(b0.out) + 1
    BY <1>1, <1>2, <2>1, <2>6, CancelIfOpenPlaces
  <2> HIDE DEF b1
  <2>8. /\ Placing(k, s0) /\ NamesOrders(k, s0) /\ s0.m.nextId = b1.m.nextId
        /\ Len(s0.out) <= Len(b1.out) + 1
    BY <1>1, <1>2, <2>1, <2>7, CancelIfOpenPlaces
  <2> HIDE DEF s0
  <2>9. /\ Placing(k, s1) /\ NamesOrders(k, s1) /\ s1.m.nextId = s0.m.nextId
        /\ Len(s1.out) <= Len(s0.out) + 1
    BY <1>1, <1>2, <2>1, <2>8, CancelIfOpenPlaces
  <2> HIDE DEF s1
  <2>10. /\ Len(c.out) \in Nat /\ Len(b0.out) \in Nat /\ Len(b1.out) \in Nat
         /\ Len(s0.out) \in Nat /\ Len(s1.out) \in Nat
    <3>1. \A j, x : NamesOrders(j, x) => Len(x.out) \in Nat BY DEF NamesOrders
    <3> QED BY <2>4, <2>6, <2>7, <2>8, <2>9, <3>1
  <2>11. Len(s1.out) <= 4 BY <2>3, <2>6, <2>7, <2>8, <2>9, <2>10
  <2>12. s1.m.nextId = m.nextId BY <2>1, <2>3, <2>6, <2>7, <2>8, <2>9 DEF SameOrders
  <2>13. NamesOrders(m, s1) BY <2>1, <2>9 DEF NamesOrders, SameOrders
  <2> QED BY <2>5, <2>9, <2>11, <2>12, <2>13 DEF z, k
<1> HIDE DEF z
<1> QED BY <1>4, <1>5, <1>6, <1>7 DEF z

LEMMA PlacingSafe ==
  ASSUME NEW m, SafeInv(m), m.nextId > 0, NEW r, Placing(m, r)
  PROVE  SafeInv(r.m)
<1>1. m \in Manager /\ r.m \in Manager BY DEF SafeInv, Placing
<1>2. m.nextId \in Nat /\ \A s \in Slots : r.m.slots[s].id \in Nat
  BY <1>1, ManagerTypes, OrderTypes
<1>3. BareInv(r.m)
  BY <1>2 DEF SafeInv, Placing, BareInv, Used, SameButState
<1>4. BoundInv(r.m) BY DEF SafeInv, Placing, BoundInv, SameButState
<1>5. BreakerInv(r.m) BY DEF SafeInv, Placing, BreakerInv
<1>6. StuckInv(r.m)
  BY DEF SafeInv, Placing, StuckInv, SameButState, MaxCancelFailures
<1> QED BY <1>1, <1>3, <1>4, <1>5, <1>6 DEF SafeInv

(* A quote that hands out no id keeps every order.                          *)
LEMMA PlacingNoneHolds ==
  ASSUME NEW m \in Manager, NEW r, Placing(m, r), r.m.nextId = m.nextId
  PROVE  /\ Holds(m, r.m)
         /\ \A s \in Slots : SameButState(m.slots[s], r.m.slots[s])
<1>1. m.nextId \in Nat /\ \A s \in Slots : r.m.slots[s].id \in Nat
  BY ManagerTypes, OrderTypes DEF Placing
<1>2. \A s \in Slots : SameButState(m.slots[s], r.m.slots[s])
  BY <1>1 DEF Placing
<1> QED BY <1>2 DEF Placing, Holds, SameButState

----------------------------------------------------------------------------
(* One quote settles.  A slot meets the quote when it holds what sizing     *)
(* would ask for it now, or nothing when sizing asks nothing; levels that   *)
(* are not quoted meet it as they are.                                      *)
Wanted(m, q, pos, lim, s) == SizeOrder(q, Budget(m, pos, lim, q.mid, s), q.price[s])

IsQuoted(q, s) == ~(s[2] >= NumLevels \/ s[2] >= q.levels)

Meets(m, q, pos, lim, s) ==
  IsQuoted(q, s) =>
    /\ m.slots[s].qty = Wanted(m, q, pos, lim, s)
    /\ Used(m, s) <=> m.slots[s].qty > 0

(* An order on a quoted level is at the quote's price, and neither being    *)
(* canceled nor waiting for an answer; a free slot holds nothing.           *)
AtPrice(m, q, s) ==
  IsQuoted(q, s) =>
    IF Used(m, s) THEN m.slots[s].state = "Live" /\ m.slots[s].price = q.price[s]
    ELSE m.slots[s].qty = 0

LEMMA FloorFitsBack ==
  ASSUME NEW k \in Nat, NEW b \in Nat, NEW p \in Nat \ {0}, k * p <= b
  PROVE  k <= b \div p
<1> DEFINE d == b \div p
<1>1. d \in Nat /\ b < p * (d + 1)
  <2>1. b = p * (b \div p) + (b % p) /\ b % p \in 0..(p - 1) /\ b \div p \in Nat OBVIOUS
  <2>2. p * (d + 1) = p * d + p BY <2>1
  <2>3. p * d \in Nat BY <2>1
  <2> HIDE DEF d
  <2> QED BY <2>1, <2>2, <2>3 DEF d
<1> HIDE DEF d
<1>2. CASE k > d
  <2>1. PICK z \in Nat : k = d + 1 + z
    <3>1. k - d - 1 \in Nat /\ k = d + 1 + (k - d - 1) BY <1>1, <1>2
    <3> QED BY <3>1
  <2>2. k * p = p * (d + 1) + z * p BY <1>1, <2>1
  <2>3. z * p \in Nat /\ p * (d + 1) \in Nat BY <1>1, <2>1
  <2> QED BY <1>1, <2>2, <2>3
<1> QED BY <1>1, <1>2 DEF d

LEMMA ProductsGrow ==
  ASSUME NEW x \in Nat, NEW y \in Nat, x <= y, NEW p \in Nat
  PROVE  x * p <= y * p
<1>1. PICK z \in Nat : y = x + z
  <2>1. y - x \in Nat /\ y = x + (y - x) OBVIOUS
  <2> QED BY <2>1
<1>2. y * p = x * p + z * p BY <1>1
<1>3. z * p \in Nat /\ x * p \in Nat OBVIOUS
<1> QED BY <1>2, <1>3

(* size_order asks the same of any smaller budget that still pays for it.   *)
LEMMA SizeOrderSame ==
  ASSUME NEW q \in Quote, NEW b \in Nat, NEW c \in Nat, c <= b, NEW price \in Nat \ {0},
         SizeOrder(q, b, price) * MaxOf(price, q.mid) <= c
  PROVE  SizeOrder(q, c, price) = SizeOrder(q, b, price)
<1> DEFINE mx == MaxOf(price, q.mid)
           db == b \div mx
           dc == c \div mx
           cap == MaxOrderDollar \div price
           lots(d) == IF MaxOrderDollar = NoCap THEN MinOf(q.qty, d) ELSE MinOf(MinOf(q.qty, d), cap)
           size(d) == IF lots(d) < MinQty \/ lots(d) * price < MinDollar THEN 0 ELSE lots(d)
<1>1. q.qty \in Nat \ {0} /\ q.mid \in Nat \ {0} BY DEF Quote
<1>2. mx \in Nat \ {0} BY <1>1 DEF MaxOf
<1>3. cap \in Nat /\ MinQty \in Nat /\ MinDollar \in Nat BY ConfigAssumption
<1>4. SizeOrder(q, b, price) = size(db) /\ SizeOrder(q, c, price) = size(dc) BY DEF SizeOrder
<1>5. size(db) * mx <= c BY <1>4
<1> HIDE DEF mx
<1>6. db \in Nat /\ dc \in Nat BY <1>2
<1>7. dc <= db
  <2>1. dc * mx <= c BY <1>2, <1>6, FloorFits
  <2>2. dc * mx \in Nat BY <1>2, <1>6
  <2>3. dc * mx <= b BY <2>1, <2>2
  <2> QED BY <1>2, <1>6, <2>3, FloorFitsBack
<1> HIDE DEF db, dc, cap
<1>8. /\ lots(db) \in Nat /\ lots(dc) \in Nat /\ lots(dc) <= lots(db)
      /\ \A k \in Nat : k <= lots(db) /\ k <= dc => k <= lots(dc)
  BY <1>1, <1>3, <1>6, <1>7 DEF MinOf
<1> HIDE DEF lots
<1>9. CASE size(db) = 0
  <2>1. CASE lots(db) < MinQty
    <3>1. lots(dc) < MinQty BY <1>3, <1>8, <2>1
    <3> QED BY <1>4, <1>9, <3>1
  <2>2. CASE lots(db) * price < MinDollar
    <3>1. lots(dc) * price <= lots(db) * price BY <1>8, ProductsGrow
    <3>2. lots(dc) * price \in Nat /\ lots(db) * price \in Nat BY <1>8
    <3>3. lots(dc) * price < MinDollar BY <1>3, <2>2, <3>1, <3>2
    <3> QED BY <1>4, <1>9, <3>3
  <2>3. CASE lots(db) = 0
    <3>1. lots(dc) = 0 BY <1>8, <2>3
    <3> QED BY <1>4, <1>9, <3>1
  <2> QED BY <1>9, <2>1, <2>2, <2>3
<1>10. CASE size(db) # 0
  <2>1. size(db) = lots(db) /\ ~(lots(db) < MinQty \/ lots(db) * price < MinDollar) BY <1>10
  <2>2. lots(db) <= dc
    <3>1. lots(db) * mx <= c BY <1>5, <2>1
    <3> QED BY <1>2, <1>8, <3>1, FloorFitsBack DEF dc
  <2>3. lots(dc) = lots(db) BY <1>8, <2>2
  <2> QED BY <1>4, <2>1, <2>3
<1> QED BY <1>9, <1>10

(* Only what stands in the slot and beside it decides whether it meets.     *)
Alike(m, n, s) ==
  /\ Used(n, s) <=> Used(m, s)
  /\ n.slots[s].qty = m.slots[s].qty /\ n.slots[s].price = m.slots[s].price

LEMMA MeetsAlike ==
  ASSUME NEW m, NEW n, NEW q, NEW pos, NEW lim, NEW s \in Slots,
         Alike(m, n, s), Alike(m, n, OtherLevel(s)), n.baseline = m.baseline
  PROVE  Meets(n, q, pos, lim, s) <=> Meets(m, q, pos, lim, s)
BY DEF Meets, Wanted, Budget, Headroom, Mark, Alike

LEMMA PlacePendingBare ==
  ASSUME NEW r, r.m \in Manager, r.m.nextId > 0, NEW s \in Slots,
         NEW price \in Nat, NEW qty \in Nat, NEW n, n = PlacePending(r, s, price, qty).m
  PROVE  /\ n \in Manager /\ n.nextId > 0 /\ n.baseline = r.m.baseline
         /\ \A t \in Slots \ {s} : n.slots[t] = r.m.slots[t]
         /\ n.slots[s].id # 0 /\ n.slots[s].price = price /\ n.slots[s].qty = qty
<1> DEFINE m == r.m
           o == [id |-> m.nextId, gen |-> m.gen, oid |-> 0, price |-> price, qty |-> qty,
                 state |-> "Pending", fails |-> 0]
           f == [m.slots EXCEPT ![s] = o]
<1>1. m.nextId \in Nat /\ m.gen \in Nat /\ m.slots \in [Slots -> Order] BY ManagerTypes
<1>2. o \in Order /\ o.id # 0 /\ o.price = price /\ o.qty = qty BY <1>1 DEF Order
<1>3. n = [m EXCEPT !.nextId = m.nextId + 1, !.slots = f]
  BY <1>1 DEF PlacePending, Manager
<1>3a. m \in Manager OBVIOUS
<1>3b. PICK k : k = m.nextId + 1 OBVIOUS
<1>3c. k \in Nat BY <1>1, <1>3b
<1> HIDE DEF o, m
<1>4. f \in [Slots -> Order] /\ f[s] = o /\ \A t \in Slots \ {s} : f[t] = m.slots[t]
  BY <1>1, <1>2
<1> HIDE DEF f
<1>5. n = [m EXCEPT !.nextId = k, !.slots = f] BY <1>3, <1>3b
<1>6. n \in Manager /\ n.nextId = k /\ n.slots = f /\ n.baseline = m.baseline
  BY <1>3a, <1>3c, <1>4, <1>5 DEF Manager
<1> QED BY <1>1, <1>2, <1>3b, <1>4, <1>6 DEF m

(* A live order at the quote's price that meets the quote is left alone.    *)
LEMMA MetSlotStays ==
  ASSUME NEW r, r.m \in Manager, NEW q \in Quote, NEW pos \in Int, NEW lim \in Int,
         NEW s \in Slots, RepriceBps > 0, AtPrice(r.m, q, s), Meets(r.m, q, pos, lim, s)
  PROVE  QuoteSlot(r, q, pos, lim, s, {}) = r
<1> DEFINE o == r.m.slots[s]
           budget == Budget(r.m, pos, lim, q.mid, s)
           price == q.price[s]
           qty == SizeOrder(q, budget, price)
           p == ProcessSideLevel(r, s, price, qty, FALSE)
<1>1. price \in Nat \ {0} /\ q.mid \in Nat BY DEF Quote
<1>2. budget \in Nat BY <1>1, BudgetType
<1>3. QuoteSlot(r, q, pos, lim, s, {}) =
        IF ~IsQuoted(q, s) THEN r
        ELSE IF Used(r.m, s) /\ o.state # "Canceling" /\ (Exceeds(o, budget, q.mid) \/ qty = 0)
        THEN CancelSlot(r, s, "Cancel")
        ELSE IF qty > 0 THEN p ELSE r
  <2>1. (s \in {}) = FALSE OBVIOUS
  <2> QED BY <2>1 DEF QuoteSlot, IsQuoted
<1>4. ASSUME IsQuoted(q, s) PROVE o.qty = qty /\ (Used(r.m, s) <=> o.qty > 0)
  BY <1>4 DEF Meets, Wanted
<1>5. ASSUME IsQuoted(q, s), Used(r.m, s)
      PROVE  qty > 0 /\ ~Exceeds(o, budget, q.mid) /\ p = r
  <2>1. o.state = "Live" /\ o.price = price BY <1>5 DEF AtPrice
  <2>2. qty > 0 /\ o.qty = qty BY <1>4, <1>5
  <2>3. qty * MaxOf(price, q.mid) <= budget
        /\ (MaxOrderDollar # NoCap => qty * price <= MaxOrderDollar)
    BY <1>1, <1>2, SizeOrderFits
  <2>4. qty \in Nat BY <1>1, <1>2, SizeOrderType
  <2> HIDE DEF qty, budget
  <2>5. qty * MaxOf(price, q.mid) \in Nat /\ qty * price \in Nat
    BY <1>1, <2>4 DEF MaxOf
  <2>6. ~Exceeds(o, budget, q.mid)
    BY <1>2, <2>1, <2>2, <2>3, <2>5, ConfigAssumption DEF Exceeds, Mark
  <2>7. ~ShouldReprice(o.price, price)
    <3>1. RepriceBps \in Nat \ {0} BY ConfigAssumption
    <3>2. RepriceBps * price > 0
      <4> DEFINE g == price - 1
                 b == RepriceBps - 1
      <4>1. g \in Nat /\ b \in Nat /\ price = g + 1 /\ RepriceBps = b + 1 BY <1>1, <3>1
      <4> HIDE DEF g, b
      <4>2. RepriceBps * price = b * g + b + g + 1 /\ b * g \in Nat BY <4>1
      <4> QED BY <4>1, <4>2
    <3>3. AbsOf(price - price) * 10000 = 0 BY <1>1 DEF AbsOf
    <3>4. RepriceBps * price \in Nat BY <1>1, <3>1
    <3> QED BY <1>1, <2>1, <3>2, <3>3, <3>4 DEF ShouldReprice
  <2>8. p = r
    <3> HIDE DEF o, price
    <3> QED BY <1>5, <2>2, <2>7 DEF ProcessSideLevel, o
  <2> QED BY <2>2, <2>6, <2>8
<1>6. ASSUME IsQuoted(q, s), ~Used(r.m, s) PROVE ~(qty > 0)
  BY <1>4, <1>6
<1> HIDE DEF qty, budget, p, o
<1> QED BY <1>3, <1>5, <1>6

(* What the quote does to a slot that it does not cancel: it leaves it, or  *)
(* places in it what is asked; either way the slot meets the quote.         *)
LEMMA QuoteSlotMeets ==
  ASSUME NEW r, r.m \in Manager, r.m.nextId > 0, NEW q \in Quote,
         NEW pos \in Int, NEW lim \in Int, NEW s \in Slots, AtPrice(r.m, q, s),
         NEW c, c = QuoteSlot(r, q, pos, lim, s, {}),
         IsQuoted(q, s) => c.m.slots[s].state # "Canceling"
  PROVE  /\ Meets(c.m, q, pos, lim, s)
         /\ \/ c = r
            \/ /\ IsQuoted(q, s) /\ ~Used(r.m, s) /\ c.m \in Manager /\ c.m.nextId > 0
               /\ c.m.baseline = r.m.baseline
               /\ \A t \in Slots \ {s} : c.m.slots[t] = r.m.slots[t]
               /\ Used(c.m, s) /\ c.m.slots[s].price = q.price[s]
               /\ c.m.slots[s].qty > 0
               /\ Mark(c.m.slots[s], q.mid) <= Budget(r.m, pos, lim, q.mid, s)
<1> DEFINE o == r.m.slots[s]
           budget == Budget(r.m, pos, lim, q.mid, s)
           price == q.price[s]
           qty == SizeOrder(q, budget, price)
           pl == PlacePending(r, s, price, qty)
<1>1. price \in Nat \ {0} /\ q.mid \in Nat BY DEF Quote
<1>2. budget \in Nat BY <1>1, BudgetType
<1>3. qty \in Nat BY <1>1, <1>2, SizeOrderType
<1>4. \A kind : CancelSlot(r, s, kind).m.slots[s].state = "Canceling"
  <2>1. r.m.slots \in [Slots -> Order] BY ManagerTypes
  <2> QED BY <2>1 DEF CancelSlot, ToCanceling, Manager, Order
<1>5. IsQuoted(q, s) => c # CancelSlot(r, s, "Cancel") /\ c # CancelSlot(r, s, "Replace")
  BY <1>4
<1>6. c = IF ~IsQuoted(q, s) THEN r
          ELSE IF Used(r.m, s) /\ o.state # "Canceling" /\ (Exceeds(o, budget, q.mid) \/ qty = 0)
          THEN CancelSlot(r, s, "Cancel")
          ELSE IF qty > 0 THEN ProcessSideLevel(r, s, price, qty, FALSE) ELSE r
  <2>1. (s \in {}) = FALSE OBVIOUS
  <2> QED BY <2>1 DEF QuoteSlot, IsQuoted
<1>7. ProcessSideLevel(r, s, price, qty, FALSE) =
        IF ~Used(r.m, s) THEN pl
        ELSE IF o.state = "Live" /\ (ShouldReprice(o.price, price) \/ o.qty # qty)
        THEN CancelSlot(r, s, "Replace") ELSE r
  BY DEF ProcessSideLevel
<1>8. \/ c = r /\ (IsQuoted(q, s) => o.qty = qty /\ (Used(r.m, s) <=> o.qty > 0))
      \/ c = pl /\ IsQuoted(q, s) /\ ~Used(r.m, s) /\ qty > 0
  <2> HIDE DEF qty, budget, price, pl
  <2>1. CASE ~IsQuoted(q, s) BY <1>6, <2>1
  <2>2. CASE IsQuoted(q, s) /\ Used(r.m, s)
    <3>1. o.state = "Live" BY <2>2 DEF o, AtPrice
    <3>2. qty > 0 /\ qty # 0
      <4>1. o.state # "Canceling" BY <3>1
      <4> HIDE DEF o
      <4>2. qty # 0 BY <1>5, <1>6, <2>2, <4>1
      <4> QED BY <1>3, <4>2
    <3>3. c = r /\ o.qty = qty
      <4> HIDE DEF o
      <4> QED BY <1>5, <1>6, <1>7, <2>2, <3>1, <3>2
    <3> QED BY <2>2, <3>2, <3>3
  <2>3. CASE IsQuoted(q, s) /\ ~Used(r.m, s)
    <3>1. o.qty = 0 BY <2>3 DEF o, AtPrice
    <3> HIDE DEF o
    <3>2. CASE qty > 0 BY <1>6, <1>7, <2>3, <3>2
    <3>3. CASE ~(qty > 0) BY <1>3, <1>6, <2>3, <3>1, <3>3
    <3> QED BY <3>2, <3>3
  <2> QED BY <2>1, <2>2, <2>3
<1>9. CASE c = r /\ (IsQuoted(q, s) => o.qty = qty /\ (Used(r.m, s) <=> o.qty > 0))
  BY <1>9 DEF Meets, Wanted
<1>10. CASE c = pl /\ IsQuoted(q, s) /\ ~Used(r.m, s) /\ qty > 0
  <2> DEFINE n == c.m
             x == n.slots[s]
  <2>1. /\ n \in Manager /\ n.nextId > 0 /\ n.baseline = r.m.baseline
        /\ \A t \in Slots \ {s} : n.slots[t] = r.m.slots[t]
        /\ x.id # 0 /\ x.price = price /\ x.qty = qty
    <3> HIDE DEF qty, price
    <3>1. price \in Nat BY <1>1
    <3> QED BY <1>3, <1>10, <3>1, PlacePendingBare
  <2>2. OtherLevel(s) \in Slots \ {s} BY OtherLevelSlot
  <2>3. Budget(n, pos, lim, q.mid, s) = budget
    BY <2>1, <2>2 DEF Budget, Headroom
  <2>4. Meets(n, q, pos, lim, s)
    <3>1. Wanted(n, q, pos, lim, s) = qty BY <2>3 DEF Wanted
    <3> HIDE DEF qty
    <3> QED BY <1>10, <2>1, <3>1 DEF Meets, Used
  <2>5. Mark(x, q.mid) <= budget
    <3>1. qty * MaxOf(price, q.mid) <= budget BY <1>1, <1>2, SizeOrderFits
    <3> QED BY <2>1, <3>1 DEF Mark
  <2> QED BY <1>10, <2>1, <2>4, <2>5 DEF Used
<1> QED BY <1>8, <1>9, <1>10

(* One level of the quote touches its own slot only.                        *)
LEMMA QuoteSlotElsewhere ==
  ASSUME NEW r, r.m \in Manager, r.m.nextId > 0, NEW q \in Quote, NEW pos \in Int, NEW lim \in Int,
         NEW s \in Slots, NEW old, NEW c, c = QuoteSlot(r, q, pos, lim, s, old)
  PROVE  /\ c.m \in Manager /\ c.m.nextId > 0
         /\ \A t \in Slots \ {s} : c.m.slots[t] = r.m.slots[t]
<1> DEFINE qty == SizeOrder(q, Budget(r.m, pos, lim, q.mid, s), q.price[s])
           Kept(x) == /\ x.m \in Manager /\ x.m.nextId > 0
                      /\ \A t \in Slots \ {s} : x.m.slots[t] = r.m.slots[t]
<1>1. r.m.slots \in [Slots -> Order] /\ r.m.slots[s] \in Order BY ManagerTypes
<1>2. q.price[s] \in Nat \ {0} /\ q.mid \in Nat BY DEF Quote
<1>3. qty \in Nat BY <1>2, BudgetType, SizeOrderType
<1>4. ASSUME NEW kind PROVE Kept(CancelSlot(r, s, kind))
  <2>1. PICK o \in Order : o = [r.m.slots[s] EXCEPT !.state = "Canceling"]
    BY <1>1 DEF Order
  <2>2. CancelSlot(r, s, kind).m = [r.m EXCEPT !.slots = [r.m.slots EXCEPT ![s] = o]]
    BY <2>1 DEF CancelSlot, ToCanceling
  <2> QED BY <1>1, <2>1, <2>2 DEF Manager
<1>5. Kept(PlacePending(r, s, q.price[s], qty))
  <2> HIDE DEF qty
  <2> QED BY <1>2, <1>3, PlacePendingBare
<1>6. \/ c = r \/ \E kind : c = CancelSlot(r, s, kind)
      \/ c = PlacePending(r, s, q.price[s], qty)
  BY DEF QuoteSlot, ProcessSideLevel
<1> HIDE DEF Kept, qty
<1>7. Kept(r) BY DEF Kept
<1>8. Kept(c) BY <1>4, <1>5, <1>6, <1>7
<1> QED BY <1>8 DEF Kept

(* An order placed on one level leaves the other level as the quote wants   *)
(* it: it was sized from what the other level had left of the headroom.     *)
LEMMA PlacingMeetsBeside ==
  ASSUME NEW m \in Manager, NEW n \in Manager, NEW q \in Quote, NEW pos \in Int, NEW lim \in Int,
         NEW s \in Slots, Meets(m, q, pos, lim, s),
         IsQuoted(q, s) /\ Used(m, s) => m.slots[s].price = q.price[s],
         n.slots[s] = m.slots[s], n.baseline = m.baseline,
         m.slots[OtherLevel(s)].qty = 0, n.slots[OtherLevel(s)].qty > 0,
         Mark(n.slots[OtherLevel(s)], q.mid) <= Budget(m, pos, lim, q.mid, OtherLevel(s))
  PROVE  Meets(n, q, pos, lim, s)
<1> DEFINE u == OtherLevel(s)
           h == Headroom(m, pos, lim, q.mid, s[1])
           a == Mark(m.slots[s], q.mid)
           e == Mark(n.slots[u], q.mid)
           b == Budget(m, pos, lim, q.mid, s)
           c == Budget(n, pos, lim, q.mid, s)
           price == q.price[s]
           k == SizeOrder(q, b, price)
<1>1. u \in Slots /\ u[1] = s[1] /\ OtherLevel(u) = s
  BY OtherLevelSlot
<1>2. price \in Nat \ {0} /\ q.mid \in Nat \ {0} BY DEF Quote
<1>3. /\ m.slots[s] \in Order /\ m.slots[u] \in Order /\ n.slots[u] \in Order
      /\ n.slots[u].qty \in Nat /\ n.slots[u].price \in Nat
      /\ m.slots[u].price \in Nat /\ m.slots[s].qty \in Nat
  BY <1>1, ManagerTypes, OrderTypes
<1>4. h \in Int /\ a \in Nat /\ e \in Nat BY <1>2, <1>3, HeadroomType, MarkType
<1>5. e > 0
  <2>1. MaxOf(n.slots[u].price, q.mid) \in Nat \ {0} BY <1>2, <1>3 DEF MaxOf
  <2>2. PICK x \in Nat, y \in Nat \ {0} :
          x = n.slots[u].qty /\ y = MaxOf(n.slots[u].price, q.mid)
    BY <1>3, <2>1
  <2>3. e = x * y /\ x > 0 BY <2>2 DEF Mark
  <2>4. x * y > 0
    <3> DEFINE f == x - 1
               g == y - 1
    <3>1. f \in Nat /\ g \in Nat /\ x = f + 1 /\ y = g + 1 BY <2>2, <2>3
    <3> HIDE DEF f, g
    <3>2. x * y = f * g + f + g + 1 /\ f * g \in Nat BY <3>1
    <3> QED BY <3>1, <3>2
  <2> QED BY <2>3, <2>4
<1>6. b = MaxOf(0, h - Mark(m.slots[u], q.mid)) BY DEF Budget
<1>7. Mark(m.slots[u], q.mid) = 0
  <2>1. MaxOf(m.slots[u].price, q.mid) \in Nat BY <1>2, <1>3 DEF MaxOf
  <2> QED BY <2>1 DEF Mark
<1>8. c = MaxOf(0, h - e) BY DEF Budget, Headroom
<1>9. e <= MaxOf(0, h - a) BY <1>1 DEF Budget
<1>10. /\ b \in Nat /\ c \in Nat /\ c <= b
       /\ a <= c
  <2> HIDE DEF a, b, c, e, h
  <2> QED BY <1>4, <1>5, <1>6, <1>7, <1>8, <1>9 DEF MaxOf
<1>11. ASSUME IsQuoted(q, s)
       PROVE  k * MaxOf(price, q.mid) <= c /\ m.slots[s].qty = k /\ (Used(m, s) <=> k > 0)
  <2>1. m.slots[s].qty = k /\ (Used(m, s) <=> k > 0) BY <1>11 DEF Meets, Wanted
  <2>2. CASE Used(m, s)
    <3>1. a = k * MaxOf(price, q.mid) BY <1>11, <2>1, <2>2 DEF Mark
    <3> QED BY <1>10, <2>1, <3>1
  <2>3. CASE ~Used(m, s)
    <3>1. k = 0
      <4>1. k \in Nat BY <1>3, <2>1
      <4> QED BY <2>1, <2>3, <4>1
    <3>2. MaxOf(price, q.mid) \in Nat BY <1>2 DEF MaxOf
    <3>3. k * MaxOf(price, q.mid) = 0
      <4> HIDE DEF k
      <4> QED BY <3>1, <3>2
    <3> QED BY <1>10, <2>1, <3>3
  <2> QED BY <2>2, <2>3
<1>12. ASSUME IsQuoted(q, s) PROVE SizeOrder(q, c, price) = k
  BY <1>2, <1>10, <1>11, <1>12, SizeOrderSame
<1> QED BY <1>11, <1>12 DEF Meets, Wanted, Used

(* Both levels of a side, one after the other.                              *)
LEMMA QuoteSideMeets ==
  ASSUME NEW r, r.m \in Manager, r.m.nextId > 0, NEW q \in Quote,
         NEW pos \in Int, NEW lim \in Int, NEW side \in Sides,
         \A s \in Slots : s[1] = side => AtPrice(r.m, q, s),
         NEW c, c = QuoteSide(r, q, pos, lim, side, {}),
         \A s \in Slots : s[1] = side /\ IsQuoted(q, s) => c.m.slots[s].state # "Canceling"
  PROVE  /\ c.m \in Manager /\ c.m.nextId > 0 /\ c.m.baseline = r.m.baseline
         /\ \A s \in Slots : s[1] # side => c.m.slots[s] = r.m.slots[s]
         /\ \A s \in Slots : s[1] = side => Meets(c.m, q, pos, lim, s)
         /\ \A s \in Slots :
              s[1] = side /\ IsQuoted(q, s) /\ Used(c.m, s) => c.m.slots[s].price = q.price[s]
<1> DEFINE s0 == <<side, 0>>
           s1 == <<side, 1>>
           b == QuoteSlot(r, q, pos, lim, s0, {})
<1>1. /\ s0 \in Slots /\ s1 \in Slots /\ s0 # s1 /\ s0[1] = side /\ s1[1] = side
      /\ OtherLevel(s0) = s1 /\ OtherLevel(s1) = s0
      /\ \A s \in Slots : s[1] = side => s \in {s0, s1}
  BY DEF Slots, Levels, OtherLevel
<1>2. c = QuoteSlot(b, q, pos, lim, s1, {}) BY DEF QuoteSide
<1> HIDE DEF s0, s1
<1>3. PICK x : x = b OBVIOUS
<1>4. IsQuoted(q, s0) => x.m.slots[s0].state # "Canceling"
  <2>1. x.m \in Manager /\ x.m.nextId > 0 BY <1>1, <1>3, QuoteSlotElsewhere
  <2>2. \A t \in Slots \ {s1} : c.m.slots[t] = x.m.slots[t]
    BY <1>1, <1>2, <1>3, <2>1, QuoteSlotElsewhere
  <2> QED BY <1>1, <2>2
<1>5. /\ Meets(x.m, q, pos, lim, s0)
      /\ \/ x = r
         \/ /\ IsQuoted(q, s0) /\ ~Used(r.m, s0) /\ x.m \in Manager /\ x.m.nextId > 0
            /\ x.m.baseline = r.m.baseline
            /\ \A t \in Slots \ {s0} : x.m.slots[t] = r.m.slots[t]
            /\ Used(x.m, s0) /\ x.m.slots[s0].price = q.price[s0]
  BY <1>1, <1>3, <1>4, QuoteSlotMeets
<1>6. /\ x.m \in Manager /\ x.m.nextId > 0 /\ x.m.baseline = r.m.baseline
      /\ \A t \in Slots \ {s0} : x.m.slots[t] = r.m.slots[t]
      /\ IsQuoted(q, s0) /\ Used(x.m, s0) => x.m.slots[s0].price = q.price[s0]
  BY <1>1, <1>5 DEF AtPrice
<1>7. AtPrice(x.m, q, s1) BY <1>1, <1>6 DEF AtPrice, Used
<1>8. /\ Meets(c.m, q, pos, lim, s1)
      /\ \/ c = x
         \/ /\ IsQuoted(q, s1) /\ ~Used(x.m, s1) /\ c.m \in Manager /\ c.m.nextId > 0
            /\ c.m.baseline = x.m.baseline
            /\ \A t \in Slots \ {s1} : c.m.slots[t] = x.m.slots[t]
            /\ Used(c.m, s1) /\ c.m.slots[s1].price = q.price[s1]
            /\ c.m.slots[s1].qty > 0
            /\ Mark(c.m.slots[s1], q.mid) <= Budget(x.m, pos, lim, q.mid, s1)
  BY <1>1, <1>2, <1>3, <1>6, <1>7, QuoteSlotMeets
<1>9. /\ c.m \in Manager /\ c.m.nextId > 0 /\ c.m.baseline = r.m.baseline
      /\ \A t \in Slots \ {s1} : c.m.slots[t] = x.m.slots[t]
      /\ IsQuoted(q, s1) /\ Used(c.m, s1) => c.m.slots[s1].price = q.price[s1]
  BY <1>6, <1>7, <1>8 DEF AtPrice
<1>10. Meets(c.m, q, pos, lim, s0)
  <2>1. CASE c = x BY <1>5, <2>1
  <2>2. CASE /\ IsQuoted(q, s1) /\ ~Used(x.m, s1) /\ c.m.slots[s1].qty > 0
             /\ Mark(c.m.slots[s1], q.mid) <= Budget(x.m, pos, lim, q.mid, s1)
    <3>1. x.m.slots[s1].qty = 0 /\ c.m.slots[s0] = x.m.slots[s0]
          /\ c.m.baseline = x.m.baseline
      BY <1>1, <1>6, <1>7, <1>9, <2>2 DEF AtPrice
    <3> QED BY <1>1, <1>5, <1>6, <1>9, <2>2, <3>1, PlacingMeetsBeside
  <2> QED BY <1>8, <2>1, <2>2
<1>11. ASSUME NEW s \in Slots, s[1] # side PROVE c.m.slots[s] = r.m.slots[s]
  BY <1>1, <1>6, <1>9, <1>11
<1>12. ASSUME NEW s \in Slots, s[1] = side, IsQuoted(q, s), Used(c.m, s)
       PROVE  c.m.slots[s].price = q.price[s]
  <2>1. CASE s = s1 BY <1>9, <1>12, <2>1
  <2>2. CASE s = s0
    <3>1. c.m.slots[s0] = x.m.slots[s0] BY <1>1, <1>9
    <3> QED BY <1>6, <1>12, <2>2, <3>1 DEF Used
  <2> QED BY <1>1, <1>12, <2>1, <2>2
<1>13. \A s \in Slots : s[1] = side => Meets(c.m, q, pos, lim, s)
  BY <1>1, <1>8, <1>10
<1> QED BY <1>9, <1>11, <1>12, <1>13

LEMMA QuoteSideElsewhere ==
  ASSUME NEW r, r.m \in Manager, r.m.nextId > 0, NEW q \in Quote, NEW pos \in Int, NEW lim \in Int,
         NEW side \in Sides, NEW old, NEW c, c = QuoteSide(r, q, pos, lim, side, old)
  PROVE  /\ c.m \in Manager /\ c.m.nextId > 0
         /\ \A s \in Slots : s[1] # side => c.m.slots[s] = r.m.slots[s]
<1> DEFINE s0 == <<side, 0>>
           s1 == <<side, 1>>
<1>1. s0 \in Slots /\ s1 \in Slots /\ s0[1] = side /\ s1[1] = side BY DEF Slots, Levels
<1>2. PICK x : x = QuoteSlot(r, q, pos, lim, s0, old) OBVIOUS
<1>3. c = QuoteSlot(x, q, pos, lim, s1, old) BY <1>2 DEF QuoteSide
<1> HIDE DEF s0, s1
<1>4. x.m \in Manager /\ x.m.nextId > 0 /\ \A t \in Slots \ {s0} : x.m.slots[t] = r.m.slots[t]
  BY <1>1, <1>2, QuoteSlotElsewhere
<1>5. c.m \in Manager /\ c.m.nextId > 0 /\ \A t \in Slots \ {s1} : c.m.slots[t] = x.m.slots[t]
  BY <1>1, <1>3, <1>4, QuoteSlotElsewhere
<1> QED BY <1>1, <1>4, <1>5

(* n is m with its orders confirmed, whatever else has happened to it.      *)
Confirms(m, n) ==
  /\ n \in Manager /\ n.baseline = m.baseline
  /\ \A s \in Slots : Alike(m, n, s) /\ (Used(n, s) => n.slots[s].state = "Live")

(* After a quote that found nothing to cancel, the same quote for the same  *)
(* position and limit leaves the confirmed orders alone.                    *)
QuoteSettles(m) ==
  \A q \in Quote, pos \in Int, lim \in Int : \A n :
    /\ ~Stopped(m) /\ lim > 0 /\ (FromStart => m.hasBaseline)
    /\ \A s \in Slots : IsQuoted(q, s) /\ Used(m, s) =>
         m.slots[s].state = "Live" /\ m.slots[s].price = q.price[s]
    /\ \A s \in Slots : IsQuoted(q, s) =>
         OnQuote(m, q, pos, lim, {}).m.slots[s].state # "Canceling"
    /\ Confirms(OnQuote(m, q, pos, lim, {}).m, n)
    => OnQuote(n, q, pos, lim, {}) = [m |-> n, out |-> << >>]

LEMMA QuoteSettlesHolds ==
  ASSUME NEW m, SafeInv(m), m.nextId > 0, RepriceBps > 0
  PROVE  QuoteSettles(m)
<1> SUFFICES ASSUME NEW q \in Quote, NEW pos \in Int, NEW lim \in Int, NEW n,
                    NEW k, k = OnQuote(m, q, pos, lim, {}).m,
                    ~Stopped(m), lim > 0, FromStart => m.hasBaseline,
                    \A s \in Slots : IsQuoted(q, s) /\ Used(m, s) =>
                      m.slots[s].state = "Live" /\ m.slots[s].price = q.price[s],
                    \A s \in Slots : IsQuoted(q, s) => k.slots[s].state # "Canceling",
                    Confirms(k, n)
             PROVE  OnQuote(n, q, pos, lim, {}) = [m |-> n, out |-> << >>]
  BY DEF QuoteSettles
<1> DEFINE r == [m |-> m, out |-> << >>]
           b == QuoteSide(r, q, pos, lim, "Buy", {})
           a == QuoteSide(b, q, pos, lim, "Sell", {})
           z == [m |-> n, out |-> << >>]
<1>1. k = a.m BY DEF OnQuote, Stopped
<1>2. r.m = m /\ z.m = n OBVIOUS
<1>3. \A s \in Slots : s[1] \in {"Buy", "Sell"} BY DEF Slots, Sides
<1>4. PICK x : x = b OBVIOUS
<1>5. PICK y : y = a OBVIOUS
<1>6. y = QuoteSide(x, q, pos, lim, "Sell", {}) /\ x = QuoteSide(r, q, pos, lim, "Buy", {})
      /\ k = y.m
  BY <1>1, <1>4, <1>5
<1> HIDE DEF a, b, r
<1>7. r.m \in Manager /\ r.m.nextId > 0 /\ \A s \in Slots : AtPrice(r.m, q, s)
  BY <1>2 DEF SafeInv, BareInv, AtPrice
<1>8. x.m \in Manager /\ x.m.nextId > 0 /\ \A s \in Slots : s[1] # "Buy" => x.m.slots[s] = r.m.slots[s]
  BY <1>6, <1>7, QuoteSideElsewhere DEF Sides
<1>9. \A s \in Slots : s[1] # "Sell" => y.m.slots[s] = x.m.slots[s]
  BY <1>6, <1>8, QuoteSideElsewhere DEF Sides
<1>10. /\ x.m.baseline = r.m.baseline
       /\ \A s \in Slots : s[1] = "Buy" => Meets(x.m, q, pos, lim, s)
       /\ \A s \in Slots : s[1] = "Buy" /\ IsQuoted(q, s) /\ Used(x.m, s)
                             => x.m.slots[s].price = q.price[s]
  <2>1. \A s \in Slots : s[1] = "Buy" /\ IsQuoted(q, s) => x.m.slots[s].state # "Canceling"
    BY <1>6, <1>9
  <2> QED BY <1>6, <1>7, <2>1, QuoteSideMeets DEF Sides
<1>11. \A s \in Slots : s[1] = "Sell" => AtPrice(x.m, q, s)
  BY <1>7, <1>8 DEF AtPrice, Used
<1>12. /\ y.m.baseline = x.m.baseline
       /\ \A s \in Slots : s[1] = "Sell" => Meets(y.m, q, pos, lim, s)
       /\ \A s \in Slots : s[1] = "Sell" /\ IsQuoted(q, s) /\ Used(y.m, s)
                             => y.m.slots[s].price = q.price[s]
  BY <1>6, <1>8, <1>11, QuoteSideMeets DEF Sides
<1>13. ASSUME NEW s \in Slots
       PROVE  Meets(n, q, pos, lim, s) /\ AtPrice(n, q, s)
  <2>1. OtherLevel(s) \in Slots /\ OtherLevel(s)[1] = s[1] BY OtherLevelSlot
  <2>2. Meets(y.m, q, pos, lim, s)
        /\ (IsQuoted(q, s) /\ Used(y.m, s) => y.m.slots[s].price = q.price[s])
    <3>1. CASE s[1] = "Sell" BY <1>12, <3>1
    <3>2. CASE s[1] = "Buy"
      <4>1. y.m.slots[s] = x.m.slots[s] /\ y.m.slots[OtherLevel(s)] = x.m.slots[OtherLevel(s)]
        BY <1>9, <2>1, <3>2
      <4>2. Alike(x.m, y.m, s) /\ Alike(x.m, y.m, OtherLevel(s)) BY <4>1 DEF Alike, Used
      <4> QED BY <1>10, <1>12, <3>2, <4>1, <4>2, MeetsAlike DEF Used
    <3> QED BY <1>3, <3>1, <3>2
  <2>3. Alike(y.m, n, s) /\ Alike(y.m, n, OtherLevel(s)) /\ n.baseline = y.m.baseline
        /\ (Used(n, s) => n.slots[s].state = "Live")
    BY <1>6, <2>1 DEF Confirms
  <2>4. Meets(n, q, pos, lim, s) BY <2>2, <2>3, MeetsAlike
  <2>5. n.slots[s].qty \in Nat BY ManagerTypes, OrderTypes DEF Confirms
  <2>6. ASSUME IsQuoted(q, s) PROVE ~Used(n, s) => n.slots[s].qty = 0
    BY <2>4, <2>5, <2>6 DEF Meets
  <2> QED BY <2>2, <2>3, <2>4, <2>6 DEF AtPrice, Alike
<1>14. \A s \in Slots : QuoteSlot(z, q, pos, lim, s, {}) = z
  <2>1. z.m \in Manager BY <1>2 DEF Confirms
  <2> HIDE DEF z
  <2> QED BY <1>2, <1>13, <2>1, MetSlotStays
<1>15. \A side \in Sides : QuoteSide(z, q, pos, lim, side, {}) = z
  <2> SUFFICES ASSUME NEW side \in Sides PROVE QuoteSide(z, q, pos, lim, side, {}) = z
    OBVIOUS
  <2>1. <<side, 0>> \in Slots /\ <<side, 1>> \in Slots BY DEF Slots, Levels
  <2> HIDE DEF z
  <2> QED BY <1>14, <2>1 DEF QuoteSide
<1>16. ~(lim <= 0) OBVIOUS
<1>17. QuoteSide(QuoteSide(z, q, pos, lim, "Buy", {}), q, pos, lim, "Sell", {}) = z
  BY <1>15 DEF Sides
<1> QED BY <1>16, <1>17 DEF OnQuote
=============================================================================
