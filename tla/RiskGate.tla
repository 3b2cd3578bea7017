------------------------------ MODULE RiskGate ------------------------------
(***************************************************************************)
(* The gate that a fill closes on quoting: the position poller of          *)
(* src/trading/position.rs, the order manager's publication count and the  *)
(* risk check of the periodic tick.  A position is the number of fills it  *)
(* includes; ages are only fresh or stale.                                 *)
(***************************************************************************)
EXTENDS Integers

CONSTANTS
  MaxFills,        \* bound: fills
  MaxVersion,      \* bound: publications
  MaxReconciled    \* bound: verified reconciliations

ASSUME BoundsAssumption ==
  MaxFills \in Nat /\ MaxVersion \in Nat /\ MaxReconciled \in Nat

NoneRequired == -1

VARIABLES
  executed,   \* fills that have happened at the exchange
  handled,    \* fills whose event the loop has handled
  polled,     \* the poll under way: the position read, or NotPolling
  position,   \* SharedPosition: the value,
  version,    \*   the number of publications
  posFresh,   \*   and whether its age is below the threshold
  equityFresh,\* SharedEquity: usable and fresh
  required,   \* resume_after_position_version, or NoneRequired
  risk,       \* the RiskData pause
  pending,    \* a reconciliation is under way
  reconciled, \* bound: reconciliations finished
  wasFresh    \* history: what the last tick found of the two sources

vars == <<executed, handled, polled, position, version, posFresh, equityFresh,
          required, risk, pending, reconciled, wasFresh>>

NotPolling == -1
SourcesFresh == equityFresh /\ posFresh

(* Before the first publication both ages are infinite.                     *)
Init ==
  /\ executed = 0 /\ handled = 0
  /\ polled = NotPolling /\ position = 0 /\ version = 0 /\ posFresh = FALSE
  /\ equityFresh = FALSE
  /\ required = NoneRequired /\ risk = TRUE /\ pending = FALSE
  /\ reconciled = 0 /\ wasFresh = FALSE

gateVars == <<required, risk, pending, reconciled, wasFresh>>
pollVars == <<polled, position, version, posFresh>>

MaxOf(a, b) == IF a >= b THEN a ELSE b

\* Seeded fault: one publication is enough.
RequireOne == required' = MaxOf(required, version + 1) /\ risk' = TRUE

(* require_position_refresh_after_fill; the last conjunct is set_pause_reason. *)
Require == required' = MaxOf(required, version + 2) /\ risk' = TRUE

----------------------------------------------------------------------------
Execute ==
  /\ executed < MaxFills
  /\ executed' = executed + 1
  /\ UNCHANGED <<handled, equityFresh, pollVars, gateVars>>

(* A full fill of a tracked order; other fills reconcile as well.           *)
HandleFill(full) ==
  /\ handled < executed
  /\ handled' = handled + 1
  /\ Require
  /\ pending' = (pending \/ ~full)
  /\ UNCHANGED <<executed, equityFresh, pollVars, reconciled, wasFresh>>

(* Any other cause of a reconciliation raises the gate as well.             *)
Reconcile ==
  /\ ~pending /\ reconciled < MaxReconciled
  /\ pending' = TRUE
  /\ Require
  /\ UNCHANGED <<executed, handled, equityFresh, pollVars, reconciled, wasFresh>>

Reconciled ==
  /\ pending /\ reconciled < MaxReconciled
  /\ pending' = FALSE /\ reconciled' = reconciled + 1
  /\ Require
  /\ UNCHANGED <<executed, handled, equityFresh, pollVars, wasFresh>>

----------------------------------------------------------------------------
(* The poller asks, and later publishes what it was told or nothing.        *)
Query ==
  /\ polled = NotPolling /\ version < MaxVersion
  /\ polled' = executed
  /\ UNCHANGED <<executed, handled, position, version, posFresh, equityFresh, gateVars>>

\* Seeded fault: the answer is added to the position.
PublishAdding ==
  /\ polled # NotPolling
  /\ position' = position + polled /\ version' = version + 1 /\ posFresh' = TRUE
  /\ polled' = NotPolling
  /\ UNCHANGED <<executed, handled, equityFresh, gateVars>>

Publish ==
  /\ polled # NotPolling
  /\ position' = polled /\ version' = version + 1 /\ posFresh' = TRUE
  /\ polled' = NotPolling
  /\ UNCHANGED <<executed, handled, equityFresh, gateVars>>

PollFailed ==
  /\ polled # NotPolling
  /\ polled' = NotPolling
  /\ UNCHANGED <<executed, handled, position, version, posFresh, equityFresh, gateVars>>

PositionAges ==
  /\ posFresh' = FALSE /\ posFresh
  /\ UNCHANGED <<executed, handled, polled, position, version, equityFresh, gateVars>>

EquityChanges ==
  /\ equityFresh' = ~equityFresh
  /\ UNCHANGED <<executed, handled, pollVars, gateVars>>

----------------------------------------------------------------------------
(* update_risk_pauses: position_refresh_after_fill_complete comes first and *)
(* forgets a requirement that is met.  Sources found stale start a          *)
(* reconciliation unless RiskData is already up; the pause it is started    *)
(* with is raised before begin_account_reconciliation looks at it, so that  *)
(* one raises no requirement of its own.                                    *)
GateMet == required = NoneRequired \/ version >= required

RiskTick ==
  /\ wasFresh' = SourcesFresh
  /\ risk' = ~(SourcesFresh /\ GateMet)
  /\ pending' = (pending \/ (~SourcesFresh /\ ~risk))
  /\ required' = IF GateMet THEN NoneRequired ELSE required
  /\ UNCHANGED <<executed, handled, equityFresh, pollVars, reconciled>>

Next ==
  \/ Execute \/ (\E full \in BOOLEAN : HandleFill(full))
  \/ Reconcile \/ Reconciled
  \/ Query \/ Publish \/ PollFailed \/ PositionAges \/ EquityChanges
  \/ RiskTick

Spec == Init /\ [][Next]_vars

----------------------------------------------------------------------------
TypeOK ==
  /\ executed \in Nat /\ handled \in 0..executed
  /\ polled \in {NotPolling} \cup 0..executed
  /\ position \in 0..executed /\ version \in Nat
  /\ required \in {NoneRequired} \cup Nat
  /\ posFresh \in BOOLEAN /\ equityFresh \in BOOLEAN
  /\ risk \in BOOLEAN /\ pending \in BOOLEAN /\ wasFresh \in BOOLEAN
  /\ reconciled \in 0..MaxReconciled

(* While quoting is allowed, the position quotes are sized from includes    *)
(* every fill the loop has been told of: the answer of a poll that was      *)
(* under way when the fill came never opens the gate by itself              *)
(* (require_position_refresh_after_fill).                                   *)
QuotesKnowTheFills == ~risk => position >= handled

(* The comment on update_risk_pauses: data that was fresh and becomes stale *)
(* must have a reconciliation scheduled.                                    *)
StaleSchedules ==
  [][RiskTick /\ wasFresh /\ ~SourcesFresh => pending']_vars
=============================================================================
