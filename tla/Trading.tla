------------------------------- MODULE Trading -------------------------------
(***************************************************************************)
(* The trading loop: the event loop of src/main.rs with its order manager, *)
(* the order executor task, the order WebSocket with its request           *)
(* correlation, the reconciliation worker, the open-order checker's        *)
(* snapshots and the exchange.  Each task is interleaved at its awaits.    *)
(*                                                                         *)
(* An order is named by the sequence number in its client id, which also   *)
(* stands for its exchange id and for its request id.  Failures of the     *)
(* environment draw on a budget, `trouble`.                                *)
(***************************************************************************)
EXTENDS OrderManagerOps, FiniteSets

CONSTANTS
  Quotes,       \* quotes the strategy may produce
  Position,     \* SharedPosition's value
  MaxDollar,    \* SharedEquity::max_position_dollar
  QueueCap,     \* capacity of the decision channel
  FaultCap,     \* capacity of the executor fault channel
  EventCap,     \* capacity of the order event channel
  MaxOrders,    \* bound: client ids handed out
  MaxReconciliations, \* bound: reconciliation generations
  Failures,     \* bound: the kinds of failure of the environment
  MaxTrouble,   \* bound: how many of them
  MaxAttempts,  \* attempts of the shutdown cleanup
  MayStop       \* bound: whether shutdown may begin

AllFailures == {"depth stale", "risk stale", "odd order", "zero orders", "stale orders",
                "too many orders", "token expiring", "market lost", "write failed",
                "odd response", "disconnect", "response lost", "partial fill", "REST error"}

ASSUME TradingAssumption ==
  /\ Quotes \subseteq Quote
  /\ Position \in Int /\ MaxDollar \in Int
  /\ QueueCap \in Nat \ {0} /\ FaultCap \in Nat \ {0} /\ EventCap \in Nat \ {0}
  /\ MaxOrders \in Nat /\ MaxReconciliations \in Nat /\ MaxTrouble \in Nat /\ MaxAttempts \in Nat \ {0}
  /\ Failures \subseteq AllFailures
  /\ MayStop \in BOOLEAN

Ids == 1..MaxOrders

VARIABLES
  mgr,        \* the order manager and the atomics of its ExecutionState
  pending,    \* App.reconciliation_pending
  recGen,     \* App.reconciliation_generation
  queue,      \* decision channel: decisions with the generation they carry
  requests,   \* reconciliation requests: generations
  results,    \* reconciliation results: generations
  faults,     \* executor faults waiting
  events,     \* order events waiting
  snap,       \* a REST open-order snapshot waiting, or NoSnap
  exec,       \* the executor task
  lock,       \* ExecutionState.submission, the mutex of submission and cleanup
  worker,     \* the cleanup in progress
  newReqs,    \* pending_requests: new orders
  cancelReqs, \* pending_requests: cancels by client id
  conn,       \* the order socket: "up", "closing" (forced) or "down"
  genOf,      \* the generation written into each client id
  ex,         \* each order at the exchange
  cancels,    \* cancel requests on their way to the exchange
  resp,       \* responses on their way back
  main,       \* the main task: "loop", "shutdown" or "exit"
  attempts,   \* attempts the shutdown cleanup has made
  verified,   \* cleanup_verified
  trouble     \* bound: failures left

loopVars == <<mgr, pending, recGen, queue, requests>>
reqVars  == <<newReqs, cancelReqs>>
exchVars == <<ex, cancels, resp>>
endVars  == <<main, attempts, verified>>
vars == <<mgr, genOf, pending, recGen, queue, requests, results, faults, events, snap, exec,
          lock, worker, newReqs, cancelReqs, conn, ex, cancels, resp,
          main, attempts, verified, trouble>>

NoSnap == [polled |-> FALSE, open |-> {}]
Idle == [pc |-> "idle", id |-> 0, gen |-> 0]
NoWork == [pc |-> "idle", gen |-> 0, settled |-> FALSE]
Queued(d, g) == [kind |-> d.kind, id |-> d.id, gen |-> IF d.kind = "Send" THEN g ELSE 0]
Resting == {id \in Ids : ex[id] = "open"}
Exposed == {id \in Ids : ex[id] \in {"wire", "open"}}

Init ==
  /\ mgr = SetPause(SetPause(SetPause(NewManager, "OrderWebSocket"), "MarketData"), "RiskData")
  /\ pending = FALSE /\ recGen = 0
  /\ queue = << >> /\ requests = << >> /\ results = << >> /\ events = << >>
  /\ faults = 0 /\ snap = NoSnap
  /\ exec = Idle /\ lock = "free" /\ worker = NoWork
  /\ newReqs = {} /\ cancelReqs = {} /\ conn = "down"
  /\ genOf = [id \in Ids |-> 0]
  /\ ex = [id \in Ids |-> "none"] /\ cancels = {} /\ resp = {}
  /\ main = "loop" /\ attempts = 0 /\ verified = FALSE
  /\ trouble = MaxTrouble

Suffer(failure) == failure \in Failures /\ trouble > 0 /\ trouble' = trouble - 1
SufferIf(failed, failure) == IF failed THEN Suffer(failure) ELSE UNCHANGED trouble

----------------------------------------------------------------------------
(* The event loop as functions on what its handlers write: the manager, the *)
(* reconciliation flags, the sending ends of two channels, the snapshot and *)
(* the request correlation.                                                 *)

Loop == [m |-> mgr, pending |-> pending, recGen |-> recGen,
         queue |-> queue, requests |-> requests, snap |-> snap,
         newReqs |-> newReqs, cancelReqs |-> cancelReqs]
With(b, m) == [b EXCEPT !.m = m]

\* Seeded fault: a request already in flight does not hold back another one.
BeginAccountAgain(b) ==
  [b EXCEPT !.pending = TRUE,
            !.m = EnterReconciliation(@),
            !.recGen = @ + 1,
            !.requests = Append(@, b.recGen + 1)]

BeginAccount(b) ==
  IF b.pending THEN b
  ELSE [b EXCEPT !.pending = TRUE,
                 !.m = EnterReconciliation(@),
                 !.recGen = @ + 1,
                 !.requests = Append(@, b.recGen + 1)]

BeginIf(cond, b) == IF cond THEN BeginAccount(b) ELSE b

(* clear_pending_tracking, then finish_account_reconciliation.              *)
FinishAccount(b) ==
  [b EXCEPT !.newReqs = {}, !.cancelReqs = {}, !.pending = FALSE,
            !.m = LeaveReconciliation(@)]

(* try_send, decision by decision; there is at most one for a slot, four in *)
(* all.  One the channel has no room for is refused.  The executor may make *)
(* room between two sends, so the refused ones need not be the last.        *)
SendAll(b, out, refused) ==
  LET Send(q, i) == IF i > Len(out) \/ out[i] \in refused THEN q
                    ELSE Append(q, Queued(out[i], b.m.gen))
  IN [b EXCEPT !.queue = Send(Send(Send(Send(@, 1), 2), 3), 4),
               !.m = OnDispatchFailed(@, refused)]

Refusals(b, out) ==
  {refused \in SUBSET {out[i] : i \in 1..Len(out)} :
     /\ Len(b.queue) + Len(out) <= QueueCap => refused = {}
     /\ Len(SendAll(b, out, refused).queue) <= QueueCap}

Safety(b) == With(b, TriggerSafety(b.m))

(* A valid quote: on_quote_into, then its decisions are dispatched.         *)
QuoteAndSend(b, r, refused) ==
  LET sent == SendAll(With(b, r.m), r.out, refused)
  IN IF refused = {} THEN sent ELSE BeginAccount(Safety(sent))

----------------------------------------------------------------------------
(* Order events *)

HandleAccepted(b, id) ==
  IF IsRetired(b.m, genOf[id]) THEN b
  ELSE IF CanBind(b.m, id, 0) THEN With(b, OnAccepted(b.m, id, 0))
  ELSE BeginAccount(b)

HandleRejected(b, id) ==
  IF IsRetired(b.m, genOf[id]) THEN b ELSE With(b, OnRejected(b.m, id))

\* Seeded fault: a partial fill is taken for a full one.
HandleFillAsFull(b, id, full) ==
  LET matched == FillMatches(b.m, id, id) # {}
      told == With(b, IF matched THEN OnFill(b.m, id, id, TRUE) ELSE RequireRefresh(b.m))
  IN BeginIf(~matched \/ ~full, told)

HandleFill(b, id, full) ==
  LET matched == FillMatches(b.m, id, id) # {}
      told == With(b, IF matched THEN OnFill(b.m, id, id, full) ELSE RequireRefresh(b.m))
  IN BeginIf(~matched \/ ~full, told)

(* A correlated cancel failure carries no exchange id.                      *)
HandleCancelFailed(b) == BeginAccount(With(b, OnCancelFailed(b.m, 0)))

HandleDisconnected(b) == BeginAccount(With(b, SetPause(b.m, "OrderWebSocket")))

Handle(b, e) ==
  CASE e.kind = "accepted"      -> HandleAccepted(b, e.id)
    [] e.kind = "rejected"      -> HandleRejected(b, e.id)
    [] e.kind = "canceled"      -> With(b, OnCanceled(b.m, e.id, 0))
    [] e.kind = "cancelFailed"  -> HandleCancelFailed(b)
    [] e.kind = "filled"        -> HandleFill(b, e.id, TRUE)
    [] e.kind = "partial"       -> HandleFill(b, e.id, FALSE)
    [] e.kind = "ambiguous"     -> BeginAccount(b)
    [] e.kind = "authenticated" -> With(b, ClearPause(b.m, "OrderWebSocket"))
    [] e.kind = "disconnected"  -> HandleDisconnected(b)

----------------------------------------------------------------------------
(* The one-second tick, check by check in the order of the code.  Ages and  *)
(* cooldowns are inputs: `aged` and `overdue` are sets of slots.            *)

DepthCheck(b, stale) ==
  IF stale THEN BeginAccount(With(b, SetPause(b.m, "MarketData"))) ELSE b

(* `polled` says whether the position poller has published what was owed    *)
(* since the last tick: only this check looks at the gate.                  *)
Publications(b, polled) == With(b, IF polled THEN Publish(Publish(b.m)) ELSE b.m)

RiskCheck(b, fresh) ==
  IF fresh /\ RefreshComplete(b.m)
  THEN With(b, ClearPause(InitializeBaseline(b.m, Position), "RiskData"))
  ELSE IF ~fresh /\ "RiskData" \notin b.m.pauses
  THEN BeginAccount(With(b, BeginReconciliation(SetPause(b.m, "RiskData"))))
  ELSE With(b, SetPause(b.m, "RiskData"))

Watched(b) == b.snap.polled /\ "Reconciliation" \notin b.m.pauses
Confirmed(b) == IF Watched(b) THEN b.snap.open \cap TrackedIds(b.m) ELSE {}
Promote(m, ids) ==
  [m EXCEPT !.rejections = IF ids = {} THEN @ ELSE 0,
            !.slots = [s \in Slots |->
              IF m.slots[s].id \notin ids THEN m.slots[s]
              ELSE [m.slots[s] EXCEPT !.oid = m.slots[s].id,
                      !.state = IF @ = "Pending" THEN "Live" ELSE @]]]

(* apply_open_orders_snapshot: an order REST no longer reports, or has not  *)
(* reported in time, may have filled.  `odd` is a partial fill or a         *)
(* malformed entry among the reported orders, met after those in `before`.  *)
SnapshotGap(b, aged) ==
  \E s \in Slots : /\ Used(b.m, s)
                   /\ b.m.slots[s].id \notin b.snap.open
                   /\ (b.m.slots[s].oid # 0 \/ s \in aged)
SnapshotCheck(b, aged, odd, before) ==
  LET c == [b EXCEPT !.snap = NoSnap]
  IN IF ~Watched(b) THEN c
     ELSE IF SnapshotGap(b, aged) THEN BeginAccount(With(c, RequireRefresh(b.m)))
     ELSE IF odd THEN BeginAccount(With(c, RequireRefresh(Promote(b.m, before))))
     ELSE IF Confirmed(b) = {} THEN c
     ELSE [c EXCEPT !.m = Promote(@, Confirmed(b)), !.newReqs = @ \ b.snap.open]

(* Signals of the open-order checker; "too many" stands for foreign orders  *)
(* too.                                                                     *)
SignalCheck(b, signal) ==
  CASE signal = "zero orders"     -> BeginIf(TrackedIds(b.m) # {}, b)
    [] signal = "stale orders"    -> BeginAccount(b)
    [] signal = "too many orders" -> BeginAccount(Safety(b))
    [] OTHER                      -> b

TimeoutCancels(b, overdue) ==
  LET Late(out, s) == IF s \notin TimedOut(b.m, overdue) THEN out
                      ELSE Append(out, CancelOf(b.m.slots[s].id))
      buys == Late(Late(<< >>, <<"Buy", 0>>), <<"Buy", 1>>)
  IN IF b.pending THEN << >> ELSE Late(Late(buys, <<"Sell", 0>>), <<"Sell", 1>>)

\* Seeded fault: overdue slots are not looked for.
TimeoutCheckNever(b, overdue, refused) == b

TimeoutCheck(b, overdue, refused) ==
  LET out == TimeoutCancels(b, overdue)
      sent == SendAll(With(b, OnTimeouts(b.m, overdue)), out, refused)
  IN IF out = << >> THEN b
     ELSE IF refused = {} THEN BeginAccount(sent) ELSE BeginAccount(Safety(sent))

TokenCheck(b, expiring) ==
  IF expiring THEN BeginAccount(With(b, SetPause(b.m, "OrderWebSocket"))) ELSE b

RecoveryCheck(b, cooled) ==
  LET sc == "Safety" \in cooled
      bc == "CircuitBreaker" \in cooled
      due == SafetyDue(b.m, sc) \/ BreakerDue(b.m, bc)
  IN BeginIf(due, With(b, SpendCooldowns(b.m, sc, bc)))

----------------------------------------------------------------------------
(* Actions of the event loop.  Become writes back what a handler computed;  *)
(* genOf records the generation a new client id carries.  A snapshot polled *)
(* before the end of a reconciliation is ignored whenever it is read        *)
(* (observed_at_ns <= reconciled_at_ns), so none is kept while one pends.   *)

InBounds(b) == b.m.nextId <= MaxOrders + 1 /\ b.recGen <= MaxReconciliations

Become(result) ==
  \E b \in {result} :
     /\ main = "loop"
     /\ InBounds(b)
     /\ mgr' = b.m /\ pending' = b.pending /\ recGen' = b.recGen
     /\ queue' = b.queue /\ requests' = b.requests
     /\ snap' = IF b.pending THEN NoSnap ELSE b.snap
     /\ genOf' = [id \in Ids |->
          IF id \in mgr.nextId..(b.m.nextId - 1) THEN mgr.gen ELSE genOf[id]]
     /\ newReqs' = b.newReqs /\ cancelReqs' = b.cancelReqs
     /\ UNCHANGED <<exec, lock, worker, exchVars, endVars>>

DepthQuote(q, old) ==
  LET b == With(Loop, ClearPause(mgr, "MarketData"))
      r == OnQuote(b.m, q, Position, MaxDollar, old)
  IN /\ \E refused \in Refusals(b, r.out) : Become(QuoteAndSend(b, r, refused))
     /\ UNCHANGED <<results, faults, events, conn, trouble>>

OrderEvent ==
  /\ events # << >>
  /\ events' = Tail(events)
  /\ Become(Handle(Loop, Head(events)))
  /\ UNCHANGED <<results, faults, conn, trouble>>

ExecutorFault ==
  /\ faults > 0
  /\ faults' = faults - 1
  /\ Become(BeginAccount(Safety(Loop)))
  /\ UNCHANGED <<results, events, conn, trouble>>

(* A verified cleanup of the current generation: the request correlation is *)
(* forgotten and the managers start afresh.                                 *)
ReconciliationVerified ==
  /\ results # << >>
  /\ results' = Tail(results)
  /\ Become(IF Head(results) = recGen THEN FinishAccount(Loop) ELSE Loop)
  /\ UNCHANGED <<faults, events, conn, trouble>>

(* The market data socket dropped, or the tick size changed.                *)
MarketOutage ==
  /\ Suffer("market lost")
  /\ \/ Become(BeginAccount(With(Loop, BeginReconciliation(SetPause(mgr, "MarketData")))))
     \/ LET b == BeginAccount(Loop) IN Become(With(b, SetPause(b.m, "MarketData")))
  /\ UNCHANGED <<results, faults, events, conn>>

(* One tick: `fault` is the failure it finds, or "none"; `polled` whether    *)
(* the owed positions came since the last one; `cooled` the pauses whose    *)
(* cooldown has elapsed; `late` the slots past every age limit.             *)
TickFaults == {"depth stale", "risk stale", "odd order", "zero orders", "stale orders",
               "too many orders", "token expiring"}

BeforeTimeouts(fault, polled, late, before) ==
  LET depth == DepthCheck(Publications(Loop, polled), fault = "depth stale")
      risk == RiskCheck(depth, fault # "risk stale")
  IN SignalCheck(SnapshotCheck(risk, late, fault = "odd order", before), fault)

Tick(fault, polled, cooled, late) ==
  \E before \in SUBSET (IF fault = "odd order" THEN Confirmed(Loop) ELSE {}) :
  \E b \in {BeforeTimeouts(fault, polled, late, before)} :
  \E refused \in Refusals(b, TimeoutCancels(b, late)) :
    LET expiring == fault = "token expiring" /\ conn = "up"
    IN /\ Become(RecoveryCheck(TokenCheck(TimeoutCheck(b, late, refused), expiring), cooled))
       /\ conn' = IF expiring THEN "closing" ELSE conn
       /\ UNCHANGED <<results, faults, events>>

(* The open-order checker polls; the channel keeps what it has.             *)
PollOpenOrders ==
  /\ main = "loop" /\ ~snap.polled /\ ~pending
  /\ snap' = [polled |-> TRUE, open |-> Resting]
  /\ UNCHANGED <<loopVars, genOf, results, faults, events, exec, lock, worker,
                 reqVars, conn, exchVars, endVars, trouble>>

----------------------------------------------------------------------------
(* The executor: one decision at a time.  place_order holds the submission  *)
(* mutex from its first check to the end of the write.                      *)

ExecUnchanged ==
  UNCHANGED <<mgr, genOf, pending, recGen, requests, results, events, snap, worker,
              conn, resp, endVars>>

TakeDecision ==
  /\ main # "exit" /\ exec.pc = "idle" /\ queue # << >>
  /\ LET d == Head(queue)
     IN exec' = [pc |-> IF d.kind = "Send" THEN "lock" ELSE "cancel",
                 id |-> d.id, gen |-> d.gen]
  /\ queue' = Tail(queue)
  /\ UNCHANGED <<faults, lock, reqVars, ex, cancels, trouble>>
  /\ ExecUnchanged

\* Seeded fault: nothing is asked of the manager.
PermittedAlways == TRUE

\* Seeded fault: the generation of the decision is not compared.
PermittedUnpaused == ~mgr.shutdown /\ mgr.pauses = {}

Permitted == Permits(mgr, exec.gen)

Gate(open, pc) ==
  /\ IF open THEN lock' = "exec" /\ exec' = [exec EXCEPT !.pc = pc]
     ELSE lock' = "free" /\ exec' = [exec EXCEPT !.pc = "fault"]
  /\ UNCHANGED <<queue, faults, reqVars, ex, cancels, trouble>>
  /\ ExecUnchanged

(* The mutex, then permits and the connection flags.                        *)
AcquireSubmission ==
  /\ main # "exit" /\ exec.pc = "lock" /\ lock = "free"
  /\ Gate(Permitted /\ conn = "up", "sign")

(* Signed and holding the writer: permits is asked once more, the flags are *)
(* not.  A connection that ends takes the writer away or leaves it.         *)
Recheck ==
  /\ main # "exit" /\ exec.pc = "sign"
  /\ \E writer \in BOOLEAN :
       /\ conn = "up" => writer
       /\ Gate(Permitted /\ writer, "insert")

InsertRequest ==
  /\ main # "exit" /\ exec.pc = "insert"
  /\ newReqs' = newReqs \cup {exec.id}
  /\ exec' = [exec EXCEPT !.pc = "write"]
  /\ UNCHANGED <<queue, faults, lock, cancelReqs, ex, cancels, trouble>>
  /\ ExecUnchanged

(* The write succeeds, or fails or times out with the order sent or not.  A *)
(* success on a connection that has ended says nothing either.              *)
WriteOrder(ok, reached) ==
  /\ main # "exit" /\ exec.pc = "write"
  /\ ok => reached \/ conn = "down"
  /\ SufferIf(~ok /\ conn = "up", "write failed")
  /\ ex' = [ex EXCEPT ![exec.id] = IF reached THEN "wire" ELSE "lost"]
  /\ exec' = IF ok THEN Idle ELSE [exec EXCEPT !.pc = "fault"]
  /\ lock' = "free"
  /\ UNCHANGED <<queue, faults, reqVars, cancels>>
  /\ ExecUnchanged

(* A cancel takes no mutex and asks no permission.  One whose write failed  *)
(* is not waited for, and may have been sent.                               *)
SendCancel(ok, reached) ==
  /\ main # "exit" /\ exec.pc = "cancel"
  /\ ok => reached /\ conn = "up"
  /\ reached => conn # "down"
  /\ SufferIf(~ok /\ conn = "up", "write failed")
  /\ cancels' = IF reached THEN cancels \cup {exec.id} ELSE cancels
  /\ cancelReqs' = IF ok THEN cancelReqs \cup {exec.id} ELSE cancelReqs
  /\ exec' = IF ok THEN Idle ELSE [exec EXCEPT !.pc = "fault"]
  /\ UNCHANGED <<queue, faults, lock, newReqs, ex>>
  /\ ExecUnchanged

\* Seeded fault: a full fault channel is written all the same.
ReportFaultAnyway ==
  /\ main # "exit" /\ exec.pc = "fault"
  /\ faults' = IF main = "loop" THEN faults + 1 ELSE faults
  /\ exec' = Idle
  /\ UNCHANGED <<queue, lock, reqVars, ex, cancels, trouble>>
  /\ ExecUnchanged

ReportFault ==
  /\ main # "exit" /\ exec.pc = "fault" /\ faults < FaultCap
  /\ faults' = IF main = "loop" THEN faults + 1 ELSE faults
  /\ exec' = Idle
  /\ UNCHANGED <<queue, lock, reqVars, ex, cancels, trouble>>
  /\ ExecUnchanged

----------------------------------------------------------------------------
(* The order WebSocket's reader.  It takes a response off the correlation   *)
(* before it sends the event, and then waits for room in the event channel: *)
(* the event past EventCap is the one it holds, and it reads no further.    *)

WsUnchanged ==
  UNCHANGED <<loopVars, genOf, results, faults, snap, exec, lock, worker, ex, cancels,
              endVars>>

ReaderFree == main # "exit" /\ Len(events) <= EventCap

Emit(kind, id) ==
  /\ ReaderFree
  /\ events' = IF main = "loop" THEN Append(events, [kind |-> kind, id |-> id]) ELSE events

(* A response is correlated by the request it answers; one whose request is *)
(* already settled or forgotten is dropped.                                 *)
Correlate(r, waiting, kind) ==
  IF r.id \in waiting THEN Emit(kind, r.id) ELSE ReaderFree /\ events' = events

HandleResponse(r) ==
  /\ conn # "down"
  /\ r \in resp
  /\ resp' = resp \ {r}
  /\ CASE r.kind = "accepted" -> Correlate(r, newReqs, "accepted")
       [] r.kind = "rejected" -> Correlate(r, newReqs, "rejected")
       [] r.kind = "canceled" -> Correlate(r, cancelReqs, "canceled")
       [] r.kind = "cancelFailed" -> Correlate(r, cancelReqs, "cancelFailed")
       [] OTHER -> Emit(r.kind, r.id)
  /\ newReqs' = IF r.kind \in {"accepted", "rejected"} THEN newReqs \ {r.id} ELSE newReqs
  /\ cancelReqs' = IF r.kind \in {"canceled", "cancelFailed"} THEN cancelReqs \ {r.id}
                   ELSE cancelReqs
  /\ UNCHANGED <<conn, trouble>>
  /\ WsUnchanged

(* A response nothing can be made of, or a cancel acknowledged without an   *)
(* identity.                                                                *)
OddResponse ==
  /\ conn = "up" /\ Suffer("odd response")
  /\ Emit("ambiguous", 0)
  /\ UNCHANGED <<resp, reqVars, conn>>
  /\ WsUnchanged

(* The connection ends, because it failed or was closed by force_reconnect. *)
(* Responses in flight are lost; requests stay pending.                     *)
Disconnect ==
  /\ conn # "down"
  /\ SufferIf(conn = "up", "disconnect")
  /\ Emit("disconnected", 0)
  /\ conn' = "down" /\ resp' = {}
  /\ UNCHANGED reqVars
  /\ WsUnchanged

Authenticate ==
  /\ conn = "down"
  /\ Emit("authenticated", 0)
  /\ conn' = "up"
  /\ UNCHANGED <<resp, reqVars, trouble>>
  /\ WsUnchanged

----------------------------------------------------------------------------
(* The exchange.  A response reaches the reader only over a live connection *)
(* and may be lost; a message written before a disconnect may be lost or    *)
(* arrive late.                                                             *)

ExchangeUnchanged ==
  UNCHANGED <<loopVars, genOf, results, faults, events, snap, exec, lock, worker,
              reqVars, conn, endVars>>

Reply(kind, id, answered) ==
  /\ SufferIf(~answered /\ conn # "down", "response lost")
  /\ answered => conn # "down"
  /\ resp' = IF answered THEN resp \cup {[kind |-> kind, id |-> id]} ELSE resp

ReceiveOrder(id, accept, answered) ==
  /\ ex[id] = "wire"
  /\ ex' = [ex EXCEPT ![id] = IF accept THEN "open" ELSE "done"]
  /\ Reply(IF accept THEN "accepted" ELSE "rejected", id, answered)
  /\ UNCHANGED cancels
  /\ ExchangeUnchanged

LoseOrder(id) ==
  /\ ex[id] = "wire" /\ conn = "down"
  /\ ex' = [ex EXCEPT ![id] = "lost"]
  /\ UNCHANGED <<cancels, resp, trouble>>
  /\ ExchangeUnchanged

ReceiveCancel(id, answered) ==
  /\ id \in cancels
  /\ cancels' = cancels \ {id}
  /\ ex' = IF ex[id] = "open" THEN [ex EXCEPT ![id] = "done"] ELSE ex
  /\ Reply(IF ex[id] = "open" THEN "canceled" ELSE "cancelFailed", id, answered)
  /\ ExchangeUnchanged

Fill(id, full, told) ==
  /\ ex[id] = "open"
  /\ ex' = IF full THEN [ex EXCEPT ![id] = "done"] ELSE ex
  /\ full \/ told
  /\ SufferIf(~full, "partial fill")
  /\ told => conn # "down"
  /\ resp' = IF told THEN resp \cup {[kind |-> IF full THEN "filled" ELSE "partial", id |-> id]}
             ELSE resp
  /\ UNCHANGED cancels
  /\ ExchangeUnchanged

----------------------------------------------------------------------------
(* Cleanup: the reconciliation worker's attempts, and those of shutdown.    *)

WorkUnchanged ==
  UNCHANGED <<mgr, genOf, pending, recGen, queue, faults, events, snap, exec,
              cancelReqs, conn, cancels, resp>>

WorkerTake ==
  /\ main = "loop" /\ worker.pc = "idle" /\ requests # << >>
  /\ worker' = [pc |-> "acquire", gen |-> requests[Len(requests)], settled |-> FALSE]
  /\ requests' = << >>
  /\ UNCHANGED <<results, lock, newReqs, ex, endVars, trouble>>
  /\ WorkUnchanged

CleanupLock ==
  /\ worker.pc = "acquire" /\ lock = "free"
  /\ lock' = "cleanup"
  /\ worker' = [worker EXCEPT !.pc = "query"]
  /\ UNCHANGED <<requests, results, newReqs, ex, endVars, trouble>>
  /\ WorkUnchanged

(* The first open-orders query settles the new orders it shows.             *)
CleanupQuery ==
  /\ worker.pc = "query"
  /\ newReqs' = newReqs \ Resting
  /\ worker' = [worker EXCEPT !.pc = "resolve"]
  /\ UNCHANGED <<requests, results, lock, ex, endVars, trouble>>
  /\ WorkUnchanged

(* query_order for what is left: an order the exchange knows is settled, an *)
(* unknown one is not.  A query that fails leaves its order.                *)
CleanupResolve ==
  /\ worker.pc = "resolve"
  /\ LET known == {id \in newReqs : ex[id] \in {"open", "done"}}
     IN \E told \in SUBSET known :
          /\ SufferIf(told # known, "REST error")
          /\ newReqs' = newReqs \ told
          /\ worker' = [worker EXCEPT !.pc = "cancel", !.settled = (newReqs \ told = {})]
  /\ UNCHANGED <<requests, results, lock, ex, endVars>>
  /\ WorkUnchanged

\* Seeded fault: settlement is judged after the cancellation.
CleanupCancelThenSettle ==
  /\ worker.pc = "cancel"
  /\ \E left \in SUBSET Resting :
       /\ SufferIf(left # {}, "REST error")
       /\ ex' = [id \in Ids |-> IF id \in Resting \ left THEN "done" ELSE ex[id]]
  /\ worker' = [worker EXCEPT !.pc = "verify", !.settled = TRUE]
  /\ UNCHANGED <<requests, results, lock, newReqs, endVars>>
  /\ WorkUnchanged

CleanupCancel ==
  /\ worker.pc = "cancel"
  /\ \E left \in SUBSET Resting :
       /\ SufferIf(left # {}, "REST error")
       /\ ex' = [id \in Ids |-> IF id \in Resting \ left THEN "done" ELSE ex[id]]
  /\ worker' = [worker EXCEPT !.pc = "verify"]
  /\ UNCHANGED <<requests, results, lock, newReqs, endVars>>
  /\ WorkUnchanged

\* Seeded fault: the next attempt starts with the submission mutex still held.
RetryCleanupLocked ==
  /\ worker' = [worker EXCEPT !.pc = "acquire"]
  /\ UNCHANGED <<lock, endVars, requests, results, newReqs, ex>>
  /\ WorkUnchanged

(* An attempt failed: the worker tries again without end, shutdown          *)
(* MaxAttempts times.                                                       *)
RetryCleanup ==
  /\ lock' = "free"
  /\ IF main = "loop"
     THEN worker' = [worker EXCEPT !.pc = "acquire"] /\ UNCHANGED endVars
     ELSE /\ attempts' = attempts + 1
          /\ worker' = IF attempts + 1 < MaxAttempts
                       THEN [worker EXCEPT !.pc = "acquire"] ELSE NoWork
          /\ main' = IF attempts + 1 < MaxAttempts THEN main ELSE "exit"
          /\ UNCHANGED verified
  /\ UNCHANGED <<requests, results, newReqs, ex>>
  /\ WorkUnchanged

CleanupError ==
  /\ worker.pc \in {"query", "cancel", "verify"}
  /\ Suffer("REST error")
  /\ RetryCleanup

CleanupVerify ==
  /\ worker.pc = "verify"
  /\ UNCHANGED trouble
  /\ IF Resting = {} /\ worker.settled
     THEN /\ lock' = "free" /\ worker' = NoWork
          /\ IF main = "loop"
             THEN results' = Append(results, worker.gen) /\ UNCHANGED endVars
             ELSE main' = "exit" /\ verified' = TRUE /\ UNCHANGED <<results, attempts>>
          /\ UNCHANGED <<requests, newReqs, ex>>
          /\ WorkUnchanged
     ELSE RetryCleanup

----------------------------------------------------------------------------
(* A shutdown signal, or the loss of a task: new orders are disabled, the   *)
(* worker is aborted and the cleanup runs in the main task, for a limited   *)
(* time.  Nobody reads the channels to the event loop any more; they are    *)
(* emptied, and what is sent to them is dropped.                            *)

Shutdown ==
  /\ main = "loop" /\ MayStop
  /\ main' = "shutdown"
  /\ mgr' = ShutdownManager(mgr)
  /\ worker' = [NoWork EXCEPT !.pc = "acquire"]
  /\ lock' = IF lock = "cleanup" THEN "free" ELSE lock
  /\ requests' = << >> /\ results' = << >> /\ events' = << >>
  /\ faults' = 0 /\ snap' = NoSnap
  /\ UNCHANGED <<genOf, pending, recGen, queue, exec, reqVars, conn, exchVars,
                 attempts, verified, trouble>>

ShutdownTimeout ==
  /\ main = "shutdown"
  /\ main' = "exit"
  /\ worker' = NoWork
  /\ lock' = IF lock = "cleanup" THEN "free" ELSE lock
  /\ UNCHANGED <<loopVars, genOf, results, faults, events, snap, exec, reqVars, conn,
                 exchVars, attempts, verified, trouble>>

----------------------------------------------------------------------------
LiveSlots == {s \in Slots : mgr.slots[s].state = "Live"}
UsedSlots == {s \in Slots : Used(mgr, s)}

EventLoop ==
  \/ \E q \in Quotes, old \in {{}, LiveSlots} : DepthQuote(q, old)
  \/ OrderEvent \/ ExecutorFault \/ ReconciliationVerified
  \/ MarketOutage \/ PollOpenOrders
  \/ \E polled \in {FALSE, mgr.owed > 0}, late \in {{}, UsedSlots},
        cooled \in SUBSET (mgr.pauses \cap {"Safety", "CircuitBreaker"}) :
       \/ Tick("none", polled, cooled, late) /\ UNCHANGED trouble
       \/ \E fault \in TickFaults :
            Suffer(fault) /\ Tick(fault, polled, cooled, late)

Executor ==
  \/ TakeDecision \/ AcquireSubmission \/ Recheck \/ InsertRequest \/ ReportFault
  \/ \E ok, reached \in BOOLEAN : WriteOrder(ok, reached) \/ SendCancel(ok, reached)

OrderSocket ==
  \/ \E r \in resp : HandleResponse(r)
  \/ OddResponse \/ Disconnect \/ Authenticate

Exchange ==
  \E id \in Ids :
    \/ LoseOrder(id)
    \/ \E a, b \in BOOLEAN : ReceiveOrder(id, a, b) \/ Fill(id, a, b)
    \/ \E a \in BOOLEAN : ReceiveCancel(id, a)

Cleanup ==
  \/ WorkerTake \/ CleanupLock \/ CleanupQuery \/ CleanupResolve \/ CleanupCancel
  \/ CleanupError \/ CleanupVerify

(* The process is gone; the model stutters. *)
Exited == main = "exit" /\ UNCHANGED vars

Next == EventLoop \/ Executor \/ OrderSocket \/ Exchange \/ Cleanup
        \/ Shutdown \/ ShutdownTimeout \/ Exited

Spec == Init /\ [][Next]_vars

(* select! picks a ready arm at random, so no arm is starved; tasks run     *)
(* until their next await; the tick comes every second and finds elapsed    *)
(* cooldowns, overdue slots and published positions sooner or later; the    *)
(* socket reconnects and delivers or loses what was written.  Failures are  *)
(* not fair, and REST errors end with the budget.                           *)
DueTick ==
  Tick("none", TRUE, mgr.pauses \cap {"Safety", "CircuitBreaker"}, UsedSlots)
    /\ UNCHANGED trouble
Fairness ==
  /\ WF_vars(OrderEvent) /\ WF_vars(ExecutorFault) /\ WF_vars(ReconciliationVerified)
  /\ WF_vars(DueTick)
  /\ WF_vars(Executor)
  /\ WF_vars(Authenticate) /\ WF_vars(\E r \in resp : HandleResponse(r))
  /\ \A id \in Ids : WF_vars(LoseOrder(id) \/ \E a, b \in BOOLEAN : ReceiveOrder(id, a, b))
  /\ WF_vars(Cleanup)
FairSpec == Spec /\ Fairness

----------------------------------------------------------------------------
EventKinds == {"accepted", "rejected", "canceled", "cancelFailed", "filled", "partial",
               "ambiguous", "authenticated", "disconnected"}
ResponseKinds == {"accepted", "rejected", "canceled", "cancelFailed", "filled", "partial"}
DecisionQueued == [kind: {"Send", "Cancel", "Replace"}, id: Ids, gen: Nat]

(* Type invariant, with the capacities of the channels: whoever sends waits *)
(* or is refused when one is full.                                          *)
TypeOK ==
  /\ mgr \in Manager
  /\ genOf \in [Ids -> Nat]
  /\ pending \in BOOLEAN /\ recGen \in Nat
  /\ queue \in Seq(DecisionQueued) /\ Len(queue) <= QueueCap
  /\ requests \in Seq(Nat) /\ results \in Seq(Nat)
  /\ faults \in 0..FaultCap
  /\ events \in Seq([kind: EventKinds, id: 0..MaxOrders]) /\ Len(events) <= EventCap + 1
  /\ snap \in [polled: BOOLEAN, open: SUBSET Ids]
  /\ exec \in [pc: {"idle", "lock", "sign", "insert", "write", "cancel", "fault"},
               id: 0..MaxOrders, gen: Nat]
  /\ lock \in {"free", "exec", "cleanup"}
  /\ worker \in [pc: {"idle", "acquire", "query", "resolve", "cancel", "verify"},
                 gen: Nat, settled: BOOLEAN]
  /\ newReqs \subseteq Ids /\ cancelReqs \subseteq Ids /\ cancels \subseteq Ids
  /\ conn \in {"up", "closing", "down"}
  /\ ex \in [Ids -> {"none", "wire", "open", "done", "lost"}]
  /\ resp \subseteq [kind: ResponseKinds, id: Ids]
  /\ main \in {"loop", "shutdown", "exit"}
  /\ attempts \in 0..MaxAttempts
  /\ verified \in BOOLEAN
  /\ trouble \in 0..MaxTrouble

(* No order is at the exchange, or on its way there, without a slot that    *)
(* reserves its notional: not after a refused dispatch, a failed or timed   *)
(* out write, a late or lost answer, a timeout, a fill, a reconnect or a    *)
(* reconciliation, in whatever order the tasks meet.                        *)
EveryExposureTracked == Exposed \subseteq TrackedIds(mgr)

(* From the verdict of a cleanup on, until the event loop has taken it (or  *)
(* for good when it was the cleanup of shutdown), the account is empty:     *)
(* nothing rests, nothing is on the wire and no submission is unresolved.   *)
VerifiedMeansClean ==
  results # << >> \/ (main = "exit" /\ verified) => Exposed = {} /\ newReqs = {}

(* Reconciliation is never forgotten and never doubled: while the pause is  *)
(* up exactly one of a queued request, a working worker and a waiting       *)
(* result stands for it, and a result always is of the current generation.  *)
ReconciliationOwned ==
  main = "loop" =>
    /\ Len(requests) + Len(results) + (IF worker.pc = "idle" THEN 0 ELSE 1)
         = (IF pending THEN 1 ELSE 0)
    /\ pending <=> "Reconciliation" \in mgr.pauses
    /\ results # << >> => Head(results) = recGen

(* No pause is a dead end: the two that need a verified cleanup to be       *)
(* lifted have one under way or an armed cooldown that will start one, and  *)
(* the transport pause has a reconnect or its announcement to come.         *)
EveryPauseHasWayOut ==
  main = "loop" =>
    /\ "Safety" \in mgr.pauses => pending \/ mgr.safetyArmed
    /\ "CircuitBreaker" \in mgr.pauses => pending \/ mgr.breakerArmed
    /\ "OrderWebSocket" \in mgr.pauses =>
         conn # "up" \/ \E i \in 1..Len(events) : events[i].kind = "authenticated"

NothingLost == \A id \in Ids : ex[id] # "lost"

(* A reconciliation ends, unless the process stops or a submission was lost *)
(* without a trace: REST cannot tell that one from a delayed one, so        *)
(* trading then stays paused (cancel_and_verify).                           *)
ReconciliationEnds ==
  pending /\ main = "loop" ~> ~pending \/ main # "loop" \/ ~NothingLost

(* Every order that waits for an answer gets one or is reconciled away: a   *)
(* lost response, a dead connection or a refused decision does not keep a   *)
(* slot occupied for ever.                                                  *)
SlotsComeFree ==
  \A s \in Slots :
    main = "loop" /\ mgr.slots[s].state \in {"Pending", "Canceling"}
      ~> mgr.slots[s].state \in {"Free", "Live"} \/ main # "loop" \/ ~NothingLost

(* The trading loop implements the ledger of exposure: every step of every  *)
(* task is one of its transfers, or changes nothing it sees.                *)
Ledger ==
  INSTANCE ExposureLedger WITH
    OrderIds <- Ids,
    used     <- 1..(mgr.nextId - 1),
    tracked  <- TrackedIds(mgr),
    exposed  <- Exposed,
    spent    <- {id \in Ids : ex[id] \in {"done", "lost"}}
KeepsLedger == Ledger!Spec
=============================================================================
