---------------------------- MODULE OrderSocket ----------------------------
(***************************************************************************)
(* The order WebSocket client (src/trading/order_ws.rs) on its own: what   *)
(* an answer is taken for, by the requests and cancels that wait for one,  *)
(* and one connection after another, with the writer that the executor,    *)
(* the connection loop and a forced reconnect share.  Trading keeps the    *)
(* answers that carry a request id and one ambiguous kind; here an answer  *)
(* is honest and leaves out any of its fields.                             *)
(***************************************************************************)
EXTENDS Integers, FiniteSets

CONSTANTS
  Orders,          \* one value for the client id and the exchange id
  None,
  Shapes,          \* fields an answer to a request may carry
  MaxRetries,      \* max_retries (10 in main)
  MaxCancels,      \* bound: cancels of one order
  MaxPauses,       \* bound: times the event loop suspends submissions
  MaxTrouble,      \* bound: failures of the connection, forced reconnects
  MaxRepeats,      \* bound: answers delivered again
  MaxAnswers       \* bound: answers on their way at once

Fields == {"id", "code", "method", "data", "cl", "oid"}

VARIABLES
  requests,  \* pending_requests: request id and PendingRequest in one
  cancels,   \* pending_cancels
  exec,      \* executor: its point in place_order or send_cancel, its request
  conn,      \* "waiting", "login", "up", "stalled", "closed" or "over"
  connected, authenticated,  \* the flags; authenticated is ws_authenticated
  writer,    \* "none", "live", "stalled" or "dead" (its connection has ended)
  forcing,   \* force_reconnect waits for the writer
  failures,  \* consecutive_failures
  tracked,   \* event loop: "none", "sent", "known" or "free"
  paused,    \* event loop: submissions suspended
  verified,  \* a cleanup found the account clean; the loop has yet to resume
  ex,        \* exchange: "none", "open", "done" or "refused"
  wire,      \* requests written that may yet arrive
  answers,   \* on their way over this connection
  used       \* what is used of each bound

bookVars == <<requests, cancels>>
connVars == <<conn, connected, authenticated, writer, forcing, failures>>
flags == <<connected, authenticated>>
loopVars == <<tracked, paused, verified>>
exchVars == <<ex, wire, answers>>
vars == <<bookVars, exec, connVars, loopVars, exchVars, used>>

Request(op, o, n) == [op |-> op, order |-> o, n |-> n]
Requests == [op : {"new", "cancel"}, order : Orders, n : 0..MaxCancels]

ASSUME SocketAssumption ==
  /\ None \notin Orders \cup Requests \cup {"new", "cancel", "fill"}
  /\ Shapes \subseteq SUBSET Fields
  /\ {MaxRetries, MaxCancels, MaxPauses, MaxTrouble, MaxRepeats, MaxAnswers}
       \subseteq Nat

Idle == [pc |-> "idle", req |-> None]
At(pc, op) == exec.pc = pc /\ exec.req.op = op

Spend(what, max) == used[what] < max /\ used' = [used EXCEPT ![what] = @ + 1]
Suffer == Spend("trouble", MaxTrouble)

Init ==
  /\ requests = {} /\ cancels = {} /\ exec = Idle
  /\ conn = "waiting" /\ writer = "none" /\ failures = 0
  /\ connected = FALSE /\ authenticated = FALSE /\ forcing = FALSE
  /\ tracked = [o \in Orders |-> "none"] /\ paused = FALSE /\ verified = FALSE
  /\ ex = [o \in Orders |-> "none"] /\ wire = {} /\ answers = {}
  /\ used = [what \in {"pauses", "trouble", "repeats"} \cup Orders |-> 0]

----------------------------------------------------------------------------
(* What an answer is taken for.  An answer has its fields or None; `cl` and *)
(* `oid` are inside `data`.                                                 *)

Event(kind, o) == [kind |-> kind, order |-> o]
Ambiguous == Event("ambiguous", None)
Nothing == Event("nothing", None)
Named(a) == IF a.cl # None THEN a.cl ELSE a.oid

NewRequest(r, o) == r.op = "new" /\ r.order = o
Only(op, pend) == pend # {} /\ \A r \in pend : r.op = op
Acknowledged(op) ==
  Event(IF op = "new" THEN "submissionAck" ELSE "cancelAck", None)

(* handle_order_response                                                    *)
OrderResponse(a) ==
  IF a.code = "ok"
  THEN IF None \in {a.cl, a.oid} THEN Acknowledged("new") ELSE Event("accepted", a.cl)
  ELSE IF a.cl = None THEN Ambiguous ELSE Event("rejected", a.cl)

(* handle_cancel_response                                                   *)
CancelResponse(a) ==
  IF a.code = "ok"
  THEN IF Named(a) = None THEN Acknowledged("cancel") ELSE Event("canceled", Named(a))
  ELSE IF Named(a) = None THEN Ambiguous ELSE Event("cancelFailed", a.oid)

(* handle_correlated_response: the request says which order it was.         *)
Correlated(a) ==
  LET o == a.id.order
  IN IF a.id.op = "new" THEN Event(IF a.code = "ok" THEN "accepted" ELSE "rejected", o)
     ELSE IF a.code = "ok" THEN Event("canceled", o) ELSE Event("cancelFailed", None)

WithMethod(a) ==
  IF a.code = None THEN Ambiguous
  ELSE IF a.data
  THEN IF a.method = "new" THEN OrderResponse(a) ELSE CancelResponse(a)
  ELSE IF a.code = "ok" THEN Acknowledged(a.method) ELSE Ambiguous

WithoutMethod(a, pend, marked) ==
  IF ~a.data
  THEN IF a.code # "ok" THEN Ambiguous
       ELSE IF Only("new", pend) THEN Acknowledged("new")
       ELSE IF Only("cancel", pend) THEN Acknowledged("cancel") ELSE Ambiguous
  ELSE IF a.code = None THEN Ambiguous
  ELSE IF a.cl \in marked THEN CancelResponse(a)
  ELSE IF a.cl # None THEN OrderResponse(a)
  ELSE IF a.oid # None THEN CancelResponse(a) ELSE Ambiguous

(* A result that names an order settles its submission, unless a cancel of  *)
(* it is marked.                                                            *)
Settles(a, r) ==
  /\ a.code # None /\ a.method # "cancel"
  /\ a.cl \notin cancels /\ NewRequest(r, a.cl)

(* A code-only answer to a request no longer known: a duplicate.            *)
Outdated(a) == a.id # None /\ a.code # None /\ a.method = None /\ ~a.data

\* Seeded fault: an answer without a result code counts as a success.
HandledCodeless(a) ==
  IF a.id \in requests
  THEN [requests |-> requests \ {a.id}, cancels |-> cancels \ {a.id.order},
        event |-> Correlated([a EXCEPT !.code = IF @ = None THEN "ok" ELSE @])]
  ELSE [requests |-> requests, cancels |-> cancels, event |-> Ambiguous]

(* handle_response: what the answer leaves of the book, and the event.      *)
Handled(a) ==
  IF a.id \in requests /\ a.code # None
  THEN [requests |-> requests \ {a.id}, event |-> Correlated(a),
        cancels |-> IF a.id.op = "cancel" THEN cancels \ {a.id.order} ELSE cancels]
  ELSE IF Outdated(a) THEN [requests |-> requests, cancels |-> cancels, event |-> Nothing]
  ELSE LET pend == {r \in requests : ~Settles(a, r)}
       IN [requests |-> pend,
           cancels |-> IF a.code # None /\ a.data /\ a.method \in {"cancel", None}
                       THEN cancels \ {a.cl} ELSE cancels,
           event |-> CASE a.method = "fill" ->
                            IF a.data THEN Event("filled", Named(a)) ELSE Ambiguous
                       [] a.method \in {"new", "cancel"} -> WithMethod(a)
                       [] OTHER -> WithoutMethod(a, pend, cancels)]

----------------------------------------------------------------------------
(* The event loop, as far as the socket needs it.                           *)

LoopUnchanged == UNCHANGED <<exec, connVars, exchVars>>

(* An event that names an order frees its slot or makes it known.           *)
Told(e) ==
  [o \in Orders |->
     IF o # e.order THEN tracked[o]
     ELSE IF e.kind \in {"rejected", "canceled", "filled"} THEN "free"
     ELSE IF e.kind = "accepted" /\ tracked[o] = "sent" THEN "known" ELSE tracked[o]]

(* A snapshot of the open-order checker confirms an order.                  *)
RestSees(o) ==
  /\ ~paused /\ tracked[o] = "sent" /\ ex[o] = "open"
  /\ tracked' = [tracked EXCEPT ![o] = "known"]
  /\ requests' = {r \in requests : ~NewRequest(r, o)}
  /\ UNCHANGED <<cancels, paused, verified, used>>
  /\ LoopUnchanged

(* Some cause of a reconciliation; Trading has them all.                    *)
Pause ==
  /\ ~paused /\ Spend("pauses", MaxPauses)
  /\ paused' = TRUE
  /\ UNCHANGED <<bookVars, tracked, verified>>
  /\ LoopUnchanged

(* cancel_and_verify, under the submission mutex: what REST shows or knows  *)
(* the end of is settled, the rest is not.                                  *)
Cleanup ==
  /\ paused /\ ~verified
  /\ ~(exec.pc \in {"signed", "writing"} /\ exec.req.op = "new")
  /\ \E unsettled \in {{r \in requests : r.op = "new" /\ ex[r.order] = "none"}} :
       /\ requests' = {r \in requests : r.op = "cancel"} \cup unsettled
       /\ verified' = (unsettled = {})
  /\ ex' = [o \in Orders |-> IF ex[o] = "open" THEN "done" ELSE ex[o]]
  /\ UNCHANGED <<cancels, tracked, paused, wire, answers, exec, connVars, used>>

(* clear_pending_tracking, and the managers forget their orders.            *)
Resume ==
  /\ paused /\ verified
  /\ requests' = {} /\ cancels' = {}
  /\ paused' = FALSE /\ verified' = FALSE
  /\ tracked' = [o \in Orders |-> IF tracked[o] = "none" THEN "none" ELSE "free"]
  /\ UNCHANGED used
  /\ LoopUnchanged

----------------------------------------------------------------------------
(* The executor.                                                            *)

ExecUnchanged == UNCHANGED <<connVars, paused, verified, ex, answers>>

StartNew(o) ==
  /\ exec = Idle /\ ~paused /\ tracked[o] = "none"
  /\ tracked' = [tracked EXCEPT ![o] = "sent"]
  /\ exec' = [pc |-> "gate", req |-> Request("new", o, 0)]
  /\ UNCHANGED <<bookVars, wire, used>>
  /\ ExecUnchanged

(* cancel_order_by_client_id marks the order before anything else.          *)
StartCancel(o) ==
  /\ exec = Idle /\ ~paused /\ tracked[o] = "known"
  /\ \A r \in requests : ~(r.op = "cancel" /\ r.order = o)
  /\ Spend(o, MaxCancels)
  /\ cancels' = cancels \cup {o}
  /\ exec' = [pc |-> "gate", req |-> Request("cancel", o, used'[o])]
  /\ UNCHANGED <<requests, tracked, wire>>
  /\ ExecUnchanged

\* Seeded fault: a submission whose write fails is forgotten, like a cancel.
FailForgets ==
  /\ exec' = Idle
  /\ requests' = requests \ {exec.req} /\ cancels' = cancels \ {exec.req.order}

\* Seeded fault: a cancel that could not be sent stays marked.
FailMarked ==
  /\ exec' = Idle
  /\ requests' = IF exec.req.op = "cancel" THEN requests \ {exec.req} ELSE requests
  /\ UNCHANGED cancels

(* A cancel that fails is taken out of the book, whatever was written.      *)
Fail ==
  /\ exec' = Idle
  /\ IF exec.req.op = "cancel"
     THEN requests' = requests \ {exec.req} /\ cancels' = cancels \ {exec.req.order}
     ELSE UNCHANGED bookVars

(* permits, for a submission, and the connection flags.                     *)
Gate ==
  /\ exec.pc = "gate"
  /\ IF connected /\ authenticated /\ (exec.req.op = "new" => ~paused)
     THEN /\ exec' = [exec EXCEPT !.pc = "signed"]
          /\ requests' = IF exec.req.op = "cancel" THEN requests \cup {exec.req} ELSE requests
          /\ UNCHANGED cancels
     ELSE Fail
  /\ UNCHANGED <<tracked, wire, used>>
  /\ ExecUnchanged

(* Signed; the writer may be that of a later connection.  permits is asked  *)
(* once more, the connection flags are not.                                 *)
TakeWriter ==
  /\ exec.pc = "signed"
  /\ IF writer # "none" /\ (exec.req.op = "new" => ~paused)
     THEN /\ exec' = [exec EXCEPT !.pc = "writing"]
          /\ requests' = IF exec.req.op = "new" THEN requests \cup {exec.req} ELSE requests
          /\ UNCHANGED cancels
     ELSE Fail
  /\ UNCHANGED <<tracked, wire, used>>
  /\ ExecUnchanged

Drains == writer = "live" /\ conn \in {"login", "up"}
Blocked == writer \in {"dead", "stalled"}

(* What is written to a connection that has ended may arrive all the same.  *)
Put(reached) ==
  wire' = IF reached THEN wire \cup {[req |-> exec.req, live |-> Drains]} ELSE wire

WriteDone(reached) ==
  /\ exec.pc = "writing" /\ writer # "stalled"
  /\ Drains => reached
  /\ Put(reached)
  /\ exec' = Idle
  /\ UNCHANGED <<bookVars, tracked, used>>
  /\ ExecUnchanged


(* place_order bounds its write by five seconds, send_cancel does not.      *)
WriteFails(op, reached) ==
  /\ At("writing", op) /\ Blocked
  /\ Put(reached)
  /\ Fail
  /\ UNCHANGED <<tracked, used>>
  /\ ExecUnchanged

----------------------------------------------------------------------------
(* The connection loop.                                                     *)

WriterFree == exec.pc # "writing"

(* Nothing written on a connection that ends is answered any more.          *)
Cut == answers' = {} /\ wire' = {[w EXCEPT !.live = FALSE] : w \in wire}

\* Seeded fault: the loop retries for ever.
RetryAlways(n) == failures' = n + 1 /\ conn' = "waiting"

(* next_delay                                                               *)
Retry(n) ==
  /\ failures' = n + 1
  /\ conn' = IF n + 1 > MaxRetries THEN "over" ELSE "waiting"

ReaderUnchanged == UNCHANGED <<exec, loopVars, ex, forcing>>

Connect ==
  /\ conn = "waiting" /\ WriterFree
  /\ conn' = "login" /\ connected' = TRUE /\ writer' = "live"
  /\ UNCHANGED <<bookVars, authenticated, failures, wire, answers, used>>
  /\ ReaderUnchanged

ConnectFails ==
  /\ conn = "waiting" /\ Suffer
  /\ Retry(failures)
  /\ cancels' = {}
  /\ UNCHANGED <<requests, flags, writer, wire, answers>>
  /\ ReaderUnchanged

Login ==
  /\ conn = "login"
  /\ conn' = "up" /\ authenticated' = TRUE
  /\ UNCHANGED <<bookVars, connected, writer, failures, wire, answers, used>>
  /\ ReaderUnchanged

ClearFlags == connected' = FALSE /\ authenticated' = FALSE

(* connect_and_run returns an error: the writer stays as it is and the      *)
(* failures are counted on.                                                 *)
Break ==
  /\ Cut /\ ClearFlags /\ cancels' = {}
  /\ writer' = IF writer = "none" THEN "none" ELSE "dead"
  /\ Retry(failures)
  /\ UNCHANGED requests

(* A login fails, too, when a forced reconnect has closed its connection.   *)
BreaksOff ==
  /\ conn \in {"login", "up", "stalled"}
  /\ IF conn = "login" /\ writer = "none" THEN UNCHANGED used ELSE Suffer
  /\ Break
  /\ ReaderUnchanged

(* An order written to a connection that has not logged in is refused; an   *)
(* answer without a request id is taken for that of the login.              *)
AnswerDuringLogin(a) ==
  /\ conn = "login" /\ a \in answers
  /\ IF a.code # None /\ a.id = None THEN Break
     ELSE /\ answers' = answers \ {a}
          /\ UNCHANGED <<bookVars, conn, flags, writer, failures, wire>>
  /\ UNCHANGED used
  /\ ReaderUnchanged

(* The messages that arrive; one may be delivered again.                    *)
Read(a) ==
  /\ conn = "up" /\ a \in answers
  /\ \/ answers' = answers \ {a} /\ UNCHANGED used
     \/ answers' = answers /\ a.id # None /\ Spend("repeats", MaxRepeats)
  /\ \E h \in {Handled(a)} :
       /\ requests' = h.requests /\ cancels' = h.cancels
       /\ tracked' = Told(h.event)
  /\ UNCHANGED <<exec, connVars, paused, verified, ex, wire>>

Stall ==
  /\ conn = "up" /\ Suffer
  /\ conn' = "stalled" /\ Cut
  /\ writer' = IF writer = "live" THEN "stalled" ELSE writer
  /\ UNCHANGED <<bookVars, flags, failures>>
  /\ ReaderUnchanged

(* The stream ends or, nothing having been heard for stale_timeout, the     *)
(* loop leaves it, which does not unblock a write; a forced reconnect has   *)
(* closed it.                                                               *)
StreamEnds ==
  /\ conn \in {"up", "stalled"}
  /\ IF conn = "stalled" \/ writer = "none" THEN UNCHANGED used ELSE Suffer
  /\ conn' = "closed" /\ Cut
  /\ writer' = IF writer = "live" THEN "dead" ELSE writer
  /\ UNCHANGED <<bookVars, flags, failures>>
  /\ ReaderUnchanged

(* It takes the writer away and, having ended well, starts to count anew.   *)
ClearWriter ==
  /\ conn = "closed" /\ WriterFree
  /\ writer' = "none" /\ ClearFlags /\ cancels' = {}
  /\ Retry(0)
  /\ UNCHANGED <<requests, wire, answers, used>>
  /\ ReaderUnchanged

ForceUnchanged ==
  UNCHANGED <<bookVars, exec, conn, failures, loopVars, exchVars>>

(* force_reconnect: the flags at once, the writer when it is free.          *)
ForceReconnect ==
  /\ connected /\ ~forcing /\ Suffer
  /\ ClearFlags /\ forcing' = TRUE
  /\ UNCHANGED writer
  /\ ForceUnchanged

ForceClose ==
  /\ forcing /\ WriterFree
  /\ forcing' = FALSE /\ writer' = "none"
  /\ UNCHANGED <<flags, used>>
  /\ ForceUnchanged

----------------------------------------------------------------------------
(* The exchange.                                                            *)

ExchangeUnchanged == UNCHANGED <<bookVars, exec, connVars, loopVars, used>>

(* An honest answer with the fields of a shape.  What it answers stays with *)
(* it in `of`, which no handler reads.                                      *)
Answer(r, ok, shape) ==
  LET Field(f, value) == IF f \in shape THEN value ELSE None
  IN [id |-> Field("id", r), method |-> Field("method", r.op),
      code |-> Field("code", IF ok THEN "ok" ELSE "refused"),
      data |-> "data" \in shape,
      cl |-> Field("cl", r.order), oid |-> Field("oid", r.order), of |-> r.op]

FillNotice(o) ==
  [id |-> None, method |-> "fill", code |-> None, data |-> TRUE, cl |-> o, oid |-> o,
   of |-> "fill"]

Processed(r, ok) ==
  IF r.op = "new" THEN IF ok THEN "open" ELSE "refused"
  ELSE IF ok THEN "done" ELSE ex[r.order]

(* Before the login everything is refused; a cancel succeeds on an order    *)
(* that rests.                                                              *)
Arrive(w, ok) ==
  /\ w \in wire /\ (w.live => Cardinality(answers) < MaxAnswers)
  /\ IF w.live /\ conn = "login" THEN ~ok
     ELSE w.req.op = "cancel" => ok = (ex[w.req.order] = "open")
  /\ ex' = [ex EXCEPT ![w.req.order] = Processed(w.req, ok)]
  /\ wire' = wire \ {w}
  /\ IF w.live THEN \E shape \in Shapes : answers' = answers \cup {Answer(w.req, ok, shape)}
     ELSE UNCHANGED answers
  /\ ExchangeUnchanged

(* What a connection that ended had not delivered may never arrive.         *)
Vanish(w) ==
  /\ w \in wire /\ ~w.live
  /\ wire' = wire \ {w}
  /\ UNCHANGED <<ex, answers>>
  /\ ExchangeUnchanged

(* An order fills in full; the notice is lost with a broken connection.     *)
Fill(o) ==
  /\ ex[o] = "open" /\ Cardinality(answers) < MaxAnswers
  /\ ex' = [ex EXCEPT ![o] = "done"]
  /\ answers' = IF conn = "up" THEN answers \cup {FillNotice(o)} ELSE answers
  /\ UNCHANGED wire
  /\ ExchangeUnchanged

----------------------------------------------------------------------------
EventLoop == Pause \/ Cleanup \/ Resume \/ \E o \in Orders : RestSees(o)

Executor ==
  \/ \E o \in Orders : StartNew(o) \/ StartCancel(o)
  \/ Gate \/ TakeWriter
  \/ \E b \in BOOLEAN : WriteDone(b) \/ WriteFails("new", b) \/ WriteFails("cancel", b)

Connection ==
  \/ Connect \/ ConnectFails \/ Login \/ BreaksOff \/ Stall \/ StreamEnds \/ ClearWriter
  \/ ForceReconnect \/ ForceClose
  \/ \E a \in answers : AnswerDuringLogin(a) \/ Read(a)

Exchange ==
  \/ \E w \in wire : Vanish(w) \/ \E ok \in BOOLEAN : Arrive(w, ok)
  \/ \E o \in Orders : Fill(o)

Next == EventLoop \/ Executor \/ Connection \/ Exchange

Spec == Init /\ [][Next]_vars

(* Tasks run; the loop connects again after its delay, and finds a silent   *)
(* connection stale; a login is answered or times out (BreaksOff stands     *)
(* for that, too); a submission's write is timed, a cancel's is not and may *)
(* stay blocked for as long as the kernel keeps it.                         *)
Fairness ==
  /\ WF_vars(Gate) /\ WF_vars(TakeWriter) /\ WF_vars(\E b \in BOOLEAN : WriteDone(b))
  /\ WF_vars(\E b \in BOOLEAN : WriteFails("new", b))
  /\ WF_vars(Connect) /\ WF_vars(Login)
  /\ WF_vars(conn = "stalled" /\ StreamEnds) /\ WF_vars(ClearWriter)
  /\ WF_vars(ForceClose)
FairSpec == Spec /\ Fairness

----------------------------------------------------------------------------
Answers ==
  [id : Requests \cup {None}, method : {"new", "cancel", "fill", None},
   code : {"ok", "refused", None}, data : BOOLEAN,
   cl : Orders \cup {None}, oid : Orders \cup {None}, of : {"new", "cancel", "fill"}]

(* Type invariant: the loop gives up exactly when its retries are used up.  *)
TypeOK ==
  /\ requests \subseteq Requests /\ cancels \subseteq Orders
  /\ exec \in [pc : {"idle"}, req : {None}]
             \cup [pc : {"gate", "signed", "writing"}, req : Requests]
  /\ conn \in {"waiting", "login", "up", "stalled", "closed", "over"}
  /\ connected \in BOOLEAN /\ authenticated \in BOOLEAN /\ forcing \in BOOLEAN
  /\ writer \in {"none", "live", "stalled", "dead"}
  /\ failures \in 0..(MaxRetries + 1) /\ (conn = "over") = (failures > MaxRetries)
  /\ tracked \in [Orders -> {"none", "sent", "known", "free"}]
  /\ paused \in BOOLEAN /\ verified \in BOOLEAN
  /\ ex \in [Orders -> {"none", "open", "done", "refused"}]
  /\ wire \subseteq [req : Requests, live : BOOLEAN]
  /\ answers \subseteq Answers
  /\ used \in [{"pauses", "trouble", "repeats"} \cup Orders -> Nat]

IsTrue(e) ==
  CASE e.kind = "accepted" -> ex[e.order] \in {"open", "done"}
    [] e.kind = "rejected" -> ex[e.order] = "refused"
    [] e.kind \in {"canceled", "filled"} -> ex[e.order] = "done"
    [] OTHER -> TRUE

(* What handle_response takes an answer without a method for, and an answer *)
(* it takes for that of the other request: it names an order by its data    *)
(* only, while its cancel is marked, or no longer is, or by the exchange id *)
(* alone.                                                                   *)
TakenFor(a) == IF a.cl \in cancels \/ a.cl = None THEN "cancel" ELSE "new"
Mistaken(a) ==
  /\ a.id \notin requests /\ a.method = None /\ a.code # None /\ a.data
  /\ Named(a) # None /\ TakenFor(a) # a.of

VerdictTrue(a) ==
  LET e == Handled(a).event
  IN IsTrue(e) \/ (e.kind \in {"canceled", "rejected"} /\ Mistaken(a))

(* What the event loop would be told of an order, by any answer it may read *)
(* next, is so at the exchange: no order that rests is reported rejected,   *)
(* canceled or filled, and none is accepted that was not, whichever fields  *)
(* the answer lacks and whatever else is pending.  The one exception is an  *)
(* answer mistaken for that of the other request, which may report an order *)
(* canceled or rejected that is not; GuessesRight says there are none.      *)
VerdictsTrue == \A a \in answers : conn = "up" => VerdictTrue(a)

(* The comments of handle_response: an answer without a method that names   *)
(* an order marked as being canceled "is a cancel confirmation", any other  *)
(* with a client id "must be an order acceptance".                          *)
GuessesRight == \A a \in answers : conn = "up" => ~Mistaken(a)

(* A submission that may yet arrive is still waited for, whatever became of *)
(* its write and of the connection; a cleanup that finds nothing waited for *)
(* may trust the empty book it sees.                                        *)
SubmissionsRemembered ==
  \A w \in wire : w.req.op = "new" => w.req \in requests

(* An order is marked as being canceled only while its cancel is on its way *)
(* or waited for: a mark left behind would have the order's own late answer *)
(* taken for the confirmation of a cancel.                                  *)
MarkedMeansPending ==
  \A o \in cancels :
    \/ exec.pc # "idle" /\ exec.req.op = "cancel" /\ exec.req.order = o
    \/ \E r \in requests : r.op = "cancel" /\ r.order = o


(* The doc of the client, "with automatic reconnection", and the check for  *)
(* a stale connection: one from which nothing is heard is replaced, or the  *)
(* retries are used up.                                                     *)
StaleConnectionReplaced == conn = "stalled" ~> conn \in {"up", "over"}

(* The doc of consecutive_failures: reset on successful connection.  So the *)
(* loss of a connection that had succeeded never uses up the retries; only  *)
(* attempts to connect do.                                                  *)
RetriesInARow ==
  [][MaxRetries > 0 /\ conn \in {"up", "stalled", "closed"} => conn' # "over"]_vars
=============================================================================
