------------------------- MODULE OrderSocket_proofs -------------------------
(***************************************************************************)
(* What the order socket promises of its book of requests, for any number  *)
(* of orders, connections, cancels, pauses and repeated answers.           *)
(***************************************************************************)
EXTENDS OrderSocket, TLAPS

Carries(op, o) == exec.pc # "idle" /\ exec.req.op = op /\ exec.req.order = o

(* A submission is written once: the exchange has not heard of an order     *)
(* that the executor still carries or that is on the wire.  A cancel is of  *)
(* an order it has heard of.                                                *)
OnceInv ==
  /\ \A o \in Orders :
       /\ tracked[o] = "none" => ex[o] = "none"
       /\ tracked[o] = "known" => ex[o] # "none"
       /\ Carries("new", o) => ex[o] = "none" /\ tracked[o] # "none"
       /\ Carries("cancel", o) => ex[o] # "none"
  /\ \A w \in wire :
       /\ w.req.op = "new" => /\ ex[w.req.order] = "none"
                              /\ tracked[w.req.order] # "none"
                              /\ ~Carries("new", w.req.order)
       /\ w.req.op = "cancel" => ex[w.req.order] # "none"
  /\ \A v, w \in wire :
       v.req.op = "new" /\ w.req.op = "new" /\ v.req.order = w.req.order => v = w

(* What an answer to a request still says of the order, whatever became of  *)
(* it since.                                                                *)
Outcome(r, ok) ==
  /\ r.op = "new" => IF ok THEN ex[r.order] \in {"open", "done"}
                     ELSE ex[r.order] = "refused"
  /\ r.op = "cancel" => IF ok THEN ex[r.order] = "done" ELSE ex[r.order] # "none"

Honest(a) ==
  \/ \E r \in Requests, ok \in BOOLEAN, shape \in Shapes :
       a = Answer(r, ok, shape) /\ Outcome(r, ok)
  \/ \E o \in Orders : a = FillNotice(o) /\ ex[o] = "done"

HonestInv == \A a \in answers : Honest(a)

(* What is on the wire, or about to be, is waited for; once a cleanup has   *)
(* found the account clean there is no such submission.                     *)
AwaitedInv ==
  /\ SubmissionsRemembered
  /\ At("writing", "new") => exec.req \in requests
  /\ verified => /\ paused
                 /\ ~(exec.pc \in {"signed", "writing"} /\ exec.req.op = "new")
                 /\ \A w \in wire : w.req.op # "new"

(* A mark belongs to a cancel that is in the book, or about to enter it.    *)
MarkInv ==
  \A o \in cancels :
    \/ exec.pc = "gate" /\ exec.req.op = "cancel" /\ exec.req.order = o
    \/ \E r \in requests : r.op = "cancel" /\ r.order = o

IInv == TypeOK /\ OnceInv /\ HonestInv /\ AwaitedInv /\ MarkInv

----------------------------------------------------------------------------
LEMMA InitHolds == Init => IInv
<1> SUFFICES ASSUME Init PROVE IInv
  OBVIOUS
<1> USE SocketAssumption DEF SocketAssumption, Init
<1>1. TypeOK
  <2>1. /\ connected \in BOOLEAN /\ authenticated \in BOOLEAN /\ forcing \in BOOLEAN
        /\ paused \in BOOLEAN /\ verified \in BOOLEAN
    BY Zenon
  <2>2. failures \in 0..(MaxRetries + 1) /\ (conn = "over") = (failures > MaxRetries)
    OBVIOUS
  <2>3. exec \in [pc : {"idle"}, req : {None}]
    BY DEF Idle
  <2>4. /\ tracked \in [Orders -> {"none", "sent", "known", "free"}]
        /\ ex \in [Orders -> {"none", "open", "done", "refused"}]
        /\ used \in [{"pauses", "trouble", "repeats"} \cup Orders -> Nat]
    OBVIOUS
  <2>5. requests = {} /\ cancels = {} /\ wire = {} /\ answers = {}
        /\ conn = "waiting" /\ writer = "none"
    OBVIOUS
  <2> QED BY <2>1, <2>2, <2>3, <2>4, <2>5 DEF TypeOK
<1>2. OnceInv /\ HonestInv /\ MarkInv
  BY DEF OnceInv, HonestInv, MarkInv, Carries, Idle
<1>3. AwaitedInv
  BY DEF AwaitedInv, SubmissionsRemembered, At, Idle
<1> QED BY <1>1, <1>2, <1>3 DEF IInv

(* What a step that suffers, repeats or pauses spends is counted.           *)
LEMMA SpendCounts ==
  ASSUME TypeOK, NEW what \in {"pauses", "trouble", "repeats"} \cup Orders,
         NEW max \in Nat, Spend(what, max)
  PROVE  /\ used' \in [{"pauses", "trouble", "repeats"} \cup Orders -> Nat]
         /\ used'[what] \in 0..max
BY DEF TypeOK, Spend

(* The failures after which the loop gives up.                              *)
LEMMA RetryCounts ==
  ASSUME NEW n \in 0..MaxRetries, Retry(n)
  PROVE  /\ failures' \in 0..(MaxRetries + 1)
         /\ conn' \in {"waiting", "over"}
         /\ (conn' = "over") = (failures' > MaxRetries)
BY SocketAssumption DEF Retry, SocketAssumption

(* The connection loop and a forced reconnect, reading aside, leave the     *)
(* requests, the loop and the exchange alone; a connection that ends takes  *)
(* its answers along, and marks are only ever lost.                         *)
Cuts == wire' = wire \/ wire' = {[w EXCEPT !.live = FALSE] : w \in wire}

Frame ==
  /\ UNCHANGED <<requests, exec, loopVars, ex>>
  /\ cancels' \subseteq cancels /\ answers' \subseteq answers
  /\ Cuts

LEMMA BreakFrame ==
  ASSUME Break
  PROVE  /\ requests' = requests /\ cancels' = {} /\ answers' = {} /\ Cuts
         /\ ClearFlags /\ Retry(failures)
         /\ writer' = IF writer = "none" THEN "none" ELSE "dead"
BY DEF Break, Cut, Cuts

Offline ==
  \/ Connect \/ ConnectFails \/ Login \/ BreaksOff \/ Stall \/ StreamEnds \/ ClearWriter
  \/ ForceReconnect \/ ForceClose \/ \E a \in answers : AnswerDuringLogin(a)

LEMMA OfflineFrame == Offline => Frame
<1> SUFFICES ASSUME Offline PROVE Frame
  OBVIOUS
<1> USE DEF Frame, ReaderUnchanged, bookVars, loopVars
<1>1. CASE Connect \/ ConnectFails \/ Login \/ ClearWriter
  BY <1>1 DEF Connect, ConnectFails, Login, ClearWriter, Cuts
<1>2. CASE BreaksOff
  BY <1>2, BreakFrame DEF BreaksOff
<1>3. CASE Stall \/ StreamEnds
  BY <1>3 DEF Stall, StreamEnds, Cut, Cuts
<1>4. ASSUME ForceUnchanged
      PROVE  Frame
  BY <1>4 DEF ForceUnchanged, exchVars, Cuts
<1>5. ASSUME NEW a \in answers, AnswerDuringLogin(a)
      PROVE  Frame
  BY <1>5, BreakFrame DEF AnswerDuringLogin, Cuts
<1>6. CASE ForceReconnect \/ ForceClose
  BY <1>4, <1>6 DEF ForceReconnect, ForceClose
<1> QED BY <1>1, <1>2, <1>3, <1>5, <1>6 DEF Offline

LEMMA CutsKeep ==
  ASSUME TypeOK, Cuts
  PROVE  /\ wire' \subseteq [req : Requests, live : BOOLEAN]
         /\ \A v \in wire' : \E w \in wire : v.req = w.req
         /\ \A v, u \in wire' : \E w, x \in wire :
              v.req = w.req /\ u.req = x.req /\ (w = x => v = u)
<1> USE DEF TypeOK
<1>1. CASE wire' = wire
  BY <1>1
<1>2. CASE wire' = {[w EXCEPT !.live = FALSE] : w \in wire}
  <2>1. \A w \in wire : /\ [w EXCEPT !.live = FALSE].req = w.req
                         /\ [w EXCEPT !.live = FALSE] \in [req : Requests, live : BOOLEAN]
    OBVIOUS
  <2> DEFINE Ended(w) == [w EXCEPT !.live = FALSE]
  <2>2. \A w \in wire : Ended(w).req = w.req /\ Ended(w) \in [req : Requests, live : BOOLEAN]
    BY <2>1
  <2>3. wire' = {Ended(w) : w \in wire}
    BY <1>2
  <2> HIDE DEF Ended
  <2> QED BY <2>2, <2>3
<1> QED BY <1>1, <1>2 DEF Cuts

----------------------------------------------------------------------------
(* The executor.                                                            *)

LEMMA FailTypes ==
  ASSUME TypeOK, exec.pc # "idle", Fail
  PROVE  /\ exec' = Idle
         /\ requests' \subseteq Requests /\ requests' \subseteq requests
         /\ cancels' \subseteq Orders /\ cancels' \subseteq cancels
         /\ exec.req.op = "new" => requests' = requests /\ cancels' = cancels
         /\ exec.req.op = "cancel" => /\ requests' = requests \ {exec.req}
                                      /\ cancels' = cancels \ {exec.req.order}
BY DEF TypeOK, Fail, bookVars, Requests

LEMMA Carried ==
  ASSUME TypeOK, exec.pc # "idle"
  PROVE  /\ exec.req \in Requests /\ exec.pc \in {"gate", "signed", "writing"}
         /\ exec.req.op \in {"new", "cancel"} /\ exec.req.order \in Orders
         /\ \A pc \in {"gate", "signed", "writing"} :
              /\ [exec EXCEPT !.pc = pc].req = exec.req
              /\ [exec EXCEPT !.pc = pc].pc = pc
              /\ [exec EXCEPT !.pc = pc] \in
                   [pc : {"gate", "signed", "writing"}, req : Requests]
BY DEF TypeOK, Requests

(* What a point of the executor does to its request, the book and the wire. *)
LEMMA GateSteps ==
  ASSUME TypeOK, Gate
  PROVE  /\ UNCHANGED <<loopVars, wire, ex, answers>>
         /\ \/ Fail
            \/ /\ exec' = [exec EXCEPT !.pc = "signed"]
               /\ cancels' = cancels
               /\ exec.req.op = "new" => ~paused /\ requests' = requests
               /\ exec.req.op = "cancel" => requests' = requests \cup {exec.req}
BY Carried DEF Gate, ExecUnchanged, loopVars

LEMMA TakeWriterSteps ==
  ASSUME TypeOK, TakeWriter
  PROVE  /\ UNCHANGED <<loopVars, wire, ex, answers>>
         /\ \/ Fail
            \/ /\ exec' = [exec EXCEPT !.pc = "writing"]
               /\ cancels' = cancels
               /\ exec.req.op = "new" => ~paused /\ requests' = requests \cup {exec.req}
               /\ exec.req.op = "cancel" => requests' = requests
BY Carried DEF TakeWriter, ExecUnchanged, loopVars

Writes == wire' = wire \/ \E live \in BOOLEAN : wire' = wire \cup {[req |-> exec.req, live |-> live]}

LEMMA PutWrites == ASSUME NEW reached, Put(reached) PROVE Writes
<1>1. Drains \in BOOLEAN
  BY Zenon DEF Drains
<1> QED BY <1>1 DEF Put, Writes

LEMMA WriteSteps ==
  ASSUME TypeOK, NEW b \in BOOLEAN,
         WriteDone(b) \/ WriteFails("new", b) \/ WriteFails("cancel", b)
  PROVE  /\ exec.pc = "writing"
         /\ UNCHANGED <<loopVars, ex, answers>>
         /\ Writes
         /\ \/ exec' = Idle /\ UNCHANGED bookVars
            \/ Fail
<1>1. CASE WriteDone(b)
  BY <1>1, PutWrites DEF WriteDone, ExecUnchanged, loopVars
<1>2. ASSUME NEW op, WriteFails(op, b)
      PROVE  exec.pc = "writing" /\ UNCHANGED <<loopVars, ex, answers>> /\ Writes /\ Fail
  BY <1>2, PutWrites DEF WriteFails, At, ExecUnchanged, loopVars
<1> QED BY <1>1, <1>2

----------------------------------------------------------------------------
(* Answers: what they look like, and what becomes of the book.              *)

LEMMA AnswerFields ==
  ASSUME NEW r \in Requests, NEW ok \in BOOLEAN, NEW shape \in Shapes
  PROVE  /\ Answer(r, ok, shape) \in Answers
         /\ Answer(r, ok, shape).id \in {r, None}
         /\ Answer(r, ok, shape).method \in {r.op, None}
         /\ Answer(r, ok, shape).code \in {IF ok THEN "ok" ELSE "refused", None}
         /\ Answer(r, ok, shape).cl \in {r.order, None}
         /\ Answer(r, ok, shape).oid \in {r.order, None}
         /\ Answer(r, ok, shape).of = r.op
<1> DEFINE Field(f, value) == IF f \in shape THEN value ELSE None
<1>1. Answer(r, ok, shape) =
        [id |-> Field("id", r), method |-> Field("method", r.op),
         code |-> Field("code", IF ok THEN "ok" ELSE "refused"),
         data |-> "data" \in shape,
         cl |-> Field("cl", r.order), oid |-> Field("oid", r.order), of |-> r.op]
  BY DEF Answer
<1>2. r.op \in {"new", "cancel"} /\ r.order \in Orders
  BY DEF Requests
<1>3. /\ Field("id", r) \in Requests \cup {None}
      /\ Field("method", r.op) \in {"new", "cancel", "fill", None}
      /\ Field("code", IF ok THEN "ok" ELSE "refused") \in {"ok", "refused", None}
      /\ Field("cl", r.order) \in Orders \cup {None}
      /\ Field("oid", r.order) \in Orders \cup {None}
  BY <1>2
<1>4. ("data" \in shape) \in BOOLEAN
  BY SMT
<1>5. /\ Field("id", r) \in {r, None}
      /\ Field("method", r.op) \in {r.op, None}
      /\ Field("code", IF ok THEN "ok" ELSE "refused") \in {IF ok THEN "ok" ELSE "refused", None}
      /\ Field("cl", r.order) \in {r.order, None}
      /\ Field("oid", r.order) \in {r.order, None}
  OBVIOUS
<1> DEFINE d == "data" \in shape
<1>6. d \in BOOLEAN
  BY <1>4
<1> HIDE DEF Field, d
<1>7. Answer(r, ok, shape) =
        [id |-> Field("id", r), method |-> Field("method", r.op),
         code |-> Field("code", IF ok THEN "ok" ELSE "refused"),
         data |-> d, cl |-> Field("cl", r.order), oid |-> Field("oid", r.order), of |-> r.op]
  BY <1>1 DEF d
<1>8. Answer(r, ok, shape) \in Answers
  BY <1>2, <1>3, <1>6, <1>7 DEF Answers
<1> QED BY <1>5, <1>7, <1>8

LEMMA NoticeFields ==
  ASSUME NEW o \in Orders
  PROVE  /\ FillNotice(o) \in Answers
         /\ FillNotice(o).id = None /\ FillNotice(o).method = "fill"
         /\ FillNotice(o).code = None
         /\ FillNotice(o).cl = o /\ FillNotice(o).oid = o
<1>1. TRUE \in BOOLEAN
  BY Zenon
<1> QED BY <1>1 DEF FillNotice, Answers

(* Handling an answer takes requests and marks away, no more: the request   *)
(* that the answer names, and the submissions it settles.  With the request *)
(* of a cancel goes its mark.                                               *)
LEMMA HandledTakes ==
  ASSUME NEW a
  PROVE  LET h == Handled(a)
         IN /\ h.requests \subseteq requests /\ h.cancels \subseteq cancels
            /\ \A r \in requests \ h.requests :
                 \/ /\ r = a.id
                    /\ r.op = "cancel" => h.cancels = cancels \ {r.order}
                 \/ a.code # None /\ a.method # "cancel" /\ NewRequest(r, a.cl)
<1> DEFINE h == Handled(a)
<1>1. CASE a.id \in requests /\ a.code # None
  <2>1. /\ h.requests = requests \ {a.id}
        /\ h.cancels = IF a.id.op = "cancel" THEN cancels \ {a.id.order} ELSE cancels
    BY <1>1 DEF Handled
  <2> HIDE DEF h
  <2>2. h.requests \subseteq requests /\ h.cancels \subseteq cancels
    BY <2>1
  <2>3. ASSUME NEW r \in requests \ h.requests
        PROVE  r = a.id /\ (r.op = "cancel" => h.cancels = cancels \ {r.order})
    BY <2>1, <2>3
  <2> QED BY <2>2, <2>3 DEF h
<1>2. CASE ~(a.id \in requests /\ a.code # None) /\ Outdated(a)
  <2>1. h.requests = requests /\ h.cancels = cancels
    BY <1>2 DEF Handled
  <2> QED BY <2>1
<1>3. CASE ~(a.id \in requests /\ a.code # None) /\ ~Outdated(a)
  <2>1. /\ h.requests = {r \in requests : ~Settles(a, r)}
        /\ h.cancels = IF a.code # None /\ a.data /\ a.method \in {"cancel", None}
                       THEN cancels \ {a.cl} ELSE cancels
    BY <1>3 DEF Handled
  <2> HIDE DEF h
  <2>2. h.requests \subseteq requests /\ h.cancels \subseteq cancels
    BY <2>1
  <2>3. ASSUME NEW r \in requests \ h.requests
        PROVE  a.code # None /\ a.method # "cancel" /\ NewRequest(r, a.cl)
    BY <2>1, <2>3 DEF Settles
  <2> QED BY <2>2, <2>3 DEF h
<1> QED BY <1>1, <1>2, <1>3

(* The loop learns nothing worse than that an order has an end.             *)
LEMMA ToldTypes ==
  ASSUME TypeOK, NEW e
  PROVE  /\ Told(e) \in [Orders -> {"none", "sent", "known", "free"}]
         /\ \A o \in Orders :
              \/ Told(e)[o] = tracked[o]
              \/ o = e.order /\ Told(e)[o] = "free"
              \/ o = e.order /\ Told(e)[o] = "known" /\ e.kind = "accepted"
                 /\ tracked[o] = "sent"
BY DEF TypeOK, Told

----------------------------------------------------------------------------
(* Every step keeps the types.                                              *)

LoopTypes ==
  /\ tracked' \in [Orders -> {"none", "sent", "known", "free"}]
  /\ paused' \in BOOLEAN /\ verified' \in BOOLEAN
  /\ ex' \in [Orders -> {"none", "open", "done", "refused"}]
BookTypes ==
  /\ requests' \subseteq Requests /\ cancels' \subseteq Orders
  /\ wire' \subseteq [req : Requests, live : BOOLEAN]
  /\ answers' \subseteq Answers
ExecTypes ==
  exec' \in [pc : {"idle"}, req : {None}]
              \cup [pc : {"gate", "signed", "writing"}, req : Requests]
ConnTypes ==
  /\ conn' \in {"waiting", "login", "up", "stalled", "closed", "over"}
  /\ connected' \in BOOLEAN /\ authenticated' \in BOOLEAN /\ forcing' \in BOOLEAN
  /\ writer' \in {"none", "live", "stalled", "dead"}
  /\ failures' \in 0..(MaxRetries + 1) /\ (conn' = "over") = (failures' > MaxRetries)
UsedTypes == used' \in [{"pauses", "trouble", "repeats"} \cup Orders -> Nat]

LEMMA TypesAgain ==
  ASSUME LoopTypes, BookTypes, ExecTypes, ConnTypes, UsedTypes
  PROVE  TypeOK'
BY DEF LoopTypes, BookTypes, ExecTypes, ConnTypes, UsedTypes, TypeOK

LEMMA LoopSteps ==
  ASSUME TypeOK, EventLoop
  PROVE  TypeOK'
<1> USE DEF LoopUnchanged, bookVars, connVars, loopVars, exchVars
<1>1. ASSUME UNCHANGED <<exec, connVars>> PROVE ExecTypes /\ ConnTypes
  BY <1>1 DEF TypeOK, ExecTypes, ConnTypes
<1>2. ASSUME NEW o \in Orders, RestSees(o) PROVE TypeOK'
  <2>1. LoopTypes /\ BookTypes
    BY <1>2 DEF RestSees, TypeOK, LoopTypes, BookTypes
  <2>2. UsedTypes
    BY <1>2 DEF RestSees, TypeOK, UsedTypes
  <2>3. UNCHANGED <<exec, connVars>>
    BY <1>2 DEF RestSees
  <2> QED BY <1>1, <2>1, <2>2, <2>3, TypesAgain
<1>3. CASE Pause
  <2>1. LoopTypes /\ BookTypes
    BY <1>3 DEF Pause, TypeOK, LoopTypes, BookTypes
  <2>2. UsedTypes
    BY <1>3, SpendCounts, SocketAssumption DEF Pause, UsedTypes, SocketAssumption
  <2>3. UNCHANGED <<exec, connVars>>
    BY <1>3 DEF Pause
  <2> QED BY <1>1, <2>1, <2>2, <2>3, TypesAgain
<1>4. CASE Cleanup
  <2>1. verified' \in BOOLEAN
    BY <1>4, Zenon DEF Cleanup
  <2>2. ex' \in [Orders -> {"none", "open", "done", "refused"}]
    BY <1>4 DEF Cleanup, TypeOK
  <2>3. LoopTypes /\ UsedTypes
    BY <1>4, <2>1, <2>2 DEF Cleanup, TypeOK, LoopTypes, UsedTypes
  <2>4. BookTypes
    BY <1>4 DEF Cleanup, TypeOK, BookTypes
  <2>5. UNCHANGED <<exec, connVars>>
    BY <1>4 DEF Cleanup
  <2> QED BY <1>1, <2>3, <2>4, <2>5, TypesAgain
<1>5. CASE Resume
  <2>1. LoopTypes /\ BookTypes
    BY <1>5 DEF Resume, TypeOK, LoopTypes, BookTypes
  <2>2. UsedTypes
    BY <1>5 DEF Resume, TypeOK, UsedTypes
  <2>3. UNCHANGED <<exec, connVars>>
    BY <1>5 DEF Resume
  <2> QED BY <1>1, <2>1, <2>2, <2>3, TypesAgain
<1> QED BY <1>2, <1>3, <1>4, <1>5 DEF EventLoop

LEMMA StartCancelCounts ==
  ASSUME TypeOK, NEW o \in Orders, StartCancel(o)
  PROVE  UsedTypes /\ Request("cancel", o, used'[o]) \in Requests
<1>1. used' \in [{"pauses", "trouble", "repeats"} \cup Orders -> Nat]
      /\ used'[o] \in 0..MaxCancels
  BY SpendCounts, SocketAssumption DEF StartCancel, SocketAssumption
<1> QED BY <1>1 DEF UsedTypes, Request, Requests

LEMMA ExecutorSteps ==
  ASSUME TypeOK, Executor
  PROVE  TypeOK'
<1> USE DEF ExecUnchanged, bookVars, connVars, loopVars
<1>1. ASSUME UNCHANGED <<connVars, paused, verified, ex, answers>>
      PROVE  /\ ConnTypes
             /\ paused' \in BOOLEAN /\ verified' \in BOOLEAN
             /\ ex' \in [Orders -> {"none", "open", "done", "refused"}]
             /\ answers' \subseteq Answers
  BY <1>1 DEF TypeOK, ConnTypes
<1>2. ASSUME NEW o \in Orders, StartNew(o) PROVE TypeOK'
  <2>1. Request("new", o, 0) \in Requests
    BY SocketAssumption DEF Request, Requests, SocketAssumption
  <2>2. ExecTypes
    BY <1>2, <2>1 DEF StartNew, ExecTypes
  <2>3. LoopTypes /\ BookTypes /\ UsedTypes
    BY <1>2 DEF StartNew, TypeOK, LoopTypes, BookTypes, UsedTypes
  <2> QED BY <1>1, <1>2, <2>2, <2>3, TypesAgain DEF StartNew
<1>3. ASSUME NEW o \in Orders, StartCancel(o) PROVE TypeOK'
  <2>1. ExecTypes /\ UsedTypes
    BY <1>3, StartCancelCounts DEF StartCancel, ExecTypes
  <2>2. LoopTypes /\ BookTypes
    BY <1>3 DEF StartCancel, TypeOK, LoopTypes, BookTypes
  <2> QED BY <1>1, <1>3, <2>1, <2>2, TypesAgain DEF StartCancel
<1>4. ASSUME Fail, exec.pc # "idle"
      PROVE  ExecTypes /\ requests' \subseteq Requests /\ cancels' \subseteq Orders
  BY <1>4, FailTypes DEF ExecTypes, Idle
<1>5. CASE Gate \/ TakeWriter
  <2>1. exec.pc # "idle" /\ UNCHANGED <<loopVars, wire, ex, answers>>
    BY <1>5 DEF Gate, TakeWriter
  <2>2. LoopTypes /\ wire' \subseteq [req : Requests, live : BOOLEAN] /\ answers' \subseteq Answers
    BY <2>1 DEF TypeOK, LoopTypes
  <2>3. ConnTypes /\ UsedTypes
    BY <1>1, <1>5 DEF Gate, TakeWriter, TypeOK, UsedTypes
  <2>4. ExecTypes /\ requests' \subseteq Requests /\ cancels' \subseteq Orders
    <3>1. \/ Fail
          \/ /\ exec' \in {[exec EXCEPT !.pc = "signed"], [exec EXCEPT !.pc = "writing"]}
             /\ requests' \subseteq requests \cup {exec.req} /\ cancels' = cancels
      BY <1>5, <2>1, GateSteps, TakeWriterSteps, Carried
    <3>2. CASE ~Fail
      <4>1. exec' \in [pc : {"gate", "signed", "writing"}, req : Requests]
        BY <2>1, <3>1, <3>2, Carried
      <4>2. requests' \subseteq Requests /\ cancels' \subseteq Orders
        BY <2>1, <3>1, <3>2, Carried DEF TypeOK
      <4> QED BY <4>1, <4>2 DEF ExecTypes
    <3> QED BY <1>4, <2>1, <3>2
  <2> QED BY <2>2, <2>3, <2>4, TypesAgain DEF BookTypes
<1>6. ASSUME NEW b \in BOOLEAN, WriteDone(b) \/ WriteFails("new", b) \/ WriteFails("cancel", b)
      PROVE  TypeOK'
  <2>1. /\ exec.pc = "writing" /\ UNCHANGED <<loopVars, ex, answers>> /\ Writes
        /\ (exec' = Idle /\ UNCHANGED bookVars) \/ Fail
    BY <1>6, WriteSteps
  <2>2. LoopTypes /\ answers' \subseteq Answers
    BY <2>1 DEF TypeOK, LoopTypes
  <2>3. ConnTypes /\ UsedTypes
    BY <1>1, <1>6 DEF WriteDone, WriteFails, TypeOK, UsedTypes
  <2>4. wire' \subseteq [req : Requests, live : BOOLEAN]
    BY <2>1, Carried DEF Writes, TypeOK
  <2>5. ExecTypes /\ requests' \subseteq Requests /\ cancels' \subseteq Orders
    <3>1. CASE exec' = Idle /\ UNCHANGED bookVars
      BY <3>1 DEF Idle, ExecTypes, TypeOK
    <3> QED BY <1>4, <2>1, <3>1
  <2> QED BY <2>2, <2>3, <2>4, <2>5, TypesAgain DEF BookTypes
<1> QED BY <1>2, <1>3, <1>5, <1>6 DEF Executor

LEMMA OfflineConn ==
  ASSUME TypeOK, Offline
  PROVE  ConnTypes /\ UsedTypes
<1> USE DEF ReaderUnchanged, ConnTypes, flags, ClearFlags
<1>1. TRUE \in BOOLEAN /\ FALSE \in BOOLEAN
  BY Zenon
<1>2. ASSUME used' = used PROVE UsedTypes
  BY <1>2 DEF TypeOK, UsedTypes
<1>3. ASSUME Suffer PROVE UsedTypes
  BY <1>3, SpendCounts, SocketAssumption DEF Suffer, UsedTypes, SocketAssumption
<1>4. ASSUME Break, conn # "over", forcing' = forcing PROVE ConnTypes
  <2>1. failures \in 0..MaxRetries
    BY <1>4, SocketAssumption DEF TypeOK, SocketAssumption
  <2>2. /\ failures' \in 0..(MaxRetries + 1) /\ conn' \in {"waiting", "over"}
        /\ (conn' = "over") = (failures' > MaxRetries)
    BY <1>4, <2>1, BreakFrame, RetryCounts
  <2> QED BY <1>1, <1>4, <2>2, BreakFrame DEF TypeOK
<1>5. CASE Connect \/ Login
  BY <1>1, <1>2, <1>5 DEF Connect, Login, TypeOK
<1>6. CASE ConnectFails
  <2>1. failures \in 0..MaxRetries
    BY <1>6, SocketAssumption DEF ConnectFails, TypeOK, SocketAssumption
  <2>2. /\ failures' \in 0..(MaxRetries + 1) /\ conn' \in {"waiting", "over"}
        /\ (conn' = "over") = (failures' > MaxRetries)
    BY <1>6, <2>1, RetryCounts DEF ConnectFails
  <2> QED BY <1>3, <1>6, <2>2 DEF ConnectFails, TypeOK
<1>7. CASE BreaksOff
  <2>1. conn # "over" /\ Break /\ forcing' = forcing
    BY <1>7 DEF BreaksOff
  <2>2. UsedTypes
    BY <1>2, <1>3, <1>7 DEF BreaksOff
  <2> QED BY <1>4, <2>1, <2>2
<1>8. CASE Stall
  BY <1>3, <1>8 DEF Stall, TypeOK
<1>9. CASE StreamEnds
  <2>1. UsedTypes
    BY <1>2, <1>3, <1>9 DEF StreamEnds
  <2> QED BY <1>9, <2>1 DEF StreamEnds, TypeOK
<1>10. CASE ClearWriter
  <2>1. 0 \in 0..MaxRetries
    BY SocketAssumption DEF SocketAssumption
  <2>2. /\ failures' \in 0..(MaxRetries + 1) /\ conn' \in {"waiting", "over"}
        /\ (conn' = "over") = (failures' > MaxRetries)
    BY <1>10, <2>1, RetryCounts DEF ClearWriter
  <2> QED BY <1>1, <1>2, <1>10, <2>2 DEF ClearWriter, TypeOK
<1>11. CASE ForceReconnect
  BY <1>1, <1>3, <1>11 DEF ForceReconnect, ForceUnchanged, TypeOK
<1>12. CASE ForceClose
  BY <1>1, <1>2, <1>12 DEF ForceClose, ForceUnchanged, TypeOK
<1>13. ASSUME NEW a \in answers, AnswerDuringLogin(a)
       PROVE  ConnTypes /\ UsedTypes
  <2>1. conn = "login" /\ forcing' = forcing /\ UsedTypes
    BY <1>2, <1>13 DEF AnswerDuringLogin
  <2>2. CASE Break
    BY <1>4, <2>1, <2>2
  <2>3. CASE ~Break
    BY <1>13, <2>1, <2>3 DEF AnswerDuringLogin, TypeOK
  <2> QED BY <2>1, <2>2, <2>3
<1> QED BY <1>5, <1>6, <1>7, <1>8, <1>9, <1>10, <1>11, <1>12, <1>13 DEF Offline

LEMMA OfflineSteps ==
  ASSUME TypeOK, Offline
  PROVE  TypeOK'
<1>1. Frame /\ ConnTypes /\ UsedTypes
  BY OfflineFrame, OfflineConn
<1>2. wire' \subseteq [req : Requests, live : BOOLEAN]
  BY <1>1, CutsKeep DEF Frame
<1>3. LoopTypes /\ ExecTypes
  BY <1>1 DEF Frame, loopVars, TypeOK, LoopTypes, ExecTypes
<1>4. BookTypes
  BY <1>1, <1>2 DEF Frame, TypeOK, BookTypes
<1> QED BY <1>1, <1>3, <1>4, TypesAgain

LEMMA ReadEffect ==
  ASSUME NEW a \in answers, Read(a)
  PROVE  /\ answers' \subseteq answers
         /\ requests' = Handled(a).requests /\ cancels' = Handled(a).cancels
         /\ tracked' = Told(Handled(a).event)
         /\ UNCHANGED <<exec, connVars, paused, verified, ex, wire>>
         /\ used' = used \/ Spend("repeats", MaxRepeats)
BY DEF Read

LEMMA ReadSteps ==
  ASSUME TypeOK, NEW a \in answers, Read(a)
  PROVE  TypeOK'
<1>1. /\ answers' \subseteq answers
      /\ requests' = Handled(a).requests /\ cancels' = Handled(a).cancels
      /\ tracked' = Told(Handled(a).event)
      /\ UNCHANGED <<exec, connVars, paused, verified, ex, wire>>
      /\ used' = used \/ Spend("repeats", MaxRepeats)
  BY ReadEffect
<1>2. requests' \subseteq requests /\ cancels' \subseteq cancels
  BY <1>1, HandledTakes
<1>3. UsedTypes
  BY <1>1, SpendCounts, SocketAssumption DEF UsedTypes, TypeOK, SocketAssumption
<1>4. tracked' \in [Orders -> {"none", "sent", "known", "free"}]
  BY <1>1, ToldTypes
<1>5. LoopTypes /\ ExecTypes
  BY <1>1, <1>4 DEF TypeOK, LoopTypes, ExecTypes
<1>6. BookTypes
  BY <1>1, <1>2 DEF TypeOK, BookTypes
<1>7. ConnTypes
  BY <1>1 DEF TypeOK, ConnTypes, connVars
<1> QED BY <1>3, <1>5, <1>6, <1>7, TypesAgain

LEMMA ExchangeSteps ==
  ASSUME TypeOK, Exchange
  PROVE  TypeOK'
<1> USE DEF ExchangeUnchanged, bookVars, connVars, loopVars
<1>1. ASSUME UNCHANGED <<bookVars, exec, connVars, loopVars, used>>
      PROVE  /\ ConnTypes /\ ExecTypes /\ UsedTypes
             /\ requests' \subseteq Requests /\ cancels' \subseteq Orders
             /\ tracked' \in [Orders -> {"none", "sent", "known", "free"}]
             /\ paused' \in BOOLEAN /\ verified' \in BOOLEAN
  BY <1>1 DEF TypeOK, ConnTypes, ExecTypes, UsedTypes
<1>2. ASSUME NEW w \in wire, Vanish(w) PROVE TypeOK'
  BY <1>1, <1>2, TypesAgain DEF Vanish, TypeOK, BookTypes, LoopTypes
<1>3. ASSUME NEW w \in wire, NEW ok \in BOOLEAN, Arrive(w, ok) PROVE TypeOK'
  <2>1. w.req \in Requests /\ w.req.order \in Orders
    BY DEF TypeOK, Requests
  <2>2. Processed(w.req, ok) \in {"none", "open", "done", "refused"}
    BY <2>1 DEF TypeOK, Processed
  <2>3. ex' \in [Orders -> {"none", "open", "done", "refused"}]
    BY <1>3, <2>1, <2>2 DEF Arrive, TypeOK
  <2>4. answers' \subseteq Answers
    BY <1>3, <2>1, AnswerFields DEF Arrive, TypeOK
  <2> QED BY <1>1, <1>3, <2>3, <2>4, TypesAgain DEF Arrive, TypeOK, BookTypes, LoopTypes
<1>4. ASSUME NEW o \in Orders, Fill(o) PROVE TypeOK'
  <2>1. ex' \in [Orders -> {"none", "open", "done", "refused"}]
    BY <1>4 DEF Fill, TypeOK
  <2>2. answers' \subseteq Answers
    BY <1>4, NoticeFields DEF Fill, TypeOK
  <2> QED BY <1>1, <1>4, <2>1, <2>2, TypesAgain DEF Fill, TypeOK, BookTypes, LoopTypes
<1> QED BY <1>2, <1>3, <1>4 DEF Exchange

LEMMA NextSplits ==
  ASSUME Next
  PROVE  EventLoop \/ Executor \/ Offline \/ (\E a \in answers : Read(a)) \/ Exchange
BY DEF Next, Connection, Offline

LEMMA TypeStep == TypeOK /\ [Next]_vars => TypeOK'
<1> SUFFICES ASSUME TypeOK, [Next]_vars PROVE TypeOK'
  OBVIOUS
<1>1. CASE UNCHANGED vars
  BY <1>1 DEF vars, bookVars, connVars, loopVars, exchVars, TypeOK
<1> QED BY <1>1, NextSplits, LoopSteps, ExecutorSteps, OfflineSteps, ReadSteps, ExchangeSteps

----------------------------------------------------------------------------
(* A submission is written once.                                            *)

LEMMA OnceStands ==
  ASSUME TypeOK, OnceInv,
         \A v \in wire' : \E w \in wire : v.req = w.req,
         \A v, u \in wire' : \E w, x \in wire :
           v.req = w.req /\ u.req = x.req /\ (w = x => v = u),
         \A op \in {"new", "cancel"}, o \in Orders : Carries(op, o)' => Carries(op, o),
         \A o \in Orders :
           /\ (tracked'[o] = "none") = (tracked[o] = "none")
           /\ (ex'[o] = "none") = (ex[o] = "none")
           /\ tracked'[o] = "known" => tracked[o] = "known" \/ ex[o] # "none"
  PROVE  OnceInv'
<1> DEFINE C(op, o) == Carries(op, o)
           D(op, o) == Carries(op, o)'
<1>1. \A op \in {"new", "cancel"}, o \in Orders : D(op, o) => C(op, o)
  OBVIOUS
<1>2. \A w \in wire : w.req.order \in Orders
  BY DEF TypeOK, Requests
<1>3. /\ \A o \in Orders :
           /\ tracked[o] = "none" => ex[o] = "none"
           /\ tracked[o] = "known" => ex[o] # "none"
           /\ C("new", o) => ex[o] = "none" /\ tracked[o] # "none"
           /\ C("cancel", o) => ex[o] # "none"
      /\ \A w \in wire :
           /\ w.req.op = "new" => /\ ex[w.req.order] = "none"
                                  /\ tracked[w.req.order] # "none"
                                  /\ ~C("new", w.req.order)
           /\ w.req.op = "cancel" => ex[w.req.order] # "none"
      /\ \A v, w \in wire :
           v.req.op = "new" /\ w.req.op = "new" /\ v.req.order = w.req.order => v = w
  BY DEF OnceInv
<1> HIDE DEF C, D
<1>4. \A o \in Orders :
        /\ tracked'[o] = "none" => ex'[o] = "none"
        /\ tracked'[o] = "known" => ex'[o] # "none"
        /\ D("new", o) => ex'[o] = "none" /\ tracked'[o] # "none"
        /\ D("cancel", o) => ex'[o] # "none"
  BY <1>1, <1>3
<1>5. \A w \in wire' :
        /\ w.req.op = "new" => /\ ex'[w.req.order] = "none"
                               /\ tracked'[w.req.order] # "none"
                               /\ ~D("new", w.req.order)
        /\ w.req.op = "cancel" => ex'[w.req.order] # "none"
  BY <1>1, <1>2, <1>3
<1>6. \A v, w \in wire' :
        v.req.op = "new" /\ w.req.op = "new" /\ v.req.order = w.req.order => v = w
  BY <1>3
<1> QED BY <1>4, <1>5, <1>6 DEF OnceInv, D

(* A step that leaves the executor and the wire alone, or takes from them.  *)
LEMMA OnceTakes ==
  ASSUME TypeOK, OnceInv, wire' \subseteq wire,
         exec' = exec \/ exec'.pc = "idle"
           \/ (exec.pc # "idle" /\ exec'.req = exec.req),
         \A o \in Orders :
           /\ (tracked'[o] = "none") = (tracked[o] = "none")
           /\ (ex'[o] = "none") = (ex[o] = "none")
           /\ tracked'[o] = "known" => tracked[o] = "known" \/ ex[o] # "none"
  PROVE  OnceInv'
<1>1. \A op \in {"new", "cancel"}, o \in Orders : Carries(op, o)' => Carries(op, o)
  BY DEF Carries
<1>2. /\ \A v \in wire' : \E w \in wire : v.req = w.req
      /\ \A v, u \in wire' : \E w, x \in wire :
           v.req = w.req /\ u.req = x.req /\ (w = x => v = u)
  OBVIOUS
<1> QED BY <1>1, <1>2, OnceStands

LEMMA OnceLoop ==
  ASSUME TypeOK, OnceInv, EventLoop
  PROVE  OnceInv'
<1> USE DEF LoopUnchanged, loopVars, exchVars
<1>1. exec' = exec /\ wire' = wire
  BY DEF EventLoop, RestSees, Pause, Cleanup, Resume
<1>2. \A o \in Orders :
        /\ (tracked'[o] = "none") = (tracked[o] = "none")
        /\ (ex'[o] = "none") = (ex[o] = "none")
        /\ tracked'[o] = "known" => tracked[o] = "known" \/ ex[o] # "none"
  <2>1. ASSUME NEW p \in Orders, RestSees(p), NEW o \in Orders
        PROVE  /\ (tracked'[o] = "none") = (tracked[o] = "none")
               /\ (ex'[o] = "none") = (ex[o] = "none")
               /\ tracked'[o] = "known" => tracked[o] = "known" \/ ex[o] # "none"
    BY <2>1 DEF RestSees, TypeOK
  <2>2. CASE Pause
    BY <2>2 DEF Pause
  <2>3. CASE Cleanup
    BY <2>3 DEF Cleanup
  <2>4. CASE Resume
    BY <2>4 DEF Resume
  <2> QED BY <2>1, <2>2, <2>3, <2>4 DEF EventLoop
<1> QED BY <1>1, <1>2, OnceTakes

LEMMA OnceExecutor ==
  ASSUME TypeOK, OnceInv, Executor
  PROVE  OnceInv'
<1> USE DEF ExecUnchanged, loopVars
<1>1. ASSUME NEW p \in Orders, StartNew(p) PROVE OnceInv'
  <2>1. /\ exec = Idle /\ tracked[p] = "none" /\ ex[p] = "none"
        /\ exec'.pc = "gate" /\ exec'.req = Request("new", p, 0)
        /\ tracked' = [tracked EXCEPT ![p] = "sent"] /\ ex' = ex /\ wire' = wire
    BY <1>1 DEF StartNew, OnceInv
  <2>2. \A o \in Orders : /\ Carries("new", o)' <=> o = p
                          /\ ~Carries("cancel", o)'
    BY <2>1 DEF Carries, Request
  <2>3. \A o \in Orders : tracked'[o] = IF o = p THEN "sent" ELSE tracked[o]
    BY <2>1 DEF TypeOK
  <2>4. \A w \in wire : w.req.order \in Orders
    BY DEF TypeOK, Requests
  <2> QED BY <2>1, <2>2, <2>3, <2>4 DEF OnceInv
<1>2. ASSUME NEW p \in Orders, StartCancel(p) PROVE OnceInv'
  <2>1. /\ exec = Idle /\ tracked[p] = "known" /\ ex[p] # "none"
        /\ exec'.pc = "gate" /\ exec'.req = Request("cancel", p, used'[p])
        /\ tracked' = tracked /\ ex' = ex /\ wire' = wire
    BY <1>2 DEF StartCancel, OnceInv
  <2>2. \A o \in Orders : /\ Carries("cancel", o)' <=> o = p
                          /\ ~Carries("new", o)'
    BY <2>1 DEF Carries, Request
  <2>3. \A w \in wire : w.req.order \in Orders
    BY DEF TypeOK, Requests
  <2> QED BY <2>1, <2>2, <2>3 DEF OnceInv
<1>3. CASE Gate \/ TakeWriter
  <2>1. exec.pc # "idle" /\ UNCHANGED <<loopVars, wire, ex, answers>>
    BY <1>3 DEF Gate, TakeWriter
  <2>2. exec'.pc = "idle" \/ exec'.req = exec.req
    BY <1>3, <2>1, GateSteps, TakeWriterSteps, FailTypes, Carried DEF Idle
  <2> QED BY <2>1, <2>2, OnceTakes
<1>4. ASSUME NEW b \in BOOLEAN, WriteDone(b) \/ WriteFails("new", b) \/ WriteFails("cancel", b)
      PROVE  OnceInv'
  <2>1. /\ exec.pc = "writing" /\ UNCHANGED <<loopVars, ex, answers>> /\ Writes
        /\ exec' = Idle
    BY <1>4, WriteSteps, FailTypes
  <2>2. \A op \in {"new", "cancel"}, o \in Orders : ~Carries(op, o)'
    BY <2>1 DEF Carries, Idle
  <2>3. CASE wire' = wire
    BY <2>1, <2>3, OnceTakes DEF Idle
  <2>4. CASE wire' # wire
    <3>1. PICK live \in BOOLEAN : wire' = wire \cup {[req |-> exec.req, live |-> live]}
      BY <2>1, <2>4 DEF Writes
    <3> DEFINE new == [req |-> exec.req, live |-> live]
    <3>2. new.req = exec.req /\ wire' = wire \cup {new}
      BY <3>1
    <3> HIDE DEF new
    <3>3. exec.req.order \in Orders /\ exec.req.op \in {"new", "cancel"}
      BY <2>1, Carried
    <3>4. Carries(exec.req.op, exec.req.order)
      BY <2>1 DEF Carries
    <3>5. \A w \in wire : w.req.order \in Orders
      BY DEF TypeOK, Requests
    <3>6. \A w \in wire : w.req.op = "new" => ~Carries("new", w.req.order)
      BY DEF OnceInv
    <3>7. /\ exec.req.op = "new" => /\ ex[exec.req.order] = "none"
                                    /\ tracked[exec.req.order] # "none"
          /\ exec.req.op = "cancel" => ex[exec.req.order] # "none"
      BY <3>3, <3>4 DEF OnceInv
    <3> QED BY <2>1, <2>2, <3>2, <3>3, <3>4, <3>5, <3>6, <3>7 DEF OnceInv
  <2> QED BY <2>3, <2>4
<1> QED BY <1>1, <1>2, <1>3, <1>4 DEF Executor

LEMMA OnceOffline ==
  ASSUME TypeOK, OnceInv, Offline
  PROVE  OnceInv'
<1>1. Frame
  BY OfflineFrame
<1>2. exec' = exec /\ tracked' = tracked /\ ex' = ex
  BY <1>1 DEF Frame, loopVars
<1>3. \A op \in {"new", "cancel"}, o \in Orders : Carries(op, o)' => Carries(op, o)
  BY <1>2 DEF Carries
<1> QED BY <1>1, <1>2, <1>3, CutsKeep, OnceStands DEF Frame

----------------------------------------------------------------------------
(* What an honest answer says stays true.                                   *)

(* The exchange only goes on with an order.                                 *)
Later ==
  \A o \in Orders :
    \/ ex'[o] = ex[o]
    \/ ex[o] = "open" /\ ex'[o] = "done"
    \/ ex[o] = "none" /\ ex'[o] \in {"open", "refused"}

LEMMA OutcomeStays ==
  ASSUME NEW r \in Requests, NEW ok \in BOOLEAN, Later, Outcome(r, ok)
  PROVE  Outcome(r, ok)'
<1>1. r.order \in Orders
  BY DEF Requests
<1> QED BY <1>1 DEF Later, Outcome

LEMMA HonestStays ==
  ASSUME NEW a, Later, Honest(a)
  PROVE  Honest(a)'
<1>1. ASSUME NEW r \in Requests, NEW ok \in BOOLEAN, NEW shape \in Shapes,
             a = Answer(r, ok, shape), Outcome(r, ok)
      PROVE  Honest(a)'
  <2>1. Outcome(r, ok)'
    BY <1>1, OutcomeStays
  <2> QED BY <1>1, <2>1 DEF Honest
<1>2. ASSUME NEW o \in Orders, a = FillNotice(o), ex[o] = "done"
      PROVE  Honest(a)'
  BY <1>2 DEF Honest, Later
<1> QED BY <1>1, <1>2 DEF Honest

(* The exchange has heard of every order that an answer names.              *)
LEMMA HonestNames ==
  ASSUME TypeOK, NEW a, Honest(a)
  PROVE  /\ a.id \in Requests => ex[a.id.order] # "none"
         /\ a.cl \in Orders => ex[a.cl] # "none"
         /\ a.oid \in Orders => ex[a.oid] # "none"
<1> USE SocketAssumption DEF SocketAssumption
<1>1. ASSUME NEW r \in Requests, NEW ok \in BOOLEAN, NEW shape \in Shapes,
             a = Answer(r, ok, shape), Outcome(r, ok)
      PROVE  /\ a.id \in Requests => ex[a.id.order] # "none"
             /\ a.cl \in Orders => ex[a.cl] # "none"
             /\ a.oid \in Orders => ex[a.oid] # "none"
  <2>1. r.op \in {"new", "cancel"} /\ r.order \in Orders
    BY DEF Requests
  <2>2. ex[r.order] # "none"
    BY <1>1, <2>1 DEF Outcome
  <2>3. a.id \in {r, None} /\ a.cl \in {r.order, None} /\ a.oid \in {r.order, None}
    BY <1>1, AnswerFields
  <2> QED BY <2>2, <2>3
<1>2. ASSUME NEW o \in Orders, a = FillNotice(o), ex[o] = "done"
      PROVE  /\ a.id \in Requests => ex[a.id.order] # "none"
             /\ a.cl \in Orders => ex[a.cl] # "none"
             /\ a.oid \in Orders => ex[a.oid] # "none"
  BY <1>2, NoticeFields
<1> QED BY <1>1, <1>2 DEF Honest

(* An event that names an order has it from the answer.                     *)
LEMMA EventNames ==
  ASSUME NEW a
  PROVE  LET o == Handled(a).event.order
         IN \/ a.id \in requests /\ o = a.id.order
            \/ o \in {None, a.cl, a.oid}
<1> DEFINE Named3(e) == e.order \in {None, a.cl, a.oid}
<1>1. CASE a.id \in requests /\ a.code # None
  BY <1>1 DEF Handled, Correlated, Event
<1>2. CASE ~(a.id \in requests /\ a.code # None)
  <2> DEFINE pend == {r \in requests : ~Settles(a, r)}
  <2>1. \A k : /\ Named3(Event(k, None)) /\ Named3(Event(k, a.cl)) /\ Named3(Event(k, a.oid))
               /\ Named3(Event(k, Named(a)))
    BY DEF Event, Named
  <2> HIDE DEF Named3
  <2>2. Named3(OrderResponse(a)) /\ Named3(CancelResponse(a))
    BY <2>1 DEF OrderResponse, CancelResponse, Acknowledged, Ambiguous
  <2>3. Named3(WithMethod(a))
    BY <2>1, <2>2 DEF WithMethod, Acknowledged, Ambiguous
  <2>4. \A p, m : Named3(WithoutMethod(a, p, m))
    BY <2>1, <2>2 DEF WithoutMethod, Acknowledged, Ambiguous
  <2>5. CASE Outdated(a)
    BY <1>2, <2>1, <2>5 DEF Handled, Nothing, Named3
  <2>6. CASE ~Outdated(a)
    <3>1. Handled(a).event =
            CASE a.method = "fill" -> IF a.data THEN Event("filled", Named(a)) ELSE Ambiguous
              [] a.method \in {"new", "cancel"} -> WithMethod(a)
              [] OTHER -> WithoutMethod(a, pend, cancels)
      BY <1>2, <2>6 DEF Handled
    <3> HIDE DEF pend
    <3>2. Named3(Handled(a).event)
      BY <2>1, <2>3, <2>4, <3>1 DEF Ambiguous
    <3> QED BY <3>2 DEF Named3
  <2> QED BY <2>5, <2>6
<1> QED BY <1>1, <1>2

LEMMA OnceRead ==
  ASSUME TypeOK, OnceInv, HonestInv, NEW a \in answers, Read(a)
  PROVE  OnceInv'
<1>1. /\ exec' = exec /\ wire' = wire /\ ex' = ex
      /\ tracked' = Told(Handled(a).event)
  BY ReadEffect
<1>2. Honest(a)
  BY DEF HonestInv
<1> DEFINE e == Handled(a).event
<1>3. ASSUME NEW o \in Orders, o = e.order
      PROVE  ex[o] # "none"
  <2>1. \/ a.id \in requests /\ o = a.id.order
        \/ o \in {a.cl, a.oid}
    BY <1>3, EventNames, SocketAssumption DEF SocketAssumption
  <2>2. requests \subseteq Requests
    BY DEF TypeOK
  <2> QED BY <1>2, <2>1, <2>2, HonestNames
<1>4. tracked' = Told(e)
  BY <1>1
<1> HIDE DEF e
<1>5. ASSUME NEW o \in Orders
      PROVE  /\ (tracked'[o] = "none") = (tracked[o] = "none")
             /\ tracked'[o] = "known" => tracked[o] = "known" \/ ex[o] # "none"
  <2>1. \/ tracked'[o] = tracked[o]
        \/ o = e.order /\ tracked'[o] \in {"free", "known"}
    BY <1>4, ToldTypes
  <2>2. tracked[o] = "none" => ex[o] = "none"
    BY DEF OnceInv
  <2> QED BY <1>3, <2>1, <2>2
<1> QED BY <1>1, <1>5, OnceTakes

LEMMA OnceExchange ==
  ASSUME TypeOK, OnceInv, Exchange
  PROVE  OnceInv' /\ Later
<1> USE DEF ExchangeUnchanged, loopVars
<1>1. ASSUME NEW w \in wire, Vanish(w) PROVE OnceInv' /\ Later
  BY <1>1, OnceTakes DEF Vanish, Later
<1>2. ASSUME NEW w \in wire, NEW ok \in BOOLEAN, Arrive(w, ok) PROVE OnceInv' /\ Later
  <2> DEFINE p == w.req.order
  <2>1. w.req \in Requests /\ p \in Orders /\ w.req.op \in {"new", "cancel"}
    BY DEF TypeOK, Requests
  <2>2. /\ wire' = wire \ {w} /\ exec' = exec /\ tracked' = tracked
        /\ \A o \in Orders : ex'[o] = IF o = p THEN Processed(w.req, ok) ELSE ex[o]
    BY <1>2, <2>1 DEF Arrive, TypeOK
  <2>3. /\ w.req.op = "new" => /\ ex[p] = "none" /\ tracked[p] # "none"
                               /\ ~Carries("new", p)
        /\ w.req.op = "cancel" => ex[p] # "none"
        /\ \A v \in wire : w.req.op = "new" /\ v.req.op = "new" /\ v.req.order = p => v = w
    BY DEF OnceInv
  <2>4. CASE w.req.op = "new"
    <3>1. ex'[p] \in {"open", "refused"}
      BY <2>1, <2>2, <2>4 DEF Processed
    <3>2. Later
      BY <2>2, <2>3, <2>4, <3>1 DEF Later
    <3>3. \A v \in wire : v.req.order \in Orders
      BY DEF TypeOK, Requests
    <3>4. \A op \in {"new", "cancel"}, o \in Orders : Carries(op, o)' <=> Carries(op, o)
      BY <2>2 DEF Carries
    <3> HIDE DEF p
    <3>5. \A o \in Orders : o # p => ex'[o] = ex[o]
      BY <2>2
    <3> QED BY <2>1, <2>2, <2>3, <2>4, <3>1, <3>2, <3>3, <3>4, <3>5 DEF OnceInv
  <2>5. CASE w.req.op = "cancel"
    <3>1. ok => ex[p] = "open"
      BY <1>2, <2>5 DEF Arrive
    <3>2. ex'[p] = IF ok THEN "done" ELSE ex[p]
      BY <2>1, <2>2, <2>5 DEF Processed
    <3>3. Later
      BY <2>2, <3>1, <3>2 DEF Later
    <3>4. \A o \in Orders : (ex'[o] = "none") = (ex[o] = "none")
      BY <2>2, <3>1, <3>2
    <3> QED BY <2>2, <3>3, <3>4, OnceTakes
  <2> QED BY <2>1, <2>4, <2>5
<1>3. ASSUME NEW p \in Orders, Fill(p) PROVE OnceInv' /\ Later
  <2>1. \A o \in Orders : ex'[o] = IF o = p THEN "done" ELSE ex[o]
    BY <1>3 DEF Fill, TypeOK
  <2>2. Later /\ \A o \in Orders : (ex'[o] = "none") = (ex[o] = "none")
    BY <1>3, <2>1 DEF Fill, Later
  <2> QED BY <1>3, <2>2, OnceTakes DEF Fill
<1> QED BY <1>1, <1>2, <1>3 DEF Exchange

LEMMA OnceStep == IInv /\ Next => OnceInv' /\ Later
<1> SUFFICES ASSUME IInv, Next PROVE OnceInv' /\ Later
  OBVIOUS
<1>1. TypeOK /\ OnceInv /\ HonestInv
  BY DEF IInv
<1>2. ASSUME ex' = ex PROVE Later
  BY <1>2 DEF Later
<1>3. CASE EventLoop
  <2>1. Later
    BY <1>3 DEF EventLoop, RestSees, Pause, Cleanup, Resume, LoopUnchanged, exchVars, Later
  <2> QED BY <1>1, <1>3, <2>1, OnceLoop
<1>4. CASE Executor
  <2>1. ex' = ex
    BY <1>4 DEF Executor, StartNew, StartCancel, Gate, TakeWriter, WriteDone, WriteFails,
                ExecUnchanged
  <2> QED BY <1>1, <1>2, <1>4, <2>1, OnceExecutor
<1>5. CASE Offline
  BY <1>1, <1>2, <1>5, OnceOffline, OfflineFrame DEF Frame
<1>6. ASSUME NEW a \in answers, Read(a) PROVE OnceInv' /\ Later
  BY <1>1, <1>2, <1>6, OnceRead, ReadEffect
<1>7. CASE Exchange
  BY <1>1, <1>7, OnceExchange
<1> QED BY <1>3, <1>4, <1>5, <1>6, <1>7, NextSplits

LEMMA HonestStep == IInv /\ Next => HonestInv'
<1> SUFFICES ASSUME IInv, Next PROVE HonestInv'
  OBVIOUS
<1>1. TypeOK /\ OnceInv /\ HonestInv /\ Later
  BY OnceStep DEF IInv
<1>2. ASSUME answers' \subseteq answers PROVE HonestInv'
  BY <1>1, <1>2, HonestStays DEF HonestInv
<1>3. CASE EventLoop
  BY <1>2, <1>3 DEF EventLoop, RestSees, Pause, Cleanup, Resume, LoopUnchanged, exchVars
<1>4. CASE Executor
  BY <1>2, <1>4 DEF Executor, StartNew, StartCancel, Gate, TakeWriter, WriteDone, WriteFails,
                    ExecUnchanged
<1>5. CASE Offline
  BY <1>2, <1>5, OfflineFrame DEF Frame
<1>6. ASSUME NEW a \in answers, Read(a) PROVE HonestInv'
  BY <1>2, <1>6, ReadEffect
<1>7. ASSUME NEW w \in wire, NEW ok \in BOOLEAN, Arrive(w, ok) PROVE HonestInv'
  <2>1. w.req \in Requests /\ w.req.order \in Orders /\ w.req.op \in {"new", "cancel"}
    BY <1>1 DEF TypeOK, Requests
  <2>2. ex'[w.req.order] = Processed(w.req, ok)
    BY <1>1, <1>7, <2>1 DEF Arrive, TypeOK
  <2>3. /\ w.req.op = "cancel" => ex[w.req.order] # "none"
        /\ w.req.op = "cancel" /\ ok => ex[w.req.order] = "open"
    BY <1>1, <1>7 DEF OnceInv, Arrive
  <2>4. Outcome(w.req, ok)'
    BY <2>1, <2>2, <2>3 DEF Outcome, Processed
  <2>5. \A shape \in Shapes : Honest(Answer(w.req, ok, shape))'
    BY <2>1, <2>4 DEF Honest
  <2>6. answers' \subseteq answers \/ \E shape \in Shapes : answers' = answers \cup {Answer(w.req, ok, shape)}
    BY <1>7 DEF Arrive
  <2> QED BY <1>1, <2>5, <2>6, HonestStays DEF HonestInv
<1>8. ASSUME NEW w \in wire, Vanish(w) PROVE HonestInv'
  BY <1>2, <1>8 DEF Vanish
<1>9. ASSUME NEW o \in Orders, Fill(o) PROVE HonestInv'
  <2>1. ex'[o] = "done"
    BY <1>1, <1>9 DEF Fill, TypeOK
  <2>2. Honest(FillNotice(o))'
    BY <2>1 DEF Honest, FillNotice
  <2>3. answers' \subseteq answers \cup {FillNotice(o)}
    BY <1>9 DEF Fill
  <2> QED BY <1>1, <2>2, <2>3, HonestStays DEF HonestInv
<1> QED BY <1>3, <1>4, <1>5, <1>6, <1>7, <1>8, <1>9, NextSplits DEF Exchange

----------------------------------------------------------------------------
(* What is on the wire is waited for.                                       *)

Writing == exec.pc = "writing" /\ exec.req.op = "new"
SignedNew == exec.pc \in {"signed", "writing"} /\ exec.req.op = "new"

(* A step that only forgets requests whose submission the exchange has      *)
(* heard of.                                                                *)
LEMMA AwaitedStands ==
  ASSUME TypeOK, OnceInv, AwaitedInv,
         \A v \in wire' : \E w \in wire : v.req = w.req,
         Writing' => Writing /\ exec'.req = exec.req,
         SignedNew' => SignedNew \/ ~paused,
         paused => paused', verified' => verified,
         \A r \in requests \ requests' : r.op = "new" => ex[r.order] # "none"
  PROVE  AwaitedInv'
<1>1. \A w \in wire : w.req.op = "new" => ex[w.req.order] = "none" /\ w.req \in requests
  BY DEF OnceInv, AwaitedInv, SubmissionsRemembered
<1>2. Writing => /\ exec.req \in requests /\ ex[exec.req.order] = "none" /\ exec.req.op = "new"
  <2>1. Writing => Carries("new", exec.req.order) /\ exec.req.order \in Orders
    BY Carried DEF Writing, Carries
  <2> QED BY <2>1 DEF Writing, OnceInv, AwaitedInv, At
<1>3. verified => paused /\ ~SignedNew /\ \A w \in wire : w.req.op # "new"
  BY DEF AwaitedInv, SignedNew
<1>4. \A w \in wire' : w.req.op = "new" => w.req \in requests'
  BY <1>1
<1>5. Writing' => exec'.req \in requests'
  BY <1>2
<1>6. verified' => paused' /\ ~SignedNew' /\ \A w \in wire' : w.req.op # "new"
  BY <1>3
<1> QED BY <1>4, <1>5, <1>6 DEF AwaitedInv, SubmissionsRemembered, At, Writing, SignedNew

LEMMA AwaitedLoop ==
  ASSUME TypeOK, OnceInv, AwaitedInv, EventLoop
  PROVE  AwaitedInv'
<1> USE DEF LoopUnchanged, exchVars
<1>1. exec' = exec /\ wire' = wire
  BY DEF EventLoop, RestSees, Pause, Cleanup, Resume
<1>2. (Writing' => Writing) /\ (SignedNew' => SignedNew)
  BY <1>1 DEF Writing, SignedNew
<1>3. ASSUME NEW o \in Orders, RestSees(o) PROVE AwaitedInv'
  <2>1. /\ paused' = paused /\ verified' = verified
        /\ \A r \in requests \ requests' : ex[r.order] # "none"
    BY <1>3 DEF RestSees, NewRequest
  <2> QED BY <1>1, <1>2, <2>1, AwaitedStands
<1>4. CASE Pause
  <2>1. paused' /\ verified' = verified /\ requests' = requests
    BY <1>4 DEF Pause, bookVars
  <2> QED BY <1>1, <1>2, <2>1, AwaitedStands
<1>5. CASE Cleanup
  <2>1. PICK unsettled \in {{r \in requests : r.op = "new" /\ ex[r.order] = "none"}} :
          /\ requests' = {r \in requests : r.op = "cancel"} \cup unsettled
          /\ verified' = (unsettled = {})
    BY <1>5 DEF Cleanup
  <2>2. unsettled = {r \in requests : r.op = "new" /\ ex[r.order] = "none"}
    OBVIOUS
  <2>3. paused /\ paused' /\ ~SignedNew
    BY <1>5 DEF Cleanup, SignedNew
  <2>4. \A w \in wire : w.req.op = "new" => w.req \in unsettled
    BY <2>2 DEF AwaitedInv, SubmissionsRemembered, OnceInv
  <2> HIDE DEF LoopUnchanged, exchVars
  <2>5. ~SignedNew' /\ ~Writing'
    BY <1>1, <2>3 DEF SignedNew, Writing
  <2> QED BY <1>1, <2>1, <2>3, <2>4, <2>5
          DEF AwaitedInv, SubmissionsRemembered, SignedNew, Writing, At
<1>6. CASE Resume
  <2>1. verified /\ ~verified'
    BY <1>6 DEF Resume
  <2>2. /\ ~SignedNew /\ \A w \in wire : w.req.op # "new"
    BY <2>1 DEF AwaitedInv, SignedNew
  <2> QED BY <1>1, <2>1, <2>2 DEF AwaitedInv, SubmissionsRemembered, SignedNew, At
<1> QED BY <1>3, <1>4, <1>5, <1>6 DEF EventLoop

LEMMA AwaitedExecutor ==
  ASSUME TypeOK, OnceInv, AwaitedInv, Executor
  PROVE  AwaitedInv'
<1> USE DEF ExecUnchanged, bookVars, loopVars
<1>1. ASSUME NEW o \in Orders, StartNew(o) \/ StartCancel(o) PROVE AwaitedInv'
  <2>1. /\ exec'.pc = "gate" /\ wire' = wire /\ requests' = requests
        /\ paused' = paused /\ verified' = verified
    BY <1>1 DEF StartNew, StartCancel
  <2>2. ~Writing' /\ ~SignedNew'
    BY <2>1 DEF Writing, SignedNew
  <2> QED BY <2>1, <2>2, AwaitedStands
<1>2. CASE Gate
  <2>1. /\ exec.pc = "gate" /\ UNCHANGED <<loopVars, wire>>
        /\ \/ Fail
           \/ /\ exec' = [exec EXCEPT !.pc = "signed"]
              /\ cancels' = cancels
              /\ exec.req.op = "new" => ~paused /\ requests' = requests
              /\ exec.req.op = "cancel" => requests' = requests \cup {exec.req}
    BY <1>2, GateSteps DEF Gate
  <2>2. CASE Fail
    <3>1. exec' = Idle /\ \A r \in requests \ requests' : r.op # "new"
      BY <2>1, <2>2, FailTypes, Carried
    <3>2. ~Writing' /\ ~SignedNew'
      BY <3>1 DEF Writing, SignedNew, Idle
    <3> QED BY <2>1, <3>1, <3>2, AwaitedStands
  <2>3. CASE ~Fail
    <3>1. exec'.pc = "signed" /\ exec'.req = exec.req /\ requests \subseteq requests'
      BY <2>1, <2>3, Carried
    <3>2. ~Writing' /\ (SignedNew' => ~paused)
      BY <2>1, <2>3, <3>1 DEF Writing, SignedNew
    <3> QED BY <2>1, <3>1, <3>2, AwaitedStands
  <2> QED BY <2>2, <2>3
<1>3. CASE TakeWriter
  <2>1. /\ exec.pc = "signed" /\ UNCHANGED <<loopVars, wire>>
        /\ \/ Fail
           \/ /\ exec' = [exec EXCEPT !.pc = "writing"]
              /\ cancels' = cancels
              /\ exec.req.op = "new" => ~paused /\ requests' = requests \cup {exec.req}
              /\ exec.req.op = "cancel" => requests' = requests
    BY <1>3, TakeWriterSteps DEF TakeWriter
  <2>2. CASE Fail
    <3>1. exec' = Idle /\ \A r \in requests \ requests' : r.op # "new"
      BY <2>1, <2>2, FailTypes, Carried
    <3>2. ~Writing' /\ ~SignedNew'
      BY <3>1 DEF Writing, SignedNew, Idle
    <3> QED BY <2>1, <3>1, <3>2, AwaitedStands
  <2>3. CASE ~Fail
    <3>1. exec'.pc = "writing" /\ exec'.req = exec.req /\ requests \subseteq requests'
      BY <2>1, <2>3, Carried
    <3>2. exec.req.op = "new" => ~paused /\ exec.req \in requests'
      BY <2>1, <2>3
    <3> QED BY <2>1, <3>1, <3>2 DEF AwaitedInv, SubmissionsRemembered, At
  <2> QED BY <2>2, <2>3
<1>4. ASSUME NEW b \in BOOLEAN, WriteDone(b) \/ WriteFails("new", b) \/ WriteFails("cancel", b)
      PROVE  AwaitedInv'
  <2>1. /\ exec.pc = "writing" /\ UNCHANGED <<loopVars, ex, answers>> /\ Writes
        /\ (exec' = Idle /\ UNCHANGED bookVars) \/ Fail
    BY <1>4, WriteSteps
  <2>2. exec' = Idle /\ \A r \in requests \ requests' : r.op # "new"
    BY <2>1, FailTypes, Carried
  <2>3. \A w \in wire' : w \in wire \/ w.req = exec.req
    BY <2>1 DEF Writes
  <2>4. exec.req.op = "new" => exec.req \in requests /\ ~verified
    BY <2>1 DEF AwaitedInv, At
  <2>5. exec'.pc = "idle"
    BY <2>2 DEF Idle
  <2> QED BY <2>1, <2>2, <2>3, <2>4, <2>5 DEF AwaitedInv, SubmissionsRemembered, At
<1> QED BY <1>1, <1>2, <1>3, <1>4 DEF Executor

LEMMA AwaitedStep == IInv /\ Next => AwaitedInv'
<1> SUFFICES ASSUME IInv, Next PROVE AwaitedInv'
  OBVIOUS
<1>1. TypeOK /\ OnceInv /\ HonestInv /\ AwaitedInv
  BY DEF IInv
<1>2. ASSUME exec' = exec PROVE (Writing' => Writing) /\ (SignedNew' => SignedNew)
  BY <1>2 DEF Writing, SignedNew
<1>3. CASE Offline
  <2>1. Frame
    BY <1>3, OfflineFrame
  <2>2. exec' = exec /\ paused' = paused /\ verified' = verified /\ requests' = requests
    BY <2>1 DEF Frame, loopVars
  <2> QED BY <1>1, <1>2, <2>1, <2>2, CutsKeep, AwaitedStands DEF Frame
<1>4. ASSUME NEW a \in answers, Read(a) PROVE AwaitedInv'
  <2>1. /\ exec' = exec /\ wire' = wire /\ paused' = paused /\ verified' = verified
        /\ requests' = Handled(a).requests
    BY <1>4, ReadEffect
  <2>2. \A r \in requests \ requests' : r.op = "new" => r = a.id \/ r.order = a.cl
    BY <2>1, HandledTakes DEF NewRequest
  <2>3. \A r \in requests : r \in Requests /\ r.order \in Orders
    BY <1>1 DEF TypeOK, Requests
  <2>4. Honest(a)
    BY <1>1 DEF HonestInv
  <2>5. \A r \in requests \ requests' : r.op = "new" => ex[r.order] # "none"
    BY <1>1, <2>2, <2>3, <2>4, HonestNames
  <2> QED BY <1>1, <1>2, <2>1, <2>5, AwaitedStands
<1>5. CASE Exchange
  <2>1. exec' = exec /\ paused' = paused /\ verified' = verified /\ requests' = requests
        /\ wire' \subseteq wire
    BY <1>5 DEF Exchange, Arrive, Vanish, Fill, ExchangeUnchanged, bookVars, loopVars
  <2> QED BY <1>1, <1>2, <2>1, AwaitedStands
<1> QED BY <1>1, <1>3, <1>4, <1>5, NextSplits, AwaitedLoop, AwaitedExecutor

----------------------------------------------------------------------------
(* Marks.                                                                   *)

LEMMA MarkStep == IInv /\ Next => MarkInv'
<1> SUFFICES ASSUME IInv, Next PROVE MarkInv'
  OBVIOUS
<1>1. TypeOK /\ MarkInv
  BY DEF IInv
<1> USE DEF MarkInv, bookVars
<1>2. ASSUME exec' = exec, cancels' \subseteq cancels,
             \A r \in requests : r.op = "cancel" => r \in requests'
      PROVE  MarkInv'
  BY <1>1, <1>2
<1>3. CASE EventLoop
  <2> USE DEF LoopUnchanged
  <2>1. ASSUME NEW o \in Orders, RestSees(o) PROVE MarkInv'
    BY <1>2, <2>1 DEF RestSees, NewRequest
  <2>2. CASE Pause
    BY <1>2, <2>2 DEF Pause
  <2>3. CASE Cleanup
    BY <1>2, <2>3 DEF Cleanup
  <2>4. CASE Resume
    BY <2>4 DEF Resume
  <2> QED BY <1>3, <2>1, <2>2, <2>3, <2>4 DEF EventLoop
<1>4. CASE Executor
  <2>1. ASSUME Fail, exec.pc # "idle" PROVE MarkInv'
    <3>1. /\ exec.req.op = "new" => requests' = requests /\ cancels' = cancels
          /\ exec.req.op = "cancel" => /\ requests' = requests \ {exec.req}
                                       /\ cancels' = cancels \ {exec.req.order}
          /\ exec.req.op \in {"new", "cancel"}
      BY <1>1, <2>1, FailTypes, Carried
    <3> QED BY <1>1, <3>1
  <2>2. ASSUME NEW o \in Orders, StartNew(o) PROVE MarkInv'
    BY <1>1, <2>2 DEF StartNew, Idle
  <2>3. ASSUME NEW o \in Orders, StartCancel(o) PROVE MarkInv'
    BY <1>1, <2>3 DEF StartCancel, Idle, Request
  <2>4. CASE Gate
    <3>1. CASE Fail
      BY <2>1, <2>4, <3>1 DEF Gate
    <3>2. CASE ~Fail
      <4>1. /\ cancels' = cancels /\ exec.req.op \in {"new", "cancel"}
            /\ exec.req.op = "new" => requests' = requests
            /\ exec.req.op = "cancel" => requests' = requests \cup {exec.req}
        BY <1>1, <2>4, <3>2, GateSteps, Carried DEF Gate
      <4> QED BY <1>1, <4>1
    <3> QED BY <3>1, <3>2
  <2>5. CASE TakeWriter
    <3>1. CASE Fail
      BY <2>1, <2>5, <3>1 DEF TakeWriter
    <3>2. CASE ~Fail
      <4>1. /\ cancels' = cancels /\ requests \subseteq requests' /\ exec.pc = "signed"
        BY <1>1, <2>5, <3>2, TakeWriterSteps, Carried DEF TakeWriter
      <4> QED BY <1>1, <4>1
    <3> QED BY <3>1, <3>2
  <2>6. ASSUME NEW b \in BOOLEAN, WriteDone(b) \/ WriteFails("new", b) \/ WriteFails("cancel", b)
        PROVE  MarkInv'
    <3>1. exec.pc = "writing" /\ ((exec' = Idle /\ UNCHANGED bookVars) \/ Fail)
      BY <1>1, <2>6, WriteSteps
    <3>2. CASE exec' = Idle /\ UNCHANGED bookVars
      BY <1>1, <3>1, <3>2
    <3> QED BY <2>1, <3>1, <3>2
  <2> QED BY <1>4, <2>2, <2>3, <2>4, <2>5, <2>6 DEF Executor
<1>5. CASE Offline
  BY <1>2, <1>5, OfflineFrame DEF Frame
<1>6. ASSUME NEW a \in answers, Read(a) PROVE MarkInv'
  <2>1. /\ exec' = exec /\ requests' = Handled(a).requests /\ cancels' = Handled(a).cancels
    BY <1>6, ReadEffect
  <2>2. /\ requests' \subseteq requests /\ cancels' \subseteq cancels
        /\ \A r \in requests \ requests' :
             r.op = "cancel" => cancels' = cancels \ {r.order}
    BY <2>1, HandledTakes DEF NewRequest
  <2> QED BY <1>1, <2>1, <2>2
<1>7. CASE Exchange
  BY <1>2, <1>7 DEF Exchange, Arrive, Vanish, Fill, ExchangeUnchanged
<1> QED BY <1>3, <1>4, <1>5, <1>6, <1>7, NextSplits

----------------------------------------------------------------------------
(* The verdicts.                                                            *)

LEMMA FillIsTrue ==
  ASSUME NEW o \in Orders, ex[o] = "done"
  PROVE  IsTrue(Handled(FillNotice(o)).event)
<1> DEFINE a == FillNotice(o)
<1>1. /\ a.id = None /\ a.method = "fill" /\ a.code = None /\ a.cl = o /\ a.data
  BY DEF FillNotice
<1> HIDE DEF a
<1>2. ~(a.id \in requests /\ a.code # None) /\ ~Outdated(a)
  BY <1>1 DEF Outdated
<1>3. Handled(a).event = Event("filled", Named(a))
  BY <1>1, <1>2 DEF Handled
<1>4. Named(a) = o
  BY <1>1, SocketAssumption DEF Named, SocketAssumption
<1>5. IsTrue(Event("filled", o))
  BY DEF IsTrue, Event
<1> QED BY <1>3, <1>4, <1>5 DEF a

LEMMA AnswerIsTrue ==
  ASSUME TypeOK,
         NEW r \in Requests, NEW ok \in BOOLEAN, NEW shape \in Shapes, Outcome(r, ok)
  PROVE  VerdictTrue(Answer(r, ok, shape))
<1> DEFINE a == Answer(r, ok, shape)
<1> USE SocketAssumption DEF SocketAssumption
<1>1. r.op \in {"new", "cancel"} /\ r.order \in Orders
  BY DEF Requests
<1>2. /\ a.id \in {r, None} /\ a.method \in {r.op, None} /\ a.of = r.op
      /\ a.code \in {IF ok THEN "ok" ELSE "refused", None}
      /\ a.cl \in {r.order, None} /\ a.oid \in {r.order, None}
  BY AnswerFields
<1>3. SUFFICES VerdictTrue(a)
  OBVIOUS
<1> HIDE DEF a
(* The events an answer to this request may become.                         *)
<1>4. \A k : k \notin {"accepted", "rejected", "canceled", "filled"} =>
        \A o : IsTrue(Event(k, o))
  BY DEF IsTrue, Event
<1>5. IsTrue(Ambiguous) /\ IsTrue(Nothing)
  BY <1>4 DEF Ambiguous, Nothing
<1>6. \A op : IsTrue(Acknowledged(op))
  BY <1>4 DEF Acknowledged
<1>7. /\ r.op = "new" /\ ok => IsTrue(Event("accepted", r.order))
      /\ r.op = "new" /\ ~ok => IsTrue(Event("rejected", r.order))
      /\ r.op = "cancel" /\ ok => IsTrue(Event("canceled", r.order))
      /\ \A o : IsTrue(Event("cancelFailed", o))
  BY <1>4 DEF Outcome, IsTrue, Event
(* What the two handlers make of it, whichever is asked.                    *)
<1>8. ASSUME a.code # None
      PROVE  /\ r.op = "new" => IsTrue(OrderResponse(a))
             /\ r.op = "cancel" => IsTrue(CancelResponse(a))
             /\ r.op = "cancel" =>
                  IsTrue(OrderResponse(a)) \/ OrderResponse(a).kind = "rejected"
             /\ r.op = "new" =>
                  IsTrue(CancelResponse(a)) \/ CancelResponse(a).kind = "canceled"
  <2>1. (a.code = "ok" => ok) /\ (a.code # "ok" => ~ok)
    BY <1>2, <1>8
  <2>2. r.op = "new" => IsTrue(OrderResponse(a))
    BY <1>2, <1>5, <1>6, <1>7, <2>1 DEF OrderResponse
  <2>3. r.op = "cancel" => IsTrue(CancelResponse(a))
    BY <1>1, <1>2, <1>5, <1>6, <1>7, <2>1 DEF CancelResponse, Named
  <2>4. ASSUME r.op = "cancel"
        PROVE  IsTrue(OrderResponse(a)) \/ OrderResponse(a).kind = "rejected"
    <3>1. ok => IsTrue(Event("accepted", r.order))
      BY <2>4 DEF Outcome, IsTrue, Event
    <3>2. Event("rejected", a.cl).kind = "rejected"
      BY DEF Event
    <3> QED BY <1>2, <1>5, <1>6, <2>1, <3>1, <3>2 DEF OrderResponse
  <2>5. ASSUME r.op = "new"
        PROVE  IsTrue(CancelResponse(a)) \/ CancelResponse(a).kind = "canceled"
    <3>1. Event("canceled", Named(a)).kind = "canceled"
      BY DEF Event
    <3> QED BY <1>5, <1>6, <1>7, <3>1 DEF CancelResponse
  <2> QED BY <2>2, <2>3, <2>4, <2>5
<1>9. CASE a.id \in requests /\ a.code # None
  <2>1. a.id = r /\ (a.code = "ok" => ok) /\ (a.code # "ok" => ~ok)
    BY <1>2, <1>9 DEF TypeOK
  <2>2. Handled(a).event = Correlated(a)
    BY <1>9 DEF Handled
  <2> DEFINE k == IF a.code = "ok" THEN "accepted" ELSE "rejected"
  <2>3. Correlated(a) = IF r.op = "new" THEN Event(k, r.order)
                        ELSE IF a.code = "ok" THEN Event("canceled", r.order)
                        ELSE Event("cancelFailed", None)
    BY <2>1 DEF Correlated
  <2>4. (k = "accepted" /\ ok) \/ (k = "rejected" /\ ~ok)
    BY <2>1
  <2> HIDE DEF k
  <2>5. CASE r.op = "new"
    <3>1. Correlated(a) = Event(k, r.order)
      BY <2>3, <2>5
    <3>2. IsTrue(Event(k, r.order))
      BY <1>7, <2>4, <2>5
    <3> QED BY <2>2, <3>1, <3>2 DEF VerdictTrue
  <2>6. CASE r.op = "cancel"
    <3>1. Correlated(a) = IF a.code = "ok" THEN Event("canceled", r.order)
                          ELSE Event("cancelFailed", None)
      BY <2>3, <2>6
    <3>2. IsTrue(Correlated(a))
      BY <1>7, <2>1, <2>6, <3>1
    <3> QED BY <2>2, <3>2 DEF VerdictTrue
  <2> QED BY <1>1, <2>5, <2>6
<1>10. CASE ~(a.id \in requests /\ a.code # None) /\ Outdated(a)
  BY <1>5, <1>10 DEF Handled, VerdictTrue
<1>11. CASE ~(a.id \in requests /\ a.code # None) /\ ~Outdated(a)
  <2> DEFINE pend == {s \in requests : ~Settles(a, s)}
  <2>1. Handled(a).event =
          CASE a.method = "fill" -> IF a.data THEN Event("filled", Named(a)) ELSE Ambiguous
            [] a.method \in {"new", "cancel"} -> WithMethod(a)
            [] OTHER -> WithoutMethod(a, pend, cancels)
    BY <1>11 DEF Handled
  <2> HIDE DEF pend
  <2>2. CASE a.method = r.op
    <3>1. Handled(a).event = WithMethod(a)
      BY <1>1, <2>1, <2>2
    <3>2. IsTrue(WithMethod(a))
      BY <1>1, <1>5, <1>6, <1>8, <2>2 DEF WithMethod
    <3> QED BY <3>1, <3>2 DEF VerdictTrue
  <2>3. CASE a.method = None
    <3>1. Handled(a).event = WithoutMethod(a, pend, cancels)
      BY <2>1, <2>3
    <3>2. CASE a.code = None \/ ~a.data \/ Named(a) = None
      <4>1. a.data /\ a.code # None => a.cl = None /\ a.oid = None /\ a.cl \notin cancels
        BY <1>1, <1>2, <3>2 DEF Named, TypeOK
      <4>2. IsTrue(WithoutMethod(a, pend, cancels))
        BY <1>5, <1>6, <3>2, <4>1 DEF WithoutMethod
      <4> QED BY <3>1, <4>2 DEF VerdictTrue
    <3>3. CASE a.code # None /\ a.data /\ Named(a) # None
      <4>1. WithoutMethod(a, pend, cancels) =
              IF TakenFor(a) = "cancel" THEN CancelResponse(a) ELSE OrderResponse(a)
        BY <3>3 DEF WithoutMethod, TakenFor, Named
      <4>2. TakenFor(a) \in {"new", "cancel"} /\ (Mistaken(a) <=> TakenFor(a) # r.op)
        BY <1>2, <1>11, <2>3, <3>3 DEF TakenFor, Mistaken
      <4> QED BY <1>1, <1>8, <3>1, <3>3, <4>1, <4>2 DEF VerdictTrue
    <3> QED BY <3>2, <3>3
  <2> QED BY <1>2, <2>2, <2>3
<1> QED BY <1>9, <1>10, <1>11

----------------------------------------------------------------------------
(* The results.                                                             *)

LEMMA Invariance == Spec => []IInv
<1>1. IInv /\ [Next]_vars => IInv'
  <2> SUFFICES ASSUME IInv, [Next]_vars PROVE IInv'
    OBVIOUS
  <2>1. CASE Next
    BY <2>1, TypeStep, OnceStep, HonestStep, AwaitedStep, MarkStep DEF IInv
  <2>2. CASE UNCHANGED vars
    <3>1. UNCHANGED <<requests, cancels, exec, tracked, paused, verified, ex, wire, answers>>
      BY <2>2 DEF vars, bookVars, loopVars, exchVars
    <3>2. TypeOK'
      BY <2>2, TypeStep DEF IInv
    <3>3. OnceInv'
      BY <3>1 DEF IInv, OnceInv, Carries
    <3>4. HonestInv'
      <4>1. Later
        BY <3>1 DEF Later
      <4> QED BY <3>1, <4>1, HonestStays DEF IInv, HonestInv
    <3>5. AwaitedInv'
      BY <3>1 DEF IInv, AwaitedInv, SubmissionsRemembered, At
    <3>6. MarkInv'
      BY <3>1 DEF IInv, MarkInv
    <3> QED BY <3>2, <3>3, <3>4, <3>5, <3>6 DEF IInv
  <2> QED BY <2>1, <2>2
<1> QED BY <1>1, InitHolds, PTL DEF Spec

(* Every variable of the socket keeps its type, and the connection loop     *)
(* gives up exactly when its retries are used up.                           *)
THEOREM SocketTypes == Spec => []TypeOK
<1>1. IInv => TypeOK
  BY DEF IInv
<1> QED BY <1>1, Invariance, PTL

(* No answer tells the event loop anything of an order that is not so at    *)
(* the exchange, whichever fields it lacks and whatever is pending, unless  *)
(* it has no method and is mistaken for that of the other request; and then *)
(* it tells no worse than that the order was canceled or rejected.          *)
THEOREM VerdictsAreTrue == Spec => []VerdictsTrue
<1>1. IInv => VerdictsTrue
  <2> SUFFICES ASSUME IInv, NEW a \in answers PROVE VerdictTrue(a)
    BY DEF VerdictsTrue
  <2>1. TypeOK /\ Honest(a)
    BY DEF IInv, HonestInv
  <2>2. ASSUME NEW r \in Requests, NEW ok \in BOOLEAN, NEW shape \in Shapes,
               a = Answer(r, ok, shape), Outcome(r, ok)
        PROVE  VerdictTrue(a)
    BY <2>1, <2>2, AnswerIsTrue
  <2>3. ASSUME NEW o \in Orders, a = FillNotice(o), ex[o] = "done"
        PROVE  VerdictTrue(a)
    BY <2>3, FillIsTrue DEF VerdictTrue
  <2> QED BY <2>1, <2>2, <2>3 DEF Honest
<1> QED BY <1>1, Invariance, PTL

(* A submission that may yet arrive is in the book of requests, so that a   *)
(* cleanup that finds the book empty may trust it.                          *)
THEOREM SubmissionsAreRemembered == Spec => []SubmissionsRemembered
<1>1. IInv => SubmissionsRemembered
  BY DEF IInv, AwaitedInv
<1> QED BY <1>1, Invariance, PTL

(* An order is marked as being canceled only while its cancel is carried or *)
(* waited for, so that no late answer of the order itself is taken for the  *)
(* confirmation of a cancel.                                                *)
THEOREM MarksArePending == Spec => []MarkedMeansPending
<1>1. IInv => MarkedMeansPending
  BY DEF IInv, MarkInv, MarkedMeansPending
<1> QED BY <1>1, Invariance, PTL
=============================================================================
