---------------------------- MODULE Feeds_proofs ----------------------------
(***************************************************************************)
(* What the sources the bot quotes and sizes from promise: the position    *)
(* behind the gate after a fill, the depth of StandX, and the alpha of     *)
(* Binance.  For any number of fills, polls, connections, books, changes   *)
(* and failures.                                                           *)
(***************************************************************************)
EXTENDS RiskGate, DepthFeed, BinanceFeed, TLAPS, WellFoundedInduction

----------------------------------------------------------------------------
(* The gate after a fill.                                                   *)

(* A position that lacks a fill waits for one publication at least, and     *)
(* while a poll that began before the fill is under way, for two: its       *)
(* answer counts for the first and the next poll reads the fill.            *)
GateInv ==
  /\ polled # NotPolling => position <= polled
  /\ position < handled => risk /\ required >= version + 1
  /\ polled # NotPolling /\ polled < handled => risk /\ required >= version + 2

IInv == TypeOK /\ GateInv

LEMMA InitHolds == Init => IInv
<1> SUFFICES ASSUME Init PROVE IInv
  OBVIOUS
<1>1. TypeOK
  <2>1. posFresh \in BOOLEAN /\ equityFresh \in BOOLEAN /\ risk \in BOOLEAN
        /\ pending \in BOOLEAN /\ wasFresh \in BOOLEAN
    BY Zenon DEF Init
  <2>2. executed = 0 /\ handled = 0 /\ position = 0 /\ version = 0 /\ reconciled = 0
    BY DEF Init
  <2>3. polled \in {NotPolling} /\ required \in {NoneRequired}
    BY DEF Init
  <2> QED BY <2>1, <2>2, <2>3, BoundsAssumption DEF TypeOK, BoundsAssumption
<1>2. GateInv
  BY DEF Init, GateInv
<1> QED BY <1>1, <1>2 DEF IInv

(* What every requirement, whoever raises it, does to the gate.             *)
LEMMA RequireRaises ==
  ASSUME TypeOK, Require
  PROVE  /\ required' \in Nat /\ risk' = TRUE
         /\ required' >= version + 2
BY DEF TypeOK, Require, MaxOf, NoneRequired

LEMMA StepHolds == IInv /\ [Next]_vars => IInv'
<1> SUFFICES ASSUME IInv, [Next]_vars PROVE IInv'
  OBVIOUS
<1> USE BoundsAssumption DEF BoundsAssumption, NotPolling, NoneRequired
<1>1. CASE Execute
  BY <1>1 DEF Execute, gateVars, pollVars, IInv, TypeOK, GateInv
<1>2. ASSUME NEW full \in BOOLEAN, HandleFill(full)
      PROVE  IInv'
  <2>1. required' \in Nat /\ risk' = TRUE /\ required' >= version + 2
    BY <1>2, RequireRaises DEF HandleFill, IInv
  <2> QED BY <1>2, <2>1 DEF HandleFill, pollVars, IInv, TypeOK, GateInv
<1>3. CASE Reconcile \/ Reconciled
  <2>1. required' \in Nat /\ risk' = TRUE /\ required' >= version + 2
    BY <1>3, RequireRaises DEF Reconcile, Reconciled, IInv
  <2>2. UNCHANGED <<executed, handled, equityFresh, pollVars, wasFresh>>
    BY <1>3 DEF Reconcile, Reconciled
  <2>3. pending' \in BOOLEAN
    BY <1>3 DEF Reconcile, Reconciled
  <2>4. reconciled' \in 0..MaxReconciled
    BY <1>3 DEF Reconcile, Reconciled, IInv, TypeOK
  <2> QED BY <2>1, <2>2, <2>3, <2>4 DEF pollVars, IInv, TypeOK, GateInv
<1>4. CASE Query
  BY <1>4 DEF Query, gateVars, IInv, TypeOK, GateInv
<1>5. CASE Publish
  BY <1>5 DEF Publish, gateVars, IInv, TypeOK, GateInv
<1>6. CASE PollFailed
  BY <1>6 DEF PollFailed, gateVars, IInv, TypeOK, GateInv
<1>7. CASE PositionAges
  BY <1>7 DEF PositionAges, gateVars, IInv, TypeOK, GateInv
<1>8. CASE EquityChanges
  BY <1>8 DEF EquityChanges, pollVars, gateVars, IInv, TypeOK, GateInv
<1>9. CASE RiskTick
  <2>1. risk' \in BOOLEAN /\ pending' \in BOOLEAN /\ wasFresh' \in BOOLEAN
    BY <1>9, Zenon DEF RiskTick, IInv, TypeOK, SourcesFresh, GateMet
  <2>2. UNCHANGED <<executed, handled, equityFresh, pollVars, reconciled>>
    BY <1>9 DEF RiskTick
  <2>3. ~GateMet => risk' = TRUE /\ required' = required
    BY <1>9 DEF RiskTick
  <2>4. GateMet => required' = NoneRequired
    BY <1>9 DEF RiskTick
  <2>5. TypeOK'
    BY <2>1, <2>2, <2>3, <2>4 DEF pollVars, IInv, TypeOK
  <2>6. position < handled \/ (polled # NotPolling /\ polled < handled) => ~GateMet
    BY DEF IInv, TypeOK, GateInv, GateMet
  <2>7. GateInv'
    BY <2>2, <2>3, <2>6 DEF pollVars, IInv, TypeOK, GateInv
  <2> QED BY <2>5, <2>7 DEF IInv
<1>10. CASE UNCHANGED vars
  BY <1>10 DEF vars, IInv, TypeOK, GateInv
<1> QED
  BY <1>1, <1>2, <1>3, <1>4, <1>5, <1>6, <1>7, <1>8, <1>9, <1>10 DEF Next

LEMMA GateIsInductive == Spec => []IInv
BY InitHolds, StepHolds, PTL DEF Spec

(* The counts and flags stay what they are, and the position published is   *)
(* never of fills that have not happened.                                   *)
THEOREM GateTypeCorrect == Spec => []TypeOK
<1>1. IInv => TypeOK BY DEF IInv
<1> QED BY <1>1, GateIsInductive, PTL

(* However polls, fills, reconciliations and ages interleave, quoting is    *)
(* open only on a position that includes every fill handled                 *)
(* (require_position_refresh_after_fill, update_risk_pauses).               *)
THEOREM FillsAreKnown == Spec => []QuotesKnowTheFills
<1>1. IInv => QuotesKnowTheFills
  BY DEF IInv, TypeOK, GateInv, QuotesKnowTheFills
<1> QED BY <1>1, GateIsInductive, PTL

----------------------------------------------------------------------------
(* The depth of StandX.                                                     *)

DepthEvents == [kind : {"Connected", "Disconnected", "Depth"},
                session : 0..MaxSessions, at : 1..now, sequence : 0..now, time : 0..now]

Histories == [held : BOOLEAN, next : Nat, last : 0..now, first : 0..now,
              latest : 0..now, step : Nat, quoted : Nat, warm : BOOLEAN]

DepthStates == [received : 0..now, sequence : 0..now, time : 0..now, stale : BOOLEAN]

(* What the event loop has when an event is taken.                          *)
Takes(e) ==
  /\ seen.at <= e.at
  /\ e.kind = "Connected" => paused /\ ~strategy.held
  /\ e.kind = "Depth" /\ strategy.held => e.session = seen.session

(* What may follow an event in the queue.                                   *)
Follows(e, f) ==
  /\ e.at <= f.at
  /\ f.kind = "Connected" => e.kind = "Disconnected"
  /\ f.kind = "Depth" => e.kind # "Disconnected" /\ (e.kind = "Depth" => e.session = f.session)

(* What the client adds next has what it needs before it.                   *)
EndsAs ==
  IF queue = << >>
  THEN /\ client = "dial" => paused /\ ~strategy.held
       /\ client = "run" /\ strategy.held => seen.session = session
  ELSE \E e \in {queue[Len(queue)]} :
         /\ client = "dial" => e.kind = "Disconnected"
         /\ client = "run" => e.kind # "Disconnected" /\ (e.kind = "Depth" => e.session = session)

QueueOrdered ==
  /\ queue # << >> => Takes(queue[1])
  /\ \A i \in 1..(Len(queue) - 1) : Follows(queue[i], queue[i + 1])
  /\ EndsAs
  /\ seen.at <= now

(* A history is of the books accepted since it began.                       *)
HistoryInv ==
  /\ strategy.first # 0 => strategy.held /\ strategy.first >= seen.since
  /\ strategy.held => strategy.last = seen.at
  /\ seen.since <= seen.at

(* Without the pause the last book is the last one accepted, and was young  *)
(* enough at the last tick.                                                 *)
FreshInv ==
  /\ now <= ticked + TickLag
  /\ ~paused => /\ depth.received = seen.at /\ seen.at > 0 /\ ~depth.stale
                /\ ticked - seen.at < MaxGap

DepthInv == DepthTypeOK /\ QueueOrdered /\ HistoryInv /\ FreshInv

LEMMA DepthTypeParts ==
  DepthTypeOK <=>
    /\ now \in 1..MaxTime /\ ticked \in 1..now /\ connectedAt \in 0..now
    /\ sequenced \in BOOLEAN /\ permit \in BOOLEAN /\ paused \in BOOLEAN
    /\ session \in 0..MaxSessions
    /\ traffic \in {"none", "depth", "chatter", "dead"} /\ client \in {"dial", "run"}
    /\ queue \in Seq(DepthEvents) /\ depth \in DepthStates /\ strategy \in Histories
    /\ seen \in [session : 0..MaxSessions, at : 0..now, since : 0..now]
<1>1. {sequenced, permit, paused} \subseteq BOOLEAN
        <=> sequenced \in BOOLEAN /\ permit \in BOOLEAN /\ paused \in BOOLEAN
  BY Zenon
<1> QED BY <1>1, Zenon DEF DepthTypeOK, DepthEvents, DepthStates, Histories

LEMMA DepthConstants ==
  /\ MaxTime \in Nat /\ MaxSessions \in Nat /\ TickLag \in Nat /\ MaxGap \in Nat
BY DepthAssumption DEF DepthAssumption

LEMMA GridFits ==
  ASSUME NEW x \in Nat
  PROVE  /\ x \div StepTime \in Nat
         /\ (x \div StepTime) * StepTime \in Nat /\ (x \div StepTime) * StepTime <= x
         /\ (x \div StepTime + 1) * StepTime \in Nat
<1>1. StepTime \in Nat \ {0}
  BY DepthAssumption DEF DepthAssumption
<1>2. x \div StepTime \in Nat /\ (x \div StepTime) * StepTime <= x
  BY <1>1
<1>3. \A a, b \in Nat : a * b \in Nat
  OBVIOUS
<1> QED BY <1>1, <1>2, <1>3

(* What sampling up to a book does to the parts the properties look at.     *)
LEMMA SampledHistory ==
  ASSUME NEW s \in Histories, NEW t \in 1..now, now \in Nat
  PROVE  /\ Sampled(s, t) \in Histories
         /\ Sampled(s, t).held = s.held /\ Sampled(s, t).last = s.last
         /\ Sampled(s, t).first = IF ~s.held /\ s.first = 0 THEN t ELSE s.first
<1>1. StepTime \in Nat \ {0}
  BY DepthAssumption DEF DepthAssumption
<1>2. CASE ~s.held
  <2>1. PICK f \in 0..now : f = IF s.first = 0 THEN t ELSE s.first
    BY DEF Histories
  <2>2. PICK u : u = t + StepTime
    OBVIOUS
  <2>3. PICK v : v = s.step + 1
    OBVIOUS
  <2>4. u \in Nat /\ v \in Nat
    BY <1>1, <2>2, <2>3 DEF Histories
  <2>5. Sampled(s, t) = [s EXCEPT !.first = f, !.latest = t, !.step = v, !.next = u]
    BY <1>2, <2>1, <2>2, <2>3 DEF Sampled, Histories
  <2>6. t \in 0..now
    OBVIOUS
  <2>7. PICK h : h = Sampled(s, t)
    OBVIOUS
  <2>8. /\ h \in [held : BOOLEAN, next : Nat, last : 0..now, first : 0..now,
                  latest : 0..now, step : Nat, quoted : Nat, warm : BOOLEAN]
        /\ h.held = s.held /\ h.last = s.last /\ h.first = f
    BY <2>4, <2>5, <2>6, <2>7 DEF Histories
  <2> QED BY <1>2, <2>1, <2>7, <2>8, Zenon DEF Histories
<1>3. CASE s.held /\ t < s.next
  BY <1>3 DEF Sampled
<1>4. CASE s.held /\ ~(t < s.next)
  <2>1. PICK x \in Nat : x = t - s.next
    BY <1>4 DEF Histories
  <2>2. PICK n \in Nat : n = x \div StepTime
    BY GridFits
  <2>3. PICK l : l = s.next + n * StepTime
    OBVIOUS
  <2>4. PICK u : u = s.next + (n + 1) * StepTime
    OBVIOUS
  <2>5. PICK v : v = s.step + (n + 1)
    OBVIOUS
  <2>6. n * StepTime \in Nat /\ n * StepTime <= x /\ (n + 1) * StepTime \in Nat
    BY <2>2, GridFits
  <2>7. l \in 0..now /\ u \in Nat /\ v \in Nat
    BY <2>1, <2>3, <2>4, <2>5, <2>6 DEF Histories
  <2>8. (n + 1) - 1 = n /\ n + 1 # 0
    OBVIOUS
  <2>9. Sampled(s, t) = [s EXCEPT !.latest = l, !.step = v, !.next = u]
    <3>1. Sampled(s, t) = [s EXCEPT !.latest = s.next + ((n + 1) - 1) * StepTime,
                                    !.step = @ + (n + 1), !.next = @ + (n + 1) * StepTime]
      BY <1>4, <2>1, <2>2, <2>8, Zenon DEF Sampled
    <3> QED BY <2>3, <2>4, <2>5, <2>8, <3>1 DEF Histories
  <2> QED BY <1>4, <2>7, <2>9 DEF Histories
<1> QED BY <1>2, <1>3, <1>4

LEMMA NoHistoryIs ==
  ASSUME now \in Nat
  PROVE  /\ NoHistory \in Histories /\ ~NoHistory.held
         /\ NoHistory.first = 0 /\ NoHistory.last = 0
BY DEF NoHistory, Histories

(* A book that follows the last one within the gap keeps the beginning of   *)
(* the history, any other begins one.                                       *)
LEMMA UpdatedHistory ==
  ASSUME NEW s \in Histories, NEW t \in 1..now, now \in Nat, s.first # 0 => s.held
  PROVE  /\ Updated(s, t) \in Histories /\ Updated(s, t).held /\ Updated(s, t).last = t
         /\ \/ Updated(s, t).first = t
            \/ /\ s.held /\ t - s.last < MaxGap
               /\ Updated(s, t).first = s.first
<1> DEFINE kept == IF s.held /\ t - s.last >= MaxGap THEN NoHistory ELSE s
           o == Observed(s, t)
<1>0. kept \in Histories /\ (kept = NoHistory \/ (kept = s /\ (s.held => t - s.last < MaxGap)))
  <2>1. s.last \in Nat /\ t \in Nat /\ MaxGap \in Nat
    BY DepthAssumption DEF DepthAssumption, Histories
  <2> QED BY <2>1, NoHistoryIs
<1>1. PICK g : g = Sampled(kept, t)
  OBVIOUS
<1> HIDE DEF kept
<1>2. g \in Histories /\ g.first = IF ~kept.held /\ kept.first = 0 THEN t ELSE kept.first
  BY <1>0, <1>1, SampledHistory
<1>3. o = [g EXCEPT !.held = TRUE, !.last = t]
  BY <1>1 DEF Observed, kept
<1>4. o \in Histories /\ o.held /\ o.last = t /\ o.first = g.first
  <2>1. PICK h : h = o
    OBVIOUS
  <2>2. g \in Histories /\ t \in 0..now /\ h = [g EXCEPT !.held = TRUE, !.last = t]
    BY <1>2, <1>3, <2>1
  <2>3. h \in Histories /\ h.held /\ h.last = t /\ h.first = g.first
    BY <2>2 DEF Histories
  <2> QED BY <2>1, <2>3
<1>5. o.first = t \/ (s.held /\ t - s.last < MaxGap /\ o.first = s.first)
  <2>1. CASE kept = NoHistory
    BY <1>2, <1>4, <2>1, NoHistoryIs
  <2>2. CASE kept = s /\ (s.held => t - s.last < MaxGap)
    BY <1>2, <1>4, <2>2
  <2> QED BY <1>0, <2>1, <2>2
<1>6. PICK w \in BOOLEAN : w <=> o.warm \/ Quotes(o)
  BY Zenon
<1>7. Updated(s, t) = o \/ Updated(s, t) = [o EXCEPT !.quoted = o.step, !.warm = w]
  <2>1. CASE ~Due(o)
    BY <2>1 DEF Updated
  <2>2. CASE Due(o)
    <3>1. Updated(s, t) = [o EXCEPT !.quoted = o.step, !.warm = @ \/ Quotes(o)]
      BY <2>2 DEF Updated
    <3>2. o.warm \in BOOLEAN
      BY <1>4, Zenon DEF Histories
    <3>3. (o.warm \/ Quotes(o)) = w
      BY <1>6, <3>2
    <3> HIDE DEF o
    <3> QED BY <1>4, <3>1, <3>3 DEF Histories
  <2> QED BY <2>1, <2>2
<1> HIDE DEF o
<1>8. o.step \in Nat
  BY <1>4 DEF Histories
<1>9. PICK v : v = Updated(s, t)
  OBVIOUS
<1>10. v = o \/ v = [o EXCEPT !.quoted = o.step, !.warm = w]
  BY <1>7, <1>9
<1>11. v \in Histories /\ v.held /\ v.last = t /\ v.first = o.first
  BY <1>4, <1>8, <1>10 DEF Histories
<1> QED BY <1>5, <1>9, <1>11

(* An event is added as its sender may.                                     *)
LEMMA QueueGrows ==
  ASSUME DepthTypeOK, QueueOrdered, NEW e \in DepthEvents, e.at = now,
         queue' = Append(queue, e), UNCHANGED <<now, paused, strategy, seen>>,
         e.kind = "Connected" => client = "dial",
         e.kind = "Depth" => client = "run" /\ e.session = session,
         client' = "dial" => e.kind = "Disconnected",
         client' = "run" => e.kind # "Disconnected" /\ (e.kind = "Depth" => e.session = session')
  PROVE  QueueOrdered'
<1>1. /\ queue \in Seq(DepthEvents) /\ now \in Nat /\ seen.at \in Nat
      /\ Len(queue) \in Nat /\ client \in {"dial", "run"}
  BY DepthTypeParts
<1>2. \A i \in 1..Len(queue) : queue[i] \in DepthEvents
  BY <1>1
<1>3. \A i \in 1..Len(queue) : queue[i].at <= now
  BY <1>2 DEF DepthEvents
<1>4. /\ Len(queue') = Len(queue) + 1 /\ queue'[Len(queue) + 1] = e
      /\ \A i \in 1..Len(queue) : queue'[i] = queue[i]
      /\ queue' # << >>
  BY <1>1
<1>5. PICK f : f = queue'[1]
  OBVIOUS
<1>6. Takes(f)'
  <2>1. CASE queue = << >>
    <3>1. f = e
      BY <1>4, <1>5, <2>1
    <3>2. Takes(e)
      BY <1>1, <2>1 DEF QueueOrdered, EndsAs, Takes
    <3> QED BY <3>1, <3>2 DEF Takes
  <2>2. CASE queue # << >>
    <3>1. Takes(queue[1]) /\ f = queue[1]
      BY <1>1, <1>4, <1>5, <2>2 DEF QueueOrdered
    <3> QED BY <3>1 DEF Takes
  <2> QED BY <2>1, <2>2
<1>7. ASSUME NEW i \in 1..(Len(queue') - 1)
      PROVE  Follows(queue'[i], queue'[i + 1])
  <2>1. i \in 1..Len(queue) /\ queue'[i] = queue[i]
    BY <1>1, <1>4
  <2>2. CASE i < Len(queue)
    <3>1. i \in 1..(Len(queue) - 1) /\ i + 1 \in 1..Len(queue)
      BY <1>1, <2>1, <2>2
    <3>2. Follows(queue[i], queue[i + 1]) /\ queue'[i + 1] = queue[i + 1]
      BY <1>4, <3>1 DEF QueueOrdered
    <3> QED BY <2>1, <3>2
  <2>3. CASE ~(i < Len(queue))
    <3>1. i = Len(queue) /\ queue # << >> /\ queue'[i + 1] = e
      BY <1>1, <1>4, <2>1, <2>3
    <3>2. PICK l : l = queue[i]
      OBVIOUS
    <3>3. /\ client = "dial" => l.kind = "Disconnected"
          /\ client = "run" => l.kind # "Disconnected" /\ (l.kind = "Depth" => l.session = session)
      BY <3>1, <3>2 DEF QueueOrdered, EndsAs
    <3>4. l.at <= e.at
      BY <1>3, <2>1, <3>2
    <3>5. Follows(l, e)
      BY <1>1, <3>3, <3>4 DEF Follows
    <3> QED BY <2>1, <3>1, <3>2, <3>5
  <2> QED BY <2>2, <2>3
<1>8. EndsAs'
  <2>1. queue'[Len(queue')] = e
    BY <1>4
  <2> QED BY <1>4, <2>1 DEF EndsAs
<1>9. \A i \in 1..(Len(queue') - 1) : Follows(queue[i], queue[i + 1])'
  BY <1>7 DEF Follows
<1>10. seen'.at <= now'
  BY DEF QueueOrdered
<1>11. (queue # << >> => Takes(queue[1]))'
  BY <1>5, <1>6, Zenon DEF Takes
<1> QED BY <1>8, <1>9, <1>10, <1>11, Zenon DEF QueueOrdered

(* The event loop has taken the first event.                                *)
LEMMA QueueTaken ==
  ASSUME DepthTypeOK, QueueOrdered, queue # << >>, NEW e, e = Head(queue),
         queue' = Tail(queue), UNCHANGED <<now, session, client>>,
         seen'.at \in Nat, seen'.at <= e.at,
         e.kind = "Disconnected" => paused' /\ ~strategy'.held,
         e.kind = "Connected" => ~strategy'.held,
         e.kind = "Depth" /\ strategy'.held => seen'.session = e.session
  PROVE  QueueOrdered'
<1>1. queue \in Seq(DepthEvents) /\ now \in Nat /\ Len(queue) \in Nat /\ e = queue[1]
      /\ client \in {"dial", "run"}
  BY DepthTypeParts
<1>2. \A i \in 1..Len(queue) : queue[i] \in DepthEvents
  BY <1>1
<1>3. Len(queue) >= 1 /\ e \in DepthEvents
  BY <1>1, <1>2
<1>4. e.at \in Nat /\ e.at <= now /\ e.kind \in {"Connected", "Disconnected", "Depth"}
  <2>1. e.at \in 1..now /\ e.kind \in {"Connected", "Disconnected", "Depth"}
    BY <1>3 DEF DepthEvents
  <2> QED BY <1>1, <2>1
<1>5. /\ Len(queue') = Len(queue) - 1
      /\ \A i \in 1..Len(queue') : queue'[i] = queue[i + 1]
  BY <1>1, <1>3
<1>6. seen'.at <= now
  BY <1>1, <1>4
<1>7. ASSUME queue' # << >>
      PROVE  \A f : f = queue'[1] => Takes(f)'
  <2>1. Len(queue) >= 2 /\ queue'[1] = queue[2] /\ 1 \in 1..(Len(queue) - 1)
    BY <1>1, <1>5, <1>7
  <2>2. SUFFICES ASSUME NEW f, f = queue[2] PROVE Takes(f)'
    BY <2>1
  <2>3. Follows(e, f)
    BY <1>1, <2>1, <2>2 DEF QueueOrdered
  <2>4. f \in DepthEvents
    BY <1>1, <1>2, <2>1, <2>2
  <2>5. f.at \in Nat
    BY <1>1, <2>4 DEF DepthEvents
  <2>6. seen'.at <= f.at
    BY <1>4, <2>3, <2>5 DEF Follows
  <2>7. /\ f.kind = "Connected" => paused' /\ ~strategy'.held
        /\ f.kind = "Depth" /\ strategy'.held => f.session = seen'.session
    BY <1>4, <2>3 DEF Follows
  <2> QED BY <2>6, <2>7 DEF Takes
<1>8. \A i \in 1..(Len(queue') - 1) : Follows(queue'[i], queue'[i + 1])
  <2> SUFFICES ASSUME NEW i \in 1..(Len(queue') - 1)
               PROVE  Follows(queue'[i], queue'[i + 1])
    OBVIOUS
  <2>1. i + 1 \in 1..(Len(queue) - 1) /\ i \in 1..Len(queue') /\ i + 1 \in 1..Len(queue')
    BY <1>1, <1>5
  <2>2. queue'[i] = queue[i + 1] /\ queue'[i + 1] = queue[(i + 1) + 1]
    BY <1>5, <2>1
  <2> QED BY <2>1, <2>2 DEF QueueOrdered
<1>9. EndsAs'
  <2>1. CASE queue' = << >>
    <3>0. Len(queue') = 0
      <4>1. Len(<< >>) = 0
        OBVIOUS
      <4> QED BY <2>1, <4>1, Zenon
    <3>1. Len(queue) = 1
      BY <1>1, <1>5, <3>0
    <3>2. /\ client = "dial" => e.kind = "Disconnected"
          /\ client = "run" => e.kind # "Disconnected" /\ (e.kind = "Depth" => e.session = session)
      BY <1>1, <3>1 DEF QueueOrdered, EndsAs
    <3> QED BY <1>4, <2>1, <3>2 DEF EndsAs
  <2>2. CASE queue' # << >>
    <3>1. queue'[Len(queue')] = queue[Len(queue)]
      BY <1>1, <1>5, <2>2
    <3> QED BY <2>2, <3>1 DEF QueueOrdered, EndsAs
  <2> QED BY <2>1, <2>2
<1>10. \A i \in 1..(Len(queue') - 1) : Follows(queue[i], queue[i + 1])'
  BY <1>8 DEF Follows
<1>11. (queue # << >> => Takes(queue[1]))'
  BY <1>7, Zenon DEF Takes
<1> QED BY <1>6, <1>9, <1>10, <1>11, Zenon DEF QueueOrdered

(* Nothing is sent or taken; the loop may pause and drop its history.       *)
LEMMA QueueStands ==
  ASSUME DepthTypeOK, QueueOrdered, UNCHANGED <<queue, seen, session, client>>, now' >= now,
         now' \in Nat, paused => paused', strategy'.held => strategy.held
  PROVE  QueueOrdered'
<1>1. now \in Nat /\ seen.at \in Nat
  BY DepthTypeParts
<1>2. seen'.at <= now'
  BY <1>1 DEF QueueOrdered
<1>4. EndsAs'
  BY DEF QueueOrdered, EndsAs
<1>5. (queue # << >> => Takes(queue[1]))'
  BY DEF QueueOrdered, Takes
<1>6. \A i \in 1..(Len(queue') - 1) : Follows(queue[i], queue[i + 1])'
  BY DEF QueueOrdered, Follows
<1> QED BY <1>2, <1>4, <1>5, <1>6, Zenon DEF QueueOrdered

(* The types after a step that leaves the clock.                            *)
LEMMA DepthTypesStand ==
  ASSUME now' = now, now \in 1..MaxTime, ticked' \in 1..now, connectedAt' \in 0..now,
         sequenced' \in BOOLEAN, permit' \in BOOLEAN, paused' \in BOOLEAN,
         session' \in 0..MaxSessions,
         traffic' \in {"none", "depth", "chatter", "dead"}, client' \in {"dial", "run"},
         queue' \in Seq(DepthEvents), depth' \in DepthStates, strategy' \in Histories,
         seen' \in [session : 0..MaxSessions, at : 0..now, since : 0..now]
  PROVE  DepthTypeOK'
<1>1. {sequenced', permit', paused'} \subseteq BOOLEAN
  BY Zenon
<1> QED BY <1>1, Zenon DEF DepthTypeOK, DepthEvents, DepthStates, Histories

(* What a check of the silence leaves: all, or a pause without a history.   *)
LEMMA CheckedIs ==
  ASSUME DepthTypeOK
  PROVE  /\ Checked.depth \in DepthStates /\ Checked.strategy \in Histories
         /\ Checked.paused \in BOOLEAN /\ Outage \in BOOLEAN
         /\ Checked.strategy = strategy \/ Checked.strategy = NoHistory
         /\ paused => Checked.paused
         /\ ~Checked.paused => ~Outage /\ ~paused /\ Checked.depth = depth
<1>1. /\ depth \in DepthStates /\ strategy \in Histories /\ paused \in BOOLEAN /\ now \in Nat
      /\ Outage \in BOOLEAN
  BY DepthTypeParts DEF Outage
<1>2. CASE Outage
  <2>1. PICK d : d = [depth EXCEPT !.stale = TRUE]
    OBVIOUS
  <2>2. d \in DepthStates
    BY <1>1, <2>1 DEF DepthStates
  <2>3. Checked = [depth |-> d, strategy |-> NoHistory, paused |-> TRUE]
    BY <1>2, <2>1, Zenon DEF Checked
  <2>4. NoHistory \in Histories
    BY <1>1, NoHistoryIs
  <2> QED BY <1>1, <2>2, <2>3, <2>4
<1>3. CASE ~Outage
  <2>1. Checked = [depth |-> depth, strategy |-> strategy, paused |-> paused]
    BY <1>3, Zenon DEF Checked
  <2> QED BY <1>1, <1>3, <2>1
<1> QED BY <1>2, <1>3

LEMMA DepthStarts == DepthInit => DepthInv
<1> SUFFICES ASSUME DepthInit PROVE DepthInv
  OBVIOUS
<1>1. MaxTime \in Nat \ {0} /\ MaxSessions \in Nat /\ TickLag \in Nat
  BY DepthAssumption DEF DepthAssumption
<1>2. NoDepth \in DepthStates
  BY DEF DepthInit, NoDepth, DepthStates
<1>3. NoHistory \in Histories /\ ~NoHistory.held /\ NoHistory.first = 0
  BY NoHistoryIs DEF DepthInit
<1>4. /\ now \in 1..MaxTime /\ ticked \in 1..now /\ connectedAt \in 0..now
      /\ session \in 0..MaxSessions /\ queue \in Seq(DepthEvents)
      /\ seen \in [session : 0..MaxSessions, at : 0..now, since : 0..now]
  BY <1>1 DEF DepthInit
<1>5. sequenced \in BOOLEAN /\ permit \in BOOLEAN /\ paused \in BOOLEAN
  BY Zenon DEF DepthInit
<1>6. DepthTypeOK
  BY <1>2, <1>3, <1>4, <1>5, DepthTypeParts DEF DepthInit
<1>7. QueueOrdered
  <2>1. Len(queue) = 0 /\ EndsAs /\ seen.at <= now
    BY <1>3 DEF DepthInit, EndsAs
  <2> QED BY <2>1 DEF QueueOrdered, DepthInit
<1>8. HistoryInv /\ FreshInv
  BY <1>1, <1>3 DEF DepthInit, HistoryInv, FreshInv
<1> QED BY <1>6, <1>7, <1>8 DEF DepthInv

(* Time passes while the event loop keeps up.                               *)
LEMMA ClockKeeps == DepthInv /\ Clock => DepthInv'
<1> SUFFICES ASSUME DepthInv, Clock PROVE DepthInv'
  OBVIOUS
<1>1. /\ DepthTypeOK /\ QueueOrdered /\ HistoryInv /\ FreshInv
      /\ ticked' = ticked /\ sequenced' = sequenced /\ session' = session
      /\ traffic' = traffic /\ client' = client /\ permit' = permit /\ queue' = queue
      /\ depth' = depth /\ connectedAt' = connectedAt /\ strategy' = strategy
      /\ paused' = paused /\ seen' = seen
  BY DEF Clock, DepthInv, dialVars, appVars
<1>2. PICK n : n = now'
  OBVIOUS
<1>3. /\ now \in 1..MaxTime /\ ticked \in 1..now /\ TickLag \in Nat /\ MaxTime \in Nat
      /\ n = now + 1 /\ now < MaxTime /\ now - ticked < TickLag
  BY <1>1, <1>2, DepthTypeParts, DepthConstants DEF Clock
<1>4. n \in 1..MaxTime /\ now <= n /\ n \in Nat /\ n <= ticked + TickLag
  BY <1>3
<1>5. DepthTypeOK'
  <2>1. /\ ticked \in 1..n /\ connectedAt \in 0..n
        /\ depth \in [received : 0..n, sequence : 0..n, time : 0..n, stale : BOOLEAN]
        /\ strategy \in [held : BOOLEAN, next : Nat, last : 0..n, first : 0..n,
                         latest : 0..n, step : Nat, quoted : Nat, warm : BOOLEAN]
        /\ seen \in [session : 0..MaxSessions, at : 0..n, since : 0..n]
    <3>1. /\ ticked \in 1..n /\ connectedAt \in 0..n
          /\ seen \in [session : 0..MaxSessions, at : 0..n, since : 0..n]
      BY <1>1, <1>3, DepthTypeParts
    <3>2. depth \in DepthStates /\ strategy \in Histories
      BY <1>1, DepthTypeParts
    <3>3. 0..now \subseteq 0..n
      BY <1>3
    <3>4. depth \in [received : 0..n, sequence : 0..n, time : 0..n, stale : BOOLEAN]
      BY <3>2, <3>3 DEF DepthStates
    <3>5. strategy \in [held : BOOLEAN, next : Nat, last : 0..n, first : 0..n,
                         latest : 0..n, step : Nat, quoted : Nat, warm : BOOLEAN]
      BY <3>2, <3>3 DEF Histories
    <3> QED BY <3>1, <3>4, <3>5
  <2>2. queue \in Seq([kind : {"Connected", "Disconnected", "Depth"},
                       session : 0..MaxSessions, at : 1..n, sequence : 0..n, time : 0..n])
    <3>1. DepthEvents \subseteq [kind : {"Connected", "Disconnected", "Depth"},
                       session : 0..MaxSessions, at : 1..n, sequence : 0..n, time : 0..n]
      BY <1>3 DEF DepthEvents
    <3>2. \A A, B : A \subseteq B => Seq(A) \subseteq Seq(B)
      OBVIOUS
    <3>3. queue \in Seq(DepthEvents)
      BY <1>1, DepthTypeParts
    <3> QED BY <3>1, <3>2, <3>3, Zenon
  <2>3. /\ {sequenced, permit, paused} \subseteq BOOLEAN
        /\ session \in 0..MaxSessions
        /\ traffic \in {"none", "depth", "chatter", "dead"} /\ client \in {"dial", "run"}
    BY <1>1, Zenon DEF DepthTypeOK
  <2> QED BY <1>1, <1>2, <1>4, <2>1, <2>2, <2>3, Zenon DEF DepthTypeOK
<1>6. QueueOrdered'
  <2>1. now' >= now /\ now' \in Nat
    BY <1>2, <1>3, <1>4
  <2>2. /\ UNCHANGED <<queue, seen, session, client>>
        /\ paused => paused' /\ (strategy'.held => strategy.held)
    BY <1>1
  <2> QED BY <1>1, <2>1, <2>2, QueueStands
<1>7. HistoryInv' /\ FreshInv'
  <2>1. now' <= ticked' + TickLag
    BY <1>1, <1>2, <1>4
  <2> QED BY <1>1, <2>1, Zenon DEF HistoryInv, FreshInv
<1> QED BY <1>5, <1>6, <1>7 DEF DepthInv

(* The client adds an event, and leaves the event loop's part alone.        *)
LEMMA ClientSends ==
  ASSUME DepthInv, NEW e, e \in DepthEvents, e.at = now, queue' = Append(queue, e),
         UNCHANGED <<now, ticked, sequenced, appVars>>,
         session' \in 0..MaxSessions, permit' \in BOOLEAN,
         traffic' \in {"none", "depth", "chatter", "dead"}, client' \in {"dial", "run"},
         e.kind = "Connected" => client = "dial",
         e.kind = "Depth" => client = "run" /\ e.session = session,
         client' = "dial" => e.kind = "Disconnected",
         client' = "run" => e.kind # "Disconnected" /\ (e.kind = "Depth" => e.session = session')
  PROVE  DepthInv'
<1>1. /\ DepthTypeOK /\ QueueOrdered /\ HistoryInv /\ FreshInv
      /\ now' = now /\ ticked' = ticked /\ sequenced' = sequenced
      /\ depth' = depth /\ connectedAt' = connectedAt /\ strategy' = strategy
      /\ paused' = paused /\ seen' = seen
  BY DEF DepthInv, appVars
<1>2. queue' \in Seq(DepthEvents)
  BY <1>1, DepthTypeParts
<1>3. DepthTypeOK'
  BY <1>1, <1>2, DepthTypeParts, DepthTypesStand, Zenon
<1>4. QueueOrdered'
  BY <1>1, QueueGrows
<1>5. HistoryInv' /\ FreshInv'
  BY <1>1, Zenon DEF HistoryInv, FreshInv
<1> QED BY <1>3, <1>4, <1>5 DEF DepthInv

(* What the event loop takes.                                               *)
LEMMA HeadTaken ==
  ASSUME DepthInv, NEW kind, Taken(kind)
  PROVE  /\ queue # << >> /\ Head(queue) \in DepthEvents /\ Head(queue).kind = kind
         /\ Takes(Head(queue)) /\ queue' = Tail(queue) /\ Tail(queue) \in Seq(DepthEvents)
         /\ now' = now /\ ticked' = ticked /\ sequenced' = sequenced /\ session' = session
         /\ traffic' = traffic /\ client' = client /\ permit' \in BOOLEAN
<1>1. DepthTypeOK /\ QueueOrdered
  BY DEF DepthInv
<1>2. queue \in Seq(DepthEvents) /\ queue # << >> /\ permit \in BOOLEAN /\ Outage \in BOOLEAN
  BY <1>1, DepthTypeParts, CheckedIs DEF Taken
<1>3. Head(queue) \in DepthEvents /\ Tail(queue) \in Seq(DepthEvents) /\ Head(queue) = queue[1]
  BY <1>2
<1>4. permit' \in BOOLEAN
  BY <1>2, Zenon DEF Taken
<1> QED BY <1>1, <1>2, <1>3, <1>4 DEF Taken, QueueOrdered, dialVars

(* An event taken, from what its handler does to the event loop's part.     *)
LEMMA LoopTakes ==
  ASSUME DepthInv, NEW kind, Taken(kind), NEW e, e = Head(queue),
         depth' \in DepthStates, connectedAt' \in 0..now, strategy' \in Histories,
         paused' \in BOOLEAN, seen' \in [session : 0..MaxSessions, at : 0..now, since : 0..now],
         seen'.at <= e.at,
         kind = "Disconnected" => paused' /\ ~strategy'.held,
         kind = "Connected" => ~strategy'.held,
         kind = "Depth" /\ strategy'.held => seen'.session = e.session,
         HistoryInv',
         ~paused' => /\ depth'.received = seen'.at /\ seen'.at > 0 /\ ~depth'.stale
                     /\ ticked - seen'.at < MaxGap
  PROVE  DepthInv'
<1>1. DepthTypeOK /\ QueueOrdered /\ FreshInv
  BY DEF DepthInv
<1>2. /\ queue # << >> /\ e.kind = kind /\ queue' = Tail(queue) /\ Tail(queue) \in Seq(DepthEvents)
      /\ now' = now /\ ticked' = ticked /\ sequenced' = sequenced /\ session' = session
      /\ traffic' = traffic /\ client' = client /\ permit' \in BOOLEAN
  BY HeadTaken
<1>3. DepthTypeOK'
  BY <1>1, <1>2, DepthTypeParts, DepthTypesStand, Zenon
<1>4. seen'.at \in Nat
  <2>1. now \in Nat
    BY <1>1, DepthTypeParts
  <2> QED BY <2>1
<1>5. QueueOrdered'
  BY <1>1, <1>2, <1>4, QueueTaken
<1>6. FreshInv'
  BY <1>1, <1>2, Zenon DEF FreshInv
<1> QED BY <1>3, <1>5, <1>6 DEF DepthInv

LEMMA OpenedKeeps == DepthInv /\ TakeOpened => DepthInv'
<1> SUFFICES ASSUME DepthInv, TakeOpened PROVE DepthInv'
  OBVIOUS
<1>1. PICK e : e = Head(queue)
  OBVIOUS
<1>2. /\ Taken("Connected") /\ depth' = NoDepth /\ connectedAt' = now
      /\ strategy' = Checked.strategy /\ paused' = Checked.paused /\ seen' = seen
  BY DEF TakeOpened
<1>3. e.kind = "Connected" /\ Takes(e)
  BY <1>1, <1>2, HeadTaken
<1>4. DepthTypeOK /\ HistoryInv /\ now \in Nat
  BY DepthTypeParts DEF DepthInv
<1>5. paused /\ ~strategy.held /\ seen.at <= e.at
  BY <1>3 DEF Takes
<1>6. Checked.paused /\ Checked.paused \in BOOLEAN /\ Checked.strategy \in Histories
      /\ (Checked.strategy = strategy \/ Checked.strategy = NoHistory)
  BY <1>4, <1>5, CheckedIs
<1>7. /\ depth' \in DepthStates /\ connectedAt' \in 0..now /\ paused' /\ paused' \in BOOLEAN
      /\ seen' \in [session : 0..MaxSessions, at : 0..now, since : 0..now]
  BY <1>2, <1>4, <1>6, DepthTypeParts DEF NoDepth, DepthStates
<1>8. ~strategy'.held /\ HistoryInv'
  BY <1>2, <1>4, <1>5, <1>6, NoHistoryIs DEF HistoryInv
<1> QED BY <1>1, <1>2, <1>5, <1>6, <1>7, <1>8, LoopTakes

LEMMA ClosedKeeps == DepthInv /\ TakeClosed => DepthInv'
<1> SUFFICES ASSUME DepthInv, TakeClosed PROVE DepthInv'
  OBVIOUS
<1>1. PICK e : e = Head(queue)
  OBVIOUS
<1>2. /\ Taken("Disconnected") /\ depth' = NoDepth /\ connectedAt' = 0
      /\ strategy' = NoHistory /\ paused' = TRUE /\ seen' = seen
  BY DEF TakeClosed, AfterDisconnect
<1>3. e.kind = "Disconnected" /\ Takes(e)
  BY <1>1, <1>2, HeadTaken
<1>4. DepthTypeOK /\ HistoryInv /\ now \in Nat
  BY DepthTypeParts DEF DepthInv
<1>5. seen.at <= e.at
  BY <1>3 DEF Takes
<1>6. /\ depth' \in DepthStates /\ connectedAt' \in 0..now /\ paused' /\ paused' \in BOOLEAN
      /\ seen' \in [session : 0..MaxSessions, at : 0..now, since : 0..now]
  BY <1>2, <1>4, DepthTypeParts DEF NoDepth, DepthStates
<1>7. strategy' \in Histories /\ ~strategy'.held /\ HistoryInv'
  BY <1>2, <1>4, NoHistoryIs DEF HistoryInv
<1> QED BY <1>1, <1>2, <1>5, <1>6, <1>7, LoopTakes

LEMMA TickKeeps == DepthInv /\ Tick => DepthInv'
<1> SUFFICES ASSUME DepthInv, Tick PROVE DepthInv'
  OBVIOUS
<1>1. /\ DepthTypeOK /\ QueueOrdered /\ HistoryInv /\ FreshInv
      /\ now' = now /\ ticked' = now /\ sequenced' = sequenced /\ session' = session
      /\ traffic' = traffic /\ client' = client /\ queue' = queue
      /\ depth' = Checked.depth /\ connectedAt' = connectedAt /\ strategy' = Checked.strategy
      /\ paused' = Checked.paused /\ seen' = seen /\ permit' = (permit \/ Outage)
  BY DEF Tick, DepthInv, dialVars
<1>2. /\ now \in 1..MaxTime /\ TickLag \in Nat /\ MaxGap \in Nat
      /\ connectedAt \in 0..now /\ sequenced \in BOOLEAN /\ permit \in BOOLEAN
      /\ paused \in BOOLEAN /\ session \in 0..MaxSessions
      /\ traffic \in {"none", "depth", "chatter", "dead"} /\ client \in {"dial", "run"}
      /\ queue \in Seq(DepthEvents)
      /\ seen \in [session : 0..MaxSessions, at : 0..now, since : 0..now]
  BY <1>1, DepthTypeParts, DepthAssumption DEF DepthAssumption
<1>3. /\ Checked.depth \in DepthStates /\ Checked.strategy \in Histories
      /\ Checked.paused \in BOOLEAN /\ Outage \in BOOLEAN
      /\ Checked.strategy = strategy \/ Checked.strategy = NoHistory
      /\ paused => Checked.paused
      /\ ~Checked.paused => ~Outage /\ ~paused /\ Checked.depth = depth
  BY <1>1, CheckedIs
<1>4. now \in 1..now /\ now \in Nat
  BY <1>2
<1>5. permit' \in BOOLEAN
  BY <1>1, <1>2, <1>3, Zenon
<1>6. DepthTypeOK'
  BY <1>1, <1>2, <1>3, <1>4, <1>5, DepthTypesStand, Zenon
<1>7. strategy'.held => strategy.held
  BY <1>1, <1>3, <1>4, NoHistoryIs
<1>8. HistoryInv'
  BY <1>1, <1>3, <1>4, NoHistoryIs DEF HistoryInv
<1>9. QueueOrdered'
  BY <1>1, <1>3, <1>4, <1>7, QueueStands
<1>10. FreshInv'
  <2>1. ~Checked.paused => /\ Checked.depth.received = seen.at /\ seen.at > 0
                           /\ ~Checked.depth.stale /\ now - seen.at < MaxGap
    <3> SUFFICES ASSUME ~Checked.paused
                 PROVE  /\ Checked.depth.received = seen.at /\ seen.at > 0
                        /\ ~Checked.depth.stale /\ now - seen.at < MaxGap
      OBVIOUS
    <3>1. ~Outage /\ Checked.depth = depth /\ depth.received = seen.at /\ seen.at > 0 /\ ~depth.stale
      BY <1>1, <1>3 DEF FreshInv
    <3>2. ~(now - seen.at >= MaxGap)
      BY <3>1 DEF Outage, SilentSince
    <3>3. seen.at \in Nat
      BY <1>2
    <3> QED BY <1>2, <3>1, <3>2, <3>3
  <2>2. now <= now + TickLag
    BY <1>2
  <2> QED BY <1>1, <2>1, <2>2, Zenon DEF FreshInv
<1> QED BY <1>1, <1>6, <1>8, <1>9, <1>10 DEF DepthInv

(* The strategy takes no book older than the last one it took.              *)
LEMMA DepthKeeps == DepthInv /\ TakeDepth => DepthInv'
<1> SUFFICES ASSUME DepthInv, TakeDepth PROVE DepthInv'
  OBVIOUS
<1>1. PICK b : b = Head(queue)
  OBVIOUS
<1>2. Taken("Depth") /\ connectedAt' = connectedAt
  BY DEF TakeDepth
<1>3. b.kind = "Depth" /\ Takes(b) /\ b \in DepthEvents
  BY <1>1, <1>2, HeadTaken
<1>4. /\ DepthTypeOK /\ HistoryInv /\ FreshInv /\ now \in Nat /\ now \in 1..MaxTime
      /\ ticked \in 1..now /\ MaxGap \in Nat /\ connectedAt \in 0..now
      /\ seen \in [session : 0..MaxSessions, at : 0..now, since : 0..now]
  BY DepthTypeParts, DepthConstants DEF DepthInv
<1>5. PICK c : c = Checked.strategy
  OBVIOUS
<1>6. /\ Checked.depth \in DepthStates /\ c \in Histories
      /\ Checked.paused \in BOOLEAN
      /\ c = strategy \/ c = NoHistory
      /\ ~Checked.paused => ~paused /\ Checked.depth = depth
  BY <1>4, <1>5, CheckedIs
<1>7. b.at \in 1..now /\ b.session \in 0..MaxSessions /\ b.sequence \in 0..now /\ b.time \in 0..now
  BY <1>3 DEF DepthEvents
<1>8. /\ seen.at <= b.at /\ (strategy.held => b.session = seen.session)
      /\ seen.at \in Nat /\ seen.since \in Nat /\ seen.since <= seen.at
  BY <1>3, <1>4 DEF Takes, HistoryInv
<1>9. /\ c.first # 0 => c.held /\ c.first >= seen.since
      /\ c.held => c.last = seen.at /\ strategy.held
  BY <1>4, <1>6, NoHistoryIs DEF HistoryInv
<1>10. CASE /\ depth' = Checked.depth /\ strategy' = Checked.strategy
            /\ paused' = Checked.paused /\ seen' = seen
  <2>1. HistoryInv'
    BY <1>5, <1>8, <1>9, <1>10 DEF HistoryInv
  <2>2. ~paused' => /\ depth'.received = seen'.at /\ seen'.at > 0 /\ ~depth'.stale
                    /\ ticked - seen'.at < MaxGap
    BY <1>4, <1>6, <1>10 DEF FreshInv
  <2>3. strategy'.held => seen'.session = b.session
    BY <1>5, <1>8, <1>9, <1>10
  <2>4. seen'.at <= b.at
    BY <1>8, <1>10
  <2> QED BY <1>1, <1>2, <1>4, <1>5, <1>6, <1>10, <2>1, <2>2, <2>3, <2>4, LoopTakes
<1>11. CASE /\ ~Refuses(b) /\ depth' = Accepted(b) /\ strategy' = Updated(Checked.strategy, b.at)
            /\ paused' = (Checked.paused /\ ~Starts(b)) /\ seen' = SeenNext(b)
  <2>1. PICK u : u = Updated(c, b.at)
    OBVIOUS
  <2>2. /\ u \in Histories /\ u.held /\ u.last = b.at
        /\ \/ u.first = b.at
           \/ c.held /\ b.at - c.last < MaxGap /\ u.first = c.first
    BY <1>4, <1>6, <1>7, <1>9, <2>1, UpdatedHistory
  <2>3. PICK n : n = IF seen.session = b.session /\ b.at - seen.at < MaxGap
                       THEN seen.since ELSE b.at
    OBVIOUS
  <2>4. seen' = [session |-> b.session, at |-> b.at, since |-> n]
    BY <1>11, <2>3 DEF SeenNext
  <2>5. n \in 0..now /\ n <= b.at
    BY <1>4, <1>7, <1>8, <2>3
  <2>6. seen' \in [session : 0..MaxSessions, at : 0..now, since : 0..now]
    BY <1>7, <2>4, <2>5
  <2>7. u.first # 0 => u.first >= n
    <3>1. CASE u.first = b.at
      BY <1>7, <2>5, <3>1
    <3>2. CASE c.held /\ b.at - c.last < MaxGap /\ u.first = c.first
      BY <1>8, <1>9, <2>3, <3>2
    <3> QED BY <2>2, <3>1, <3>2
  <2>8. strategy' = u
    BY <1>5, <1>11, <2>1
  <2>9. HistoryInv'
    <3>1. seen'.at = b.at /\ seen'.since = n
      BY <2>4
    <3> QED BY <2>2, <2>5, <2>7, <2>8, <3>1 DEF HistoryInv
  <2>10. /\ depth' \in DepthStates /\ depth'.received = b.at /\ depth'.stale = FALSE
    BY <1>7, <1>11 DEF Accepted, DepthStates
  <2>11. ticked - b.at < MaxGap /\ b.at > 0
    <3>1. now - b.at < MaxGap
      BY <1>11 DEF Refuses, Accepts
    <3> QED BY <1>4, <1>7, <3>1
  <2>12. paused' \in BOOLEAN
    BY <1>6, <1>11, Zenon
  <2>13. seen'.at = b.at /\ seen'.session = b.session /\ seen'.at <= b.at
    BY <1>7, <2>4
  <2>14. ~paused' => /\ depth'.received = seen'.at /\ seen'.at > 0 /\ ~depth'.stale
                     /\ ticked - seen'.at < MaxGap
    BY <2>10, <2>11, <2>13
  <2>15. strategy' \in Histories
    BY <2>2, <2>8
  <2> QED BY <1>1, <1>2, <1>4, <2>6, <2>9, <2>10, <2>12, <2>13, <2>14, <2>15, LoopTakes
<1> QED BY <1>1, <1>10, <1>11 DEF TakeDepth

(* Every event the client makes is one of now.                              *)
LEMMA ClientKeeps ==
  DepthInv /\ (Dial \/ HungUp \/ Forced \/ \E t \in Times : Deliver(t)) => DepthInv'
<1> SUFFICES ASSUME DepthInv, Dial \/ HungUp \/ Forced \/ \E t \in Times : Deliver(t)
             PROVE  DepthInv'
  OBVIOUS
<1>1. /\ now \in Nat /\ now \in 1..now /\ permit \in BOOLEAN /\ session \in 0..MaxSessions
      /\ traffic \in {"none", "depth", "chatter", "dead"} /\ client \in {"dial", "run"}
      /\ MaxSessions \in Nat
  BY DepthTypeParts, DepthConstants DEF DepthInv
<1>2. CASE Dial
  <2>1. PICK n : n = session + 1
    OBVIOUS
  <2>2. n \in 0..MaxSessions /\ session' = n
    BY <1>1, <1>2, <2>1 DEF Dial
  <2>3. PICK e : e = [kind |-> "Connected", session |-> n, at |-> now, sequence |-> 0, time |-> 0]
    OBVIOUS
  <2>4. e \in DepthEvents /\ e.at = now /\ e.kind = "Connected"
    BY <1>1, <2>2, <2>3 DEF DepthEvents
  <2>5. queue' = Append(queue, e)
    BY <1>2, <2>2, <2>3, Zenon DEF Dial, Event
  <2>6. /\ client = "dial" /\ client' = "run" /\ traffic' = "depth" /\ permit' = permit
        /\ UNCHANGED <<now, ticked, sequenced, appVars>>
    BY <1>2 DEF Dial
  <2> QED BY <1>1, <2>2, <2>4, <2>5, <2>6, ClientSends
<1>3. ASSUME NEW t \in Times, Deliver(t) PROVE DepthInv'
  <2>1. t \in 0..now
    BY <1>1, <1>3 DEF Times
  <2>2. PICK q : q = IF sequenced THEN t ELSE 0
    OBVIOUS
  <2>3. PICK e : e = [kind |-> "Depth", session |-> session, at |-> now, sequence |-> q, time |-> t]
    OBVIOUS
  <2>4. e \in DepthEvents /\ e.at = now /\ e.kind = "Depth" /\ e.session = session
    BY <1>1, <2>1, <2>2, <2>3 DEF DepthEvents
  <2>5. /\ client = "run" /\ session' = session /\ client' = client /\ traffic' = traffic
        /\ permit' = permit /\ UNCHANGED <<now, ticked, sequenced, appVars>>
    BY <1>3 DEF Deliver, dialVars
  <2>6. [Event("Depth") EXCEPT !.time = t, !.sequence = IF sequenced THEN t ELSE 0] = e
    <3>1. PICK d : d = [kind |-> "Depth", session |-> session, at |-> now,
                        sequence |-> 0, time |-> 0]
      OBVIOUS
    <3>2. Event("Depth") = d
      BY <2>5, <3>1, Zenon DEF Event
    <3>3. PICK g : g = [d EXCEPT !.time = t]
      OBVIOUS
    <3>4. g = [kind |-> "Depth", session |-> session, at |-> now, sequence |-> 0, time |-> t]
      BY <3>1, <3>3
    <3>5. [g EXCEPT !.sequence = q] = e
      BY <2>3, <3>4
    <3> QED BY <2>2, <3>2, <3>3, <3>5, Zenon
  <2>7. queue' = Append(queue, e)
    BY <1>3, <2>6, Zenon DEF Deliver
  <2> QED BY <1>1, <2>4, <2>5, <2>7, ClientSends
<1>4. CASE HungUp \/ Forced
  <2>1. /\ client = "run" /\ client' = "dial" /\ traffic' = "none" /\ session' = session
        /\ UNCHANGED <<now, ticked, sequenced, appVars>> /\ permit' \in BOOLEAN
    BY <1>1, <1>4 DEF HungUp, Forced, HangUp
  <2>2. PICK e : e = [kind |-> "Disconnected", session |-> session, at |-> now,
                      sequence |-> 0, time |-> 0]
    OBVIOUS
  <2>3. e \in DepthEvents /\ e.at = now /\ e.kind = "Disconnected"
    BY <1>1, <2>2 DEF DepthEvents
  <2>4. queue' = Append(queue, e)
    BY <1>4, <2>1, <2>2, Zenon DEF HungUp, Forced, HangUp, Event
  <2> QED BY <1>1, <2>1, <2>3, <2>4, ClientSends
<1> QED BY <1>2, <1>3, <1>4

LEMMA StandsDepth ==
  ASSUME DepthInv, UNCHANGED <<now, ticked, sequenced, session, client, permit, queue, appVars>>,
         traffic' \in {"none", "depth", "chatter", "dead"}
  PROVE  DepthInv'
<1>1. /\ DepthTypeOK /\ QueueOrdered /\ HistoryInv /\ FreshInv
      /\ now' = now /\ ticked' = ticked /\ sequenced' = sequenced /\ session' = session
      /\ client' = client /\ permit' = permit /\ queue' = queue
      /\ depth' = depth /\ connectedAt' = connectedAt /\ strategy' = strategy
      /\ paused' = paused /\ seen' = seen
  BY DEF DepthInv, appVars
<1>2. DepthTypeOK'
  BY <1>1, DepthTypeParts, DepthTypesStand, Zenon
<1>3. QueueOrdered'
  <2>1. now \in Nat
    BY <1>1, DepthTypeParts
  <2> QED BY <1>1, <2>1, QueueStands
<1>4. HistoryInv' /\ FreshInv'
  BY <1>1, Zenon DEF HistoryInv, FreshInv
<1> QED BY <1>2, <1>3, <1>4 DEF DepthInv

LEMMA DepthIsInductive == DepthSpec => []DepthInv
<1>1. ASSUME DepthInv, [DepthNext]_depthVars PROVE DepthInv'
  <2>1. CASE Clock
    BY <1>1, <2>1, ClockKeeps
  <2>2. CASE Dial \/ HungUp \/ Forced \/ \E t \in Times : Deliver(t)
    BY <1>1, <2>2, ClientKeeps
  <2>3. CASE \E how \in {"chatter", "dead"} : Quiet(how)
    <3>1. /\ UNCHANGED <<now, ticked, sequenced, session, client, permit, queue, appVars>>
          /\ traffic' \in {"none", "depth", "chatter", "dead"}
      BY <2>3 DEF Quiet
    <3> QED BY <1>1, <3>1, StandsDepth
  <2>4. CASE EventLoop \/ Tick
    BY <1>1, <2>4, OpenedKeeps, ClosedKeeps, DepthKeeps, TickKeeps DEF EventLoop
  <2>5. CASE UNCHANGED depthVars
    <3>1. /\ UNCHANGED <<now, ticked, sequenced, session, client, permit, queue, appVars>>
          /\ traffic' = traffic
      BY <2>5 DEF depthVars, dialVars
    <3>2. traffic' \in {"none", "depth", "chatter", "dead"}
      BY <1>1, <3>1, DepthTypeParts DEF DepthInv
    <3> QED BY <1>1, <3>1, <3>2, StandsDepth
  <2> QED BY <1>1, <2>1, <2>2, <2>3, <2>4, <2>5 DEF DepthNext
<1> QED BY <1>1, DepthStarts, PTL DEF DepthSpec

(* The clocks, the queue and the history keep their types, for any lag of   *)
(* the event loop and any number of connections.                            *)
THEOREM DepthTypesHold == DepthSpec => []DepthTypeOK
<1>1. DepthInv => DepthTypeOK
  BY DEF DepthInv
<1> QED BY <1>1, DepthIsInductive, PTL

(* However books, reconnects, ticks and outages interleave, and however     *)
(* long the queue grows, the history the strategy counts began no earlier   *)
(* than the unbroken run of books it is of (obi.rs update, main.rs          *)
(* check_depth_stale, process_event).                                       *)
THEOREM HistoryIsContinuous == DepthSpec => []HistoryContinuous
<1>1. DepthInv => HistoryContinuous
  BY DEF DepthInv, HistoryInv, HistoryContinuous
<1> QED BY <1>1, DepthIsInductive, PTL

(* For every timeout and every lag of the tick, quoting without the pause   *)
(* is on a book younger than both together (main.rs check_depth_stale).     *)
THEOREM DepthIsFresh == DepthSpec => []TradesOnFreshDepth
<1>1. DepthInv => TradesOnFreshDepth
  <2> SUFFICES ASSUME DepthInv, ~paused PROVE now - seen.at < MaxGap + TickLag
    BY DEF TradesOnFreshDepth
  <2>1. /\ now \in Nat /\ ticked \in Nat /\ seen.at \in Nat
        /\ TickLag \in Nat /\ MaxGap \in Nat
    BY DepthTypeParts, DepthConstants DEF DepthInv
  <2>2. now <= ticked + TickLag /\ ticked - seen.at < MaxGap
    BY DEF DepthInv, FreshInv
  <2> QED BY <2>1, <2>2
<1> QED BY <1>1, DepthIsInductive, PTL

----------------------------------------------------------------------------
(* Binance: the local book.                                                 *)

NatOrder == {ss \in Nat \X Nat : ss[1] < ss[2]}

LEMMA HasLeast ==
  ASSUME NEW T, T \subseteq Nat, T # {}
  PROVE  \E x \in T : \A y \in T : x <= y
<1>1. IsWellFoundedOn(NatOrder, Nat)
  BY NatLessThanWellFounded, Zenon DEF OpToRel, NatOrder
<1>2. PICK x \in T : \A y \in T : <<y, x>> \notin NatOrder
  BY <1>1, WFMin, Zenon
<1>3. ASSUME NEW y \in T PROVE x <= y
  <2>1. x \in Nat /\ y \in Nat /\ <<y, x>> \notin NatOrder
    BY <1>2
  <2>2. <<y, x>> \in Nat \X Nat
    BY <2>1
  <2>3. ~(y < x)
    BY <2>1, <2>2, Zenon DEF NatOrder
  <2> QED BY <2>1, <2>3
<1> QED BY <1>3

(* A set of numbers with a bound has a greatest one.                        *)
LEMMA HasGreatest ==
  ASSUME NEW T, T \subseteq Int, T # {}, NEW n \in Int, \A k \in T : k <= n
  PROVE  \E x \in T : \A y \in T : y <= x
<1> DEFINE D == {n - k : k \in T}
<1>1. D \subseteq Nat /\ D # {}
  <2>1. \A k \in T : n - k \in Nat
    OBVIOUS
  <2>2. PICK k \in T : TRUE
    OBVIOUS
  <2>3. n - k \in D
    OBVIOUS
  <2> QED BY <2>1, <2>3
<1>2. PICK d \in D : \A e \in D : d <= e
  BY <1>1, HasLeast, Zenon
<1>3. PICK x \in T : d = n - x
  BY <1>2
<1>4. \A y \in T : d <= n - y
  BY <1>2
<1> QED BY <1>3, <1>4

LEMMA LatestIs ==
  ASSUME NEW T, T \subseteq Int, T # {}, NEW n \in Int, \A k \in T : k <= n
  PROVE  Latest(T) \in T /\ \A k \in T : k <= Latest(T)
BY HasGreatest, Zenon DEF Latest

(* Changes that follow a book, with some of its own repeated at most, lead  *)
(* to the book after the last of them.                                      *)
LEMMA ChangesFollow ==
  ASSUME NEW l \in Nat, NEW f \in Nat, NEW u \in Nat, 1 <= f, f <= l + 1, l <= u
  PROVE  ChangedBy(BookAt(l), f, u) = BookAt(u)
<1> SUFFICES ASSUME NEW p \in Prices
             PROVE  ChangedBy(BookAt(l), f, u)[p] = BookAt(u)[p]
  BY DEF BookAt, ChangedBy
<1> DEFINE Mine(i, j) == {n \in i..j : history[n].price = p}
           Left(q, T) == IF T = {} THEN q ELSE IF history[Latest(T)].gone THEN 0 ELSE Latest(T)
<1>1. \A k \in Nat : BookAt(k)[p] = Left(0, Mine(1, k))
  BY DEF BookAt, ChangedBy, EmptyBook
<1>2. ChangedBy(BookAt(l), f, u)[p] = Left(BookAt(l)[p], Mine(f, u))
  BY DEF ChangedBy
<1>3. CASE Mine(f, u) = {}
  <2>1. \A n \in f..u : history[n].price # p
    BY <1>3
  <2>2. \A n \in 1..u : history[n].price = p => n \in 1..l
    BY <2>1
  <2>3. Mine(1, u) = Mine(1, l)
    BY <2>2
  <2> QED BY <1>1, <1>2, <1>3, <2>3
<1>4. CASE Mine(f, u) # {}
  <2>1. Mine(f, u) \subseteq Mine(1, u) /\ Mine(1, u) \subseteq Int /\ \A k \in Mine(1, u) : k <= u
    OBVIOUS
  <2>2. \A k \in Mine(1, u) : k \in Mine(f, u) \/ k < f
    OBVIOUS
  <2>3. \A k \in Mine(f, u) : k >= f
    OBVIOUS
  <2>4. Mine(1, u) # {}
    BY <1>4, <2>1
  <2> HIDE DEF Mine
  <2>5. Latest(Mine(1, u)) \in Mine(1, u) /\ \A k \in Mine(1, u) : k <= Latest(Mine(1, u))
    BY <2>1, <2>4, LatestIs
  <2>6. Latest(Mine(f, u)) \in Mine(f, u) /\ \A k \in Mine(f, u) : k <= Latest(Mine(f, u))
    BY <1>4, <2>1, LatestIs
  <2>7. Latest(Mine(f, u)) = Latest(Mine(1, u))
    BY <2>1, <2>2, <2>3, <2>5, <2>6
  <2> QED BY <1>1, <1>2, <1>4, <2>4, <2>7
<1> QED BY <1>3, <1>4

(* A change made later does not change what the book was.                   *)
LEMMA BookStands ==
  ASSUME NEW c, history \in Seq([price : Prices, gone : BOOLEAN]),
         history' = Append(history, c), c \in [price : Prices, gone : BOOLEAN],
         NEW n \in 0..Len(history)
  PROVE  BookAt(n)' = BookAt(n)
<1>1. \A k \in 1..n : history'[k] = history[k]
  OBVIOUS
<1>2. \A p : {k \in 1..n : history'[k].price = p} = {k \in 1..n : history[k].price = p}
  BY <1>1
<1>3. ASSUME NEW p \in Prices
      PROVE  BookAt(n)'[p] = BookAt(n)[p]
  <2> DEFINE T == {k \in 1..n : history[k].price = p}
             g == Latest(T)
  <2>1. BookAt(n)[p] = IF T = {} THEN 0 ELSE IF history[g].gone THEN 0 ELSE g
    BY DEF BookAt, ChangedBy, EmptyBook
  <2>2. BookAt(n)'[p] = IF T = {} THEN 0 ELSE IF history'[g].gone THEN 0 ELSE g
    BY <1>2 DEF BookAt, ChangedBy, EmptyBook
  <2>3. T # {} => g \in 1..n
    <3>1. T \subseteq Int /\ (\A k \in T : k <= n) /\ n \in Int /\ T \subseteq 1..n
      OBVIOUS
    <3> HIDE DEF T
    <3>2. T # {} => Latest(T) \in T
      BY <3>1, LatestIs
    <3> QED BY <3>1, <3>2
  <2> QED BY <1>1, <2>1, <2>2, <2>3
<1> QED BY <1>3 DEF BookAt, ChangedBy

(* What is on the wire continues the stream; the book is the exchange's as  *)
(* of its last change, joined to the stream or not.                         *)
BookInv ==
  /\ sent <= Len(history)
  /\ \A i \in DOMAIN wire : /\ wire[i].first \in 1..wire[i].final
                            /\ wire[i].final <= Len(history)
                            /\ wire[i].prev = wire[i].first - 1
  /\ book.last <= Len(history)
  /\ ~book.synced => book.last = book.snapshot
  /\ book.levels = BookAt(book.last)

Changes == [price : Prices, gone : BOOLEAN]
Updates == [first : Nat, final : Nat, prev : Nat]

BookTypes ==
  /\ futures \in BOOLEAN /\ history \in Seq(Changes) /\ sent \in Nat
  /\ wire \in Seq(Updates) /\ book \in Books

ClientTypes ==
  /\ trouble \in 0..MaxTrouble
  /\ link \in {"none", "open", "failed", "closed", "silent"}
  /\ task \in {"connect", "fetch", "stream", "backoff"}
  /\ events \in Seq({"Snapshot", "Disconnected"}) /\ Len(events) <= Capacity

AlphaTypes ==
  /\ poller \in {"start", "reset", "run", "pause"}
  /\ {obi, alpha, count} \subseteq Nat /\ aged \in BOOLEAN
  /\ Len(stores) <= 3

LEMMA BinanceTypeParts == BinanceTypeOK <=> BookTypes /\ ClientTypes /\ AlphaTypes
BY DEF BinanceTypeOK, BookTypes, ClientTypes, AlphaTypes, Changes, Updates

LEMMA BooksAreBooks == \A n \in Nat : BookAt(n) \in [Prices -> Nat]
<1> SUFFICES ASSUME NEW n \in Nat, NEW p \in Prices
             PROVE  BookAt(n)[p] \in Nat
  BY DEF BookAt, ChangedBy
<1> DEFINE T == {k \in 1..n : history[k].price = p}
<1>1. BookAt(n)[p] = IF T = {} THEN 0 ELSE IF history[Latest(T)].gone THEN 0 ELSE Latest(T)
  BY DEF BookAt, ChangedBy, EmptyBook
<1>2. T \subseteq Int /\ (\A k \in T : k <= n) /\ n \in Int /\ T \subseteq Nat
  OBVIOUS
<1> HIDE DEF T
<1>3. T # {} => Latest(T) \in T
  BY <1>2, LatestIs
<1>4. T # {} => Latest(T) \in Nat
  BY <1>2, <1>3
<1>5. CASE T = {}
  BY <1>1, <1>5
<1>6. CASE T # {} /\ history[Latest(T)].gone
  BY <1>1, <1>6
<1>7. CASE T # {} /\ ~history[Latest(T)].gone
  BY <1>1, <1>4, <1>7
<1> QED BY <1>5, <1>6, <1>7

LEMMA NewBookFits ==
  NewBook \in Books /\ NewBook.levels = BookAt(0) /\ NewBook.last = 0 /\ NewBook.snapshot = 0
<1>1. EmptyBook \in [Prices -> Nat]
  BY DEF EmptyBook
<1>2. BookAt(0) = EmptyBook
  BY DEF BookAt, ChangedBy, EmptyBook
<1> QED BY <1>1, <1>2 DEF NewBook, Books

(* An update that joins the book or continues it.                           *)
LEMMA AppliedFits ==
  ASSUME BookTypes, BookInv, wire # << >>, Verdict(book, Head(wire)) = "applied"
  PROVE  LET b == Applied(book, Head(wire))
         IN  /\ b \in Books /\ b.synced /\ b.last <= Len(history)
             /\ b.levels = BookAt(b.last)
<1> DEFINE u == Head(wire)
           b == Applied(book, u)
<1>1. u \in Updates /\ u.first \in 1..u.final /\ u.final <= Len(history) /\ u.prev = u.first - 1
  BY DEF BookTypes, BookInv
<1>2. /\ book \in Books /\ book.last \in Nat /\ book.snapshot \in Nat /\ book.synced \in BOOLEAN
      /\ u.first \in Nat /\ u.final \in Nat
  BY <1>1 DEF BookTypes, Books, Updates
<1> HIDE DEF u
<1>3. (book.synced /\ Continues(book, u)) \/ (~book.synced /\ Joins(book, u))
  BY DEF Verdict, u
<1>4. u.first <= book.last + 1 /\ book.last <= u.final
  BY <1>1, <1>2, <1>3 DEF Continues, Joins, BookInv
<1>5. ChangedBy(book.levels, u.first, u.final) = BookAt(u.final)
  <2>1. ChangedBy(BookAt(book.last), u.first, u.final) = BookAt(u.final)
    BY <1>1, <1>2, <1>4, ChangesFollow
  <2> QED BY <2>1 DEF BookInv
<1>6. b.levels = BookAt(u.final) /\ b.last = u.final /\ b.synced /\ b.snapshot = book.snapshot
      /\ b \in [levels : {BookAt(u.final)}, snapshot : Nat, last : Nat, synced : BOOLEAN]
  BY <1>2, <1>5 DEF Applied, Books
<1>7. BookAt(u.final) \in [Prices -> Nat]
  BY <1>2, BooksAreBooks
<1>8. b \in Books
  BY <1>6, <1>7 DEF Books
<1> QED BY <1>1, <1>6, <1>8 DEF u

(* A step of the rest leaves the exchange and the book as they are, and     *)
(* empties the wire at most.                                                *)
LEMMA BookFrame ==
  ASSUME BookTypes, BookInv, UNCHANGED <<exchangeVars, book>>, wire' = wire \/ wire' = << >>
  PROVE  BookTypes' /\ BookInv'
<1>1. futures' = futures /\ history' = history /\ sent' = sent /\ book' = book
  BY DEF exchangeVars
<1>2. BookAt(book.last)' = BookAt(book.last)
  BY <1>1 DEF BookAt, ChangedBy, EmptyBook
<1>3. wire' \in Seq(Updates)
  <2>1. CASE wire' = wire
    BY <2>1 DEF BookTypes
  <2>2. CASE wire' = << >>
    BY <2>2
  <2> QED BY <2>1, <2>2
<1>4. \A i \in DOMAIN wire' : /\ wire'[i].first \in 1..wire'[i].final
                              /\ wire'[i].final <= Len(history)
                              /\ wire'[i].prev = wire'[i].first - 1
  <2>1. CASE wire' = wire
    BY <2>1 DEF BookInv
  <2>2. CASE wire' = << >>
    BY <2>2
  <2> QED BY <2>1, <2>2
<1> QED BY <1>1, <1>2, <1>3, <1>4 DEF BookTypes, BookInv

(* The client starts over with an empty book.                               *)
LEMMA BookRestarts ==
  ASSUME BookTypes, BookInv, UNCHANGED exchangeVars, wire' = wire \/ wire' = << >>,
         book' \in Books, ~book'.synced => book'.last = book'.snapshot,
         book'.last <= Len(history), book'.levels = BookAt(book'.last)
  PROVE  BookTypes' /\ BookInv'
<1>1. futures' = futures /\ history' = history /\ sent' = sent
  BY DEF exchangeVars
<1>2. \A n : BookAt(n)' = BookAt(n)
  BY <1>1 DEF BookAt, ChangedBy, EmptyBook
<1>3. wire' \in Seq(Updates)
      /\ \A i \in DOMAIN wire' : /\ wire'[i].first \in 1..wire'[i].final
                                 /\ wire'[i].final <= Len(history)
                                 /\ wire'[i].prev = wire'[i].first - 1
  <2>1. CASE wire' = wire
    BY <2>1 DEF BookTypes, BookInv
  <2>2. CASE wire' = << >>
    BY <2>2
  <2> QED BY <2>1, <2>2
<1> QED BY <1>1, <1>2, <1>3 DEF BookTypes, BookInv

LEMMA BookSteps ==
  ASSUME BookTypes, BookInv, BinanceNext
  PROVE  BookTypes' /\ BookInv'
<1> USE DEF clientVars
<1>1. ASSUME NEW p \in Prices, NEW gone \in BOOLEAN, Change(p, gone)
      PROVE  BookTypes' /\ BookInv'
  <2>1. PICK c \in Changes : history' = Append(history, c)
    BY <1>1 DEF Change, Changes
  <2>2. UNCHANGED <<futures, sent, wire, book>>
    BY <1>1 DEF Change
  <2>3. history' \in Seq(Changes) /\ Len(history') = Len(history) + 1 /\ Len(history) \in Nat
    BY <2>1 DEF BookTypes
  <2>4. book.last \in 0..Len(history)
    BY <2>3 DEF BookTypes, BookInv, Books
  <2>5. BookAt(book.last)' = BookAt(book.last)
    <3>1. \A n \in 0..Len(history) : BookAt(n)' = BookAt(n)
      BY <2>1, BookStands DEF BookTypes, Changes
    <3> QED BY <2>2, <2>4, <3>1
  <2>6. \A i \in DOMAIN wire : wire[i].final <= Len(history')
    <3>1. \A i \in DOMAIN wire : wire[i] \in Updates
      BY DEF BookTypes
    <3>2. \A i \in DOMAIN wire : wire[i].final \in Nat
      BY <3>1 DEF Updates
    <3> QED BY <2>3, <3>2 DEF BookInv
  <2> QED BY <2>2, <2>3, <2>4, <2>5, <2>6 DEF BookTypes, BookInv
<1>2. CASE Send
  <2>1. /\ UNCHANGED <<futures, history, book>> /\ sent' = Len(history) /\ sent < Len(history)
        /\ wire' = IF link = "open" THEN Append(wire, Update(sent + 1, Len(history), sent)) ELSE wire
    BY <1>2 DEF Send
  <2>2. BookAt(book.last)' = BookAt(book.last)
    BY <2>1 DEF BookAt, ChangedBy, EmptyBook
  <2>3. PICK u : u = Update(sent + 1, Len(history), sent)
    OBVIOUS
  <2>4. /\ u \in Updates /\ u.first \in 1..u.final /\ u.final <= Len(history) /\ u.prev = u.first - 1
    BY <2>1, <2>3 DEF Update, Updates, BookTypes
  <2>5. wire' = Append(wire, u) \/ wire' = wire
    BY <2>1, <2>3
  <2>6. wire' \in Seq(Updates)
    BY <2>4, <2>5 DEF BookTypes
  <2>7. \A i \in DOMAIN wire' : (i \in DOMAIN wire /\ wire'[i] = wire[i]) \/ wire'[i] = u
    BY <2>5 DEF BookTypes
  <2>8. \A i \in DOMAIN wire' : /\ wire'[i].first \in 1..wire'[i].final
                                /\ wire'[i].final <= Len(history)
                                /\ wire'[i].prev = wire'[i].first - 1
    BY <2>4, <2>7 DEF BookInv
  <2> QED BY <2>1, <2>2, <2>6, <2>8 DEF BookTypes, BookInv
<1>3. CASE LeaveOut
  <2>1. UNCHANGED <<futures, history, wire, book>> /\ sent' = Len(history)
    BY <1>3 DEF LeaveOut
  <2>2. BookAt(book.last)' = BookAt(book.last)
    BY <2>1 DEF BookAt, ChangedBy, EmptyBook
  <2> QED BY <2>1, <2>2 DEF BookTypes, BookInv
<1>4. CASE Connect \/ StartClient
  <2>1. UNCHANGED exchangeVars /\ (wire' = wire \/ wire' = << >>) /\ book' = NewBook
    BY <1>4 DEF Connect, StartClient
  <2> QED BY <2>1, NewBookFits, BookRestarts DEF BookTypes
<1>5. ASSUME NEW n \in 0..Len(history), Fetch(n)
      PROVE  BookTypes' /\ BookInv'
  <2>1. UNCHANGED exchangeVars /\ wire' = wire /\ book' = FromSnapshot(n)
    BY <1>5 DEF Fetch
  <2>2. n \in Nat /\ n <= Len(history) /\ BookAt(n) \in [Prices -> Nat]
    BY BooksAreBooks DEF BookTypes
  <2>3. FromSnapshot(n) \in Books /\ FromSnapshot(n).levels = BookAt(n)
        /\ FromSnapshot(n).last = n /\ FromSnapshot(n).snapshot = n
    BY <2>2 DEF FromSnapshot, Books
  <2> QED BY <2>1, <2>2, <2>3, BookRestarts
<1>6. CASE Read
  <2>1. CASE Verdict(book, Head(wire)) = "applied"
    <3>1. UNCHANGED exchangeVars /\ wire # << >> /\ wire' = Tail(wire)
          /\ book' = Applied(book, Head(wire))
      BY <1>6, <2>1 DEF Read
    <3>2. PICK b : b = Applied(book, Head(wire))
      OBVIOUS
    <3>3. b \in Books /\ b.synced /\ b.last <= Len(history) /\ b.levels = BookAt(b.last)
      BY <2>1, <3>1, <3>2, AppliedFits
    <3>4. UNCHANGED <<futures, history, sent>>
      BY <3>1 DEF exchangeVars
    <3>5. \A n : BookAt(n)' = BookAt(n)
      BY <3>4 DEF BookAt, ChangedBy, EmptyBook
    <3>6. wire' \in Seq(Updates) /\ \A i \in DOMAIN wire' : i + 1 \in DOMAIN wire /\ wire'[i] = wire[i + 1]
      BY <3>1 DEF BookTypes
    <3> QED BY <3>1, <3>2, <3>3, <3>4, <3>5, <3>6 DEF BookTypes, BookInv
  <2>2. CASE Verdict(book, Head(wire)) = "skipped"
    <3>1. UNCHANGED exchangeVars /\ wire # << >> /\ wire' = Tail(wire) /\ book' = book
      BY <1>6, <2>2 DEF Read
    <3>4. UNCHANGED <<futures, history, sent>>
      BY <3>1 DEF exchangeVars
    <3>5. \A n : BookAt(n)' = BookAt(n)
      BY <3>4 DEF BookAt, ChangedBy, EmptyBook
    <3>6. wire' \in Seq(Updates) /\ \A i \in DOMAIN wire' : i + 1 \in DOMAIN wire /\ wire'[i] = wire[i + 1]
      BY <3>1 DEF BookTypes
    <3> QED BY <3>1, <3>4, <3>5, <3>6 DEF BookTypes, BookInv
  <2>3. CASE Verdict(book, Head(wire)) = "gap"
    <3>1. UNCHANGED <<exchangeVars, book>> /\ wire' = << >>
      BY <1>6, <2>3 DEF Read, Leave
    <3> QED BY <3>1, BookFrame
  <2> QED BY <1>6, <2>1, <2>2, <2>3 DEF Read
<1>7. CASE \/ \E how \in {"failed", "closed", "silent"} : Break(how)
           \/ ConnectFails \/ FetchFails \/ Rollover \/ StreamEnds \/ BackOff
  <2>1. UNCHANGED <<exchangeVars, book>> /\ (wire' = wire \/ wire' = << >>)
    BY <1>7 DEF Break, ConnectFails, FetchFails, Rollover, StreamEnds, BackOff, Leave
  <2> QED BY <2>1, BookFrame
<1>8. CASE Store \/ Age \/ Start \/ TakeSnapshot \/ TakeDisconnected \/ PauseEnds
  <2>1. UNCHANGED <<exchangeVars, book>> /\ wire' = wire
    BY <1>8 DEF Store, Age, Start, TakeSnapshot, TakeDisconnected, PauseEnds
  <2> QED BY <2>1, BookFrame
<1> QED
  BY <1>1, <1>2, <1>3, <1>4, <1>5, <1>6, <1>7, <1>8
     DEF BinanceNext, Market, Client, Poller

LEMMA ClientSteps ==
  ASSUME ClientTypes, BinanceNext
  PROVE  ClientTypes'
<1> USE FeedAssumption DEF FeedAssumption, ClientTypes
<1>1. CASE Market
  BY <1>1 DEF Market, Change, clientVars
<1>2. CASE Send \/ LeaveOut
  BY <1>2 DEF Send, LeaveOut, clientVars
<1>3. CASE \E how \in {"failed", "closed", "silent"} : Break(how)
  BY <1>3 DEF Break
<1>4. CASE ConnectFails \/ FetchFails \/ Rollover
  BY <1>4 DEF ConnectFails, FetchFails, Rollover, Leave
<1>5. CASE Connect \/ (\E n \in 0..Len(history) : Fetch(n)) \/ StreamEnds
  BY <1>5 DEF Connect, Fetch, StreamEnds, Leave
<1>6. CASE Read
  <2>1. trouble' = trouble /\ link' \in {link, "none"} /\ task' \in {task, "connect"}
        /\ (events' = events \/ (events' = Append(events, "Snapshot") /\ Len(events) < Capacity))
    BY <1>6 DEF Read, Leave
  <2>2. CASE events' = events
    BY <2>1, <2>2
  <2>3. CASE events' = Append(events, "Snapshot") /\ Len(events) < Capacity
    <3>1. events' \in Seq({"Snapshot", "Disconnected"}) /\ Len(events') = Len(events) + 1
      BY <2>3
    <3> QED BY <2>1, <2>3, <3>1
  <2> QED BY <2>1, <2>2, <2>3
<1>7. CASE BackOff
  BY <1>7 DEF BackOff
<1>8. CASE Store \/ Age \/ Start \/ PauseEnds
  BY <1>8 DEF Store, Age, Start, PauseEnds, clientVars
<1>9. CASE StartClient
  BY <1>9 DEF StartClient
<1>10. CASE TakeSnapshot \/ TakeDisconnected
  <2>1. events # << >> /\ events' = Tail(events) /\ UNCHANGED <<trouble, link, task>>
    BY <1>10 DEF TakeSnapshot, TakeDisconnected
  <2>2. events' \in Seq({"Snapshot", "Disconnected"}) /\ Len(events') = Len(events) - 1
    BY <2>1
  <2> QED BY <2>1, <2>2
<1> QED
  BY <1>1, <1>2, <1>3, <1>4, <1>5, <1>6, <1>7, <1>8, <1>9, <1>10
     DEF BinanceNext, Client, Poller

----------------------------------------------------------------------------
(* Binance: the shared alpha.                                               *)

(* Between resets, a count of n is of the n samples that follow the first   *)
(* MinSamples - 1.                                                          *)
Earned == count > 0 => alpha = MinSamples + count - 1

CountOf(samples) == IF samples < MinSamples THEN 0 ELSE samples - MinSamples + 1

AtRest ==
  /\ stores = << >> /\ Earned
  /\ poller = "reset" => count = 0
  /\ poller = "run" => count = CountOf(obi)

AgedStore == [on |-> "aged", to |-> FALSE]
CountStore == [on |-> "count", to |-> count + 1]

(* The stores of an update still to come, and those of a reset.             *)
Updating ==
  /\ poller = "run" /\ obi >= MinSamples /\ count = obi - MinSamples
  /\ \/ stores = << [on |-> "alpha", to |-> obi], AgedStore, CountStore >> /\ Earned
     \/ stores = << AgedStore, CountStore >> /\ alpha = obi
     \/ stores = << CountStore >> /\ alpha = obi

Resetting ==
  /\ poller = "reset"
  /\ \/ stores = ResetStores /\ Earned
     \/ stores = << [on |-> "aged", to |-> TRUE], [on |-> "count", to |-> 0] >> /\ alpha = 0
     \/ stores = << [on |-> "count", to |-> 0] >> /\ alpha = 0

AlphaInv == AtRest \/ Updating \/ Resetting

LEMMA Stored ==
  ASSUME NEW a, NEW b, NEW c
  PROVE  /\ Head(<<a, b, c>>) = a /\ Tail(<<a, b, c>>) = <<b, c>>
         /\ Head(<<b, c>>) = b /\ Tail(<<b, c>>) = <<c>>
         /\ Head(<<c>>) = c /\ Tail(<<c>>) = << >>
         /\ Len(<<a, b, c>>) = 3 /\ Len(<<b, c>>) = 2 /\ Len(<<c>>) = 1
OBVIOUS

LEMMA AlphaTyped ==
  ASSUME AlphaTypes, UNCHANGED <<poller, obi>>,
         alpha' \in Nat /\ count' \in Nat /\ Len(stores') <= 3, aged' \in BOOLEAN
  PROVE  AlphaTypes'
BY DEF AlphaTypes

LEMMA StoreStep ==
  ASSUME AlphaTypes, AlphaInv, Store
  PROVE  AlphaTypes' /\ AlphaInv'
<1> USE FeedAssumption DEF FeedAssumption, Earned, CountOf
<1>0. alpha \in Nat /\ count \in Nat /\ obi \in Nat
  BY DEF AlphaTypes
<1>b. aged \in BOOLEAN
  BY Zenon DEF AlphaTypes
<1>1. stores # << >> /\ stores' = Tail(stores)
      /\ alpha' = (IF Head(stores).on = "alpha" THEN Head(stores).to ELSE alpha)
      /\ aged' = (IF Head(stores).on = "aged" THEN Head(stores).to ELSE aged)
      /\ count' = (IF Head(stores).on = "count" THEN Head(stores).to ELSE count)
  BY DEF Store
<1>u. UNCHANGED <<poller, obi>>
  BY DEF Store
<1>2. CASE Updating
  <2> USE DEF Updating
  <2>1. CASE stores = << [on |-> "alpha", to |-> obi], AgedStore, CountStore >>
    <3>1. alpha' = obi /\ aged' = aged /\ count' = count /\ stores' = << AgedStore, CountStore >>
      BY <1>1, <2>1, Stored
    <3>2. stores' = << AgedStore, CountStore >>'
      BY <3>1 DEF AgedStore, CountStore
    <3>3. aged' \in BOOLEAN
      BY <1>b, <3>1, Zenon
    <3>t. alpha' \in Nat /\ count' \in Nat /\ Len(stores') <= 3
      BY <1>0, <3>1, Stored
    <3>4. AlphaTypes'
      BY <1>u, <3>t, <3>3, AlphaTyped, Zenon
    <3>5. Updating'
      BY <1>1, <1>u, <1>2, <3>1, <3>2
    <3> QED BY <3>4, <3>5 DEF AlphaInv
  <2>2. CASE stores = << AgedStore, CountStore >> /\ alpha = obi
    <3>1. alpha' = obi /\ aged' = FALSE /\ count' = count /\ stores' = << CountStore >>
      BY <1>1, <2>2, Stored DEF AgedStore
    <3>2. stores' = << CountStore >>'
      BY <3>1 DEF CountStore
    <3>t. alpha' \in Nat /\ count' \in Nat /\ Len(stores') <= 3
      BY <1>0, <3>1, Stored
    <3>b. aged' \in BOOLEAN
      BY <3>1, Zenon
    <3>3. AlphaTypes'
      BY <1>u, <3>t, <3>b, AlphaTyped, Zenon
    <3>4. Updating'
      BY <1>1, <1>u, <1>2, <3>1, <3>2
    <3> QED BY <3>3, <3>4 DEF AlphaInv
  <2>3. CASE stores = << CountStore >> /\ alpha = obi
    <3>1. alpha' = obi /\ aged' = aged /\ count' = count + 1 /\ stores' = << >>
      BY <1>1, <2>3, Stored DEF CountStore
    <3>2. aged' \in BOOLEAN
      BY <1>b, <3>1, Zenon
    <3>t. alpha' \in Nat /\ count' \in Nat /\ Len(stores') <= 3
      BY <1>0, <3>1, Stored
    <3>3. AlphaTypes'
      BY <1>u, <3>t, <3>2, AlphaTyped, Zenon
    <3>4. AtRest'
      <4>1. alpha' = obi' /\ count' = obi' - MinSamples + 1 /\ poller' = "run" /\ stores' = << >>
        BY <1>u, <1>2, <3>1
      <4>2. obi' \in Nat /\ MinSamples \in Nat /\ obi' >= MinSamples
        BY <1>0, <1>u, <1>2
      <4>3. PICK n \in Nat : n = obi'
        BY <4>2
      <4>4. PICK k : k = count'
        OBVIOUS
      <4>5. k = n - MinSamples + 1 /\ n >= MinSamples
        BY <4>1, <4>2, <4>3, <4>4, Zenon
      <4>6. n = MinSamples + k - 1 /\ k = IF n < MinSamples THEN 0 ELSE n - MinSamples + 1
        BY <4>2, <4>5
      <4>7. (count > 0 => alpha = MinSamples + count - 1)'
        BY <4>1, <4>3, <4>4, <4>6, Zenon
      <4>8. count' = IF obi' < MinSamples THEN 0 ELSE obi' - MinSamples + 1
        BY <4>3, <4>4, <4>6, Zenon
      <4> QED BY <4>1, <4>7, <4>8, Zenon DEF AtRest, Earned, CountOf
    <3> QED BY <3>3, <3>4 DEF AlphaInv
  <2> QED BY <1>2, <2>1, <2>2, <2>3
<1>3. CASE Resetting
  <2> USE DEF Resetting, ResetStores
  <2>1. CASE stores = ResetStores
    <3>0. /\ Head(stores) = [on |-> "alpha", to |-> 0]
          /\ stores' = << [on |-> "aged", to |-> TRUE], [on |-> "count", to |-> 0] >>
      <4>1. PICK a, b, c : a = [on |-> "alpha", to |-> 0] /\ b = [on |-> "aged", to |-> TRUE]
                           /\ c = [on |-> "count", to |-> 0]
        OBVIOUS
      <4>2. stores = <<a, b, c>>
        BY <2>1, <4>1
      <4>3. Head(stores) = a /\ stores' = <<b, c>>
        BY <1>1, <4>2, Stored
      <4> QED BY <4>1, <4>3, Zenon
    <3>x. Head(stores).on = "alpha" /\ Head(stores).to = 0 /\ Head(stores).on # "aged"
          /\ Head(stores).on # "count"
      BY <3>0
    <3>1. alpha' = 0 /\ aged' = aged /\ count' = count
          /\ stores' = << [on |-> "aged", to |-> TRUE], [on |-> "count", to |-> 0] >>
      BY <1>1, <3>0, <3>x, Zenon
    <3>2. aged' \in BOOLEAN
      BY <1>b, <3>1, Zenon
    <3>t. alpha' \in Nat /\ count' \in Nat /\ Len(stores') <= 3
      BY <1>0, <3>1, Stored
    <3>3. AlphaTypes'
      BY <1>u, <3>t, <3>2, AlphaTyped, Zenon
    <3>4. Resetting'
      BY <1>1, <1>u, <1>3, <3>1
    <3> QED BY <3>3, <3>4 DEF AlphaInv
  <2>2. CASE stores = << [on |-> "aged", to |-> TRUE], [on |-> "count", to |-> 0] >> /\ alpha = 0
    <3>0. Head(stores) = [on |-> "aged", to |-> TRUE] /\ stores' = << [on |-> "count", to |-> 0] >>
      BY <1>1, <2>2, Stored
    <3>1. alpha' = 0 /\ aged' = TRUE /\ count' = count /\ stores' = << [on |-> "count", to |-> 0] >>
      BY <1>1, <2>2, <3>0
    <3>t. alpha' \in Nat /\ count' \in Nat /\ Len(stores') <= 3
      BY <1>0, <3>1, Stored
    <3>b. aged' \in BOOLEAN
      BY <3>1, Zenon
    <3>2. AlphaTypes'
      BY <1>u, <3>t, <3>b, AlphaTyped, Zenon
    <3>3. Resetting'
      BY <1>1, <1>u, <1>3, <3>1
    <3> QED BY <3>2, <3>3 DEF AlphaInv
  <2>3. CASE stores = << [on |-> "count", to |-> 0] >> /\ alpha = 0
    <3>1. alpha' = 0 /\ aged' = aged /\ count' = 0 /\ stores' = << >>
      BY <1>1, <2>3, Stored
    <3>2. aged' \in BOOLEAN
      BY <1>b, <3>1, Zenon
    <3>t. alpha' \in Nat /\ count' \in Nat /\ Len(stores') <= 3
      BY <1>0, <3>1, Stored
    <3>3. AlphaTypes'
      BY <1>u, <3>t, <3>2, AlphaTyped, Zenon
    <3>4. AtRest'
      BY <1>0, <1>1, <1>u, <1>3, <3>1 DEF AtRest
    <3> QED BY <3>3, <3>4 DEF AlphaInv
  <2> QED BY <1>3, <2>1, <2>2, <2>3
<1> QED BY <1>1, <1>2, <1>3 DEF AlphaInv, AtRest

(* The client and the exchange leave the alpha alone.                       *)
LEMMA AlphaFrame ==
  ASSUME AlphaTypes, AlphaInv, UNCHANGED <<poller, obi, alpha, count, stores>>, aged' \in BOOLEAN
  PROVE  AlphaTypes' /\ AlphaInv'
BY DEF AlphaTypes, AlphaInv, AtRest, Updating, Resetting, Earned, CountOf, AgedStore, CountStore

LEMMA AlphaSteps ==
  ASSUME AlphaTypes, AlphaInv, BinanceNext
  PROVE  AlphaTypes' /\ AlphaInv'
<1> USE FeedAssumption DEF FeedAssumption, alphaVars
<1>1. CASE \/ Market \/ Send \/ LeaveOut
           \/ \E how \in {"failed", "closed", "silent"} : Break(how)
           \/ ConnectFails \/ FetchFails \/ Rollover \/ Client
  <2>1. UNCHANGED alphaVars
    BY <1>1 DEF Market, Change, Send, LeaveOut, Break, ConnectFails, FetchFails, Rollover,
                Client, Connect, Fetch, Read, StreamEnds, BackOff, Leave
  <2>2. aged' \in BOOLEAN /\ UNCHANGED <<poller, obi, alpha, count, stores>>
    BY <2>1 DEF AlphaTypes
  <2> QED BY <2>2, AlphaFrame
<1>2. CASE Age
  BY <1>2, AlphaFrame DEF Age
<1>3. CASE Store
  BY <1>3, StoreStep
<1>4. CASE Start
  <2>1. AtRest
    BY <1>4 DEF Start, AlphaInv, Updating, Resetting
  <2> QED
    BY <1>4, <2>1, Stored DEF Start, AlphaTypes, AlphaInv, AtRest, Resetting, Earned, ResetStores
<1>5. CASE StartClient
  <2>1. AtRest
    BY <1>5, Stored DEF StartClient, AlphaInv, Updating, Resetting, ResetStores
  <2> QED BY <1>5, <2>1 DEF StartClient, AlphaTypes, AlphaInv, AtRest, Earned, CountOf
<1>6. CASE TakeSnapshot
  <2>1. AtRest /\ poller = "run" /\ poller' = "run" /\ UNCHANGED <<alpha, aged, count>>
        /\ obi' = obi + 1 /\ stores' = Calculated(obi')
    BY <1>6, Stored DEF TakeSnapshot, AlphaInv, Updating, Resetting, ResetStores
  <2>2. CASE obi' < MinSamples
    BY <2>1, <2>2 DEF Calculated, AlphaTypes, AlphaInv, AtRest, Earned, CountOf
  <2>3. CASE ~(obi' < MinSamples)
    <3>1. stores' = << [on |-> "alpha", to |-> obi'], AgedStore', CountStore' >>
      BY <2>1, <2>3 DEF Calculated, UpdateStores, AgedStore, CountStore
    <3>2. count = obi' - MinSamples /\ obi' >= MinSamples
      BY <2>1, <2>3 DEF AtRest, CountOf, AlphaTypes
    <3>3. Updating'
      BY <2>1, <3>1, <3>2 DEF AtRest, Updating, Earned
    <3>4. Len(stores') <= 3
      BY <3>1, Stored
    <3>5. AlphaTypes'
      BY <2>1, <3>4 DEF AlphaTypes
    <3> QED BY <3>3, <3>5 DEF AlphaInv
  <2> QED BY <2>2, <2>3
<1>7. CASE TakeDisconnected
  <2>1. AtRest
    BY <1>7, Stored DEF TakeDisconnected, AlphaInv, Updating, Resetting, ResetStores
  <2> QED BY <1>7, <2>1 DEF TakeDisconnected, AlphaTypes, AlphaInv, AtRest, Earned
<1>8. CASE PauseEnds
  <2>1. AtRest
    BY <1>8 DEF PauseEnds, AlphaInv, Updating, Resetting
  <2> QED BY <1>8, <2>1 DEF PauseEnds, AlphaTypes, AlphaInv, AtRest, Earned
<1> QED
  BY <1>1, <1>2, <1>3, <1>4, <1>5, <1>6, <1>7, <1>8 DEF BinanceNext, Poller

BinanceInv == BinanceTypeOK /\ BookInv /\ AlphaInv

LEMMA BinanceStarts == BinanceInit => BinanceInv
<1> SUFFICES ASSUME BinanceInit PROVE BinanceInv
  OBVIOUS
<1> USE FeedAssumption DEF FeedAssumption, BinanceInit
<1>1. BookTypes
  BY NewBookFits DEF BookTypes
<1>2. BookInv
  <2>1. NewBook.levels = BookAt(NewBook.last) /\ NewBook.last = 0 /\ NewBook.snapshot = 0
    BY NewBookFits
  <2> QED BY <2>1 DEF BookInv
<1>3. ClientTypes /\ AlphaTypes
  BY DEF ClientTypes, AlphaTypes
<1>4. AlphaInv
  BY DEF AlphaInv, AtRest, Earned
<1> QED BY <1>1, <1>2, <1>3, <1>4, BinanceTypeParts DEF BinanceInv

LEMMA BinanceIsInductive == BinanceSpec => []BinanceInv
<1>1. ASSUME BinanceInv, [BinanceNext]_binanceVars PROVE BinanceInv'
  <2>1. BookTypes /\ ClientTypes /\ AlphaTypes /\ BookInv /\ AlphaInv
    BY <1>1, BinanceTypeParts DEF BinanceInv
  <2>2. CASE BinanceNext
    <3>1. BookTypes' /\ ClientTypes' /\ AlphaTypes' /\ BookInv' /\ AlphaInv'
      BY <2>1, <2>2, BookSteps, ClientSteps, AlphaSteps
    <3> QED
      BY <3>1 DEF BinanceInv, BinanceTypeOK, BookTypes, ClientTypes, AlphaTypes, Changes, Updates
  <2>3. CASE UNCHANGED binanceVars
    <3>1. BookTypes' /\ BookInv'
      BY <2>1, <2>3, BookFrame DEF binanceVars, clientVars
    <3>2. ClientTypes'
      BY <2>1, <2>3 DEF binanceVars, clientVars, ClientTypes
    <3>3. AlphaTypes' /\ AlphaInv'
      BY <2>1, <2>3, AlphaFrame DEF binanceVars, alphaVars, AlphaTypes
    <3> QED
      BY <3>1, <3>2, <3>3
         DEF BinanceInv, BinanceTypeOK, BookTypes, ClientTypes, AlphaTypes, Changes, Updates
  <2> QED BY <1>1, <2>2, <2>3
<1> QED BY <1>1, BinanceStarts, PTL DEF BinanceSpec

(* The book, the channel and the alpha keep their types, for any channel    *)
(* and any number of changes and failures.                                  *)
THEOREM BinanceTypesHold == BinanceSpec => []BinanceTypeOK
<1>1. BinanceInv => BinanceTypeOK
  BY DEF BinanceInv
<1> QED BY <1>1, BinanceIsInductive, PTL

(* For any prices, changes and failures of either market, a book in sync is *)
(* the exchange's as of its last update (orderbook.rs apply_update).        *)
THEOREM BookIsFollowed == BinanceSpec => []BookFollowsExchange
<1>1. BinanceInv => BookFollowsExchange
  BY DEF BinanceInv, BookInv, BookFollowsExchange
<1> QED BY <1>1, BinanceIsInductive, PTL

(* For any warm-up, and whichever stores of a reset or an update the        *)
(* strategy reads between, an alpha it may use is of a whole warm-up or the *)
(* zero of a reset (shared_alpha.rs, binance/mod.rs).                       *)
THEOREM AlphaIsEarned == BinanceSpec => []AlphaUsedWasEarned
<1>1. BinanceInv => AlphaUsedWasEarned
  <2> SUFFICES ASSUME BinanceInv, Usable
               PROVE  alpha >= MinSamples + WarmUpdates - 1 \/ (alpha = 0 /\ stores # << >>)
    BY DEF AlphaUsedWasEarned
  <2>1. alpha \in Nat /\ count \in Nat /\ obi \in Nat /\ count >= WarmUpdates /\ WarmUpdates > 0
        /\ MinSamples \in Nat /\ WarmUpdates \in Nat
    BY FeedAssumption DEF FeedAssumption, BinanceInv, BinanceTypeOK, Usable
  <2>2. Earned \/ (alpha = obi /\ count = obi - MinSamples) \/ (alpha = 0 /\ stores # << >>)
    BY Stored DEF BinanceInv, AlphaInv, AtRest, Updating, Resetting
  <2> QED BY <2>1, <2>2 DEF Earned
<1> QED BY <1>1, BinanceIsInductive, PTL
=============================================================================
