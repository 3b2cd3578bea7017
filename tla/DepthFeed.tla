----------------------------- MODULE DepthFeed -----------------------------
(***************************************************************************)
(* The depth of StandX: the connection of src/websocket/client.rs, the     *)
(* event loop's checks of every book and of the silence between two (the   *)
(* depth parts of src/main.rs), and the history on which the strategy of   *)
(* src/strategy/obi.rs allows trading.                                     *)
(*                                                                         *)
(* Time is a small clock.  A book is the time the exchange gave it; books  *)
(* that do not parse or validate are refused by the client and change      *)
(* nothing, so they are not sent here.  What a sample holds is left out:   *)
(* when it was taken decides whether the bot may trade.                    *)
(***************************************************************************)
EXTENDS Integers, Sequences

CONSTANTS
  MaxTime,     \* bound: the clock
  MaxSessions, \* bound: connections
  MaxQueue,    \* bound: books waiting for the event loop
  MaxLag,      \* how old a book may be when it arrives
  LoopLag,     \* the event loop takes an event within this time
  TickLag,     \* the periodic tick comes within this time
  MaxGap,      \* depth_stale_timeout_secs
  Required,    \* history_minutes
  StepTime,    \* the grid of samples (step_ns)
  Interval,    \* update_interval_steps
  QuoteSamples \* MIN_SAMPLES_FOR_QUOTE

ASSUME DepthAssumption ==
  /\ {MaxSessions, MaxQueue, MaxLag, Required, QuoteSamples} \subseteq Nat
  /\ {MaxTime, LoopLag, TickLag, MaxGap, StepTime, Interval} \subseteq Nat \ {0}

VARIABLES
  now,         \* monotonic_time_ns
  ticked,      \* when the periodic tick last came
  sequenced,   \* books carry a sequence number, or only a time
  session,     \* connections so far
  traffic,     \* the connection: "none", "depth", "chatter" (no depth), "dead"
  client,      \* the client's task: "dial" (or in the back-off before), "run"
  permit,      \* the permit of Notify that force_reconnect leaves
  queue,       \* events to the event loop
  depth,       \* DepthState
  connectedAt, \* App.depth_connected_at (0: not connected)
  strategy,    \* ObiStrategy
  paused,      \* PauseReason::MarketData
  seen         \* ghost: the last book accepted, and since when books came unbroken

dialVars == <<session, traffic, client>>
appVars == <<depth, connectedAt, strategy, paused, seen>>
depthVars == <<now, ticked, sequenced, dialVars, permit, queue, appVars>>

----------------------------------------------------------------------------
(* DepthState.                                                              *)
NoDepth == [received |-> 0, sequence |-> 0, time |-> 0, stale |-> FALSE]

(* accept refuses a book that is late, or not newer than the last.          *)
Accepts(d, b) ==
  /\ now - b.at < MaxGap
  /\ b.at >= d.received
  /\ ~(d.sequence > 0 /\ b.sequence > 0 /\ b.sequence <= d.sequence)
  /\ ~(d.time > 0 /\ b.time < d.time)
  /\ ~(b.sequence = 0 /\ b.time <= d.time)

\* Seeded fault: the age of a book counts from when the loop took it.
AcceptedWhenTaken(b) ==
  [received |-> now, sequence |-> b.sequence, time |-> b.time, stale |-> FALSE]

Accepted(b) ==
  [received |-> b.at, sequence |-> b.sequence, time |-> b.time, stale |-> FALSE]

----------------------------------------------------------------------------
(* ObiStrategy, as reset_state leaves it.                                   *)
NoHistory ==
  [held |-> FALSE, next |-> 0, last |-> 0, first |-> 0, latest |-> 0,
   step |-> 0, quoted |-> 0, warm |-> FALSE]

(* The grid times up to t are sampled; without a held book the grid starts. *)
Sampled(s, t) ==
  IF ~s.held
    THEN [s EXCEPT !.first = IF @ = 0 THEN t ELSE @,
                   !.latest = t, !.step = @ + 1, !.next = t + StepTime]
    ELSE LET n == IF t < s.next THEN 0 ELSE (t - s.next) \div StepTime + 1 IN
         IF n = 0 THEN s
         ELSE [s EXCEPT !.latest = s.next + (n - 1) * StepTime,
                        !.step = @ + n, !.next = @ + n * StepTime]

(* update: a book observed.  A gap in the books starts the history anew.    *)
Observed(s, t) ==
  [Sampled(IF s.held /\ t - s.last >= MaxGap THEN NoHistory ELSE s, t)
     EXCEPT !.held = TRUE, !.last = t]

(* ... and whether it gives a quote.                                        *)
Due(s) == s.step - s.quoted >= Interval

Quotes(s) == Due(s) /\ s.step > QuoteSamples

Updated(s, t) ==
  LET o == Observed(s, t) IN
  IF Due(o) THEN [o EXCEPT !.quoted = o.step, !.warm = @ \/ Quotes(o)] ELSE o

(* is_valid_for_trading.                                                    *)
ValidForTrading(s) == s.warm /\ s.latest - s.first >= Required
----------------------------------------------------------------------------
DepthInit ==
  /\ now = 1 /\ ticked = 1 /\ sequenced \in BOOLEAN
  /\ session = 0 /\ traffic = "none" /\ client = "dial"
  /\ permit = FALSE /\ queue = <<>>
  /\ depth = NoDepth /\ connectedAt = 0 /\ strategy = NoHistory /\ paused = TRUE
  /\ seen = [session |-> 0, at |-> 0, since |-> 0]

(* Time passes while the event loop keeps up.                               *)
Clock ==
  /\ now < MaxTime
  /\ now - ticked < TickLag
  /\ queue # <<>> => now - Head(queue).at < LoopLag
  /\ now' = now + 1
  /\ UNCHANGED <<ticked, sequenced, dialVars, permit, queue, appVars>>

(* The client.                                                              *)
Event(kind) ==
  [kind |-> kind, session |-> session', at |-> now, sequence |-> 0, time |-> 0]

Dial ==
  /\ client = "dial" /\ session < MaxSessions
  /\ session' = session + 1 /\ traffic' = "depth" /\ client' = "run"
  /\ queue' = Append(queue, Event("Connected"))
  /\ UNCHANGED <<now, ticked, sequenced, permit, appVars>>

(* depth_book messages; the exchange may repeat or reorder them.            *)
Deliver(t) ==
  /\ client = "run" /\ traffic = "depth" /\ Len(queue) < MaxQueue
  /\ UNCHANGED dialVars
  /\ queue' = Append(queue, [Event("Depth") EXCEPT
                               !.time = t, !.sequence = IF sequenced THEN t ELSE 0])
  /\ UNCHANGED <<now, ticked, sequenced, permit, appVars>>

(* The depth stops: other channels go on, or nothing arrives.  The former   *)
(* only while the clock leaves the time to notice.                          *)
Quiet(how) ==
  /\ client = "run" /\ traffic = "depth" /\ traffic' = how
  /\ how = "chatter" => now <= MaxTime - MaxGap - LoopLag
  /\ UNCHANGED <<now, ticked, sequenced, session, client, permit, queue, appVars>>

(* The end of connect_and_run: the loop hears of it; the next connection    *)
(* comes after the back-off.                                                *)
HangUp ==
  /\ client = "run" /\ client' = "dial" /\ traffic' = "none" /\ UNCHANGED session
  /\ queue' = Append(queue, Event("Disconnected"))
  /\ UNCHANGED <<now, ticked, sequenced, appVars>>

(* An error, a close, or no message for the stale timeout.                  *)
HungUp == HangUp /\ UNCHANGED permit

(* force_reconnect.                                                         *)
Forced == permit /\ permit' = FALSE /\ HangUp

----------------------------------------------------------------------------
\* Seeded fault: the silence is measured from books only.
SilentSinceBook == IF depth.received > 0 THEN depth.received ELSE 0

(* check_depth_stale, on the tick of one second and before every event: an  *)
(* outage is noticed once, ends the history and forces a reconnect.         *)
SilentSince == IF depth.received > 0 THEN depth.received ELSE connectedAt

Outage == SilentSince > 0 /\ now - SilentSince >= MaxGap /\ ~depth.stale

Checked ==
  IF Outage
    THEN [depth |-> [depth EXCEPT !.stale = TRUE], strategy |-> NoHistory, paused |-> TRUE]
    ELSE [depth |-> depth, strategy |-> strategy, paused |-> paused]

Tick ==
  /\ ticked < now
  /\ ticked' = now
  /\ depth' = Checked.depth /\ strategy' = Checked.strategy /\ paused' = Checked.paused
  /\ permit' = (permit \/ Outage)
  /\ UNCHANGED <<now, sequenced, dialVars, queue, connectedAt, seen>>

(* The event arm.                                                           *)
Taken(kind) ==
  /\ queue # <<>> /\ Head(queue).kind = kind
  /\ queue' = Tail(queue) /\ permit' = (permit \/ Outage)
  /\ UNCHANGED <<now, ticked, sequenced, dialVars>>

(* process_event.                                                           *)
TakeOpened ==
  /\ Taken("Connected") /\ depth' = NoDepth /\ connectedAt' = now
  /\ strategy' = Checked.strategy /\ paused' = Checked.paused /\ UNCHANGED seen

\* Seeded fault: the history outlives the connection.
AfterDisconnectKept(s) == s

(* The strategy after a disconnect.                                         *)
AfterDisconnect(s) == NoHistory

TakeClosed ==
  /\ Taken("Disconnected")
  /\ depth' = NoDepth /\ connectedAt' = 0
  /\ strategy' = AfterDisconnect(strategy) /\ paused' = TRUE /\ UNCHANGED seen

(* process_message: the book updates the strategy, and a quote that is      *)
(* valid for trading ends the pause.                                        *)
Refuses(b) == ~Accepts(Checked.depth, b) \/ b.at < Checked.strategy.last

Starts(b) ==
  Quotes(Observed(Checked.strategy, b.at)) /\ ValidForTrading(Updated(Checked.strategy, b.at))

SeenNext(b) ==
  [session |-> b.session, at |-> b.at,
   since |-> IF seen.session = b.session /\ b.at - seen.at < MaxGap
               THEN seen.since ELSE b.at]

TakeDepth ==
  /\ Taken("Depth") /\ UNCHANGED connectedAt
  /\ \E b \in {Head(queue)} :
       \/ /\ Refuses(b)
          /\ depth' = Checked.depth /\ strategy' = Checked.strategy
          /\ paused' = Checked.paused /\ UNCHANGED seen
       \/ /\ ~Refuses(b)
          /\ depth' = Accepted(b) /\ strategy' = Updated(Checked.strategy, b.at)
          /\ paused' = (Checked.paused /\ ~Starts(b))
          /\ seen' = SeenNext(b)
----------------------------------------------------------------------------
Times == {t \in 1..now : now - t <= MaxLag}

Dialer == Dial \/ Forced \/ (traffic = "dead" /\ HungUp)

EventLoop == TakeOpened \/ TakeClosed \/ TakeDepth

DepthNext ==
  \/ Clock \/ Dial \/ HungUp \/ Forced
  \/ (\E t \in Times : Deliver(t))
  \/ (\E how \in {"chatter", "dead"} : Quiet(how))
  \/ EventLoop \/ Tick

DepthSpec == DepthInit /\ [][DepthNext]_depthVars

(* Time passes; the tick, the event loop and the client's task are          *)
(* scheduled.  Nothing makes the exchange send.                             *)
DepthFairSpec ==
  /\ DepthSpec
  /\ WF_depthVars(Clock) /\ WF_depthVars(Tick)
  /\ WF_depthVars(EventLoop) /\ WF_depthVars(Dialer)
----------------------------------------------------------------------------
(* The variables keep their types.                                          *)
DepthTypeOK ==
  /\ now \in 1..MaxTime /\ ticked \in 1..now /\ connectedAt \in 0..now
  /\ {sequenced, permit, paused} \subseteq BOOLEAN
  /\ session \in 0..MaxSessions
  /\ traffic \in {"none", "depth", "chatter", "dead"} /\ client \in {"dial", "run"}
  /\ queue \in Seq([kind : {"Connected", "Disconnected", "Depth"},
                    session : 0..MaxSessions, at : 1..now, sequence : 0..now, time : 0..now])
  /\ depth \in [received : 0..now, sequence : 0..now, time : 0..now, stale : BOOLEAN]
  /\ strategy \in [held : BOOLEAN, next : Nat, last : 0..now, first : 0..now,
                   latest : 0..now, step : Nat, quoted : Nat, warm : BOOLEAN]
  /\ seen \in [session : 0..MaxSessions, at : 0..now, since : 0..now]

(* The history that allows trading is one unbroken run of books of one      *)
(* connection: no gap of depth_stale_timeout_secs or longer, and no         *)
(* reconnect, lies within it, whoever notices the gap first (obi.rs update, *)
(* main.rs check_depth_stale, process_event).                               *)
HistoryContinuous == strategy.first # 0 => strategy.first >= seen.since

(* While the market-data pause is off, the last book accepted is younger    *)
(* than the timeout and one tick, whatever waits in the queue (main.rs      *)
(* check_depth_stale).                                                      *)
TradesOnFreshDepth == ~paused => now - seen.at < MaxGap + TickLag

(* A connection that talks but brings no depth is ended, even when it never *)
(* brought any (main.rs check_depth_stale, client.rs force_reconnect).      *)
DepthOutageEnds == []<>(traffic # "chatter")
=============================================================================
