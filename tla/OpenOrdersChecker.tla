------------------------- MODULE OpenOrdersChecker -------------------------
(***************************************************************************)
(* The open-order checker (src/trading/order_checker.rs) and the part of   *)
(* the event loop that reads it (src/main.rs): a REST poll every three     *)
(* seconds, judged and published as a snapshot, and a signal when the book *)
(* at the exchange looks wrong for Debounce polls.  An order is one value  *)
(* for its client id and its exchange id; a tracked order is "unbound"     *)
(* until its exchange id is known.  Channels and the exchange are as they  *)
(* are seen from one symbol.                                               *)
(***************************************************************************)
EXTENDS Integers, Sequences, FiniteSets

CONSTANTS
  Buys, Sells,   \* orders, by side
  Foreign,       \* those without the client-id prefix of this bot
  Levels,        \* expected_order_levels
  Debounce,      \* debounce_count
  SignalCap,     \* bound: signals not yet read (10 in main)
  SnapCap,       \* bound: snapshots not yet read (100 in main)
  AgeLimited,    \* max_order_age_secs > 0
  MaxUnheard     \* bound: endings and partial fills nobody hears of

ASSUME CheckerAssumption ==
  /\ Buys \cap Sells = {} /\ Foreign \subseteq Buys \cup Sells
  /\ IsFiniteSet(Buys) /\ IsFiniteSet(Sells)
  /\ {Levels, Debounce, SignalCap, SnapCap} \subseteq Nat \ {0}
  /\ AgeLimited \in BOOLEAN /\ MaxUnheard \in Nat

Ids == Buys \cup Sells
Own == Ids \ Foreign
None == "none"

VARIABLES
  ex,         \* exchange: "none", "wire", "open", "part" (filled) or "gone"
  told,       \* endings the exchange has told the order WebSocket of
  tracked,    \* manager: "none", "unbound" or "bound"
  overdue,    \* tracked orders sent over nine seconds ago
  recon,      \* "no", "cleaning" or "verified" (the result is on its way)
  chk,        \* run(): its point, what the poll answered, the signal to send
  count,      \* consecutive_stale_count
  lastReason, \* last_stale_reason, Healthy when empty
  firstSeen,  \* keys of order_first_seen
  aged,       \* those first seen over max_order_age_secs ago
  signals,    \* channel of ClearOrdersSignal
  snapshots,  \* channel of OpenOrdersSnapshot
  unheard,
  wrong       \* history: polls in a row, up to Debounce, with a wrong book

exchVars == <<ex, told, unheard>>
mainVars == <<tracked, overdue, recon>>
runVars == <<count, lastReason, firstSeen, aged, wrong>>
vars == <<exchVars, mainVars, chk, runVars, signals, snapshots>>

Reason(kind, n, m) == [kind |-> kind, n |-> n, m |-> m]
Healthy == Reason("healthy", 0, 0)
Idle == [pc |-> "idle", open |-> {}, partial |-> {}, signal |-> None]
Tracked == {id \in Own : tracked[id] # None}

Init ==
  /\ ex = [id \in Ids |-> "none"] /\ told = {} /\ unheard = 0
  /\ tracked = [id \in Own |-> None] /\ overdue = {} /\ recon = "no"
  /\ chk = Idle /\ count = 0 /\ lastReason = Healthy
  /\ firstSeen = {} /\ aged = {}
  /\ signals = << >> /\ snapshots = << >> /\ wrong = 0

----------------------------------------------------------------------------
(* The checker.                                                             *)

CheckerUnchanged == UNCHANGED <<exchVars, mainVars>>

(* The exchange answers the open-orders query.                              *)
Query ==
  /\ chk.pc = "idle"
  /\ chk' = [Idle EXCEPT !.pc = "answered", !.partial = {id \in Ids : ex[id] = "part"},
                         !.open = {id \in Ids : ex[id] \in {"open", "part"}}]
  /\ UNCHANGED <<runVars, signals, snapshots>>
  /\ CheckerUnchanged

(* A failed poll leaves the stale count as it is.                           *)
PollFailed ==
  /\ chk.pc = "answered"
  /\ chk' = Idle
  /\ UNCHANGED <<runVars, signals, snapshots>>
  /\ CheckerUnchanged

(* What is wrong with the open orders, most serious first.                  *)
Verdict(open, old) ==
  LET buys == Cardinality(open \cap Buys)
      sells == Cardinality(open \cap Sells)
      unowned == Cardinality(open \cap Foreign)
  IN IF buys + sells > 2 * Levels THEN Reason("many", buys + sells, 0)
     ELSE IF unowned > 0 THEN Reason("foreign", unowned, 0)
     ELSE IF open = {} THEN Reason("zero", 0, 0)
     ELSE IF buys + sells >= Levels /\ 0 \in {buys, sells}
          THEN Reason("imbalanced", buys, sells)
     ELSE IF old # {} THEN Reason("aged", 0, 0)
     ELSE Healthy

(* The text of an age changes from poll to poll.                            *)
SameReason(verdict) == verdict = lastReason /\ verdict.kind # "aged"

\* Seeded fault: a healthy book does not end the count.
StaleCountForever(verdict) ==
  IF verdict = Healthy THEN count
  ELSE IF count > Debounce THEN count ELSE count + 1

(* Capped above Debounce, where no comparison tells counts apart.           *)
StaleCount(verdict) ==
  IF verdict = Healthy THEN 0
  ELSE IF count > Debounce THEN count ELSE count + 1

(* Once per stale period, or when the reason changes.                       *)
Announced(verdict, n) ==
  /\ verdict # Healthy /\ n >= Debounce
  /\ lastReason = Healthy \/ n = Debounce \/ ~SameReason(verdict)

(* The answer is stamped with the time, published if there is room, judged, *)
(* and announced if it must be.  Orders seen before may have passed the age *)
(* limit.  What is stamped before the end of a reconciliation is ignored    *)
(* whenever it is read (observed_at_ns <= reconciled_at_ns, or one is       *)
(* pending), so it is not kept.                                             *)
Judge ==
  /\ chk.pc = "answered"
  /\ firstSeen' = chk.open
  /\ \E old \in SUBSET (IF AgeLimited THEN firstSeen \cap chk.open ELSE {}) :
       aged' = (aged \cap chk.open) \cup old
  /\ \E verdict \in {Verdict(chk.open, aged')} :
       /\ count' = StaleCount(verdict)
       /\ lastReason' = verdict
       /\ wrong' = IF verdict = Healthy THEN 0 ELSE IF wrong < Debounce THEN wrong + 1 ELSE wrong
       /\ chk' = IF Announced(verdict, count')
                 THEN [Idle EXCEPT !.pc = "sending", !.signal = verdict.kind] ELSE Idle
  /\ snapshots' = IF recon # "no" \/ Len(snapshots) = SnapCap THEN snapshots
                  ELSE Append(snapshots, [open |-> chk.open, partial |-> chk.partial,
                                          overdue |-> overdue])
  /\ UNCHANGED signals
  /\ CheckerUnchanged

\* Seeded fault: a full channel is written all the same.
SendSignalAnyway ==
  /\ chk.pc = "sending"
  /\ signals' = Append(signals, chk.signal)
  /\ chk' = Idle
  /\ UNCHANGED <<runVars, snapshots>>
  /\ CheckerUnchanged

(* The send waits for room.                                                 *)
SendSignal ==
  /\ chk.pc = "sending" /\ Len(signals) < SignalCap
  /\ signals' = Append(signals, chk.signal)
  /\ chk' = Idle
  /\ UNCHANGED <<runVars, snapshots>>
  /\ CheckerUnchanged

----------------------------------------------------------------------------
(* The event loop.                                                          *)

\* Seeded fault: an order REST never identified is not missed.
ContradictsBoundOnly(s, t) ==
  \/ \E id \in Own : t[id] = "bound" /\ id \notin s.open
  \/ \E id \in s.open \cap s.partial \cap Own : t[id] # None

(* A tracked order the snapshot ought to show and does not, or a fill.      *)
Contradicts(s, t) ==
  \/ \E id \in Own : t[id] = "bound" /\ id \notin s.open
  \/ \E id \in s.overdue : t[id] = "unbound" /\ id \notin s.open
  \/ \E id \in s.open \cap s.partial \cap Own : t[id] # None

\* Seeded fault: a sound snapshot confirms every order.
PromotedAll(n) ==
  [id \in Own |-> IF tracked[id] # None /\ n > 0 THEN "bound" ELSE tracked[id]]

(* What the first n snapshots bind.                                         *)
Promoted(n) ==
  [id \in Own |-> IF tracked[id] # None /\ \E i \in 1..n : id \in snapshots[i].open
                  THEN "bound" ELSE tracked[id]]

(* The first contradiction ends the reading; what was promoted before it is *)
(* cleared by the reconciliation it starts.                                 *)
SoundUpTo(n) ==
  /\ \A i \in 1..n : ~Contradicts(snapshots[i], Promoted(i - 1))
  /\ n < Len(snapshots) => Contradicts(snapshots[n + 1], Promoted(n))

(* One tick: the snapshots, then all signals.  "0 orders" counts only       *)
(* against orders the manager tracks.  Snapshots left unread after a        *)
(* contradiction are outdated.                                              *)
Tick ==
  /\ snapshots # << >> \/ signals # << >>
  /\ \E n \in 0..Len(snapshots) :
       LET begin == n < Len(snapshots) \/ \E i \in 1..Len(signals) :
                                            signals[i] # "zero" \/ Tracked # {}
       IN /\ SoundUpTo(n)
          /\ tracked' = Promoted(n)
          /\ recon' = IF begin /\ recon = "no" THEN "cleaning" ELSE recon
  /\ signals' = << >> /\ snapshots' = << >>
  /\ UNCHANGED <<exchVars, overdue, chk, runVars>>

LoopUnchanged == UNCHANGED <<chk, runVars, signals>>

(* Cleanup verified: submissions settled, everything canceled.              *)
Cleanup ==
  /\ recon = "cleaning" /\ \A id \in Own : ex[id] # "wire"
  /\ ex' = [id \in Ids |-> IF ex[id] \in {"open", "part"} THEN "gone" ELSE ex[id]]
  /\ recon' = "verified"
  /\ UNCHANGED <<told, unheard, tracked, overdue, snapshots>>
  /\ LoopUnchanged

(* The managers forget their orders.  The stale count is not touched.       *)
Finish ==
  /\ recon = "verified"
  /\ recon' = "no"
  /\ tracked' = [id \in Own |-> None] /\ overdue' = {} /\ told' = {}
  /\ UNCHANGED <<ex, unheard, snapshots>>
  /\ LoopUnchanged

Place(id) ==
  /\ recon = "no" /\ ex[id] = "none"
  /\ \E side \in {Buys, Sells} : id \in side /\ Cardinality(Tracked \cap side) < Levels
  /\ tracked' = [tracked EXCEPT ![id] = "unbound"]
  /\ ex' = [ex EXCEPT ![id] = "wire"]
  /\ UNCHANGED <<told, unheard, overdue, recon, snapshots>>
  /\ LoopUnchanged

Overdue(id) ==
  /\ id \in Tracked \ overdue
  /\ overdue' = overdue \cup {id}
  /\ UNCHANGED <<exchVars, tracked, recon, snapshots>>
  /\ LoopUnchanged

(* An answer or a fill over the order WebSocket frees the slot.             *)
HandleTold(id) ==
  /\ id \in told
  /\ told' = told \ {id}
  /\ tracked' = [tracked EXCEPT ![id] = None]
  /\ overdue' = overdue \ {id}
  /\ UNCHANGED <<ex, unheard, recon, snapshots>>
  /\ LoopUnchanged

----------------------------------------------------------------------------
(* The exchange.                                                            *)

ExchangeUnchanged == UNCHANGED <<overdue, recon, snapshots>> /\ LoopUnchanged

(* An order comes to rest; the answer may carry its exchange id.            *)
Arrive(id, identified) ==
  /\ ex[id] = IF id \in Foreign THEN "none" ELSE "wire"
  /\ ex' = [ex EXCEPT ![id] = "open"]
  /\ tracked' = IF identified /\ id \in Tracked
                THEN [tracked EXCEPT ![id] = "bound"] ELSE tracked
  /\ UNCHANGED <<told, unheard>>
  /\ ExchangeUnchanged

(* What ends an order is heard over the order WebSocket, or not.            *)
Unheard == unheard < MaxUnheard /\ unheard' = unheard + 1

(* It is rejected, filled or canceled.                                      *)
Leave(id, heard) ==
  /\ ex[id] \in {"wire", "open", "part"}
  /\ ex' = [ex EXCEPT ![id] = "gone"]
  /\ told' = IF heard /\ id \in Own /\ tracked[id] # None THEN told \cup {id} ELSE told
  /\ IF heard THEN UNCHANGED unheard ELSE Unheard
  /\ UNCHANGED tracked
  /\ ExchangeUnchanged

FillPart(id) ==
  /\ ex[id] = "open" /\ Unheard
  /\ ex' = [ex EXCEPT ![id] = "part"]
  /\ UNCHANGED <<told, tracked>>
  /\ ExchangeUnchanged

----------------------------------------------------------------------------
Checker == Query \/ PollFailed \/ Judge \/ SendSignal

EventLoop ==
  \/ Tick \/ Cleanup \/ Finish
  \/ \E id \in Own : Place(id) \/ Overdue(id) \/ HandleTold(id)

Exchange ==
  \E id \in Ids : FillPart(id) \/ \E b \in BOOLEAN : Arrive(id, b) \/ Leave(id, b)

Next == Checker \/ EventLoop \/ Exchange

Spec == Init /\ [][Next]_vars

(* The poller runs every interval and succeeds again and again; the tick    *)
(* comes every second; time passes; what was sent arrives or is rejected; a *)
(* cleanup ends.                                                            *)
Fairness ==
  /\ WF_vars(Query) /\ SF_vars(Judge) /\ WF_vars(SendSignal)
  /\ WF_vars(Tick) /\ WF_vars(Cleanup) /\ WF_vars(Finish)
  /\ \A id \in Own : /\ WF_vars(Overdue(id))
                     /\ WF_vars(Leave(id, TRUE) \/ \E b \in BOOLEAN : Arrive(id, b))
FairSpec == Spec /\ Fairness

----------------------------------------------------------------------------
Kinds == {"many", "foreign", "zero", "imbalanced", "aged"}

(* Type invariant: no channel holds more than its capacity, however often   *)
(* the checker polls between two ticks.                                     *)
TypeOK ==
  /\ ex \in [Ids -> {"none", "wire", "open", "part", "gone"}]
  /\ told \subseteq Own /\ unheard \in 0..MaxUnheard
  /\ tracked \in [Own -> {None, "unbound", "bound"}]
  /\ overdue \subseteq Own /\ recon \in {"no", "cleaning", "verified"}
  /\ chk \in [pc : {"idle", "answered", "sending"}, open : SUBSET Ids, partial : SUBSET Ids,
             signal : Kinds \cup {None}]
  /\ count \in 0..(Debounce + 1) /\ lastReason.kind \in Kinds \cup {"healthy"}
  /\ firstSeen \subseteq Ids /\ aged \subseteq firstSeen
  /\ signals \in Seq(Kinds) /\ Len(signals) <= SignalCap
  /\ snapshots \in Seq([open : SUBSET Ids, partial : SUBSET Ids, overdue : SUBSET Own])
  /\ Len(snapshots) <= SnapCap
  /\ wrong \in 0..Debounce

(* When a signal goes out, Debounce polls in a row have found the book      *)
(* wrong: a healthy poll starts the count anew, a failed one leaves it.     *)
(* That is what the code and the doc of debounce_count have in common.  The *)
(* doc would have them all be polls of no orders, when the code lets them   *)
(* be wrong in different ways; this does not say in which.                  *)
HealthyPollStartsAnew ==
  chk.pc = "sending" => wrong = Debounce

(* An order is bound to an exchange id only once the exchange has accepted  *)
(* it, whatever other orders the snapshots show meanwhile.                  *)
BoundWereAccepted == \A id \in Tracked : tracked[id] = "bound" => ex[id] # "wire"

(* An ending nobody heard of, or a partial fill, does not stay unnoticed:   *)
(* the slot comes free, by a signal or by a snapshot that contradicts it.   *)
(* The signal alone would not do: it is sent once per stale period and may  *)
(* be spent while the manager tracks nothing.                               *)
Unseen == {id \in Tracked : ex[id] \in {"part", "gone"}}
UnseenEndingsFound == Unseen # {} ~> Unseen = {}
=============================================================================
