---------------------- MODULE OpenOrdersChecker_proofs ----------------------
(***************************************************************************)
(* What the open-order checker promises, for any set of orders, number of  *)
(* levels, debounce count and capacity of its channels.                    *)
(***************************************************************************)
EXTENDS OpenOrdersChecker, TLAPS

(* What a poll has seen open was accepted by the exchange, and stays so.    *)
Accepted(ids) == \A id \in ids : ex[id] \notin {"none", "wire"}

SeenInv ==
  /\ Accepted(chk.open)
  /\ \A i \in 1..Len(snapshots) : Accepted(snapshots[i].open)
  /\ BoundWereAccepted

(* The stale count is the wrong polls in a row, as far as they are counted; *)
(* a signal that waits to be sent is of a kind.                             *)
CountInv ==
  /\ wrong = IF count < Debounce THEN count ELSE Debounce
  /\ chk.pc = "sending" => wrong = Debounce /\ chk.signal \in Kinds

IInv == TypeOK /\ SeenInv /\ CountInv

----------------------------------------------------------------------------
LEMMA InitHolds == Init => IInv
<1> SUFFICES ASSUME Init PROVE IInv
  OBVIOUS
<1> USE CheckerAssumption DEF CheckerAssumption, Init, Idle, Healthy, Reason, None
<1>1. TypeOK
  <2>1. signals \in Seq(Kinds) /\ Len(signals) <= SignalCap
    OBVIOUS
  <2>2. /\ snapshots \in Seq([open : SUBSET Ids, partial : SUBSET Ids, overdue : SUBSET Own])
        /\ Len(snapshots) <= SnapCap
    OBVIOUS
  <2>3. /\ ex \in [Ids -> {"none", "wire", "open", "part", "gone"}]
        /\ tracked \in [Own -> {None, "unbound", "bound"}]
    OBVIOUS
  <2>4. chk \in [pc : {"idle", "answered", "sending"}, open : SUBSET Ids, partial : SUBSET Ids,
                 signal : Kinds \cup {None}]
    OBVIOUS
  <2>5. /\ told \subseteq Own /\ unheard \in 0..MaxUnheard /\ overdue \subseteq Own
        /\ recon \in {"no", "cleaning", "verified"}
        /\ count \in 0..(Debounce + 1) /\ lastReason.kind \in Kinds \cup {"healthy"}
        /\ firstSeen \subseteq Ids /\ aged \subseteq firstSeen /\ wrong \in 0..Debounce
    OBVIOUS
  <2> QED BY <2>1, <2>2, <2>3, <2>4, <2>5 DEF TypeOK
<1>2. SeenInv
  BY DEF SeenInv, Accepted, BoundWereAccepted, Tracked
<1>3. CountInv
  BY DEF CountInv
<1> QED BY <1>1, <1>2, <1>3 DEF IInv

(* A verdict is healthy, or of a kind that is told.                         *)
LEMMA VerdictKinds ==
  ASSUME NEW open, NEW old
  PROVE  Verdict(open, old) = Healthy \/ Verdict(open, old).kind \in Kinds
<1> DEFINE b == Cardinality(open \cap Buys)
           s == Cardinality(open \cap Sells)
           u == Cardinality(open \cap Foreign)
<1>1. Verdict(open, old) =
        IF b + s > 2 * Levels THEN Reason("many", b + s, 0)
        ELSE IF u > 0 THEN Reason("foreign", u, 0)
        ELSE IF open = {} THEN Reason("zero", 0, 0)
        ELSE IF b + s >= Levels /\ 0 \in {b, s} THEN Reason("imbalanced", b, s)
        ELSE IF old # {} THEN Reason("aged", 0, 0)
        ELSE Healthy
  BY DEF Verdict
<1>2. \A k, n, m : Reason(k, n, m).kind = k
  BY DEF Reason
<1> HIDE DEF b, s, u
<1> QED BY <1>1, <1>2 DEF Kinds

(* The count of a verdict against the wrong polls in a row.                 *)
LEMMA StaleCounts ==
  ASSUME NEW verdict, count \in 0..(Debounce + 1), wrong \in 0..Debounce,
         wrong = IF count < Debounce THEN count ELSE Debounce
  PROVE  LET n == StaleCount(verdict)
             w == IF verdict = Healthy THEN 0 ELSE IF wrong < Debounce THEN wrong + 1 ELSE wrong
         IN /\ n \in 0..(Debounce + 1) /\ w \in 0..Debounce
            /\ w = IF n < Debounce THEN n ELSE Debounce
            /\ Announced(verdict, n) => w = Debounce
BY CheckerAssumption DEF StaleCount, Announced, CheckerAssumption

(* Snapshots come one at a time.                                            *)
LEMMA Appended ==
  ASSUME NEW S, NEW q \in Seq(S), NEW e \in S
  PROVE  /\ Append(q, e) \in Seq(S) /\ Len(Append(q, e)) = Len(q) + 1
         /\ \A i \in 1..Len(Append(q, e)) : Append(q, e)[i] = IF i = Len(q) + 1 THEN e ELSE q[i]
OBVIOUS

----------------------------------------------------------------------------
(* The checker.                                                             *)

CheckerTypes ==
  /\ chk \in [pc : {"idle", "answered", "sending"}, open : SUBSET Ids, partial : SUBSET Ids,
              signal : Kinds \cup {None}]
  /\ count \in 0..(Debounce + 1) /\ lastReason.kind \in Kinds \cup {"healthy"}
  /\ firstSeen \subseteq Ids /\ aged \subseteq firstSeen
  /\ signals \in Seq(Kinds) /\ Len(signals) <= SignalCap
  /\ snapshots \in Seq([open : SUBSET Ids, partial : SUBSET Ids, overdue : SUBSET Own])
  /\ Len(snapshots) <= SnapCap
  /\ wrong \in 0..Debounce

LoopTypes ==
  /\ ex \in [Ids -> {"none", "wire", "open", "part", "gone"}]
  /\ told \subseteq Own /\ unheard \in 0..MaxUnheard
  /\ tracked \in [Own -> {None, "unbound", "bound"}]
  /\ overdue \subseteq Own /\ recon \in {"no", "cleaning", "verified"}

LEMMA TypeParts == TypeOK <=> CheckerTypes /\ LoopTypes
BY DEF TypeOK, CheckerTypes, LoopTypes

LEMMA CheckerSteps ==
  ASSUME IInv, Checker
  PROVE  IInv'
<1> USE DEF exchVars, mainVars, runVars
<1>1. CheckerTypes /\ LoopTypes /\ SeenInv /\ CountInv
  BY TypeParts DEF IInv
<1>2. UNCHANGED <<ex, told, unheard, tracked, overdue, recon>>
  BY DEF Checker, Query, PollFailed, Judge, SendSignal, CheckerUnchanged
<1>3. LoopTypes' /\ BoundWereAccepted'
  BY <1>1, <1>2 DEF LoopTypes, SeenInv, BoundWereAccepted, Tracked
<1>4. \A ids : Accepted(ids)' <=> Accepted(ids)
  BY <1>2 DEF Accepted
<1>5. CASE Query
  <2>1. chk' = [pc |-> "answered", open |-> {id \in Ids : ex[id] \in {"open", "part"}},
                partial |-> {id \in Ids : ex[id] = "part"}, signal |-> None]
        /\ UNCHANGED <<runVars, signals, snapshots>>
    BY <1>5 DEF Query, Idle
  <2>2. CheckerTypes'
    BY <1>1, <2>1 DEF CheckerTypes
  <2>3. Accepted({id \in Ids : ex[id] \in {"open", "part"}})
    BY DEF Accepted
  <2>4. SeenInv'
    BY <1>1, <1>3, <1>4, <2>1, <2>3 DEF SeenInv
  <2>5. CountInv'
    BY <1>1, <2>1 DEF CountInv
  <2> QED BY <1>3, <2>2, <2>4, <2>5, TypeParts DEF IInv, TypeOK, CheckerTypes, LoopTypes
<1>6. CASE PollFailed
  <2>1. chk' = [pc |-> "idle", open |-> {}, partial |-> {}, signal |-> None]
        /\ UNCHANGED <<runVars, signals, snapshots>>
    BY <1>6 DEF PollFailed, Idle
  <2>2. CheckerTypes'
    BY <1>1, <2>1 DEF CheckerTypes
  <2>3. SeenInv'
    BY <1>1, <1>3, <1>4, <2>1 DEF SeenInv, Accepted
  <2>4. CountInv'
    BY <1>1, <2>1 DEF CountInv
  <2> QED BY <1>3, <2>2, <2>3, <2>4 DEF IInv, TypeOK, CheckerTypes, LoopTypes
<1>7. CASE SendSignal
  <2>1. chk' = [pc |-> "idle", open |-> {}, partial |-> {}, signal |-> None]
        /\ UNCHANGED <<runVars, snapshots>> /\ signals' = Append(signals, chk.signal)
        /\ chk.pc = "sending" /\ Len(signals) < SignalCap
    BY <1>7 DEF SendSignal, Idle
  <2>2. chk.signal \in Kinds
    BY <1>1, <2>1 DEF CountInv
  <2>3. signals' \in Seq(Kinds) /\ Len(signals') <= SignalCap
    BY <1>1, <2>1, <2>2, CheckerAssumption DEF CheckerTypes, CheckerAssumption
  <2>4. CheckerTypes'
    BY <1>1, <2>1, <2>3 DEF CheckerTypes
  <2>5. SeenInv'
    BY <1>1, <1>3, <1>4, <2>1 DEF SeenInv, Accepted
  <2>6. CountInv'
    BY <1>1, <2>1 DEF CountInv
  <2> QED BY <1>3, <2>4, <2>5, <2>6 DEF IInv, TypeOK, CheckerTypes, LoopTypes
<1>8. CASE Judge
  <2> DEFINE verdict == Verdict(chk.open, aged')
  <2>1. verdict = Healthy \/ verdict.kind \in Kinds
    BY VerdictKinds
  <2>2. PICK v : v = verdict
    OBVIOUS
  <2>3. /\ count' = StaleCount(v) /\ lastReason' = v
        /\ wrong' = IF v = Healthy THEN 0 ELSE IF wrong < Debounce THEN wrong + 1 ELSE wrong
        /\ chk' = IF Announced(v, count')
                  THEN [Idle EXCEPT !.pc = "sending", !.signal = v.kind] ELSE Idle
    BY <1>8, <2>2 DEF Judge
  <2>4. /\ count' \in 0..(Debounce + 1) /\ wrong' \in 0..Debounce
        /\ wrong' = IF count' < Debounce THEN count' ELSE Debounce
        /\ Announced(v, count') => wrong' = Debounce
    BY <1>1, <2>3, StaleCounts DEF CheckerTypes, CountInv
  <2>5. Announced(v, count') => v # Healthy
    BY DEF Announced
  <2> HIDE DEF verdict
  <2>6. \/ chk' = [pc |-> "idle", open |-> {}, partial |-> {}, signal |-> None]
        \/ /\ chk' = [pc |-> "sending", open |-> {}, partial |-> {}, signal |-> v.kind]
           /\ Announced(v, count') /\ v.kind \in Kinds
    BY <2>1, <2>2, <2>3, <2>5 DEF Idle
  <2>7. firstSeen' = chk.open /\ aged' \subseteq chk.open /\ signals' = signals
    <3>1. firstSeen' = chk.open /\ signals' = signals
      BY <1>8 DEF Judge
    <3>2. PICK old \in SUBSET (IF AgeLimited THEN firstSeen \cap chk.open ELSE {}) :
            aged' = (aged \cap chk.open) \cup old
      BY <1>8 DEF Judge
    <3> QED BY <3>1, <3>2
  <2>8. /\ snapshots' \in Seq([open : SUBSET Ids, partial : SUBSET Ids, overdue : SUBSET Own])
        /\ Len(snapshots') <= SnapCap
        /\ \A i \in 1..Len(snapshots') : \/ i \in 1..Len(snapshots) /\ snapshots'[i] = snapshots[i]
                                         \/ snapshots'[i].open = chk.open
    <3> DEFINE s == [open |-> chk.open, partial |-> chk.partial, overdue |-> overdue]
    <3>1. s \in [open : SUBSET Ids, partial : SUBSET Ids, overdue : SUBSET Own] /\ s.open = chk.open
      BY <1>1 DEF CheckerTypes, LoopTypes
    <3>2. snapshots' = IF recon # "no" \/ Len(snapshots) = SnapCap THEN snapshots
                       ELSE Append(snapshots, s)
      BY <1>8 DEF Judge
    <3> HIDE DEF s
    <3>3. /\ snapshots \in Seq([open : SUBSET Ids, partial : SUBSET Ids, overdue : SUBSET Own])
          /\ Len(snapshots) <= SnapCap /\ SnapCap \in Nat
      BY <1>1, CheckerAssumption DEF CheckerTypes, CheckerAssumption
    <3>4. CASE recon # "no" \/ Len(snapshots) = SnapCap
      BY <3>2, <3>3, <3>4
    <3>5. CASE ~(recon # "no" \/ Len(snapshots) = SnapCap)
      <4>1. snapshots' = Append(snapshots, s)
        BY <3>2, <3>5
      <4>2. /\ snapshots' \in Seq([open : SUBSET Ids, partial : SUBSET Ids, overdue : SUBSET Own])
            /\ Len(snapshots') = Len(snapshots) + 1
            /\ \A i \in 1..Len(snapshots') :
                 snapshots'[i] = IF i = Len(snapshots) + 1 THEN s ELSE snapshots[i]
        BY <3>1, <3>3, <4>1, Appended
      <4> QED BY <3>1, <3>3, <3>5, <4>2
    <3> QED BY <3>4, <3>5
  <2>9. chk' \in [pc : {"idle", "answered", "sending"}, open : SUBSET Ids, partial : SUBSET Ids,
                  signal : Kinds \cup {None}]
    BY <2>6
  <2>10. v.kind \in Kinds \cup {"healthy"}
    BY <2>1, <2>2 DEF Healthy, Reason
  <2>11. CheckerTypes'
    BY <1>1, <2>3, <2>4, <2>7, <2>8, <2>9, <2>10 DEF CheckerTypes
  <2>12. SeenInv'
    <3>1. chk'.open = {}
      BY <2>6
    <3> QED BY <1>1, <1>3, <1>4, <2>8, <3>1 DEF SeenInv, Accepted
  <2>13. CountInv'
    BY <2>4, <2>6 DEF CountInv
  <2> QED BY <1>3, <2>11, <2>12, <2>13 DEF IInv, TypeOK, CheckerTypes, LoopTypes
<1> QED BY <1>5, <1>6, <1>7, <1>8 DEF Checker

----------------------------------------------------------------------------
(* The event loop and the exchange.                                         *)

(* An order that was accepted stays so while its state goes on; what is     *)
(* bound besides must be accepted.                                          *)
LEMMA SeenStands ==
  ASSUME IInv, chk' = chk, LoopTypes',
         snapshots' = snapshots \/ snapshots' = << >>,
         \A id \in Ids : ex[id] \notin {"none", "wire"} => ex'[id] \notin {"none", "wire"},
         \A id \in Own : tracked'[id] = "bound" => ex'[id] # "wire"
  PROVE  SeenInv'
<1> DEFINE Stands(ids) == \A id \in ids : ex'[id] \notin {"none", "wire"}
<1>1. CheckerTypes /\ SeenInv
  BY TypeParts DEF IInv
<1>2. \A ids \in SUBSET Ids : Accepted(ids) => Stands(ids)
  BY DEF Accepted
<1>3. \A i \in DOMAIN snapshots : snapshots[i].open \in SUBSET Ids
  <2>1. PICK R : R = [open : SUBSET Ids, partial : SUBSET Ids, overdue : SUBSET Own]
    OBVIOUS
  <2>2. snapshots \in Seq(R)
    BY <1>1, <2>1 DEF CheckerTypes
  <2>3. \A i \in DOMAIN snapshots : snapshots[i] \in R
    BY <2>2
  <2> QED BY <2>1, <2>3
<1>4. chk.open \in SUBSET Ids
  BY <1>1 DEF CheckerTypes
<1>5. Stands(chk'.open)
  BY <1>1, <1>2, <1>4 DEF SeenInv
<1>6. \A i \in DOMAIN snapshots' : Stands(snapshots'[i].open)
  <2> HIDE DEF Stands
  <2>1. CASE snapshots' = snapshots
    BY <1>1, <1>2, <1>3, <2>1 DEF SeenInv
  <2>2. CASE snapshots' = << >>
    BY <2>2
  <2> QED BY <2>1, <2>2
<1> QED BY <1>5, <1>6 DEF SeenInv, Accepted, BoundWereAccepted, Tracked

(* The checker's own state is left as it is, the channels as they are or    *)
(* empty.                                                                   *)
LEMMA StepStands ==
  ASSUME IInv, UNCHANGED <<chk, runVars>>, LoopTypes',
         \/ UNCHANGED <<signals, snapshots>>
         \/ signals' = << >> /\ snapshots' = << >>,
         \A id \in Ids : ex[id] \notin {"none", "wire"} => ex'[id] \notin {"none", "wire"},
         \A id \in Own : tracked'[id] = "bound" => ex'[id] # "wire"
  PROVE  IInv'
<1>1. CheckerTypes /\ CountInv
  BY TypeParts DEF IInv
<1>2. UNCHANGED <<chk, count, lastReason, firstSeen, aged, wrong>>
  BY DEF runVars
<1>3. /\ signals' \in Seq(Kinds) /\ Len(signals') <= SignalCap
      /\ snapshots' \in Seq([open : SUBSET Ids, partial : SUBSET Ids, overdue : SUBSET Own])
      /\ Len(snapshots') <= SnapCap
  <2>1. CASE UNCHANGED <<signals, snapshots>>
    BY <1>1, <2>1 DEF CheckerTypes
  <2>2. CASE signals' = << >> /\ snapshots' = << >>
    BY <2>2, CheckerAssumption DEF CheckerAssumption
  <2> QED BY <2>1, <2>2
<1>4. CheckerTypes'
  BY <1>1, <1>2, <1>3 DEF CheckerTypes
<1>5. SeenInv'
  BY <1>2, SeenStands
<1>6. CountInv'
  BY <1>1, <1>2 DEF CountInv
<1>7. TypeOK'
  BY <1>4 DEF TypeOK, CheckerTypes, LoopTypes
<1> QED BY <1>5, <1>6, <1>7 DEF IInv

LEMMA BoundAccepted ==
  ASSUME SeenInv, LoopTypes, NEW id \in Own, tracked[id] = "bound"
  PROVE  ex[id] # "wire"
BY DEF SeenInv, BoundWereAccepted, Tracked, None

LEMMA TickSteps ==
  ASSUME IInv, Tick
  PROVE  IInv'
<1>1. CheckerTypes /\ LoopTypes /\ SeenInv
  BY TypeParts DEF IInv
<1>2. PICK n \in 0..Len(snapshots) : tracked' = Promoted(n)
  BY DEF Tick
<1>3. \A id \in Own : tracked'[id] = IF tracked[id] # None /\ \E i \in 1..n : id \in snapshots[i].open
                                     THEN "bound" ELSE tracked[id]
  BY <1>2 DEF Promoted
<1>4. /\ signals' = << >> /\ snapshots' = << >> /\ recon' \in {recon, "cleaning"}
      /\ UNCHANGED <<ex, told, unheard, overdue, chk, runVars>>
  BY DEF Tick, exchVars
<1>5. LoopTypes'
  <2>1. tracked' \in [Own -> {None, "unbound", "bound"}]
    BY <1>1, <1>2 DEF Promoted, LoopTypes
  <2> QED BY <1>1, <1>4, <2>1 DEF LoopTypes
<1>6. \A id \in Own : tracked'[id] = "bound" => ex'[id] # "wire"
  <2> SUFFICES ASSUME NEW id \in Own, tracked'[id] = "bound" PROVE ex[id] # "wire"
    BY <1>4
  <2>1. CASE tracked[id] = "bound"
    BY <1>1, <2>1, BoundAccepted
  <2>2. CASE tracked[id] # "bound"
    <3>1. PICK i \in 1..n : id \in snapshots[i].open
      BY <1>3, <2>2
    <3>2. i \in 1..Len(snapshots)
      BY <1>1 DEF CheckerTypes
    <3> QED BY <1>1, <3>1, <3>2 DEF SeenInv, Accepted
  <2> QED BY <2>1, <2>2
<1> QED BY <1>4, <1>5, <1>6, StepStands

LEMMA LoopSteps ==
  ASSUME IInv, EventLoop
  PROVE  IInv'
<1>1. LoopTypes /\ SeenInv
  BY TypeParts DEF IInv
<1>2. \A id \in Own : id \in Ids
  BY DEF Own
<1> USE DEF LoopUnchanged, exchVars
<1>3. CASE Tick
  BY <1>3, TickSteps
<1>4. CASE Cleanup
  <2>1. \A id \in Ids : ex'[id] = IF ex[id] \in {"open", "part"} THEN "gone" ELSE ex[id]
    BY <1>4 DEF Cleanup
  <2>2. LoopTypes'
    BY <1>1, <1>4 DEF Cleanup, LoopTypes
  <2>3. \A id \in Own : tracked'[id] = "bound" => ex'[id] # "wire"
    BY <1>1, <1>2, <1>4, <2>1, BoundAccepted DEF Cleanup
  <2> QED BY <1>4, <2>1, <2>2, <2>3, StepStands DEF Cleanup
<1>5. CASE Finish
  <2>1. LoopTypes'
    BY <1>1, <1>5 DEF Finish, LoopTypes
  <2>2. \A id \in Own : tracked'[id] # "bound"
    BY <1>5 DEF Finish, None
  <2> QED BY <1>5, <2>1, <2>2, StepStands DEF Finish
<1>6. ASSUME NEW p \in Own, Place(p) PROVE IInv'
  <2>1. /\ \A id \in Ids : ex'[id] = IF id = p THEN "wire" ELSE ex[id]
        /\ \A id \in Own : tracked'[id] = IF id = p THEN "unbound" ELSE tracked[id]
        /\ ex[p] = "none"
    BY <1>1, <1>6 DEF Place, LoopTypes
  <2>2. LoopTypes'
    BY <1>1, <1>2, <1>6 DEF Place, LoopTypes
  <2>3. \A id \in Own : tracked'[id] = "bound" => ex'[id] # "wire"
    BY <1>1, <1>2, <2>1, BoundAccepted
  <2> QED BY <1>6, <2>1, <2>2, <2>3, StepStands DEF Place
<1>7. ASSUME NEW p \in Own, Overdue(p) PROVE IInv'
  <2>1. LoopTypes'
    BY <1>1, <1>7 DEF Overdue, LoopTypes
  <2>2. \A id \in Own : tracked'[id] = "bound" => ex'[id] # "wire"
    BY <1>1, <1>7, BoundAccepted DEF Overdue
  <2> QED BY <1>7, <2>1, <2>2, StepStands DEF Overdue
<1>8. ASSUME NEW p \in Own, HandleTold(p) PROVE IInv'
  <2>1. LoopTypes'
    BY <1>1, <1>8 DEF HandleTold, LoopTypes
  <2>2. \A id \in Own : tracked'[id] = "bound" => tracked[id] = "bound"
    BY <1>1, <1>8 DEF HandleTold, LoopTypes, None
  <2>3. \A id \in Own : tracked'[id] = "bound" => ex'[id] # "wire"
    BY <1>1, <1>8, <2>2, BoundAccepted DEF HandleTold
  <2> QED BY <1>8, <2>1, <2>3, StepStands DEF HandleTold
<1> QED BY <1>3, <1>4, <1>5, <1>6, <1>7, <1>8 DEF EventLoop

LEMMA ExchangeSteps ==
  ASSUME IInv, Exchange
  PROVE  IInv'
<1>1. LoopTypes /\ SeenInv
  BY TypeParts DEF IInv
<1>2. \A id \in Own : id \in Ids
  BY DEF Own
<1> USE DEF ExchangeUnchanged, LoopUnchanged
<1>3. ASSUME NEW p \in Ids, NEW b \in BOOLEAN, Arrive(p, b) PROVE IInv'
  <2>1. \A id \in Ids : ex'[id] = IF id = p THEN "open" ELSE ex[id]
    BY <1>1, <1>3 DEF Arrive, LoopTypes
  <2>2. tracked' = tracked \/ (p \in Own /\ tracked' = [tracked EXCEPT ![p] = "bound"])
    BY <1>3 DEF Arrive, Tracked
  <2>3. LoopTypes'
    BY <1>1, <1>3, <2>2 DEF Arrive, LoopTypes
  <2>4. \A id \in Own : tracked'[id] = "bound" => id = p \/ tracked[id] = "bound"
    BY <1>1, <2>2 DEF LoopTypes
  <2>5. \A id \in Own : tracked'[id] = "bound" => ex'[id] # "wire"
    BY <1>1, <1>2, <2>1, <2>4, BoundAccepted
  <2> QED BY <1>3, <2>1, <2>3, <2>5, StepStands DEF Arrive
<1>4. ASSUME NEW p \in Ids, NEW b \in BOOLEAN, Leave(p, b) PROVE IInv'
  <2>1. \A id \in Ids : ex'[id] = IF id = p THEN "gone" ELSE ex[id]
    BY <1>1, <1>4 DEF Leave, LoopTypes
  <2>2. told' \subseteq Own /\ unheard' \in 0..MaxUnheard
    BY <1>1, <1>4, CheckerAssumption DEF Leave, Unheard, LoopTypes, CheckerAssumption
  <2>3. LoopTypes'
    BY <1>1, <1>4, <2>2 DEF Leave, LoopTypes
  <2>4. \A id \in Own : tracked'[id] = "bound" => ex'[id] # "wire"
    BY <1>1, <1>2, <1>4, <2>1, BoundAccepted DEF Leave
  <2> QED BY <1>4, <2>1, <2>3, <2>4, StepStands DEF Leave
<1>5. ASSUME NEW p \in Ids, FillPart(p) PROVE IInv'
  <2>1. \A id \in Ids : ex'[id] = IF id = p THEN "part" ELSE ex[id]
    BY <1>1, <1>5 DEF FillPart, LoopTypes
  <2>2. LoopTypes'
    BY <1>1, <1>5, CheckerAssumption DEF FillPart, Unheard, LoopTypes, CheckerAssumption
  <2>3. \A id \in Own : tracked'[id] = "bound" => ex'[id] # "wire"
    BY <1>1, <1>2, <1>5, <2>1, BoundAccepted DEF FillPart
  <2> QED BY <1>5, <2>1, <2>2, <2>3, StepStands DEF FillPart
<1> QED BY <1>3, <1>4, <1>5 DEF Exchange

----------------------------------------------------------------------------
(* The results.                                                             *)

LEMMA Invariance == Spec => []IInv
<1>1. IInv /\ [Next]_vars => IInv'
  <2> SUFFICES ASSUME IInv, [Next]_vars PROVE IInv'
    OBVIOUS
  <2>1. CASE UNCHANGED vars
    BY <2>1 DEF vars, exchVars, mainVars, runVars, IInv, TypeOK, SeenInv, Accepted,
                BoundWereAccepted, Tracked, CountInv
  <2> QED BY <2>1, CheckerSteps, LoopSteps, ExchangeSteps DEF Next
<1> QED BY <1>1, InitHolds, PTL DEF Spec

(* Every variable keeps its type, and no channel of the checker holds more  *)
(* than its capacity.                                                       *)
THEOREM CheckerTypesHold == Spec => []TypeOK
<1>1. IInv => TypeOK
  BY DEF IInv
<1> QED BY <1>1, Invariance, PTL

(* A signal goes out only when each of the last Debounce polls that were    *)
(* answered found the book wrong.                                           *)
THEOREM HealthyPollsStartAnew == Spec => []HealthyPollStartsAnew
<1>1. IInv => HealthyPollStartsAnew
  BY DEF IInv, CountInv, HealthyPollStartsAnew
<1> QED BY <1>1, Invariance, PTL

(* The managers bind only orders that the exchange has accepted, whatever   *)
(* the snapshots show and however late they are read.                       *)
THEOREM BoundWereAcceptedHolds == Spec => []BoundWereAccepted
<1>1. IInv => BoundWereAccepted
  BY DEF IInv, SeenInv
<1> QED BY <1>1, Invariance, PTL
=============================================================================
