------------------------------ MODULE Quoting ------------------------------
(***************************************************************************)
(* A change of the tick or lot size under a running bot: the poller of     *)
(* src/trading/symbol_info.rs, the arm of the event loop that switches,    *)
(* and the executor, which formats each order with the sizes it reads from *)
(* the shared atomics at that moment.  The precision is kept three times:  *)
(* by the exchange (listed), in SharedSymbolInfo (shared, two atomics) and *)
(* in the order manager.                                                   *)
(***************************************************************************)
EXTENDS QuoteOps

CONSTANTS
  Strategy,      \* StrategyConfig
  Precisions,    \* tick size, lot size and minimum quantity the API may list
  QuoteInputs,   \* what a quote may be computed from
  SignalCap,     \* capacity of the channel of changes
  DecisionCap,   \* capacity of the channel of decisions
  MaxListings,   \* bound: changes of the exchange
  MaxDecisions   \* bound: orders decided

ASSUME StrategyAssumption == StrategyValid(Strategy) /\ WholeNumbers(Strategy)

ASSUME PrecisionsAssumption ==
  /\ Precisions \subseteq [tick : Nat \ {0}, lot : Nat \ {0}, least : Nat \ {0}]
  /\ Precisions # {}

ASSUME QuoteInputsAssumption ==
  \A q \in QuoteInputs :
    /\ {q.bid, q.ask, q.volatility, q.qty} \subseteq Nat /\ q.bid < q.ask
    /\ q.alpha \in Int /\ q.position \in Int

ASSUME CapacitiesAssumption == {SignalCap, DecisionCap} \subseteq Nat \ {0}

VARIABLES
  listed,     \* the exchange: the precision it lists now
  shared,     \* SharedSymbolInfo
  managed,    \* OrderManagerConfig: the precision of set_precision
  poll,       \* the poller: idle, an answer, or a signal waiting for room
  signals,    \* the channel of changes
  loop,       \* the event loop: selecting, or what is left of the switch
  pauses,     \* ExecutionState: the pause reasons
  generation, \*   and the generation
  warm,       \* the strategy is valid for trading
  decisions,  \* the channel of decisions
  executor,   \* the decision it holds and what it has read for it
  written,    \* the orders written to the socket
  used        \* bounds: listings and decisions

priceVars == <<listed, shared, managed, poll, signals, loop, pauses, generation,
               warm, decisions, executor, written, used>>

Idle == [at |-> "idle"]
Selecting == [at |-> "select"]

(* The bot starts with what the API lists; MarketData is up until history.  *)
QuotingInit ==
  /\ listed \in Precisions /\ shared = listed /\ managed = listed
  /\ poll = Idle /\ signals = <<>> /\ loop = Selecting
  /\ pauses = {"MarketData"} /\ generation = 0 /\ warm = FALSE
  /\ decisions = <<>> /\ executor = Idle /\ written = {}
  /\ used = [listings |-> 0, decisions |-> 0]

SetReason(reason) ==
  /\ pauses' = pauses \cup {reason}
  /\ generation' = IF reason \in pauses THEN generation ELSE generation + 1

gateOnly == <<pauses, generation>>
pollOnly == <<listed, poll, signals>>
orderOnly == <<decisions, executor, written>>

----------------------------------------------------------------------------
(* The exchange and the poller.  A poll that fails, or whose answer         *)
(* try_update rejects, changes nothing and is no step.                      *)
List(p) ==
  /\ used.listings < MaxListings
  /\ listed' = p
  /\ used' = [used EXCEPT !.listings = @ + 1]
  /\ UNCHANGED <<shared, managed, poll, signals, loop, gateOnly, warm, orderOnly>>

Ask ==
  /\ poll = Idle
  /\ poll' = [at |-> "answered", info |-> listed]
  /\ UNCHANGED <<listed, shared, managed, signals, loop, gateOnly, warm, orderOnly, used>>

(* The answer is compared with the shared values, which the loop stores     *)
(* when it handles the signal: until then every poll signals again.         *)
Changed(info) == info # shared

Compare ==
  /\ poll.at = "answered"
  /\ poll' = IF Changed(poll.info) THEN [poll EXCEPT !.at = "sending"] ELSE Idle
  /\ UNCHANGED <<listed, shared, managed, signals, loop, gateOnly, warm, orderOnly, used>>

Signal ==
  /\ poll.at = "sending" /\ Len(signals) < SignalCap
  /\ signals' = Append(signals, poll.info)
  /\ poll' = Idle
  /\ UNCHANGED <<listed, shared, managed, loop, gateOnly, warm, orderOnly, used>>

----------------------------------------------------------------------------
(* The arm of the event loop.  Its first step is                            *)
(* begin_account_reconciliation; the executor's thread may read the atomics *)
(* between the stores.                                                      *)

\* Seeded fault: the new precision is stored before anything is paused.
BeginSwitchUnpaused ==
  /\ loop = Selecting /\ signals # <<>>
  /\ loop' = [at |-> "tick", info |-> Head(signals)]
  /\ signals' = Tail(signals)
  /\ UNCHANGED <<listed, shared, managed, poll, gateOnly, warm, orderOnly, used>>

BeginSwitch ==
  /\ loop = Selecting /\ signals # <<>>
  /\ loop' = [at |-> "tick", info |-> Head(signals)]
  /\ signals' = Tail(signals)
  /\ SetReason("Reconciliation")
  /\ UNCHANGED <<listed, shared, managed, poll, warm, orderOnly, used>>

StoreTick ==
  /\ loop.at = "tick"
  /\ shared' = [shared EXCEPT !.tick = loop.info.tick, !.least = loop.info.least]
  /\ loop' = [loop EXCEPT !.at = "lot"]
  /\ UNCHANGED <<managed, pollOnly, gateOnly, warm, orderOnly, used>>

StoreLot ==
  /\ loop.at = "lot"
  /\ shared' = [shared EXCEPT !.lot = loop.info.lot]
  /\ loop' = [loop EXCEPT !.at = "manager"]
  /\ UNCHANGED <<managed, pollOnly, gateOnly, warm, orderOnly, used>>

(* set_precision, reset_strategy and the MarketData pause.                  *)
FinishSwitch ==
  /\ loop.at = "manager"
  /\ managed' = loop.info
  /\ warm' = FALSE
  /\ SetReason("MarketData")
  /\ loop' = Selecting
  /\ UNCHANGED <<shared, pollOnly, orderOnly, used>>

(* A verified cleanup, handled by the loop.                                 *)
EndReconciliation ==
  /\ loop = Selecting /\ "Reconciliation" \in pauses
  /\ pauses' = pauses \ {"Reconciliation"}
  /\ UNCHANGED <<shared, managed, pollOnly, loop, generation, warm, orderOnly, used>>

WarmUp ==
  /\ loop = Selecting /\ ~warm
  /\ warm' = TRUE
  /\ UNCHANGED <<shared, managed, pollOnly, loop, gateOnly, orderOnly, used>>

----------------------------------------------------------------------------
(* A book gives a quote; with full history it lifts the MarketData pause,   *)
(* and without another pause on_quote_into decides.  One of a quote's       *)
(* decisions is followed here; its slot may be taken.                       *)
Decision(q, side, level) ==
  [quote |-> q, side |-> side,
   price |-> QuotePrice(Strategy, q, side, level, shared.tick),
   qty |-> QuoteQty(q, shared.lot, managed.lot), gen |-> generation]

OnBook(q, side, level) ==
  /\ loop = Selecting /\ warm
  /\ pauses' = pauses \ {"MarketData"}
  /\ \E d \in {Decision(q, side, level)} :
       \/ /\ pauses' = {} /\ d.price > 0 /\ d.qty >= managed.least * Unit
          /\ used.decisions < MaxDecisions /\ Len(decisions) < DecisionCap
          /\ decisions' = Append(decisions, d)
          /\ used' = [used EXCEPT !.decisions = @ + 1]
       \/ UNCHANGED <<decisions, used>>
  /\ UNCHANGED <<shared, managed, pollOnly, loop, generation, warm, executor, written>>

(* The executor: it takes a decision, reads the two atomics, and submits;   *)
(* place_order refuses what the execution state no longer permits.          *)
TakeDecision ==
  /\ executor = Idle /\ decisions # <<>>
  /\ executor' = [at |-> "tick", decision |-> Head(decisions)]
  /\ decisions' = Tail(decisions)
  /\ UNCHANGED <<shared, managed, pollOnly, loop, gateOnly, warm, written, used>>

ReadTick ==
  /\ executor.at = "tick"
  /\ executor' = [at |-> "lot", decision |-> executor.decision, tick |-> shared.tick]
  /\ UNCHANGED <<shared, managed, pollOnly, loop, gateOnly, warm, decisions, written, used>>

ReadLot ==
  /\ executor.at = "lot"
  /\ executor' = [at |-> "submit", decision |-> executor.decision,
                  tick |-> executor.tick, lot |-> shared.lot]
  /\ UNCHANGED <<shared, managed, pollOnly, loop, gateOnly, warm, decisions, written, used>>

PermitsDecision(d) == pauses = {} /\ d.gen = generation

Formatted(d, tick, lot) ==
  [decision |-> d, price |-> Nearest(d.price, tick * Unit), qty |-> Nearest(d.qty, lot * Unit)]

Submit ==
  /\ executor.at = "submit"
  /\ written' = IF PermitsDecision(executor.decision)
                THEN written \cup {Formatted(executor.decision, executor.tick, executor.lot)}
                ELSE written
  /\ executor' = Idle
  /\ UNCHANGED <<shared, managed, pollOnly, loop, gateOnly, warm, decisions, used>>

----------------------------------------------------------------------------
InfoPoller == Ask \/ Compare \/ Signal
Switch == BeginSwitch \/ StoreTick \/ StoreLot \/ FinishSwitch

QuotingNext ==
  \/ \E p \in Precisions : List(p)
  \/ InfoPoller
  \/ Switch \/ EndReconciliation \/ WarmUp
  \/ \E q \in QuoteInputs, side \in {"buy", "sell"}, level \in 1..Strategy.order_levels :
       OnBook(q, side, level)
  \/ TakeDecision \/ ReadTick \/ ReadLot \/ Submit

QuotingSpec == QuotingInit /\ [][QuotingNext]_priceVars

(* The poller's timer and the event loop come round, and polls do not fail  *)
(* for ever.                                                                *)
QuotingFairSpec == QuotingSpec /\ WF_priceVars(InfoPoller) /\ WF_priceVars(Switch)

----------------------------------------------------------------------------
Decided == {decisions[i] : i \in DOMAIN decisions}
  \cup (IF executor = Idle THEN {} ELSE {executor.decision})

QuotingTypeOK ==
  /\ {listed, shared, managed} \subseteq [tick : Nat \ {0}, lot : Nat \ {0}, least : Nat \ {0}]
  /\ poll.at \in {"idle", "answered", "sending"} /\ poll # Idle => poll.info \in Precisions
  /\ signals \in Seq(Precisions) /\ Len(signals) <= SignalCap
  /\ loop.at \in {"select", "tick", "lot", "manager"}
  /\ loop # Selecting => loop.info \in Precisions
  /\ pauses \subseteq {"MarketData", "Reconciliation"} /\ generation \in Nat
  /\ warm \in BOOLEAN
  /\ Len(decisions) <= DecisionCap
  /\ executor.at \in {"idle", "tick", "lot", "submit"}
  /\ \A d \in Decided : d.price \in Int /\ d.qty \in Nat /\ d.gen \in 0..generation
  /\ used \in [listings : Nat, decisions : Nat]

(* Whatever the loop stores while the executor works, an order goes out at  *)
(* the price and quantity that were decided, and on its own side of the     *)
(* book it was priced from: formatting with a coarser tick or lot than the  *)
(* decision's would round it, up to across the spread or over its budget.   *)
(* The pause taken before the stores keeps the two apart.                   *)
WrittenAsQuoted ==
  \A o \in written :
    /\ o.price = o.decision.price /\ o.qty = o.decision.qty
    /\ IF o.decision.side = "buy" THEN o.price <= o.decision.quote.bid * Unit
                                  ELSE o.price >= o.decision.quote.ask * Unit

(* Once the exchange keeps to a precision, the shared values and the order  *)
(* manager's come to be that one, whatever signals of earlier ones were on  *)
(* their way.                                                               *)
PrecisionCatchesUp == <>[](shared = listed /\ managed = listed)
=============================================================================
