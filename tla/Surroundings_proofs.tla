------------------------ MODULE Surroundings_proofs ------------------------
(***************************************************************************)
(* What a bot that trades can rely on, for any configurations offered and  *)
(* any number of processes, orders and failures; and the five components   *)
(* around the order path side by side.                                     *)
(***************************************************************************)
EXTENDS MCSurroundings, Feeds_proofs, Quoting_proofs

(* Processes one after the other.                                           *)

(* The orders at the exchange or on their way there, of a bot that may      *)
(* trade and after one that ended verified.                                 *)
OrdersKnown ==
  /\ Live /\ ~halted => (resting \cup onWire) \ {run} \subseteq excused
  /\ phase = "down" /\ ended = "verified" => resting \cup onWire \subseteq excused

LEMMA OrdersKnownAtFirst == LifeInit => OrdersKnown
BY DEF LifeInit, OrdersKnown, Live

(* A step that keeps the phase, the configuration and the pause, and adds   *)
(* no order, keeps what is known of the orders.                             *)
LEMMA NoNewOrders ==
  ASSUME OrdersKnown,
         UNCHANGED <<phase, ended, config, run, halted, excused>>,
         (resting \cup onWire)' \subseteq resting \cup onWire
  PROVE  OrdersKnown'
BY DEF OrdersKnown, Live

(* So does the end of a process that is not called verified.                *)
LEMMA UnverifiedEnd ==
  ASSUME NEW how, how # "verified", Exits(how)
  PROVE  OrdersKnown'
BY DEF Exits, OrdersKnown, Live

LEMMA AttemptFailsKeeps ==
  ASSUME NEW t, OrdersKnown, AttemptFails(t), UNCHANGED <<run, onWire, resting, excused>>
  PROVE  OrdersKnown'
<1>1. CASE Gone
  BY <1>1, UnverifiedEnd DEF AttemptFails
<1>2. CASE ~Gone
  BY <1>2, NoNewOrders DEF AttemptFails
<1> QED BY <1>1, <1>2

LEMMA OrdersStayKnown == OrdersKnown /\ [LifeNext]_lifeVars => OrdersKnown'
<1> SUFFICES ASSUME OrdersKnown, [LifeNext]_lifeVars PROVE OrdersKnown'
  OBVIOUS
<1>1. ASSUME NEW c \in Offered, Configure(c) PROVE OrdersKnown'
  <2>1. CASE phase' = "symbols"
    BY <2>1 DEF OrdersKnown, Live
  <2>2. CASE Exits("refused")
    BY <2>2, UnverifiedEnd
  <2> QED BY <1>1, <2>1, <2>2 DEF Configure
<1>2. CASE LoadSymbols
  <2>1. CASE phase' = "login"
    BY <2>1 DEF OrdersKnown, Live
  <2>2. CASE Exits("failed")
    BY <2>2, UnverifiedEnd
  <2> QED BY <1>2, <2>1, <2>2 DEF LoadSymbols
<1>3. CASE Login
  <2>1. CASE phase' = "leverage"
    BY <2>1 DEF OrdersKnown, Live
  <2>2. CASE phase' = "live" /\ ~config.order.enabled /\ config' = config
    BY <2>2 DEF OrdersKnown, Live
  <2>3. CASE Exits("failed")
    BY <2>3, UnverifiedEnd
  <2> QED BY <1>3, <2>1, <2>2, <2>3 DEF Login
<1>4. CASE QueryLeverage \/ SetLeverage
  <2>1. CASE phase' \in {"cleanup", "set leverage"}
    BY <2>1 DEF OrdersKnown, Live
  <2>2. CASE Exits("failed")
    BY <2>2, UnverifiedEnd
  <2> QED BY <1>4, <2>1, <2>2 DEF QueryLeverage, SetLeverage, BeginCleanup
<1>5. CASE RejectToken \/ ListOrders
  BY <1>5, NoNewOrders
     DEF RejectToken, ListOrders, besidesProcess, exchangeOnly
<1>6. CASE CancelListed
  <2>1. CASE resting' = resting \ cleanup.listed /\ UNCHANGED <<phase, ended, config, halted>>
    BY <1>6, <2>1, NoNewOrders DEF CancelListed
  <2>2. CASE AttemptFails(token) /\ UNCHANGED resting
    BY <1>6, <2>2, AttemptFailsKeeps DEF CancelListed
  <2> QED BY <1>6, <2>1, <2>2 DEF CancelListed
<1>7. CASE VerifyEmpty
  <2>1. CASE resting = {} /\ Verified /\ excused' = onWire
    <3>1. (resting \cup onWire)' \subseteq excused'
      BY <1>7, <2>1 DEF VerifyEmpty, exchangeOnly
    <3> QED BY <3>1 DEF OrdersKnown
  <2>2. CASE AttemptFails("good") /\ UNCHANGED excused
    BY <1>7, <2>2, AttemptFailsKeeps DEF VerifyEmpty, exchangeOnly
  <2> QED BY <1>7, <2>1, <2>2 DEF VerifyEmpty
<1>8. CASE CleanupCallFails
  BY <1>8, AttemptFailsKeeps DEF CleanupCallFails, besidesProcess, exchangeOnly
<1>9. CASE Place
  BY <1>9 DEF Place, OrdersKnown, Live
<1>10. CASE Halt
  BY <1>10 DEF Halt, OrdersKnown, Live
<1>11. CASE Stop
  <2>1. CASE phase' = "stopping"
    BY <2>1 DEF OrdersKnown, Live
  <2>2. CASE Exits("left")
    BY <2>2, UnverifiedEnd
  <2> QED BY <1>11, <2>1, <2>2 DEF Stop
<1>12. CASE Crash
  BY <1>12, UnverifiedEnd DEF Crash
<1>13. CASE ReachExchange \/ Filled
  BY <1>13, NoNewOrders DEF ReachExchange, Filled
<1>14. CASE UNCHANGED lifeVars
  BY <1>14, NoNewOrders DEF lifeVars
<1> QED
  BY <1>1, <1>2, <1>3, <1>4, <1>5, <1>6, <1>7, <1>8, <1>9, <1>10, <1>11, <1>12, <1>13, <1>14
     DEF LifeNext, Sweep

(* Whenever a bot may trade, or has ended verified, every order of another  *)
(* process was on its way to the exchange when the last cleanup verified:   *)
(* however often processes are killed and restarted, whatever fills,        *)
(* arrives or fails meanwhile (cleanup_attempt, cancel_all_and_verify).     *)
THEOREM RestartsLeaveNothing == LifeSpec => []NothingLeftBehind
<1>1. OrdersKnown => NothingLeftBehind
  BY DEF OrdersKnown, NothingLeftBehind
<1> QED BY <1>1, OrdersKnownAtFirst, OrdersStayKnown, PTL DEF LifeSpec

----------------------------------------------------------------------------
(* What startup has done for a live bot when it gets to a phase.            *)
Fed ==
  /\ phase # "down" => ConfigValid(config)
  /\ phase \in {"cleanup", "live"} /\ config.order.enabled =>
       "position" \in tasks /\ leverage = Target(config)
  /\ Live => LiveTasks \subseteq tasks

LEMMA FedAtFirst == LifeInit => Fed
BY DEF LifeInit, Fed, Live

LEMMA FedOutside ==
  ASSUME Fed, UNCHANGED <<phase, config, tasks, leverage>>
  PROVE  Fed'
BY DEF Fed, Live

LEMMA FedAtEnd ==
  ASSUME NEW how, Exits(how)
  PROVE  Fed'
BY DEF Exits, Fed, Live

LEMMA AttemptFailsFed ==
  ASSUME NEW t, Fed, AttemptFails(t), UNCHANGED leverage
  PROVE  Fed'
BY FedAtEnd, FedOutside DEF AttemptFails

(* The rules make a live bot poll its position and its equity.              *)
LEMMA LiveBotPolls ==
  ASSUME ConfigValid(config), config.order.enabled
  PROVE  RiskTasks(config) = {"position", "equity"}
BY DEF ConfigValid, LiveRules, RiskTasks

LEMMA StaysFed == Fed /\ [LifeNext]_lifeVars => Fed'
<1> SUFFICES ASSUME Fed, [LifeNext]_lifeVars PROVE Fed'
  OBVIOUS
<1>1. ASSUME NEW c \in Offered, Configure(c) PROVE Fed'
  <2>1. CASE ConfigValid(c) /\ phase' = "symbols" /\ config' = c
    BY <2>1 DEF Fed, Live
  <2>2. CASE Exits("refused")
    BY <2>2, FedAtEnd
  <2> QED BY <1>1, <2>1, <2>2 DEF Configure
<1>2. CASE LoadSymbols
  <2>1. CASE phase = "symbols" /\ phase' = "login" /\ config' = config
    BY <2>1 DEF Fed, Live
  <2>2. CASE Exits("failed")
    BY <2>2, FedAtEnd
  <2> QED BY <1>2, <2>1, <2>2 DEF LoadSymbols
<1>3. CASE Login
  <2>1. CASE phase = "login" /\ phase' = "leverage" /\ config' = config
    BY <2>1 DEF Fed, Live
  <2>2. CASE phase = "login" /\ phase' = "live" /\ ~config.order.enabled /\ config' = config
    BY <2>2 DEF Fed, Live
  <2>3. CASE Exits("failed")
    BY <2>3, FedAtEnd
  <2> QED BY <1>3, <2>1, <2>2, <2>3 DEF Login
<1>4. CASE QueryLeverage \/ SetLeverage
  <2>1. CASE phase \in {"leverage", "set leverage"} /\ BeginCleanup
             /\ leverage' = Target(config) /\ config' = config
    <3>1. config.order.enabled => "position" \in tasks'
      BY <2>1, LiveBotPolls DEF BeginCleanup, Fed
    <3>2. phase' = "cleanup" /\ ConfigValid(config')
      BY <2>1 DEF BeginCleanup, Fed
    <3> QED BY <2>1, <3>1, <3>2 DEF Fed, Live
  <2>2. CASE phase = "leverage" /\ phase' = "set leverage" /\ config' = config
    BY <2>2 DEF Fed, Live
  <2>3. CASE Exits("failed")
    BY <2>3, FedAtEnd
  <2> QED BY <1>4, <2>1, <2>2, <2>3
          DEF QueryLeverage, SetLeverage, besidesProcess, exchangeOnly
<1>5. CASE RejectToken \/ ListOrders \/ Place \/ Halt \/ ReachExchange \/ Filled
  BY <1>5, FedOutside
     DEF RejectToken, ListOrders, Place, Halt, ReachExchange, Filled, besidesProcess, exchangeOnly
<1>6. CASE CancelListed \/ CleanupCallFails
  BY <1>6, FedOutside, AttemptFailsFed
     DEF CancelListed, CleanupCallFails, besidesProcess, exchangeOnly
<1>7. CASE VerifyEmpty
  <2>1. CASE Verified
    <3>1. CASE phase = "cleanup" /\ phase' = "live" /\ config' = config
               /\ tasks' = tasks \cup {"executor", "worker", "checker"}
                                 \cup (RiskTasks(config) \ {"position"})
      <4>1. config.order.enabled => LiveTasks \subseteq tasks'
        BY <3>1, LiveBotPolls DEF Fed, LiveTasks
      <4>2. tasks \subseteq tasks' /\ leverage' = leverage
        BY <1>7, <3>1 DEF VerifyEmpty, exchangeOnly
      <4> QED BY <3>1, <4>1, <4>2 DEF Fed, Live
    <3>2. CASE UNCHANGED <<phase, config, tasks>>
      BY <1>7, <3>2, FedOutside DEF VerifyEmpty, exchangeOnly
    <3>3. CASE Exits("verified")
      BY <3>3, FedAtEnd
    <3> QED BY <2>1, <3>1, <3>2, <3>3 DEF Verified
  <2>2. CASE AttemptFails("good")
    BY <1>7, <2>2, AttemptFailsFed DEF VerifyEmpty, exchangeOnly
  <2> QED BY <1>7, <2>1, <2>2 DEF VerifyEmpty
<1>8. CASE Stop
  <2>1. CASE phase = "live" /\ phase' = "stopping" /\ config' = config
    BY <2>1 DEF Fed, Live
  <2>2. CASE Exits("left")
    BY <2>2, FedAtEnd
  <2> QED BY <1>8, <2>1, <2>2 DEF Stop
<1>9. CASE Crash
  BY <1>9, FedAtEnd DEF Crash
<1>10. CASE UNCHANGED lifeVars
  BY <1>10, FedOutside DEF lifeVars
<1> QED
  BY <1>1, <1>2, <1>3, <1>4, <1>5, <1>6, <1>7, <1>8, <1>9, <1>10 DEF LifeNext, Sweep

----------------------------------------------------------------------------
(* The types of the processes.                                              *)

(* The configuration is a valid one from the moment a process has it, and   *)
(* only a live process reconciles.                                          *)
LifeInv ==
  /\ LifeTypeOK
  /\ cleanup \in [at : {"none", "list", "cancel", "verify"}, attempt : Nat, listed : SUBSET Nat]
  /\ phase # "down" => run >= 1 /\ config \in Offered /\ ConfigValid(config)

LEMMA LifeInvAtFirst == LifeInit => LifeInv
<1> SUFFICES ASSUME LifeInit PROVE LifeInv
  OBVIOUS
<1>1. {placed, halted} \subseteq BOOLEAN
  BY Zenon DEF LifeInit
<1> QED BY <1>1, StartupAssumption DEF LifeInit, StartupAssumption, LifeInv, LifeTypeOK, NoCleanup

LEMMA TargetWhole ==
  ASSUME NEW c \in Offered, ConfigValid(c)
  PROVE  Target(c) \in Nat
<1>1. c.strategy.leverage \in Int /\ c.strategy.leverage >= Whole
  BY OfferedAssumption DEF OfferedAssumption, ConfigValid, StrategyValid
<1> QED BY <1>1, WholeAssumption DEF WholeAssumption, Target

LEMMA RangeNatural ==
  ASSUME NEW n \in Nat
  PROVE  1..n \subseteq Nat
OBVIOUS

LEMMA RunNatural ==
  ASSUME LifeTypeOK
  PROVE  run \in Nat
<1>1. run \in 0..MaxRuns
  BY DEF LifeTypeOK
<1>2. MaxRuns \in Nat
  BY StartupAssumption DEF StartupAssumption
<1> QED BY <1>1, <1>2

(* A failed attempt lists again.                                            *)
LEMMA ListsAgain ==
  ASSUME NEW c \in [at : {"none", "list", "cancel", "verify"}, attempt : Nat, listed : SUBSET Nat],
         NEW n \in Nat
  PROVE  /\ [c EXCEPT !.at = "list", !.attempt = n, !.listed = {}]
               \in [at : {"none", "list", "cancel", "verify"}, attempt : Nat, listed : SUBSET Nat]
         /\ [c EXCEPT !.at = "list", !.attempt = n, !.listed = {}].at = "list"
         /\ [c EXCEPT !.at = "list", !.attempt = n, !.listed = {}].listed = {}
OBVIOUS

(* The end of a process, whatever else the step leaves as it is.            *)
LEMMA EndTyped ==
  ASSUME LifeInv, NEW how \in {"refused", "failed", "left", "verified", "killed"}, Exits(how),
         run' \in 0..MaxRuns, leverage' \in Nat, failures' \in 0..MaxFailures,
         (onWire \cup resting \cup excused)' \subseteq 1..run'
  PROVE  LifeInv'
<1>1. {placed, halted}' \subseteq BOOLEAN
  BY Zenon DEF Exits
<1> QED BY <1>1 DEF Exits, LifeInv, LifeTypeOK, NoCleanup

LEMMA FailsTyped ==
  ASSUME LifeTypeOK, Fails
  PROVE  failures' \in 0..MaxFailures
<1>1. failures \in 0..MaxFailures
  BY DEF LifeTypeOK
<1>2. MaxFailures \in Nat
  BY StartupAssumption DEF StartupAssumption
<1> QED BY <1>1, <1>2 DEF Fails, MayFail

(* The facts of a step that does not end the process, one at a time.        *)
LEMMA GoesOnTyped ==
  ASSUME LifeInv, UNCHANGED <<ended, config, run>>,
         phase' \in {"symbols", "login", "leverage", "set leverage", "cleanup", "live", "stopping"},
         phase # "down",
         tasks' \subseteq LiveTasks, token' \in {"none", "good", "rejected"},
         leverage' \in Nat, placed' \in BOOLEAN, halted' \in BOOLEAN,
         (onWire \cup resting \cup excused)' \subseteq 1..run,
         cleanup' \in [at : {"none", "list", "cancel", "verify"}, attempt : Nat,
                      listed : SUBSET (1..run)],
         failures' \in 0..MaxFailures,
         cleanup'.at # "none" => phase' \in {"cleanup", "stopping"} \/ halted'
  PROVE  LifeInv'
<1>1. {placed, halted}' \subseteq BOOLEAN
  BY Zenon
<1>2. run \in Nat
  BY RunNatural DEF LifeInv
<1>3. 1..run \subseteq Nat
  BY <1>2, RangeNatural
<1> QED BY <1>1, <1>3 DEF LifeInv, LifeTypeOK

LEMMA AttemptFailsTyped ==
  ASSUME LifeInv, cleanup.at # "none",
         NEW t \in {"none", "good", "rejected"}, AttemptFails(t),
         UNCHANGED <<run, leverage, onWire, excused>>, resting' \subseteq resting,
         failures' \in 0..MaxFailures
  PROVE  LifeInv'
<1>1. CASE Exits("failed")
  BY <1>1, EndTyped DEF LifeInv, LifeTypeOK
<1>2. CASE /\ token' = t
           /\ cleanup' = [cleanup EXCEPT !.at = "list", !.attempt = IF Live THEN 1 ELSE @ + 1,
                                         !.listed = {}]
           /\ UNCHANGED <<phase, ended, config, tasks, placed, halted>>
  <2>1. /\ cleanup' \in [at : {"none", "list", "cancel", "verify"}, attempt : Nat,
                          listed : SUBSET Nat]
        /\ cleanup'.at = "list" /\ cleanup'.listed = {}
    <3>1. PICK n : n = IF Live THEN 1 ELSE cleanup.attempt + 1
      OBVIOUS
    <3>2. cleanup.attempt + 1 \in Nat
      BY DEF LifeInv
    <3>3. n \in Nat
      BY <3>1, <3>2
    <3>4. cleanup' = [cleanup EXCEPT !.at = "list", !.attempt = n, !.listed = {}]
      BY <1>2, <3>1
    <3> QED BY <3>3, <3>4, ListsAgain DEF LifeInv
  <2>2. phase # "down" \/ halted
    BY DEF LifeInv, LifeTypeOK
  <2> QED BY <1>2, <2>1, <2>2 DEF LifeInv, LifeTypeOK
<1> QED BY <1>1, <1>2 DEF AttemptFails

(* A step that starts a process, and one of the exchange.                   *)
LEMMA ConfigureTyped ==
  ASSUME LifeInv, NEW c \in Offered, Configure(c)
  PROVE  LifeInv'
<1>1. run \in Nat /\ MaxRuns \in Nat /\ run < MaxRuns /\ run' = run + 1
  BY RunNatural, StartupAssumption DEF StartupAssumption, LifeInv, Configure
<1>2. run' \in 0..MaxRuns /\ run' >= 1 /\ 1..run \subseteq 1..run'
  BY <1>1
<1>3. UNCHANGED <<leverage, onWire, resting, excused, failures>>
  BY DEF Configure, besidesProcess, exchangeOnly
<1>4. (onWire \cup resting \cup excused)' \subseteq 1..run'
  BY <1>2, <1>3 DEF LifeInv, LifeTypeOK
<1>5. CASE Exits("refused")
  BY <1>2, <1>3, <1>4, <1>5, EndTyped DEF LifeInv, LifeTypeOK
<1>6. CASE /\ ConfigValid(c) /\ phase' = "symbols" /\ config' = c
           /\ UNCHANGED <<ended, tasks, token, placed, halted, cleanup>>
  <2>1. cleanup.listed \subseteq 1..run'
    BY <1>2 DEF LifeInv, LifeTypeOK
  <2>2. cleanup.at # "none" => halted
    BY DEF Configure, LifeInv, LifeTypeOK
  <2>3. {placed, halted}' \subseteq BOOLEAN
    BY <1>6 DEF LifeInv, LifeTypeOK
  <2> QED BY <1>2, <1>3, <1>4, <1>6, <2>1, <2>2, <2>3 DEF LifeInv, LifeTypeOK
<1> QED BY <1>5, <1>6 DEF Configure

LEMMA ExchangeTyped ==
  ASSUME LifeInv, ReachExchange \/ Filled
  PROVE  LifeInv'
<1>1. (onWire \cup resting)' \subseteq onWire \cup resting
  BY DEF ReachExchange, Filled
<1>2. UNCHANGED <<phase, ended, config, run, tasks, token, leverage, placed, halted,
                  cleanup, excused, failures>>
  BY DEF ReachExchange, Filled
<1> QED BY <1>1, <1>2 DEF LifeInv, LifeTypeOK

(* What a cleanup begins with.                                              *)
LEMMA FirstAttemptTyped ==
  ASSUME NEW n \in Nat
  PROVE  /\ FirstAttempt \in [at : {"none", "list", "cancel", "verify"}, attempt : Nat,
                              listed : SUBSET (1..n)]
         /\ NoCleanup \in [at : {"none", "list", "cancel", "verify"}, attempt : Nat,
                           listed : SUBSET (1..n)]
         /\ NoCleanup.at = "none"
BY DEF FirstAttempt, NoCleanup

LEMMA RiskTasksTyped ==
  ASSUME NEW c
  PROVE  RiskTasks(c) \subseteq {"position", "equity"}
BY DEF RiskTasks

(* What LifeInv says of a step's starting state, part by part.              *)
LEMMA LifeFacts ==
  ASSUME LifeInv
  PROVE  /\ run \in Nat /\ failures \in 0..MaxFailures /\ leverage \in Nat
         /\ placed \in BOOLEAN /\ halted \in BOOLEAN
         /\ tasks \subseteq LiveTasks /\ token \in {"none", "good", "rejected"}
         /\ onWire \cup resting \cup excused \subseteq 1..run
         /\ cleanup \in [at : {"none", "list", "cancel", "verify"}, attempt : Nat,
                         listed : SUBSET (1..run)]
         /\ cleanup.at # "none" => phase \in {"cleanup", "stopping"} \/ halted
         /\ phase # "down" =>
              /\ phase \in {"symbols", "login", "leverage", "set leverage", "cleanup",
                            "live", "stopping"}
              /\ run >= 1 /\ config \in Offered /\ ConfigValid(config)
<1>1. run \in Nat
  BY RunNatural DEF LifeInv
<1>2. placed \in BOOLEAN /\ halted \in BOOLEAN
  BY Zenon DEF LifeInv, LifeTypeOK
<1>3. cleanup \in [at : {"none", "list", "cancel", "verify"}, attempt : Nat,
                   listed : SUBSET (1..run)]
  <2>1. cleanup.listed \subseteq 1..run
    BY DEF LifeInv, LifeTypeOK
  <2>2. cleanup \in [at : {"none", "list", "cancel", "verify"}, attempt : Nat, listed : SUBSET Nat]
    BY DEF LifeInv
  <2> QED BY <2>1, <2>2
<1>4. /\ failures \in 0..MaxFailures /\ leverage \in Nat
      /\ tasks \subseteq LiveTasks /\ token \in {"none", "good", "rejected"}
      /\ onWire \cup resting \cup excused \subseteq 1..run
  BY DEF LifeInv, LifeTypeOK
<1>5. cleanup.at # "none" => phase \in {"cleanup", "stopping"} \/ halted
  BY DEF LifeInv, LifeTypeOK
<1>6. phase # "down" =>
        /\ phase \in {"symbols", "login", "leverage", "set leverage", "cleanup",
                      "live", "stopping"}
        /\ run >= 1 /\ config \in Offered /\ ConfigValid(config)
  BY DEF LifeInv, LifeTypeOK
<1> QED BY <1>1, <1>2, <1>3, <1>4, <1>5, <1>6, Zenon

LEMMA StartupTyped ==
  ASSUME LifeInv, LoadSymbols \/ Login
  PROVE  LifeInv'
<1> USE DEF besidesProcess, exchangeOnly
<1>1. UNCHANGED <<run, leverage, onWire, resting, excused>>
  BY DEF LoadSymbols, Login
<1>2. failures' \in 0..MaxFailures
  <2>1. failures' = failures \/ Fails
    BY DEF LoadSymbols, Login
  <2> QED BY <2>1, LifeFacts, FailsTyped DEF LifeInv
<1>3. CASE Exits("failed")
  BY <1>1, <1>2, <1>3, EndTyped DEF LifeInv, LifeTypeOK
<1>4. CASE /\ UNCHANGED <<ended, config, placed, halted, cleanup>>
           /\ phase \in {"symbols", "login"}
           /\ phase' \in {"login", "leverage", "live"}
           /\ tasks' = tasks \/ tasks' = {} \/ tasks' = RiskTasks(config)
           /\ token' \in {token, "good"}
  <2>1. tasks' \subseteq LiveTasks
    BY <1>4, LifeFacts, RiskTasksTyped DEF LiveTasks
  <2>2. token' \in {"none", "good", "rejected"}
    BY <1>4, LifeFacts
  <2>3. cleanup'.at # "none" => phase' \in {"cleanup", "stopping"} \/ halted'
    BY <1>4, LifeFacts
  <2>4. /\ leverage' \in Nat /\ placed' \in BOOLEAN /\ halted' \in BOOLEAN
        /\ (onWire \cup resting \cup excused)' \subseteq 1..run
        /\ cleanup' \in [at : {"none", "list", "cancel", "verify"}, attempt : Nat,
                         listed : SUBSET (1..run)]
    BY <1>1, <1>4, LifeFacts, Zenon
  <2> QED BY <1>1, <1>2, <1>4, <2>1, <2>2, <2>3, <2>4, GoesOnTyped
<1> QED BY <1>3, <1>4 DEF LoadSymbols, Login

LEMMA LeverageTyped ==
  ASSUME LifeInv, QueryLeverage \/ SetLeverage
  PROVE  LifeInv'
<1> USE DEF besidesProcess, exchangeOnly
<1>1. UNCHANGED <<run, onWire, resting, excused>>
  BY DEF QueryLeverage, SetLeverage
<1>2. failures' \in 0..MaxFailures
  <2>1. failures' = failures \/ Fails
    BY DEF QueryLeverage, SetLeverage
  <2> QED BY <2>1, LifeFacts, FailsTyped DEF LifeInv
<1>3. phase \in {"leverage", "set leverage"}
  BY DEF QueryLeverage, SetLeverage
<1>4. leverage' \in Nat
  <2>1. Target(config) \in Nat
    BY <1>3, LifeFacts, TargetWhole
  <2> QED BY <2>1, LifeFacts DEF QueryLeverage, SetLeverage
<1>5. CASE Exits("failed")
  BY <1>1, <1>2, <1>4, <1>5, EndTyped DEF LifeInv, LifeTypeOK
<1>6. CASE UNCHANGED <<ended, config, placed, halted>> /\ token' \in {token, "good"}
           /\ (BeginCleanup \/ (phase' = "set leverage" /\ UNCHANGED <<tasks, cleanup>>))
  <2>1. tasks' \subseteq LiveTasks
    BY <1>6, LifeFacts, RiskTasksTyped DEF LiveTasks, BeginCleanup
  <2>2. phase' \in {"cleanup", "set leverage"}
    BY <1>6 DEF BeginCleanup
  <2>3. cleanup'.at # "none" => phase' \in {"cleanup", "stopping"} \/ halted'
    BY <1>3, <1>6, LifeFacts DEF BeginCleanup
  <2>4. cleanup' \in [at : {"none", "list", "cancel", "verify"}, attempt : Nat,
                      listed : SUBSET (1..run)]
    BY <1>6, LifeFacts, FirstAttemptTyped DEF BeginCleanup
  <2>5. /\ placed' \in BOOLEAN /\ halted' \in BOOLEAN
        /\ (onWire \cup resting \cup excused)' \subseteq 1..run
    BY <1>1, <1>6, LifeFacts, Zenon
  <2>6. token' \in {"none", "good", "rejected"}
    BY <1>6, LifeFacts
  <2> QED BY <1>1, <1>2, <1>3, <1>4, <1>6, <2>1, <2>2, <2>3, <2>4, <2>5, <2>6, GoesOnTyped
<1> QED BY <1>5, <1>6 DEF QueryLeverage, SetLeverage, Queries, Commands

LEMMA CleanupTyped ==
  ASSUME LifeInv, ListOrders \/ CancelListed \/ CleanupCallFails
  PROVE  LifeInv'
<1> USE DEF besidesProcess, exchangeOnly
<1>1. CASE ListOrders
  <2>1. /\ cleanup'.at \in {"verify", "cancel"} /\ cleanup'.listed = resting
        /\ cleanup' \in [at : {"none", "list", "cancel", "verify"}, attempt : Nat,
                         listed : SUBSET Nat]
    <3>1. /\ cleanup \in [at : {"none", "list", "cancel", "verify"}, attempt : Nat,
                          listed : SUBSET Nat]
          /\ resting \subseteq Nat
      BY LifeFacts, RangeNatural DEF LifeInv
    <3>2. PICK a \in {"verify", "cancel"} : a = IF resting = {} THEN "verify" ELSE "cancel"
      OBVIOUS
    <3>3. cleanup' = [cleanup EXCEPT !.at = a, !.listed = resting]
      BY <1>1, <3>2 DEF ListOrders
    <3> QED BY <3>1, <3>2, <3>3
  <2>2. UNCHANGED <<phase, ended, config, run, tasks, leverage, onWire, resting, excused,
                    placed, halted, failures>> /\ token' = "good" /\ cleanup.at # "none"
    BY <1>1 DEF ListOrders, Queries
  <2>3. resting \subseteq 1..run
    BY LifeFacts
  <2> QED BY <2>1, <2>2, <2>3 DEF LifeInv, LifeTypeOK
<1>2. CASE CancelListed
  <2>1. CASE AttemptFails(token) /\ UNCHANGED resting
    BY <1>2, <2>1, LifeFacts, AttemptFailsTyped DEF CancelListed
  <2>2. CASE /\ resting' = resting \ cleanup.listed /\ token' = token
             /\ cleanup' = [cleanup EXCEPT !.at = "verify"]
             /\ UNCHANGED <<phase, ended, config, tasks, placed, halted>>
    <3>1. /\ cleanup'.at = "verify" /\ cleanup'.listed = cleanup.listed
          /\ cleanup' \in [at : {"none", "list", "cancel", "verify"}, attempt : Nat,
                           listed : SUBSET Nat]
      BY <2>2 DEF LifeInv
    <3>2. UNCHANGED <<run, leverage, onWire, excused, failures>> /\ cleanup.at # "none"
      BY <1>2 DEF CancelListed
    <3> QED BY <2>2, <3>1, <3>2 DEF LifeInv, LifeTypeOK
  <2> QED BY <1>2, <2>1, <2>2 DEF CancelListed, Commands
<1>3. CASE CleanupCallFails
  <2>1. failures' \in 0..MaxFailures
    BY <1>3, FailsTyped DEF CleanupCallFails, LifeInv
  <2> QED BY <1>3, <2>1, LifeFacts, AttemptFailsTyped DEF CleanupCallFails
<1> QED BY <1>1, <1>2, <1>3

LEMMA VerifyTyped ==
  ASSUME LifeInv, VerifyEmpty
  PROVE  LifeInv'
<1> USE DEF exchangeOnly
<1>1. UNCHANGED <<run, leverage, onWire, resting, failures>> /\ cleanup.at # "none"
  BY DEF VerifyEmpty
<1>2. (onWire \cup resting \cup excused)' \subseteq 1..run'
  BY <1>1, LifeFacts DEF VerifyEmpty
<1>3. CASE AttemptFails("good") /\ UNCHANGED excused
  BY <1>1, <1>3, LifeFacts, AttemptFailsTyped
<1>4. CASE Verified
  <2>1. CASE Exits("verified")
    BY <1>1, <1>2, <2>1, EndTyped DEF LifeInv, LifeTypeOK
  <2>2. CASE /\ phase' = "live" /\ Queries /\ cleanup' = NoCleanup
             /\ \/ /\ phase = "cleanup" /\ halted' = halted
                   /\ tasks' = tasks \cup {"executor", "worker", "checker"}
                                     \cup (RiskTasks(config) \ {"position"})
                \/ phase = "live" /\ halted' = FALSE /\ tasks' = tasks
             /\ UNCHANGED <<ended, config, placed>>
    <3>1. tasks' \subseteq LiveTasks
      BY <2>2, LifeFacts, RiskTasksTyped DEF LiveTasks
    <3>2. placed' \in BOOLEAN /\ halted' \in BOOLEAN
      BY <2>2, LifeFacts, Zenon
    <3>3. /\ cleanup' \in [at : {"none", "list", "cancel", "verify"}, attempt : Nat,
                           listed : SUBSET (1..run)]
          /\ cleanup'.at = "none"
      BY <2>2, LifeFacts, FirstAttemptTyped
    <3>4. /\ leverage' \in Nat /\ failures' \in 0..MaxFailures
          /\ token' \in {"none", "good", "rejected"}
      BY <1>1, <2>2, LifeFacts DEF Queries
    <3>5. phase # "down"
      BY <2>2
    <3> QED BY <1>1, <1>2, <2>2, <3>1, <3>2, <3>3, <3>4, <3>5, GoesOnTyped
  <2> QED BY <1>4, <2>1, <2>2 DEF Verified
<1> QED BY <1>3, <1>4 DEF VerifyEmpty

LEMMA LoopTyped ==
  ASSUME LifeInv, RejectToken \/ Place \/ Halt \/ Stop \/ Crash
  PROVE  LifeInv'
<1> USE DEF besidesProcess, exchangeOnly
<1>1. CASE RejectToken
  <2>1. failures' \in 0..MaxFailures
    BY <1>1, FailsTyped DEF RejectToken, LifeInv
  <2>2. UNCHANGED <<phase, ended, config, run, tasks, leverage, onWire, resting, excused,
                    placed, halted, cleanup>> /\ token' = "rejected"
    BY <1>1 DEF RejectToken
  <2> QED BY <2>1, <2>2 DEF LifeInv, LifeTypeOK
<1>2. CASE Place
  <2>1. phase = "live" /\ run \in 1..run
    BY <1>2, LifeFacts DEF Place, Live
  <2>2. placed' \in BOOLEAN /\ halted' \in BOOLEAN
    BY <1>2, LifeFacts, Zenon DEF Place
  <2>3. UNCHANGED <<phase, ended, config, run, tasks, token, leverage, resting,
                    halted, cleanup, excused, failures>> /\ onWire' = onWire \cup {run}
    BY <1>2 DEF Place
  <2>4. (onWire \cup resting \cup excused)' \subseteq 1..run
    BY <2>1, <2>3, LifeFacts
  <2>5. {placed, halted}' \subseteq BOOLEAN
    BY <2>2, Zenon
  <2> QED BY <2>3, <2>4, <2>5 DEF LifeInv, LifeTypeOK
<1>3. CASE Halt
  <2>1. phase = "live" /\ halted' = TRUE /\ cleanup' = FirstAttempt
        /\ UNCHANGED <<phase, ended, config, run, tasks, token, leverage, onWire, resting,
                       excused, placed, failures>>
    BY <1>3 DEF Halt, Live
  <2>2. placed' \in BOOLEAN /\ halted' \in BOOLEAN
    BY <2>1, LifeFacts, Zenon
  <2>3. cleanup' \in [at : {"none", "list", "cancel", "verify"}, attempt : Nat,
                      listed : SUBSET (1..run)]
    BY <2>1, LifeFacts, FirstAttemptTyped
  <2>4. /\ leverage' \in Nat /\ failures' \in 0..MaxFailures
        /\ token' \in {"none", "good", "rejected"} /\ tasks' \subseteq LiveTasks
        /\ (onWire \cup resting \cup excused)' \subseteq 1..run
    BY <2>1, LifeFacts
  <2> QED BY <2>1, <2>2, <2>3, <2>4, GoesOnTyped
<1>4. CASE Stop
  <2>1. UNCHANGED <<run, leverage, onWire, resting, excused, failures>> /\ phase = "live"
    BY <1>4 DEF Stop
  <2>2. CASE Exits("left")
    BY <2>1, <2>2, EndTyped DEF LifeInv, LifeTypeOK
  <2>3. CASE /\ phase' = "stopping" /\ cleanup' = FirstAttempt
             /\ tasks' = tasks \ {"worker"} /\ halted' = FALSE
             /\ UNCHANGED <<ended, config, token, placed>>
    <3>1. placed' \in BOOLEAN /\ halted' \in BOOLEAN
      BY <2>3, LifeFacts, Zenon
    <3>2. cleanup' \in [at : {"none", "list", "cancel", "verify"}, attempt : Nat,
                        listed : SUBSET (1..run)]
      BY <2>3, LifeFacts, FirstAttemptTyped
    <3>3. /\ leverage' \in Nat /\ failures' \in 0..MaxFailures
          /\ token' \in {"none", "good", "rejected"} /\ tasks' \subseteq LiveTasks
          /\ (onWire \cup resting \cup excused)' \subseteq 1..run
      BY <2>1, <2>3, LifeFacts
    <3> QED BY <2>1, <2>3, <3>1, <3>2, <3>3, GoesOnTyped
  <2> QED BY <1>4, <2>2, <2>3 DEF Stop
<1>5. CASE Crash
  <2>1. UNCHANGED <<run, leverage, onWire, resting, excused, failures>> /\ Exits("killed")
    BY <1>5 DEF Crash
  <2> QED BY <2>1, EndTyped DEF LifeInv, LifeTypeOK
<1> QED BY <1>1, <1>2, <1>3, <1>4, <1>5

LEMMA LifeInvStays == LifeInv /\ [LifeNext]_lifeVars => LifeInv'
<1> SUFFICES ASSUME LifeInv, [LifeNext]_lifeVars PROVE LifeInv'
  OBVIOUS
<1>1. CASE UNCHANGED lifeVars
  BY <1>1 DEF lifeVars, LifeInv, LifeTypeOK
<1> QED
  BY <1>1, ConfigureTyped, StartupTyped, LeverageTyped, CleanupTyped, VerifyTyped,
     LoopTyped, ExchangeTyped
     DEF LifeNext, Sweep

(* The types of the processes, for any configurations and any number of     *)
(* processes: among them, that a cleanup is under way only at startup, at   *)
(* shutdown or while the loop reconciles (cleanup_attempt).                 *)
THEOREM LifeTypesHold == LifeSpec => []LifeTypeOK
<1>1. LifeInv => LifeTypeOK
  BY DEF LifeInv
<1> QED BY <1>1, LifeInvAtFirst, LifeInvStays, PTL DEF LifeSpec

(* A leverage without a fraction is asked of the exchange as it is.         *)
LEMMA WholeDivides ==
  ASSUME NEW n \in Int, NEW w \in Nat \ {0}, n % w = 0
  PROVE  (n \div w) * w = n
OBVIOUS

(* Any configuration that is accepted, and any way through the refusals of  *)
(* startup, leaves a bot that trades with all its pauses and its sizing     *)
(* rely on (Config::validate, main).                                        *)
THEOREM TradingMeansFed == LifeSpec => []LiveMeansFed
<1>1. Fed /\ LifeInv => LiveMeansFed
  <2> SUFFICES ASSUME Fed, LifeInv, Live PROVE LiveMeansFed
    BY DEF LiveMeansFed
  <2>1. LiveRules(config)
    BY DEF Fed, Live, ConfigValid
  <2>2. config.symbols = <<"BTC-USD">> => Len(config.symbols) = 1
    OBVIOUS
  <2>3. leverage = Target(config) /\ config.strategy.leverage \in Int
    BY OfferedAssumption DEF Fed, Live, LifeInv, OfferedAssumption
  <2>4. config.strategy.leverage % Whole = 0 => leverage * Whole = config.strategy.leverage
    BY <2>3, WholeDivides, WholeAssumption DEF Target, WholeAssumption
  <2> QED BY <2>1, <2>2, <2>4 DEF Fed, Live, LiveRules, LiveMeansFed
<1> QED BY <1>1, FedAtFirst, StaysFed, LifeInvAtFirst, LifeInvStays, PTL DEF LifeSpec

----------------------------------------------------------------------------
(* The five components side by side.                                        *)

(* A step of one leaves the variables of the others alone.                  *)
LEMMA PartSteps ==
  [PartNext]_partVars =>
    /\ [Next]_vars /\ [DepthNext]_depthVars /\ [BinanceNext]_binanceVars
    /\ [QuotingNext]_priceVars /\ [LifeNext]_lifeVars
BY DEF PartNext, Risk, Depths, Binance, Precision, Life, partVars

(* Each behaviour of the five, chosen as the run chooses, is a behaviour of *)
(* every one of them: what is proved of a component holds of it there, and  *)
(* no component can disturb what another promises.                          *)
THEOREM PartsAreTheComponents ==
  PartSpec => Spec /\ DepthSpec /\ BinanceSpec /\ QuotingSpec /\ LifeSpec
<1>1. PartInit => Init /\ DepthInit /\ BinanceInit /\ QuotingInit /\ LifeInit
  BY DEF PartInit
<1>2. PartSpec => PartInit /\ [][PartNext]_partVars
  BY PTL DEF PartSpec
<1> QED
  BY <1>1, <1>2, PartSteps, PTL DEF Spec, DepthSpec, BinanceSpec, QuotingSpec, LifeSpec

(* The types of the five, in the run's own specification and for all values *)
(* of its constants.                                                        *)
THEOREM PartTypesHold == PartSpec => []PartTypeOK
<1>1. TypeOK /\ DepthTypeOK /\ BinanceTypeOK /\ QuotingTypeOK /\ LifeTypeOK => PartTypeOK
  BY DEF PartTypeOK
<1> QED
  BY <1>1, PartsAreTheComponents, GateTypeCorrect, DepthTypesHold, BinanceTypesHold,
     QuotingTypesHold, LifeTypesHold, PTL

(* And together what a bot that trades relies on: a position that has its   *)
(* fills, one continuous history, young depth, the exchange's book, an      *)
(* alpha that was earned, orders written as they were quoted, everything    *)
(* startup has to provide, and no order of an earlier process.              *)
THEOREM SurroundingsHold ==
  PartSpec => [](/\ QuotesKnowTheFills /\ HistoryContinuous /\ TradesOnFreshDepth
                 /\ BookFollowsExchange /\ AlphaUsedWasEarned /\ WrittenAsQuoted
                 /\ LiveMeansFed /\ NothingLeftBehind)
BY PartsAreTheComponents, FillsAreKnown, HistoryIsContinuous, DepthIsFresh, BookIsFollowed,
   AlphaIsEarned, OrdersWrittenAsQuoted, TradingMeansFed, RestartsLeaveNothing, PTL
=============================================================================
