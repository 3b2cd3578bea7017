------------------------------ MODULE Startup ------------------------------
(***************************************************************************)
(* The life of the bot's processes, one after the other: main of           *)
(* src/main.rs from reading the configuration to the event loop and out of *)
(* it, with the REST calls of src/trading/auth.rs, crashes, and restarts   *)
(* that find orders of earlier processes at the exchange or still on their *)
(* way there.  An order is the number of the process that sent it; each    *)
(* process places one at most (Trading has the order path itself).         *)
(***************************************************************************)
EXTENDS ConfigRules, FiniteSets

CONSTANTS
  Offered,        \* configurations the bot may be started with
  StartAttempts,  \* cleanups tried at startup
  StopAttempts,   \* and at shutdown
  MaxRuns,        \* bound: processes
  MaxFailures     \* bound: REST calls that fail and tokens the exchange rejects

ASSUME StartupAssumption ==
  {StartAttempts, StopAttempts, MaxRuns, MaxFailures} \subseteq Nat \ {0}

ASSUME OfferedAssumption == \A c \in Offered : c.strategy.leverage \in Int

VARIABLES
  phase,     \* how far main has come; "down" between processes
  ended,     \* how the last process ended
  config,    \* its configuration
  run,       \* number of the process
  tasks,     \* background tasks that run
  token,     \* AuthManager: the JWT
  leverage,  \* the account's, at the exchange
  placed,    \* this process has placed its order
  onWire,    \* orders on their way
  resting,   \* orders open at the exchange
  halted,    \* a reconciliation is under way
  cleanup,   \* cleanup_attempt: step, attempt and the orders it listed
  excused,   \* history: orders on their way when a cleanup last verified
  failures   \* bound: failures so far

lifeVars == <<phase, ended, config, run, tasks, token, leverage, placed, onWire,
              resting, halted, cleanup, excused, failures>>

NotLoaded == [loaded |-> FALSE]
NoCleanup == [at |-> "none", attempt |-> 0, listed |-> {}]
FirstAttempt == [at |-> "list", attempt |-> 1, listed |-> {}]

LifeInit ==
  /\ phase = "down" /\ ended = "none" /\ config = NotLoaded /\ run = 0
  /\ tasks = {} /\ token = "none" /\ leverage = 1 /\ placed = FALSE
  /\ onWire = {} /\ resting = {} /\ halted = FALSE
  /\ cleanup = NoCleanup /\ excused = {} /\ failures = 0

exchangeOnly == <<leverage, onWire, resting>>
besidesProcess == <<exchangeOnly, excused>>

(* The process is gone, and with it everything it knew.                     *)
Exits(how) ==
  /\ phase' = "down" /\ ended' = how /\ config' = NotLoaded
  /\ tasks' = {} /\ token' = "none" /\ placed' = FALSE
  /\ halted' = FALSE /\ cleanup' = NoCleanup

MayFail == failures < MaxFailures
Fails == MayFail /\ failures' = failures + 1

Live == phase = "live" /\ config.order.enabled

----------------------------------------------------------------------------
(* The configuration, then the symbol information, without which the bot    *)
(* refuses to run.                                                          *)
Configure(c) ==
  /\ phase = "down" /\ run < MaxRuns
  /\ run' = run + 1
  /\ \/ /\ ConfigValid(c)
        /\ phase' = "symbols" /\ config' = c
        /\ UNCHANGED <<ended, tasks, token, placed, halted, cleanup>>
     \/ ~ConfigValid(c) /\ Exits("refused")
  /\ UNCHANGED <<besidesProcess, failures>>

LoadSymbols ==
  /\ phase = "symbols"
  /\ \/ config.symbol_info /\ phase' = "login"
        /\ UNCHANGED <<ended, config, tasks, token, placed, halted, cleanup, failures>>
     \/ ~config.symbol_info /\ Exits("failed") /\ UNCHANGED failures
     \/ Fails /\ Exits("failed")
  /\ UNCHANGED <<run, besidesProcess>>

NeedsAuth(c) == c.position.enabled \/ c.order.enabled \/ c.pnl.enabled

(* The position pollers start when the leverage is settled, the equity      *)
(* tracker after the socket; both only with credentials.                    *)
RiskTasks(c) ==
  (IF c.position.enabled THEN {"position"} ELSE {})
  \cup (IF c.pnl.enabled THEN {"equity"} ELSE {})

(* A failed login, or no credentials, stops a live bot only.  An observer   *)
(* with credentials has its pollers, which log in again when they poll.     *)
Login ==
  /\ phase = "login"
  /\ \/ /\ NeedsAuth(config)
        /\ token' = "good"
        /\ phase' = IF config.order.enabled THEN "leverage" ELSE "live"
        /\ tasks' = IF config.order.enabled THEN {} ELSE RiskTasks(config)
        /\ UNCHANGED <<ended, config, placed, halted, cleanup, failures>>
     \/ /\ NeedsAuth(config) /\ config.order.enabled
        /\ Fails /\ Exits("failed")
     \/ /\ ~config.order.enabled
        /\ IF NeedsAuth(config) THEN Fails ELSE UNCHANGED failures
        /\ phase' = "live"
        /\ \E credentials \in BOOLEAN :
             tasks' = IF credentials THEN RiskTasks(config) ELSE {}
        /\ UNCHANGED <<ended, config, token, placed, halted, cleanup>>
  /\ UNCHANGED <<run, besidesProcess>>

----------------------------------------------------------------------------
(* REST calls.  A query that is answered 401 logs in and asks again; a      *)
(* command (cancel, set leverage) with a rejected token fails.              *)
Queries == token' = "good"
Commands == token = "good" /\ UNCHANGED token

RejectToken ==
  /\ token = "good" /\ Fails
  /\ token' = "rejected"
  /\ UNCHANGED <<phase, ended, config, run, tasks, besidesProcess, placed, halted, cleanup>>

Target(c) == c.strategy.leverage \div Whole

(* `strategy.leverage as i32`.  The cleanup comes when the leverage is the  *)
(* configured one.                                                          *)
BeginCleanup ==
  /\ phase' = "cleanup" /\ cleanup' = FirstAttempt
  /\ tasks' = tasks \cup (RiskTasks(config) \ {"equity"})

QueryLeverage ==
  /\ phase = "leverage"
  /\ \/ /\ Queries
        /\ IF leverage = Target(config) THEN BeginCleanup
           ELSE phase' = "set leverage" /\ UNCHANGED <<tasks, cleanup>>
        /\ UNCHANGED <<ended, config, placed, halted, failures>>
     \/ Fails /\ Exits("failed")
  /\ UNCHANGED <<run, besidesProcess>>

SetLeverage ==
  /\ phase = "set leverage"
  /\ \/ /\ Commands
        /\ leverage' = Target(config)
        /\ BeginCleanup
        /\ UNCHANGED <<ended, config, placed, halted, failures>>
     \/ token = "rejected" /\ Exits("failed") /\ UNCHANGED <<leverage, failures>>
     \/ Fails /\ Exits("failed") /\ UNCHANGED leverage
  /\ UNCHANGED <<run, onWire, resting, excused>>

----------------------------------------------------------------------------
(* cleanup_attempt and its three users: the startup, the reconciliation     *)
(* worker, which never gives up, and the shutdown.  List and cancel are     *)
(* cancel_all_orders.  The submissions of this process must be settled      *)
(* (order_ws.rs); those of earlier ones it cannot know of.                  *)
Gone ==
  \/ phase = "cleanup" /\ cleanup.attempt = StartAttempts
  \/ phase = "stopping" /\ cleanup.attempt = StopAttempts

AttemptFails(nextToken) ==
  IF Gone THEN Exits("failed")
  ELSE /\ token' = nextToken
       /\ cleanup' = [cleanup EXCEPT !.at = "list", !.attempt = IF Live THEN 1 ELSE @ + 1,
                                     !.listed = {}]
       /\ UNCHANGED <<phase, ended, config, tasks, placed, halted>>

ListOrders ==
  /\ cleanup.at = "list"
  /\ Queries
  /\ cleanup' = [cleanup EXCEPT !.at = IF resting = {} THEN "verify" ELSE "cancel",
                                !.listed = resting]
  /\ UNCHANGED <<phase, ended, config, run, tasks, besidesProcess, placed, halted, failures>>

CancelListed ==
  /\ cleanup.at = "cancel"
  /\ \/ /\ Commands
        /\ resting' = resting \ cleanup.listed
        /\ cleanup' = [cleanup EXCEPT !.at = "verify"]
        /\ UNCHANGED <<phase, ended, config, tasks, placed, halted>>
     \/ token = "rejected" /\ AttemptFails(token) /\ UNCHANGED resting
  /\ UNCHANGED <<run, leverage, onWire, excused, failures>>

LiveTasks == {"position", "equity", "executor", "worker", "checker"}

(* What follows a verified cleanup: the rest of startup, quoting again, or  *)
(* the end.                                                                 *)
Verified ==
  \/ /\ phase = "cleanup"
     /\ phase' = "live" /\ Queries /\ cleanup' = NoCleanup
     /\ tasks' = tasks \cup {"executor", "worker", "checker"}
                       \cup (RiskTasks(config) \ {"position"})
     /\ UNCHANGED <<ended, config, placed, halted>>
  \/ /\ phase = "live"
     /\ halted' = FALSE /\ Queries /\ cleanup' = NoCleanup
     /\ UNCHANGED <<phase, ended, config, tasks, placed>>
  \/ phase = "stopping" /\ Exits("verified")

\* Seeded fault: the orders that were listed are looked for, not any order.
VerifyListed ==
  /\ cleanup.at = "verify"
  /\ IF resting \cap cleanup.listed = {} /\ run \notin onWire
     THEN Verified /\ excused' = onWire
     ELSE AttemptFails("good") /\ UNCHANGED excused
  /\ UNCHANGED <<run, exchangeOnly, failures>>

VerifyEmpty ==
  /\ cleanup.at = "verify"
  /\ IF resting = {} /\ run \notin onWire
     THEN Verified /\ excused' = onWire
     ELSE AttemptFails("good") /\ UNCHANGED excused
  /\ UNCHANGED <<run, exchangeOnly, failures>>

CleanupCallFails ==
  /\ cleanup.at # "none"
  /\ Fails /\ AttemptFails(token)
  /\ UNCHANGED <<run, besidesProcess>>

----------------------------------------------------------------------------
(* The event loop.                                                          *)
Place ==
  /\ Live /\ ~halted /\ ~placed
  /\ placed' = TRUE /\ onWire' = onWire \cup {run}
  /\ UNCHANGED <<phase, ended, config, run, tasks, token, leverage, resting,
                 halted, cleanup, excused, failures>>

(* Whatever makes the loop reconcile: the pauses, the order path and the    *)
(* open-order checker are in modules of their own.                          *)
Halt ==
  /\ Live /\ ~halted
  /\ halted' = TRUE /\ cleanup' = FirstAttempt
  /\ UNCHANGED <<phase, ended, config, run, tasks, token, besidesProcess, placed, failures>>

(* A signal or a fatal task failure: the worker is aborted and the final    *)
(* cleanup begins; an observer just leaves.                                 *)
Stop ==
  /\ phase = "live"
  /\ IF config.order.enabled
     THEN /\ phase' = "stopping" /\ cleanup' = FirstAttempt
          /\ tasks' = tasks \ {"worker"} /\ halted' = FALSE
          /\ UNCHANGED <<ended, config, token, placed>>
     ELSE Exits("left")
  /\ UNCHANGED <<run, besidesProcess, failures>>

(* Killed at any moment.                                                    *)
Crash ==
  /\ phase # "down"
  /\ Exits("killed")
  /\ UNCHANGED <<run, besidesProcess, failures>>

----------------------------------------------------------------------------
(* The exchange: what is on its way arrives or is lost, what rests fills.   *)
ReachExchange ==
  \E o \in onWire :
    /\ onWire' = onWire \ {o}
    /\ resting' = resting \cup {o} \/ UNCHANGED resting
    /\ UNCHANGED <<phase, ended, config, run, tasks, token, leverage, placed,
                   halted, cleanup, excused, failures>>

Filled ==
  \E o \in resting :
    /\ resting' = resting \ {o}
    /\ UNCHANGED <<phase, ended, config, run, tasks, token, leverage, placed, onWire,
                   halted, cleanup, excused, failures>>

----------------------------------------------------------------------------
Sweep == ListOrders \/ CancelListed \/ VerifyEmpty

LifeNext ==
  \/ \E c \in Offered : Configure(c)
  \/ LoadSymbols \/ Login \/ RejectToken \/ QueryLeverage \/ SetLeverage
  \/ Sweep \/ CleanupCallFails
  \/ Place \/ Halt \/ Stop \/ Crash
  \/ ReachExchange \/ Filled

LifeSpec == LifeInit /\ [][LifeNext]_lifeVars

----------------------------------------------------------------------------
LifeTypeOK ==
  /\ phase \in {"down", "symbols", "login", "leverage", "set leverage", "cleanup",
                "live", "stopping"}
  /\ ended \in {"none", "refused", "failed", "left", "verified", "killed"}
  /\ config \in Offered \cup {NotLoaded} /\ run \in 0..MaxRuns
  /\ tasks \subseteq LiveTasks /\ token \in {"none", "good", "rejected"}
  /\ leverage \in Nat /\ {placed, halted} \subseteq BOOLEAN
  /\ onWire \cup resting \cup excused \subseteq 1..run
  /\ cleanup.at \in {"none", "list", "cancel", "verify"} /\ cleanup.listed \subseteq 1..run
  /\ failures \in 0..MaxFailures
  /\ cleanup.at # "none" => phase \in {"cleanup", "stopping"} \/ halted

(* A bot that trades has everything its pauses and its sizing rely on: both *)
(* risk sources are polled, more often than they are called stale, one      *)
(* symbol's position stands for the account, the account has the leverage   *)
(* of the configuration when that is a whole number, and the tasks that     *)
(* reconcile run.  The configuration rules, the refusals of startup and     *)
(* their order make it so.  Of a leverage with a fraction, which the rules  *)
(* accept, this says nothing: the account is set to its whole part, and so  *)
(* does not match the configuration.                                        *)
LiveMeansFed ==
  Live => /\ LiveTasks \subseteq tasks
          /\ config.position.stale > config.position.interval
          /\ config.pnl.stale > config.pnl.interval
          /\ Len(config.symbols) = 1
          /\ config.strategy.leverage % Whole = 0
               => leverage * Whole = config.strategy.leverage

(* A restart forgets the orders of the process before it.  When a cleanup   *)
(* lets this one trade, or ends it verified, no order of any process rests  *)
(* at the exchange but those that were still on their way there: what       *)
(* arrives while it lists, cancels and verifies does not slip through.      *)
NothingLeftBehind ==
  /\ Live /\ ~halted => resting \ {run} \subseteq excused
  /\ phase = "down" /\ ended = "verified" => resting \subseteq excused
=============================================================================
