---------------------------- MODULE BinanceFeed ----------------------------
(***************************************************************************)
(* The Binance side of the alpha: the client of src/binance/client.rs,     *)
(* which keeps the local book of src/binance/orderbook.rs from a REST      *)
(* snapshot and a stream of changes; the poller of src/binance/mod.rs,     *)
(* which turns books into an alpha; and SharedAlpha, read by the strategy. *)
(*                                                                         *)
(* The exchange's book maps a few prices to quantities.  Change n gives    *)
(* one price the quantity n, or takes it away; an update carries one       *)
(* change or two.  Quantities stand for what they are: which book, or      *)
(* which sample, a number came from.                                       *)
(***************************************************************************)
EXTENDS Integers, Sequences

CONSTANTS
  Prices,       \* the prices of the book
  MaxChanges,   \* bound: changes of the exchange's book
  MaxTrouble,   \* bound: failures of the network and of Binance
  Capacity,     \* of the channel to the poller (256)
  MinSamples,   \* BinanceObiCalculator.min_samples
  WarmUpdates   \* is_warmed_up: 150

ASSUME FeedAssumption ==
  /\ {MaxChanges, MaxTrouble} \subseteq Nat
  /\ {Capacity, MinSamples, WarmUpdates} \subseteq Nat \ {0}

VARIABLES
  futures,   \* the market: updates carry pu, or they do not
  history,   \* the changes of the exchange's book so far: [price, gone]
  sent,      \* the last change the stream has sent or left out
  wire,      \* updates sent and not read
  link,      \* the connection: "none", "open", "failed", "closed", "silent"
  task,      \* the client's task: "connect", "fetch", "stream", "backoff"
  book,      \* BinanceOrderbook
  events,    \* the channel to the poller
  poller,    \* "start", "reset", "run" or "pause"
  obi,       \* samples the calculator has taken
  alpha,     \* SharedAlpha: the value, which is the sample it came from,
  aged,      \*   whether last_update_ms is too old,
  count,     \*   and sample_count
  stores,    \* the stores of a reset or an update still to come
  trouble    \* bound: failures so far

exchangeVars == <<futures, history, sent>>
clientVars == <<wire, link, task, book, events>>
alphaVars == <<poller, obi, alpha, aged, count, stores>>
binanceVars == <<exchangeVars, clientVars, alphaVars, trouble>>

----------------------------------------------------------------------------
(* The book after change n, and an update of the changes f..u.              *)
EmptyBook == [p \in Prices |-> 0]

Latest(changes) == CHOOSE n \in changes : \A k \in changes : k <= n

ChangedBy(b, f, u) ==
  [p \in Prices |->
     LET mine == {n \in f..u : history[n].price = p} IN
     IF mine = {} THEN b[p]
     ELSE IF history[Latest(mine)].gone THEN 0 ELSE Latest(mine)]

BookAt(n) == ChangedBy(EmptyBook, 1, n)

(* Futures name the change before their first by pu.                        *)
Update(f, u, pu) == [first |-> f, final |-> u, prev |-> pu]

----------------------------------------------------------------------------
(* BinanceOrderbook.                                                        *)
NewBook == [levels |-> EmptyBook, snapshot |-> 0, last |-> 0, synced |-> FALSE]

(* init_from_snapshot.                                                      *)
FromSnapshot(n) ==
  [levels |-> BookAt(n), snapshot |-> n, last |-> n, synced |-> FALSE]

(* The update with which a new book joins the stream.                       *)
Joins(b, u) ==
  IF futures
    THEN u.first <= b.snapshot /\ u.final >= b.snapshot
    ELSE u.first <= b.snapshot + 1 /\ u.final > b.snapshot

(* ... and the one that starts too late for it.                             *)
Ahead(b, u) == u.first > (IF futures THEN b.snapshot ELSE b.snapshot + 1)

\* Seeded fault: any later update continues the stream.
ContinuesLate(b, u) == u.final > b.last

(* The next update of a synced book.                                        *)
Continues(b, u) ==
  IF futures THEN u.prev = b.last ELSE u.first = b.last + 1

Stale(b, u) == u.final < b.snapshot

\* Seeded fault: a gap is skipped, and the book waits for an update that fits.
VerdictNoResync(b, u) ==
  IF (b.synced /\ Continues(b, u)) \/ (~b.synced /\ Joins(b, u))
    THEN "applied" ELSE "skipped"

(* apply_update: what it returns, and the book it leaves.                   *)
Verdict(b, u) ==
  IF Stale(b, u) THEN "skipped"
  ELSE IF b.synced THEN (IF Continues(b, u) THEN "applied" ELSE "gap")
  ELSE IF Joins(b, u) THEN "applied"
  ELSE IF Ahead(b, u) THEN "gap" ELSE "skipped"

Applied(b, u) ==
  [b EXCEPT !.levels = ChangedBy(@, u.first, u.final),
            !.last = u.final, !.synced = TRUE]
----------------------------------------------------------------------------
BinanceInit ==
  /\ futures \in BOOLEAN
  /\ history = <<>> /\ sent = 0
  /\ wire = <<>> /\ link = "none" /\ task = "connect" /\ book = NewBook
  /\ events = <<>> /\ poller = "start" /\ obi = 0
  /\ alpha = 0 /\ aged = TRUE /\ count = 0 /\ stores = <<>>
  /\ trouble = 0

(* Binance.  A change is made; it goes out, alone or with those not sent    *)
(* yet; a stream may leave changes out; a connection may fail, be closed,   *)
(* or carry nothing more.                                                   *)
Change(p, gone) ==
  /\ Len(history) < MaxChanges
  /\ gone => BookAt(Len(history))[p] # 0
  /\ history' = Append(history, [price |-> p, gone |-> gone])
  /\ UNCHANGED <<futures, sent, clientVars, alphaVars, trouble>>

Send ==
  /\ sent < Len(history)
  /\ sent' = Len(history)
  /\ wire' = IF link = "open" THEN Append(wire, Update(sent + 1, sent', sent)) ELSE wire
  /\ UNCHANGED <<futures, history, link, task, book, events, alphaVars, trouble>>

LeaveOut ==
  /\ sent < Len(history) /\ Len(history) < MaxChanges /\ trouble < MaxTrouble
  /\ sent' = Len(history) /\ trouble' = trouble + 1
  /\ UNCHANGED <<futures, history, clientVars, alphaVars>>

Break(how) ==
  /\ link = "open" /\ trouble < MaxTrouble
  /\ link' = how /\ trouble' = trouble + 1
  /\ UNCHANGED <<exchangeVars, wire, task, book, events, alphaVars>>

(* connection_loop: Err and Ok both end in a back-off, a gap in a           *)
(* connection at once.                                                      *)
Leave(next) ==
  /\ link' = "none" /\ wire' = <<>> /\ task' = next
  /\ UNCHANGED <<exchangeVars, events, alphaVars>>

Running == poller \in {"run", "pause"}

Connect ==
  /\ Running /\ task = "connect"
  /\ link' = "open" /\ task' = "fetch" /\ book' = NewBook
  /\ UNCHANGED <<exchangeVars, wire, events, alphaVars, trouble>>

ConnectFails ==
  /\ Running /\ task = "connect" /\ trouble < MaxTrouble
  /\ Leave("backoff") /\ trouble' = trouble + 1
  /\ UNCHANGED book

(* fetch_snapshot: the book of now, or one that lags (while the market goes *)
(* on moving).                                                              *)
Fetch(n) ==
  /\ Running /\ task = "fetch"
  /\ n = Len(history) \/ (trouble < MaxTrouble /\ Len(history) < MaxChanges)
  /\ trouble' = IF n = Len(history) THEN trouble ELSE trouble + 1
  /\ book' = FromSnapshot(n) /\ task' = "stream"
  /\ UNCHANGED <<exchangeVars, wire, link, events, alphaVars>>

FetchFails ==
  /\ Running /\ task = "fetch" /\ trouble < MaxTrouble
  /\ Leave("backoff") /\ trouble' = trouble + 1
  /\ UNCHANGED book

(* One update read: applied and reported, skipped, or a gap.                *)
Read ==
  /\ Running /\ task = "stream" /\ wire # <<>>
  /\ \E v \in {Verdict(book, Head(wire))} :
       \/ /\ v = "applied" /\ Len(events) < Capacity
          /\ book' = Applied(book, Head(wire)) /\ wire' = Tail(wire)
          /\ events' = Append(events, "Snapshot")
          /\ UNCHANGED <<exchangeVars, link, task, alphaVars>>
       \/ /\ v = "skipped" /\ wire' = Tail(wire)
          /\ UNCHANGED <<exchangeVars, link, task, book, events, alphaVars>>
       \/ v = "gap" /\ Leave("connect") /\ UNCHANGED book
  /\ UNCHANGED trouble

(* The end of the stream: a read error, a close, or no message for          *)
(* stale_timeout_secs.                                                      *)
StreamEnds ==
  /\ Running /\ task = "stream" /\ wire = <<>> /\ link # "open"
  /\ Leave("backoff") /\ UNCHANGED <<book, trouble>>

(* The 24-hour limit, and a market as quiet as a dead connection.           *)
Rollover ==
  /\ Running /\ task = "stream" /\ trouble < MaxTrouble
  /\ Leave("backoff") /\ trouble' = trouble + 1
  /\ UNCHANGED book

(* The back-off: the poller is told, and after next_delay the loop goes on. *)
BackOff ==
  /\ Running /\ task = "backoff" /\ Len(events) < Capacity
  /\ task' = "connect" /\ events' = Append(events, "Disconnected")
  /\ UNCHANGED <<exchangeVars, wire, link, book, alphaVars, trouble>>
----------------------------------------------------------------------------
\* Seeded fault: a reset leaves the count of the last connection.
ResetStoresKeepCount ==
  << [on |-> "alpha", to |-> 0], [on |-> "aged", to |-> TRUE] >>

(* SharedAlpha.reset and update: one store after the other.                 *)
ResetStores ==
  << [on |-> "alpha", to |-> 0], [on |-> "aged", to |-> TRUE], [on |-> "count", to |-> 0] >>

UpdateStores(sample) ==
  << [on |-> "alpha", to |-> sample], [on |-> "aged", to |-> FALSE],
     [on |-> "count", to |-> count + 1] >>

Store ==
  /\ stores # <<>>
  /\ stores' = Tail(stores)
  /\ LET s == Head(stores) IN
       /\ alpha' = IF s.on = "alpha" THEN s.to ELSE alpha
       /\ aged' = IF s.on = "aged" THEN s.to ELSE aged
       /\ count' = IF s.on = "count" THEN s.to ELSE count
  /\ UNCHANGED <<exchangeVars, clientVars, poller, obi, trouble>>

Age ==
  /\ ~aged /\ aged' = TRUE
  /\ UNCHANGED <<exchangeVars, clientVars, poller, obi, alpha, count, stores, trouble>>

(* start_binance_alpha_poller: a new client and calculator, and a reset.    *)
Start ==
  /\ poller = "start" /\ poller' = "reset" /\ stores' = ResetStores
  /\ UNCHANGED <<exchangeVars, clientVars, obi, alpha, aged, count, trouble>>

StartClient ==
  /\ poller = "reset" /\ stores = <<>> /\ poller' = "run" /\ obi' = 0
  /\ wire' = <<>> /\ link' = "none" /\ task' = "connect" /\ book' = NewBook
  /\ events' = <<>>
  /\ UNCHANGED <<exchangeVars, alpha, aged, count, stores, trouble>>

(* BinanceObiCalculator.update: an alpha once there are samples enough.     *)
Calculated(sample) == IF sample < MinSamples THEN <<>> ELSE UpdateStores(sample)

TakeSnapshot ==
  /\ poller = "run" /\ stores = <<>> /\ events # <<>> /\ Head(events) = "Snapshot"
  /\ events' = Tail(events) /\ obi' = obi + 1
  /\ stores' = Calculated(obi')
  /\ UNCHANGED <<exchangeVars, wire, link, task, book, poller, alpha, aged, count, trouble>>

(* Disconnected: the calculator is cleared, the client left to itself.      *)
TakeDisconnected ==
  /\ poller = "run" /\ stores = <<>> /\ events # <<>> /\ Head(events) = "Disconnected"
  /\ events' = Tail(events) /\ obi' = 0 /\ poller' = "pause"
  /\ UNCHANGED <<exchangeVars, wire, link, task, book, alpha, aged, count, stores, trouble>>

PauseEnds ==
  /\ poller = "pause" /\ poller' = "start"
  /\ UNCHANGED <<exchangeVars, clientVars, obi, alpha, aged, count, stores, trouble>>
----------------------------------------------------------------------------
Market == \E p \in Prices, gone \in BOOLEAN : Change(p, gone)

Client ==
  \/ Connect \/ (\E n \in 0..Len(history) : Fetch(n)) \/ Read \/ StreamEnds \/ BackOff

Poller ==
  Store \/ Start \/ StartClient \/ TakeSnapshot \/ TakeDisconnected \/ PauseEnds

BinanceNext ==
  \/ Market \/ Send \/ LeaveOut
  \/ \E how \in {"failed", "closed", "silent"} : Break(how)
  \/ ConnectFails \/ FetchFails \/ Rollover
  \/ Client \/ Poller \/ Age

BinanceSpec == BinanceInit /\ [][BinanceNext]_binanceVars

(* The market moves and is reported, and the two tasks are scheduled.       *)
BinanceFairSpec ==
  /\ BinanceSpec
  /\ WF_binanceVars(Market) /\ WF_binanceVars(Send)
  /\ WF_binanceVars(Client) /\ WF_binanceVars(Poller)
----------------------------------------------------------------------------
Books == [levels : [Prices -> Nat], snapshot : Nat, last : Nat, synced : BOOLEAN]

(* The variables keep their types.                                          *)
BinanceTypeOK ==
  /\ futures \in BOOLEAN
  /\ history \in Seq([price : Prices, gone : BOOLEAN])
  /\ sent \in Nat /\ trouble \in 0..MaxTrouble
  /\ wire \in Seq([first : Nat, final : Nat, prev : Nat])
  /\ link \in {"none", "open", "failed", "closed", "silent"}
  /\ task \in {"connect", "fetch", "stream", "backoff"}
  /\ book \in Books
  /\ events \in Seq({"Snapshot", "Disconnected"}) /\ Len(events) <= Capacity
  /\ poller \in {"start", "reset", "run", "pause"}
  /\ {obi, alpha, count} \subseteq Nat /\ aged \in BOOLEAN
  /\ Len(stores) <= 3

(* A book in sync is the exchange's book as of its last update: an update   *)
(* left out, a lagging snapshot, or updates of before the snapshot never    *)
(* leave a level that is not there (orderbook.rs apply_update).             *)
BookFollowsExchange == book.synced => book.levels = BookAt(book.last)

(* What is_warmed_up and is_stale let the strategy read.                    *)
Usable == count >= WarmUpdates /\ ~aged

(* An alpha the strategy may use rests on a whole warm-up since the poller  *)
(* last started over, whatever stores of a reset or an update are still to  *)
(* come, or is the zero of a reset that is half done.  The link does not    *)
(* come into it: the poller starts over when it takes a Disconnected, until *)
(* then the alpha of before stays in use, and a reconnect after a gap in    *)
(* the sequence sends none, whatever the doc of SharedAlpha::reset says.    *)
AlphaUsedWasEarned ==
  Usable => \/ alpha >= MinSamples + WarmUpdates - 1
            \/ alpha = 0 /\ stores # <<>>

(* However the connection failed, lagged or skipped, the local book ends as *)
(* the exchange's (client.rs connection_loop, needs_resync).                *)
BookCatchesUp == <>[](book.levels = BookAt(Len(history)))
=============================================================================
