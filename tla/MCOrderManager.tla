--------------------------- MODULE MCOrderManager ---------------------------
(* Instances of OrderManager for TLC.                                       *)
EXTENDS OrderManager, TLC

QuoteAt(m, bid0, bid1, ask0, ask1, n, lv) ==
  [mid |-> m, qty |-> n, levels |-> lv,
   price |-> (<<"Buy", 0>> :> bid0) @@ (<<"Buy", 1>> :> bid1) @@
             (<<"Sell", 0>> :> ask0) @@ (<<"Sell", 1>> :> ask1)]

(* Two levels a side, sizes of two lots, and a mid that moves past resting  *)
(* prices, so that the mark of a resting order changes.                     *)
LadderQuotes == {QuoteAt(2, 2, 1, 3, 4, 2, 2), QuoteAt(3, 2, 2, 4, 4, 2, 2)}

(* One level a side, of one lot; the second quote reprices both sides.      *)
OneSidedQuotes == {QuoteAt(4, 3, 2, 4, 5, 1, 1), QuoteAt(5, 4, 3, 5, 6, 1, 1)}
AllQuotes == LadderQuotes \cup OneSidedQuotes

----------------------------------------------------------------------------
VARIABLE part \* the half of the question this behaviour is about

partVars == <<part, vars>>

(* Long histories of events around one order a side, ...                    *)
Histories ==
  /\ position = 0 /\ limit = 8
  /\ manager.nextId <= 3
  /\ mid \in {0, 4, 5}

(* ... or two levels a side under limits and positions that change, with    *)
(* fewer events.                                                            *)
Ladders ==
  /\ manager.gen <= 4 /\ manager.rejections <= 1
  /\ mid \in {0, 2, 3}
  /\ \A s \in Slots : manager.slots[s].fails = 0 /\ manager.slots[s].oid = 0

Within == IF part = "histories" THEN Histories ELSE Ladders

PartInit == part \in {"histories", "ladders"} /\ Init /\ Within

PartSpec == PartInit /\ [][Next /\ UNCHANGED part /\ Within']_partVars
=============================================================================
