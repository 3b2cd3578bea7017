------------------------------ MODULE MCTrading ------------------------------
(* Instances of Trading for TLC.                                            *)
EXTENDS Trading, TLC

QuoteAt(m, bid, ask, n) ==
  [mid |-> m, qty |-> n, levels |-> 1,
   price |-> [s \in Slots |-> IF s[1] = "Buy" THEN bid ELSE ask]]

ShortTwo == -2   \* no headroom to sell under MaxDollar = 4 at a mid of 2

(* Failures that delay an answer or a cleanup.                               *)
Delays == {"response lost", "REST error"}

OneQuote == {QuoteAt(2, 2, 3, 1)}
=============================================================================
