------------------------ MODULE MCOpenOrdersChecker ------------------------
(* Instances of OpenOrdersChecker for TLC.                                  *)
EXTENDS OpenOrdersChecker
CONSTANTS b1, s1, f1
TwoBuys == {b1, f1}
OneSell == {s1}
TheForeign == {f1}

(* An ending unheard, a foreign order or an age, one at a time; a foreign   *)
(* order in a book of one side.  What this leaves out no fairness asks for. *)
OneAtATime ==
  LET foreign == \E f \in Foreign : ex[f] # "none"
  IN /\ unheard > 0 => aged = {} /\ ~foreign
     /\ foreign => aged = {} /\ \A s \in Sells : ex[s] = "none"

OneSpec == Init /\ [][Next /\ OneAtATime']_vars /\ Fairness
=============================================================================
