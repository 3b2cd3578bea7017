--------------------------- MODULE ExposureLedger ---------------------------
(***************************************************************************)
(* What the trading loop promises about exposure, whatever its tasks do:   *)
(* an order can rest at the exchange only while the order manager keeps it *)
(* in a slot, where its notional is reserved; the manager forgets an order *)
(* only when it is not exposed, and a forgotten order never becomes        *)
(* exposed afterwards.                                                     *)
(***************************************************************************)
CONSTANT OrderIds

VARIABLES
  used,     \* orders that have been given an identity
  tracked,  \* orders some slot accounts for
  exposed,  \* orders on their way to the book or in it
  spent     \* orders whose exposure is over

vars == <<used, tracked, exposed, spent>>

Init == used = {} /\ tracked = {} /\ exposed = {} /\ spent = {}

(* New identities are handed out; an order refused at once is not kept.     *)
Place(new, kept) ==
  /\ new # {} /\ new \cap used = {} /\ kept \subseteq new
  /\ used' = used \cup new
  /\ tracked' = tracked \cup kept
  /\ UNCHANGED <<exposed, spent>>

Expose(id) ==
  /\ id \in tracked \ (exposed \cup spent)
  /\ exposed' = exposed \cup {id}
  /\ UNCHANGED <<used, tracked, spent>>

(* A submission that never reached the exchange was not exposed.            *)
Lose(id) ==
  /\ id \in tracked \ (exposed \cup spent)
  /\ spent' = spent \cup {id}
  /\ UNCHANGED <<used, tracked, exposed>>

End(ids) ==
  /\ ids # {} /\ ids \subseteq exposed
  /\ exposed' = exposed \ ids
  /\ spent' = spent \cup ids
  /\ UNCHANGED <<used, tracked>>

Forget(ids) ==
  /\ ids # {} /\ ids \subseteq tracked \ exposed
  /\ tracked' = tracked \ ids
  /\ UNCHANGED <<used, exposed, spent>>

Next ==
  \/ \E new \in SUBSET OrderIds : \E kept \in SUBSET new : Place(new, kept)
  \/ \E id \in OrderIds : Expose(id) \/ Lose(id)
  \/ \E ids \in SUBSET OrderIds : End(ids) \/ Forget(ids)

Spec == Init /\ [][Next]_vars

----------------------------------------------------------------------------
(* What the ledger comes to: exposure is tracked and not over, an order the *)
(* manager has forgotten is never exposed again, nor one whose exposure is  *)
(* over.                                                                    *)
Balanced ==
  /\ exposed \subseteq tracked /\ tracked \subseteq used
  /\ exposed \cap spent = {}

Forgotten(id) == id \in used \ tracked

Spent(id) == id \in spent
=============================================================================
