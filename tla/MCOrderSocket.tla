--------------------------- MODULE MCOrderSocket ---------------------------
(* Instances of OrderSocket for TLC.                                        *)
EXTENDS OrderSocket

CONSTANTS o1, o2
OneOrder == {o1}
TwoOrders == {o1, o2}

(* Answers that name an order under a method, or by their data alone.       *)
NamedByData == {{"code", "data", "cl", "oid"}}
ByDataAlone ==
  NamedByData \cup {{"id", "code", "data", "cl", "oid"}, {"code", "data", "oid"}}
ByMethod ==
  {{"id", "code"}, {"code"}, {"id"}, {"method", "code"},
   {"method", "code", "data", "cl", "oid"}, {"method", "code", "data", "oid"},
   {"method", "data", "cl"}}
EveryKind == ByMethod \cup ByDataAlone
=============================================================================
