--------------------------- MODULE MCAuthentication ---------------------------
(* A small instance of Authentication: the shop's second key and the bank's  *)
(* key share a prefix.                                                       *)
EXTENDS Authentication

CONSTANTS shop, bank, k1, k2, k3, a, b, p1, p2

Merchants == [k \in Key |-> IF k = k3 THEN bank ELSE shop]
Prefixes  == [k \in Key |-> IF k = k1 THEN a ELSE b]
Payments  == [p \in Payment |-> IF p = p1 THEN shop ELSE bank]
=============================================================================
