-------------------------- MODULE MCPaymentLifecycle --------------------------
(* Small instances of PaymentLifecycle: a payment of a shop, which may not    *)
(* operate, an operations key, which owns nothing, a provider with ids of its *)
(* own and one that goes by the merchant reference.                           *)
EXTENDS PaymentLifecycle, TLC

CONSTANTS shop, ops

ShopOwns == [p \in Payment |-> shop]

RequestSymmetry == Permutations(Request)
=============================================================================
