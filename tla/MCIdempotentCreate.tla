-------------------------- MODULE MCIdempotentCreate --------------------------
(***************************************************************************)
(* Instances of IdempotentCreate for TLC.                                   *)
(***************************************************************************)
EXTENDS IdempotentCreate, TLC

CONSTANTS k1, k2, b1, b2, ref1, ref2

(* Bodies that differ in everything, the merchant reference included. *)
DistinctRefs == b1 :> ref1 @@ b2 :> ref2

(* One body, and so one merchant reference. *)
OneRef == b1 :> ref1

RequestSymmetry == Permutations(Request)

(* Requests of any route with one key; or creates, one of them under a      *)
(* second key: keys meet only at the merchant reference of a create.        *)
OneOtherKey ==
  \A r, q \in Request : job[r].key = k2 =>
    /\ job[r].body = b1 /\ job[q].route = "create"
    /\ r # q => job[q].key = k1

OneOtherKeyInit == Init /\ OneOtherKey

OneOtherKeySpec == OneOtherKeyInit /\ [][Next]_vars
=============================================================================
