--------------------------- MODULE MCOrchestration ---------------------------
(* Small instances of Orchestration: alpha goes by references and answers    *)
(* inquiries, nicepay gives ids of its own and fails every inquiry. mine and *)
(* yours are two merchants' payments with one reference, more is of mine's   *)
(* merchant with another; bad is malformed, abroad not in IDR, long of a     *)
(* reference with too much padding.                                         *)
EXTENDS Orchestration, TLC

CONSTANTS alpha, nicepay, mine, more, yours, bad, abroad, long, r, r2, m1, m2,
          k1, k2

Pair       == <<nicepay, alpha>>
Priorities == [v \in Provider |-> IF v = alpha THEN 1 ELSE 2]
References == [x \in Payment |-> IF x \in {mine, yours} THEN r ELSE r2]
Merchants  == [x \in Payment |-> IF x = yours THEN m2 ELSE m1]

Odd == {bad, abroad, long}

(* An odd payment is never stored: it is only created, and by one request.   *)
(* Of the others two are created, under one key or two keys of one merchant; *)
(* the third request retries or reconciles one of them. Or one payment is    *)
(* created three times, so that two failures leave no provider to the third. *)
MCInit ==
  /\ Init
  /\ \A c \in Call : job[c].payment \in Odd =>
       /\ job[c].op = "create"
       /\ \A d \in Call \ {c} : job[d].payment \notin Odd
  /\ \/ Cardinality({c \in Call : job[c].op = "create"}) <= 2
     \/ \A c \in Call : job[c] = [op |-> "create", payment |-> mine, key |-> k1]
  /\ \A c \in Call : job[c].payment = more => job[c].op = "create"
  /\ \A c \in Call : job[c].key = k2 =>
       /\ job[c].op = "create" /\ job[c].payment = mine
       /\ \E d \in Call : /\ job[d].op = "create" /\ job[d].key = k1
                          /\ job[d].payment \in {mine, more}

MCSpec == MCInit /\ [][Next]_vars

Symmetry == Permutations(Call)
=============================================================================
