---------------------------- MODULE MCPaymentSearch ----------------------------
(* Four payments on three stamps: pages of one or two rows, ties, and a     *)
(* late commit with an early stamp.                                         *)
EXTENDS PaymentSearch, TLC

CONSTANTS p1, p2, p3, p4

MCPayment == {p1, p2, p3, p4}
MCStamp == 1..3
MCAskedPage == {None, 0, 2}
MCAskedLimit == {None, 0, 2, 3}

PaymentSymmetry == Permutations(Payment)
=============================================================================
