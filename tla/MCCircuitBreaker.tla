--------------------------- MODULE MCCircuitBreaker ---------------------------
(* A small instance of CircuitBreaker: three providers, of which the two     *)
(* that are registered first have the same priority.                         *)
EXTENDS CircuitBreaker

CONSTANTS alpha, beta, gamma

Trio == <<gamma, beta, alpha>>

(* beta and gamma tie. *)
Priorities == [v \in Provider |-> IF v = alpha THEN 1 ELSE 2]
=============================================================================
