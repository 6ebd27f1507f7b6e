----------------------------- MODULE PaymentStatus -----------------------------
(***************************************************************************)
(* The statuses of a payment and the rules on them (domain/status.rs,      *)
(* domain/rules.rs). Constant operators only.                              *)
(***************************************************************************)

Status == {"PENDING", "PROCESSING", "SUCCESS", "FAILED", "PENDING_RETRY",
           "PENDING_RECONCILIATION", "CANCELLED"}

IsFinal(s) == s \in {"SUCCESS", "FAILED", "CANCELLED"}

NeedsReconciliation(s) == s = "PENDING_RECONCILIATION"

(* Slip: any final failure may be retried. *)
IsRetryableIfCancelled(s) == s \in {"PENDING_RETRY", "FAILED", "CANCELLED"}

IsRetryable(s) == s \in {"PENDING_RETRY", "FAILED"}

(* The transition matrix; a final status is refused before it is looked up. *)
ValidateTransition(from, to) ==
  /\ ~IsFinal(from)
  /\ \/ from = "PENDING" /\ to = "PROCESSING"
     \/ from = "PROCESSING" /\ to \in {"SUCCESS", "FAILED", "PENDING_RETRY",
                                       "PENDING_RECONCILIATION"}
     \/ from = "PENDING_RETRY" /\ to = "PROCESSING"
     \/ from = "PENDING_RECONCILIATION"
        /\ to \in {"PROCESSING", "SUCCESS", "FAILED"}
     \/ to = "CANCELLED"
=============================================================================
