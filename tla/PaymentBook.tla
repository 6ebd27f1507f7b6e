------------------------------ MODULE PaymentBook ------------------------------
(***************************************************************************)
(* What cancel, retry and reconcile promise of a stored payment, without    *)
(* saying how they are carried out: each takes effect at most once, in one  *)
(* step, under the rules as they apply at that very step. The only          *)
(* exception is a request that has begun when somebody else writes its      *)
(* payment: from then on it is stale, and its effect is not checked again.  *)
(***************************************************************************)
EXTENDS PaymentStatus, Naturals

CONSTANTS Payment, Request, MaxRetryAttempts

VARIABLES
  wish,   \* the operation and the payment of each request
  phase,  \* new, begun, or over
  book,   \* the status of each payment
  tries,  \* the number of its attempts
  paid,   \* the payments of which some attempt was paid for
  stale   \* the requests whose payment was written since they began

vars == <<wish, phase, book, tries, paid, stale>>

Wish == [op : {"cancel", "retry", "reconcile"}, payment : Payment]

Init ==
  /\ wish \in [Request -> Wish]
  /\ phase = [r \in Request |-> "new"]
  /\ book = [p \in Payment |-> "PENDING"]
  /\ tries = [p \in Payment |-> 1]
  /\ paid = {}
  /\ stale = {}

(* The operations a status admits. *)
Admits(s, op) ==
  \/ op = "cancel"    /\ ValidateTransition(s, "CANCELLED")
  \/ op = "retry"     /\ IsRetryable(s)
  \/ op = "reconcile" /\ NeedsReconciliation(s)

(* The writer turns p to s; whoever else has begun on p is stale. *)
Write(p, s, writer) ==
  /\ book' = [book EXCEPT ![p] = s]
  /\ stale' = stale \cup ({q \in Request : /\ wish[q].payment = p
                                           /\ phase[q] = "begun"} \ {writer})

Close(r) == phase' = [phase EXCEPT ![r] = "over"]

Begin(r) ==
  /\ phase[r] = "new" /\ Admits(book[wish[r].payment], wish[r].op)
  /\ phase' = [phase EXCEPT ![r] = "begun"]
  /\ UNCHANGED <<wish, book, tries, paid, stale>>

(* Refused, failed or dropped: no effect, and none later. *)
GiveUp(r) ==
  /\ phase[r] # "over"
  /\ Close(r)
  /\ UNCHANGED <<wish, book, tries, paid, stale>>

MayTakeEffect(r, op) ==
  /\ wish[r].op = op /\ phase[r] = "begun"
  /\ r \in stale \/ Admits(book[wish[r].payment], op)

Cancel(r) ==
  /\ MayTakeEffect(r, "cancel")
  /\ Write(wish[r].payment, "CANCELLED", r)
  /\ Close(r)
  /\ UNCHANGED <<wish, tries, paid>>

(* The new attempt may be paid for already, if it is of an order made       *)
(* before.                                                                 *)
Retry(r) ==
  LET p == wish[r].payment IN
  /\ MayTakeEffect(r, "retry")
  /\ r \in stale \/ tries[p] < MaxRetryAttempts
  /\ Write(p, "PROCESSING", r)
  /\ tries' = [tries EXCEPT ![p] = @ + 1]
  /\ paid' \in {paid, paid \cup {p}}
  /\ Close(r)
  /\ UNCHANGED wish

(* SUCCESS only of a payment that is paid, stale or not. *)
Reconcile(r) ==
  LET p == wish[r].payment IN
  /\ MayTakeEffect(r, "reconcile")
  /\ \/ UNCHANGED <<book, stale>>
     \/ p \in paid /\ Write(p, "SUCCESS", r)
     \/ Write(p, "FAILED", r)
  /\ Close(r)
  /\ UNCHANGED <<wish, tries, paid>>

(* Whoever else writes statuses keeps to the matrix; no request is spared. *)
Advance(p, s) ==
  /\ ValidateTransition(book[p], s) /\ s # "CANCELLED"
  /\ s = "SUCCESS" => p \in paid
  /\ book' = [book EXCEPT ![p] = s]
  /\ stale' = stale \cup {q \in Request : /\ wish[q].payment = p
                                          /\ phase[q] = "begun"}
  /\ UNCHANGED <<wish, phase, tries, paid>>

(* What was paid stays paid. *)
Pay ==
  /\ \E more \in SUBSET Payment : paid' = paid \cup more
  /\ UNCHANGED <<wish, phase, book, tries, stale>>

Next ==
  \/ \E r \in Request : \/ Begin(r) \/ GiveUp(r)
                        \/ Cancel(r) \/ Retry(r) \/ Reconcile(r)
  \/ \E p \in Payment, s \in Status : Advance(p, s)
  \/ Pay

Spec == Init /\ [][Next]_vars
=============================================================================
