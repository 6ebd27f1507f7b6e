--------------------------- MODULE PaymentLifecycle ---------------------------
(***************************************************************************)
(* A stored payment and the three operations that change it:               *)
(* cancel_payment, retry_payment and reconcile_payment of PaymentService   *)
(* (application/payment.rs), with the statements of the Postgres            *)
(* repositories they issue and the calls they make to a provider.          *)
(*                                                                         *)
(* None of the three holds a lock from its read of the payment to its      *)
(* write, so each is split at every await. A request carries what it read   *)
(* in held[r]; its write is an UPDATE ... WHERE id = ... that does not look *)
(* at the current row.                                                     *)
(*                                                                         *)
(* Which provider is available is the business of CircuitBreaker: here any *)
(* provider, or none, may be selected. Reads that fail stand for every     *)
(* database error. The failure reason, completed_at and the snapshots are  *)
(* left out.                                                               *)
(*                                                                         *)
(* The retry asks its repository for the number of attempts, and the one   *)
(* over Postgres never gives it (CountReads): as built no retry comes to a *)
(* provider. Since a read may fail anyway, all the system does as built it *)
(* may do with a repository that counts, too, and what is said of the      *)
(* latter holds of both.                                                   *)
(***************************************************************************)
EXTENDS PaymentStatus, Naturals, Sequences, FiniteSets

CONSTANTS
  Payment,           \* payments that were created and committed
  Provider,          \* registered providers
  Request,           \* cancel, retry and reconcile requests, each sent once
  Caller,            \* API keys
  Owner,             \* the merchant key that owns a payment
  Operations,        \* the keys with the operations role
  ByReference,       \* providers that identify an order by the payment's
                     \* merchant reference: a second create is no new order
  MaxRetryAttempts,  \* MAX_RETRY_ATTEMPTS
  CountReads,        \* whether count_attempts can read what it counted: not
                     \* over Postgres, where COUNT is an INT8 and the driver
                     \* refuses to decode one into the i32 that is asked for
  None

ASSUME OwnerAssumption       == Owner \in [Payment -> Caller]
ASSUME ByReferenceAssumption == ByReference \subseteq Provider
ASSUME MaxAssumption         == MaxRetryAttempts \in Nat \ {0}
ASSUME CountAssumption       == CountReads \in BOOLEAN
ASSUME RequestAssumption     == Request \cap Payment = {}

VARIABLES
  pc,         \* where each request is
  job,        \* what each request asks for
  held,       \* what each request carries over its awaits
  answer,     \* what each request was answered
  payments,   \* Postgres: the row of each payment
  attempts,   \* Postgres: payment_attempts of each payment, oldest first
  audit,      \* Postgres: audit_logs, by the request that wrote the row
  records,    \* Postgres: reconciliation_records
  orders,     \* the providers: the state of each order
  overtaken   \* history: requests whose payment was written by another after
              \* they read it

vars == <<pc, job, held, answer, payments, attempts, audit, records, orders,
          overtaken>>
tables == <<payments, attempts, audit, records>>

-----------------------------------------------------------------------------
(* The state.                                                              *)

Op  == {"cancel", "retry", "reconcile"}
Job == [op : Op, payment : Payment, caller : Caller]

Stage == {"idle", "read", "count", "call", "attempts", "query", "write",
          "audit", "committed", "done", "dropped"}

Reply == {"NONE", "OK", "NOT_FOUND", "FORBIDDEN", "REFUSED", "MAX_RETRY",
          "NO_PROVIDER", "PROVIDER_ERROR", "ERROR"}

(* What an order can be at a provider, as the adapters normalise it. NONE:  *)
(* there is no such order.                                                 *)
OrderState == {"NONE", "PENDING", "COMPLETED", "FAILED", "REFUNDED"}
Order == [at : Provider, id : Payment \cup Request]

Row == [status : Status, provider : Provider]

(* by: the request that inserted the attempt, the payment itself for the    *)
(* attempt its create inserted.                                            *)
Attempt == [by : Payment \cup Request, number : Nat, order : Order]

Found == {"NOTHING", "ERROR", "UNKNOWN"} \cup OrderState
Held == [seen : Status, count : Nat, attempt : Attempt \cup {None},
         found : Found]

Resolution == {"COMPLETED", "FAILED", "UNCERTAIN"}
Record == [by : Request, payment : Payment, attempt : Attempt,
           resolution : Resolution]

TypeOK ==
  /\ pc \in [Request -> Stage]
  /\ job \in [Request -> Job]
  /\ held \in [Request -> Held]
  /\ answer \in [Request -> Reply]
  /\ payments \in [Payment -> Row]
  /\ attempts \in [Payment -> Seq(Attempt)]
  /\ audit \subseteq Request
  /\ records \subseteq Record
  /\ orders \in [Order -> OrderState]
  /\ overtaken \subseteq Request

(* The order a create makes at v for payment p. *)
OrderOf(v, p, by) == [at |-> v, id |-> IF v \in ByReference THEN p ELSE by]

InitialAttempt(p, v) == [by |-> p, number |-> 1, order |-> OrderOf(v, p, p)]

Attempts(p) == {attempts[p][n] : n \in DOMAIN attempts[p]}

(* Every payment was just created: PENDING, with one attempt and its order. *)
Init ==
  /\ pc = [r \in Request |-> "idle"]
  /\ job \in [Request -> Job]
  /\ held = [r \in Request |-> [seen |-> "PENDING", count |-> 0,
                                attempt |-> None, found |-> "NOTHING"]]
  /\ answer = [r \in Request |-> "NONE"]
  /\ \E first \in [Payment -> Provider] :
       /\ payments = [p \in Payment |-> [status |-> "PENDING",
                                         provider |-> first[p]]]
       /\ attempts = [p \in Payment |-> <<InitialAttempt(p, first[p])>>]
       /\ orders = [o \in Order |->
                      IF \E p \in Payment : o = OrderOf(first[p], p, p)
                        THEN "PENDING" ELSE "NONE"]
  /\ audit = {}
  /\ records = {}
  /\ overtaken = {}

Goto(r, stage) == pc' = [pc EXCEPT ![r] = stage]

Finish(r, reply) ==
  /\ Goto(r, "done")
  /\ answer' = [answer EXCEPT ![r] = reply]

(* r ends without having touched a table. *)
End(r, reply) ==
  /\ Finish(r, reply)
  /\ UNCHANGED <<job, held, tables, orders, overtaken>>

At(r, op, stage) == job[r].op = op /\ pc[r] = stage

(* Requests that have read payment p and have not written it. *)
Flight == {"count", "call", "attempts", "query", "write"}

InFlight(p) == {q \in Request : job[q].payment = p /\ pc[q] \in Flight}

Overtake(p, writers) == overtaken' = overtaken \cup (InFlight(p) \ writers)

SetStatus(p, s, v) ==
  payments' = [payments EXCEPT ![p] = [status |-> s, provider |-> v]]

-----------------------------------------------------------------------------
(* The route and the read of the payment.                                  *)

(* Retry and reconcile are for operations keys only. *)
Ask(r) ==
  /\ pc[r] = "idle"
  /\ job[r].op = "cancel" \/ job[r].caller \in Operations
  /\ Goto(r, "read")
  /\ UNCHANGED <<job, held, answer, tables, orders, overtaken>>

AskForbidden(r) ==
  /\ pc[r] = "idle"
  /\ job[r].op # "cancel" /\ job[r].caller \notin Operations
  /\ End(r, "FORBIDDEN")

(* Slip: the cancel reads the payment of any merchant. *)
VisibleToAll(r) == TRUE

(* The read is scoped to the caller's merchant for a cancel only. *)
Visible(r) == job[r].op = "cancel" => Owner[job[r].payment] = job[r].caller

(* Slip: a cancel asks only that the payment is not cancelled yet. *)
EligibleAnyCancel(op, s) ==
  \/ op = "cancel"    /\ s # "CANCELLED"
  \/ op = "retry"     /\ IsRetryable(s)
  \/ op = "reconcile" /\ NeedsReconciliation(s)

(* What the operation asks of the status it read. *)
Eligible(op, s) ==
  \/ op = "cancel"    /\ ValidateTransition(s, "CANCELLED")
  \/ op = "retry"     /\ IsRetryable(s)
  \/ op = "reconcile" /\ NeedsReconciliation(s)

AfterRead(op) == CASE op = "cancel"    -> "write"
                   [] op = "retry"     -> "count"
                   [] op = "reconcile" -> "attempts"

Read(r) ==
  LET status == payments[job[r].payment].status IN
  /\ pc[r] = "read"
  /\ Visible(r) /\ Eligible(job[r].op, status)
  /\ held' = [held EXCEPT ![r].seen = status]
  /\ Goto(r, AfterRead(job[r].op))
  /\ UNCHANGED <<job, answer, tables, orders, overtaken>>

ReadNotFound(r) ==
  /\ pc[r] = "read" /\ ~Visible(r)
  /\ End(r, "NOT_FOUND")

ReadRefused(r) ==
  /\ pc[r] = "read" /\ Visible(r)
  /\ ~Eligible(job[r].op, payments[job[r].payment].status)
  /\ End(r, "REFUSED")

(* A read of any of the operations fails. *)
ReadFails(r) ==
  /\ pc[r] \in {"read", "count", "attempts"}
  /\ End(r, "ERROR")

(* A write fails and leaves nothing behind: the retry and the reconcile     *)
(* write in one transaction, the cancel in one statement.                   *)
WriteFails(r) ==
  /\ pc[r] = "write"
  /\ End(r, "ERROR")

(* The transaction of a retry or a reconciliation has committed: the answer *)
(* leaves, or the acknowledgement of the commit was lost.                   *)
Respond(r) ==
  /\ job[r].op # "cancel" /\ pc[r] = "committed"
  /\ Finish(r, "OK") \/ Finish(r, "ERROR")
  /\ UNCHANGED <<job, held, tables, orders, overtaken>>

-----------------------------------------------------------------------------
(* Cancel: one UPDATE, then the audit row, whose failure is ignored.        *)

CancelWrite(r) ==
  LET p == job[r].payment IN
  /\ At(r, "cancel", "write")
  /\ SetStatus(p, "CANCELLED", payments[p].provider)
  /\ Overtake(p, {r})
  /\ \/ Goto(r, "audit") /\ UNCHANGED answer
     \/ Finish(r, "ERROR")  \* the acknowledgement of the UPDATE was lost
  /\ UNCHANGED <<job, held, attempts, audit, records, orders>>

CancelAudit(r) ==
  /\ At(r, "cancel", "audit")
  /\ audit' \in {audit, audit \cup {r}}
  /\ Finish(r, "OK")
  /\ UNCHANGED <<job, held, payments, attempts, records, orders, overtaken>>

-----------------------------------------------------------------------------
(* Retry: count the attempts, create an order at a provider, then write the *)
(* status, the attempt and the audit row in one transaction.               *)

(* Slip: one retry too many. *)
RetryCountOneMore(r) ==
  LET count == Len(attempts[job[r].payment]) IN
  /\ At(r, "retry", "count") /\ CountReads
  /\ count <= MaxRetryAttempts
  /\ held' = [held EXCEPT ![r].count = count]
  /\ Goto(r, "call")
  /\ UNCHANGED <<job, answer, tables, orders, overtaken>>

RetryCount(r) ==
  LET count == Len(attempts[job[r].payment]) IN
  /\ At(r, "retry", "count") /\ CountReads
  /\ count < MaxRetryAttempts
  /\ held' = [held EXCEPT ![r].count = count]
  /\ Goto(r, "call")
  /\ UNCHANGED <<job, answer, tables, orders, overtaken>>

RetryExhausted(r) ==
  /\ At(r, "retry", "count") /\ CountReads
  /\ Len(attempts[job[r].payment]) >= MaxRetryAttempts
  /\ End(r, "MAX_RETRY")

RetryNoProvider(r) ==
  /\ At(r, "retry", "call")
  /\ End(r, "NO_PROVIDER")

(* A create leaves an order that the provider already knows as it is. *)
Ordered(o) == IF orders[o] = "NONE" THEN [orders EXCEPT ![o] = "PENDING"]
                                    ELSE orders

RetryAccepted(r, v) ==
  LET o == OrderOf(v, job[r].payment, r) IN
  /\ At(r, "retry", "call")
  /\ orders' = Ordered(o)
  /\ held' = [held EXCEPT ![r].attempt =
       [by |-> r, number |-> held[r].count + 1, order |-> o]]
  /\ Goto(r, "write")
  /\ UNCHANGED <<job, answer, tables, overtaken>>

(* The provider refuses, or its answer is lost with the order made. *)
RetryCallFails(r, v) ==
  /\ At(r, "retry", "call")
  /\ orders' \in {orders, Ordered(OrderOf(v, job[r].payment, r))}
  /\ Finish(r, "PROVIDER_ERROR")
  /\ UNCHANGED <<job, held, tables, overtaken>>

(* Slip: the audit row is best effort, as it is for a cancel. *)
RetryWriteUnaudited(r) ==
  LET p == job[r].payment
      a == held[r].attempt IN
  /\ At(r, "retry", "write")
  /\ SetStatus(p, "PROCESSING", a.order.at)
  /\ attempts' = [attempts EXCEPT ![p] = Append(@, a)]
  /\ audit' \in {audit, audit \cup {r}}
  /\ Overtake(p, {r})
  /\ Goto(r, "committed")
  /\ UNCHANGED <<job, held, answer, records, orders>>

RetryWrite(r) ==
  LET p == job[r].payment
      a == held[r].attempt IN
  /\ At(r, "retry", "write")
  /\ SetStatus(p, "PROCESSING", a.order.at)
  /\ attempts' = [attempts EXCEPT ![p] = Append(@, a)]
  /\ audit' = audit \cup {r}
  /\ Overtake(p, {r})
  /\ Goto(r, "committed")
  /\ UNCHANGED <<job, held, answer, records, orders>>

-----------------------------------------------------------------------------
(* Reconcile: find the attempt with the highest number, ask its provider,   *)
(* then write the record and, when the provider decided, the status.        *)

(* Slip: the attempt with the lowest number. *)
LatestFirst(p) == {a \in Attempts(p) : \A b \in Attempts(p) : a.number <= b.number}

(* ORDER BY attempt_number leaves the order of equal numbers open. *)
Latest(p) == {a \in Attempts(p) : \A b \in Attempts(p) : b.number <= a.number}

ReconcileAttempts(r) ==
  /\ At(r, "reconcile", "attempts")
  /\ \E a \in Latest(job[r].payment) :
       held' = [held EXCEPT ![r].attempt = a]
  /\ Goto(r, "query")
  /\ UNCHANGED <<job, answer, tables, orders, overtaken>>

(* The adapter's answer, a status it does not know, or a failed query. *)
ReconcileQuery(r) ==
  /\ At(r, "reconcile", "query")
  /\ \E f \in {orders[held[r].attempt.order], "UNKNOWN", "ERROR"} :
       held' = [held EXCEPT ![r].found = f]
  /\ Goto(r, "write")
  /\ UNCHANGED <<job, answer, tables, orders, overtaken>>

(* Slip: the provider's status is the resolution. *)
ResolveAsIs(found) == found

(* Slip: what is not completed has failed. *)
ResolveHasty(found) == IF found = "COMPLETED" THEN found ELSE "FAILED"

Resolve(found) == IF found \in {"COMPLETED", "FAILED"} THEN found
                                                       ELSE "UNCERTAIN"

(* The status an order's end decides. *)
Resolved(resolution) == IF resolution = "COMPLETED" THEN "SUCCESS"
                                                    ELSE "FAILED"

ReconcileWrite(r) ==
  LET p == job[r].payment
      resolution == Resolve(held[r].found) IN
  /\ At(r, "reconcile", "write")
  /\ records' = records \cup {[by |-> r, payment |-> p,
                               attempt |-> held[r].attempt,
                               resolution |-> resolution]}
  /\ IF resolution = "UNCERTAIN"
       THEN UNCHANGED <<payments, overtaken>>
       ELSE /\ SetStatus(p, Resolved(resolution), payments[p].provider)
            /\ Overtake(p, {r})
  /\ Goto(r, "committed")
  /\ UNCHANGED <<job, held, answer, attempts, audit, orders>>

-----------------------------------------------------------------------------
(* What happens from outside.                                              *)

(* The connection closes or the process dies. *)
Drop(r) ==
  /\ pc[r] \notin {"idle", "done", "dropped"}
  /\ Goto(r, "dropped")
  /\ UNCHANGED <<job, held, answer, tables, orders, overtaken>>

(* The provider settles an order, or refunds it. *)
Settle(o, s) ==
  /\ \/ orders[o] = "PENDING" /\ s \in {"COMPLETED", "FAILED"}
     \/ orders[o] = "COMPLETED" /\ s = "REFUNDED"
  /\ orders' = [orders EXCEPT ![o] = s]
  /\ UNCHANGED <<pc, job, held, answer, tables, overtaken>>

(* The writer the code does not have yet (webhook handler, timeout worker): *)
(* without it every payment stays PENDING. It follows the transition        *)
(* matrix on the current row, and reports SUCCESS only of an order that     *)
(* completed.                                                              *)
OutsideWriter(p, s) ==
  /\ ValidateTransition(payments[p].status, s) /\ s # "CANCELLED"
  /\ s = "SUCCESS" =>
       \E a \in Attempts(p) : orders[a.order] \in {"COMPLETED", "REFUNDED"}
  /\ SetStatus(p, s, payments[p].provider)
  /\ Overtake(p, {})
  /\ UNCHANGED <<pc, job, held, answer, attempts, audit, records, orders>>

-----------------------------------------------------------------------------
Serve(r) ==
  \/ Read(r) \/ ReadNotFound(r) \/ ReadRefused(r) \/ ReadFails(r)
  \/ WriteFails(r) \/ Respond(r)
  \/ CancelWrite(r) \/ CancelAudit(r)
  \/ RetryCount(r) \/ RetryExhausted(r) \/ RetryNoProvider(r)
  \/ \E v \in Provider : RetryAccepted(r, v) \/ RetryCallFails(r, v)
  \/ RetryWrite(r)
  \/ ReconcileAttempts(r) \/ ReconcileQuery(r) \/ ReconcileWrite(r)

Next ==
  \/ \E r \in Request : Ask(r) \/ AskForbidden(r) \/ Serve(r) \/ Drop(r)
  \/ \E o \in Order, s \in OrderState : Settle(o, s)
  \/ \E p \in Payment, s \in Status : OutsideWriter(p, s)

Spec == Init /\ [][Next]_vars

-----------------------------------------------------------------------------
(* Safety.                                                                 *)

(* What a status may become: a move of the matrix, or the retry that the    *)
(* service exempts from it.                                                *)
Legal(from, to) == \/ ValidateTransition(from, to)
                   \/ IsRetryable(from) /\ to = "PROCESSING"

(* A change of a status is legal for the row it overwrites, or is made by   *)
(* a request whose payment was written between its read and its write.      *)
LegalChange ==
  \A p \in Payment : payments'[p].status # payments[p].status =>
    \/ Legal(payments[p].status, payments'[p].status)
    \/ \E r \in overtaken : /\ job[r].payment = p
                            /\ pc[r] = "write" /\ pc'[r] # "write"

(* Every change of a status is legal for the row it overwrites, not only    *)
(* for the row that was read, unless the request was overtaken.             *)
StatusChangesLegal == [][LegalChange]_vars

(* The n-th attempt of a payment has number n, within the retry limit,      *)
(* unless the retry that made it was overtaken; even then its number is a   *)
(* used one, never one too high, and within the limit.                      *)
NumbersAreSound ==
  \A p \in Payment : \A n \in DOMAIN attempts[p] :
    LET a == attempts[p][n] IN
    /\ a.number \in 1..n
    /\ a.number <= MaxRetryAttempts
    /\ a.number = n \/ a.by \in overtaken

(* What reconciliation wrote down is what an order of that payment came to, *)
(* however late the answer is written; and however requests race, a payment *)
(* is SUCCESS only if some order of its attempts completed.                  *)
ResolutionsAreReal ==
  /\ \A c \in records :
       /\ c.attempt \in Attempts(c.payment)
       /\ c.resolution = "COMPLETED" =>
            orders[c.attempt.order] \in {"COMPLETED", "REFUNDED"}
       /\ c.resolution = "FAILED" => orders[c.attempt.order] = "FAILED"
  /\ \A p \in Payment : payments[p].status = "SUCCESS" =>
       \E a \in Attempts(p) : orders[a.order] \in {"COMPLETED", "REFUNDED"}

(* A retry leaves its attempt and its audit row, or neither, under a        *)
(* provider that has an order for it, and leaves them to be answered OK;    *)
(* one that was answered otherwise left them only if the answer is the      *)
(* error of a commit whose acknowledgement was lost. The provider shown for *)
(* a payment is one that was asked; and an order that no attempt records    *)
(* belongs to a retry that is not answered yet, was dropped, or was         *)
(* answered with an error.                                                 *)
RetriesAreRecorded ==
  /\ \A p \in Payment :
       /\ \A a \in Attempts(p) : /\ orders[a.order] # "NONE"
                                 /\ a.by \in Request => a.by \in audit
       /\ \E a \in Attempts(p) : payments[p].provider = a.order.at
  /\ \A r \in Request : job[r].op = "retry" =>
       LET recorded == \E a \in Attempts(job[r].payment) : a.by = r IN
       /\ r \in audit \/ answer[r] = "OK" => recorded
       /\ recorded => \/ pc[r] \in {"committed", "dropped"}
                     \/ answer[r] \in {"OK", "ERROR"}
       /\ \A o \in Order : o.id = r /\ orders[o] # "NONE" =>
            \/ recorded
            \/ pc[r] \in {"write", "dropped"}
            \/ answer[r] \in {"PROVIDER_ERROR", "ERROR"}

(* A reconciliation asks about the attempt that was made last, unless the   *)
(* payment was written since the reconciliation read it, or the last retry  *)
(* was itself overtaken and shares its number with an earlier one.          *)
AsksMostRecent ==
  \A r \in Request : At(r, "reconcile", "query") =>
    LET all  == attempts[job[r].payment]
        last == all[Len(all)] IN
    \/ held[r].attempt = last
    \/ r \in overtaken
    \/ last.by \in overtaken

(* A payment is cancelled only at the wish of its owner, and retried or     *)
(* reconciled only by operations.                                          *)
EffectsAreEntitled ==
  /\ \A p \in Payment : payments[p].status = "CANCELLED" =>
       \E r \in Request : /\ job[r] = [op |-> "cancel", payment |-> p,
                                       caller |-> Owner[p]]
                          /\ pc[r] \in {"audit", "done", "dropped"}
  /\ \A p \in Payment : \A a \in Attempts(p) :
       a.by # p => job[a.by].payment = p /\ job[a.by].caller \in Operations
  /\ \A c \in records : job[c.by].caller \in Operations

(* Requests that have written a status to payment p: retries whose attempt  *)
(* is there, reconciliations that recorded how its order ended.             *)
Retried(p) == {r \in Request : \E a \in Attempts(p) : a.by = r}

Reconciled(p) == {r \in Request : \E c \in records :
                    c.by = r /\ c.payment = p /\ c.resolution # "UNCERTAIN"}

(* A cancel that is told OK stands: the payment is CANCELLED, unless a       *)
(* retry or a reconciliation that was overtaken has written it. Whether     *)
(* that one was answered, or dropped after it committed, does not matter.   *)
CancelsStand ==
  \A r \in Request :
    LET p == job[r].payment IN
    At(r, "cancel", "audit") \/ (job[r].op = "cancel" /\ answer[r] = "OK") =>
      \/ payments[p].status = "CANCELLED"
      \/ overtaken \cap (Retried(p) \cup Reconciled(p)) # {}

(* However retries race, and whatever they are answered, the limit is       *)
(* exceeded by at most as many attempts as overtaken retries made.          *)
ExcessIsRaces ==
  \A p \in Payment :
    Len(attempts[p]) <= MaxRetryAttempts + Cardinality(overtaken \cap Retried(p))

-----------------------------------------------------------------------------
(* Refinement of the promise.                                              *)

Book == INSTANCE PaymentBook WITH
  wish  <- [r \in Request |-> [op |-> job[r].op, payment |-> job[r].payment]],
  phase <- [r \in Request |-> IF pc[r] \in {"idle", "read"} THEN "new"
                             ELSE IF pc[r] \in Flight THEN "begun" ELSE "over"],
  book  <- [p \in Payment |-> payments[p].status],
  tries <- [p \in Payment |-> Len(attempts[p])],
  paid  <- {p \in Payment : \E a \in Attempts(p) :
                              orders[a.order] \in {"COMPLETED", "REFUNDED"}},
  stale <- overtaken

(* Each cancel, retry and reconciliation takes effect at most once and as   *)
(* if in one step, under the rules of that step, or is overtaken.           *)
KeepsBook == Book!Spec

-----------------------------------------------------------------------------
(* What the documents say and the code does not do.                        *)

(* FR-OPS-03: a payment that is SUCCESS cannot be cancelled.                *)
SuccessIsNotCancelled ==
  [][\A p \in Payment : payments[p].status = "SUCCESS" =>
                        payments'[p].status # "CANCELLED"]_vars

(* Retry manual of a failed payment: a retry that finds it retryable, with  *)
(* attempts left, can go on to a provider.                                 *)
RetriesCanProceed ==
  \A r \in Request :
    /\ At(r, "retry", "count")
    /\ Len(attempts[job[r].payment]) < MaxRetryAttempts
    => ENABLED RetryCount(r)
=============================================================================
