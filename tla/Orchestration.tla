---------------------------- MODULE Orchestration ----------------------------
(***************************************************************************)
(* The components put together: creates, retries and reconciliations of     *)
(* several merchants' payments go through the selection of a provider, the  *)
(* breakers of CircuitBreaker, the provider adapters (providers/alpha,      *)
(* beta, gamma, nicepay) and the orders at the providers, and end in the    *)
(* tables.                                                                 *)
(*                                                                         *)
(* Every step that looks at or moves a breaker is a step of CircuitBreaker, *)
(* conjoined with what the service and the adapter do in it. Between the    *)
(* call of a create and its answer stands the provider, which may take the  *)
(* order or not: an answer that is lost, late or unreadable is the same     *)
(* error as a refusal.                                                     *)
(*                                                                         *)
(* A payment is a merchant with one of its references: Postgres stores one  *)
(* row for it. Two merchants may use one reference. The reads that begin a  *)
(* retry or a reconciliation are one step here; PaymentLifecycle takes them *)
(* apart. IdempotentCreate has the middleware: the requests here are those  *)
(* that it lets through to the handlers, and two of one key are among them  *)
(* (the first had not committed when the second was looked up, or its row   *)
(* has expired).                                                           *)
(***************************************************************************)
EXTENDS PaymentStatus, Integers, Sequences, FiniteSets

CONSTANTS
  Provider, Registered, Priority, Configured, Threshold, OpenDuration,
                     \* as in CircuitBreaker
  Call,              \* create, retry and reconcile requests, each sent once
  Payment,           \* a merchant and a merchant_reference
  Reference,         \* what the merchant_reference is
  RefOf,             \* the reference of each payment
  Merchant,          \* merchants
  MerchantOf,        \* the merchant of each payment
  Key,               \* idempotency keys
  Malformed,         \* payments whose fields the validation refuses
  Foreign,           \* payments in a currency other than IDR
  Oversized,         \* payments whose reference is short enough trimmed, and
                     \* too long for its column as it is
  ByReference,       \* adapters that name an order by the reference
  Inquirable,        \* adapters that can ask for the status of an order
  MaxRetryAttempts,
  CountReads,        \* whether count_attempts can read what it counted, as in
                     \* PaymentLifecycle
  None

ASSUME SelectionAssumption == /\ Registered \in Seq(Provider)
                              /\ \A v \in Provider :
                                   \E n \in DOMAIN Registered :
                                     Registered[n] = v
                              /\ Priority \in [Provider -> Int]
                              /\ Configured \subseteq Provider
ASSUME BreakerAssumption   == Threshold \in Nat /\ OpenDuration \in Nat
ASSUME RefAssumption       == RefOf \in [Payment -> Reference]
ASSUME MerchantAssumption  == MerchantOf \in [Payment -> Merchant]
ASSUME KindAssumption      == ByReference \subseteq Provider
ASSUME RetriesAssumption   == MaxRetryAttempts \in Nat /\ CountReads \in BOOLEAN

VARIABLES
  breaker, call, streak, quiet, settled,  \* of CircuitBreaker
  pc,        \* where each request is
  job,       \* what each request asks for
  held,      \* the order a request carries to its write, and what was found
  answer,    \* what each request was answered
  payments,  \* Postgres: the row of each payment, if there is one
  attempts,  \* Postgres: the attempts of each payment, oldest first
  orders,    \* the providers: the state of each order
  placedBy,  \* history: the request an order was first placed by
  faulty     \* history: providers that failed a request they were sent

CB == INSTANCE CircuitBreaker

breakers == <<breaker, call, streak, quiet, settled>>
tables   == <<payments, attempts>>
market   == <<orders, placedBy>>
vars     == <<breakers, pc, job, held, answer, tables, market, faulty>>

-----------------------------------------------------------------------------
(* The state.                                                              *)

Job == [op : {"create", "retry", "reconcile"}, payment : Payment, key : Key]

(* sent: the request left for the provider. taken: the provider has done    *)
(* what it was asked, the answer is under way. committed: the tables have   *)
(* what the request wrote, and it is not answered.                         *)
Stage == {"idle", "select", "sent", "taken", "query", "write", "committed",
          "done", "dropped"}

Reply == {"NONE", "CREATED", "OK", "VALIDATION_ERROR", "CONFLICT",
          "PROVIDER_ERROR", "PROVIDER_UNAVAILABLE", "NOT_FOUND", "REFUSED",
          "MAX_RETRY"}

Order      == [at : Provider, id : Reference \cup Call]
OrderState == {"NONE", "PENDING", "COMPLETED", "FAILED", "REFUNDED"}
Found      == {"NOTHING", "ERROR", "UNKNOWN"} \cup OrderState

Attempt == [number : Nat, order : Order]
Row     == [status : Status, completed : BOOLEAN, key : Key]
Held    == [number : Nat, order : Order \cup {None}, found : Found]

ASSUME NoneAssumption == None \notin Call \cup Provider \cup Row

TypeOK ==
  /\ CB!TypeOK
  /\ pc \in [Call -> Stage]
  /\ job \in [Call -> Job]
  /\ held \in [Call -> Held]
  /\ answer \in [Call -> Reply]
  /\ payments \in [Payment -> Row \cup {None}]
  /\ attempts \in [Payment -> Seq(Attempt)]
  /\ orders \in [Order -> OrderState]
  /\ placedBy \in [Order -> Call \cup {None}]
  /\ faulty \subseteq Provider

Init ==
  /\ CB!Init
  /\ pc = [c \in Call |-> "idle"]
  /\ job \in [Call -> Job]
  /\ held = [c \in Call |-> [number |-> 0, order |-> None,
                             found |-> "NOTHING"]]
  /\ answer = [c \in Call |-> "NONE"]
  /\ payments = [p \in Payment |-> None]
  /\ attempts = [p \in Payment |-> <<>>]
  /\ orders = [o \in Order |-> "NONE"]
  /\ placedBy = [o \in Order |-> None]
  /\ faulty = {}

At(c, op, stage) == job[c].op = op /\ pc[c] = stage

Stored(p) == payments[p] # None

Goto(c, stage) == pc' = [pc EXCEPT ![c] = stage]

Finish(c, reply) ==
  /\ Goto(c, "done")
  /\ answer' = [answer EXCEPT ![c] = reply]

(* c ends with nothing done. *)
End(c, reply) ==
  /\ Finish(c, reply)
  /\ UNCHANGED <<breakers, job, held, tables, market, faulty>>

-----------------------------------------------------------------------------
(* Before the call: the checks of the request and of the stored payment.    *)

CreateRefused(c) ==
  /\ At(c, "create", "idle") /\ job[c].payment \in Malformed
  /\ End(c, "VALIDATION_ERROR")

(* The reference is measured without its padding and passed on with it;     *)
(* whether the merchant used it before is not looked up.                   *)
CreateAdmitted(c) ==
  /\ At(c, "create", "idle") /\ job[c].payment \notin Malformed
  /\ CB!SelectStarts(c)
  /\ Goto(c, "select")
  /\ held' = [held EXCEPT ![c].number = 1]
  /\ UNCHANGED <<job, answer, tables, market, faulty>>

Retryable(p) == IsRetryable(payments[p].status)

RetryAdmitted(c) ==
  LET p == job[c].payment IN
  /\ At(c, "retry", "idle") /\ Stored(p) /\ Retryable(p) /\ CountReads
  /\ Len(attempts[p]) < MaxRetryAttempts
  /\ CB!SelectStarts(c)
  /\ Goto(c, "select")
  /\ held' = [held EXCEPT ![c].number = Len(attempts[p]) + 1]
  /\ UNCHANGED <<job, answer, tables, market, faulty>>

RetryRefused(c) ==
  LET p == job[c].payment IN
  /\ At(c, "retry", "idle") /\ Stored(p)
  /\ \/ ~Retryable(p) /\ End(c, "REFUSED")
     \/ /\ Retryable(p) /\ CountReads /\ Len(attempts[p]) >= MaxRetryAttempts
        /\ End(c, "MAX_RETRY")

ReconcileRefused(c) ==
  LET p == job[c].payment IN
  /\ At(c, "reconcile", "idle") /\ Stored(p)
  /\ ~NeedsReconciliation(payments[p].status)
  /\ End(c, "REFUSED")

NotFound(c) ==
  /\ pc[c] = "idle" /\ job[c].op # "create" /\ ~Stored(job[c].payment)
  /\ End(c, "NOT_FOUND")

(* A database error is a validation error to the service, and so is a count *)
(* that cannot be read.                                                    *)
ReadFails(c) ==
  /\ pc[c] = "idle" /\ job[c].op # "create"
  /\ End(c, "VALIDATION_ERROR")

-----------------------------------------------------------------------------
(* The selection and the create at the provider.                           *)

Look(c) ==
  /\ CB!SelectLooks(c)
  /\ UNCHANGED <<pc, job, held, answer, tables, market, faulty>>

NoProvider(c) ==
  /\ CB!SelectFails(c)
  /\ Finish(c, "PROVIDER_UNAVAILABLE")
  /\ UNCHANGED <<job, held, tables, market, faulty>>

Send(c) ==
  /\ CB!CreateStarts(c)
  /\ Goto(c, "sent")
  /\ UNCHANGED <<job, held, answer, tables, market, faulty>>

(* alpha and gamma send the reference as the order's id, which the provider *)
(* knows it by ever after; beta and nicepay are given an id.                *)
OrderOf(v, c) ==
  [at |-> v, id |-> IF v \in ByReference THEN RefOf[job[c].payment] ELSE c]

(* The adapter refuses any currency but IDR itself, and the breaker counts  *)
(* that as a failure of the provider.                                      *)
AdapterRefuses(c) ==
  /\ pc[c] = "sent" /\ job[c].payment \in Foreign
  /\ CB!CallFails(c)
  /\ Finish(c, "PROVIDER_ERROR")
  /\ UNCHANGED <<job, held, tables, market, faulty>>

(* The provider takes the order, or finds that it has it.                  *)
ProviderTakes(c) ==
  LET o == OrderOf(call[c].at, c) IN
  /\ pc[c] = "sent" /\ job[c].payment \notin Foreign
  /\ IF orders[o] = "NONE"
       THEN /\ orders' = [orders EXCEPT ![o] = "PENDING"]
            /\ placedBy' = [placedBy EXCEPT ![o] = c]
       ELSE UNCHANGED market
  /\ Goto(c, "taken")
  /\ UNCHANGED <<breakers, job, held, answer, tables, faulty>>

(* Slip: the request is tried once more, whatever became of the order. *)
CreateFailsOver(c) ==
  /\ \/ pc[c] = "sent" /\ job[c].payment \notin Foreign
     \/ pc[c] = "taken"
  /\ CB!CallFails(c)
  /\ faulty' = faulty \cup {call[c].at}
  /\ Goto(c, "idle")
  /\ UNCHANGED <<job, held, answer, tables, market>>

(* The provider refuses, the request or the answer is lost or late, or the  *)
(* answer does not parse.                                                  *)
CreateFails(c) ==
  /\ \/ pc[c] = "sent" /\ job[c].payment \notin Foreign
     \/ pc[c] = "taken"
  /\ CB!CallFails(c)
  /\ faulty' = faulty \cup {call[c].at}
  /\ Finish(c, "PROVIDER_ERROR")
  /\ UNCHANGED <<job, held, tables, market>>

CreateAnswered(c) ==
  /\ pc[c] = "taken"
  /\ CB!CallSucceeds(c)
  /\ held' = [held EXCEPT ![c].order = OrderOf(call[c].at, c)]
  /\ Goto(c, "write")
  /\ UNCHANGED <<job, answer, tables, market, faulty>>

-----------------------------------------------------------------------------
(* The writes.                                                             *)

(* Slip: only success completes a payment. *)
SetStatusOfSuccess(p, s) ==
  payments' = [payments EXCEPT ![p] =
                 [status |-> s, completed |-> @.completed \/ s = "SUCCESS",
                  key |-> @.key]]

(* completed_at is set by a final status, and kept by any other.            *)
SetStatus(p, s) ==
  payments' = [payments EXCEPT ![p] =
                 [status |-> s, completed |-> @.completed \/ IsFinal(s),
                  key |-> @.key]]

AddAttempt(c) ==
  attempts' = [attempts EXCEPT ![job[c].payment] =
                 Append(@, [number |-> held[c].number, order |-> held[c].order])]

(* Another payment of the merchant was created under the request's key, or  *)
(* this one.                                                               *)
KeyTaken(c) ==
  \E p \in Payment : /\ Stored(p) /\ payments[p].key = job[c].key
                     /\ MerchantOf[p] = MerchantOf[job[c].payment]

(* What the columns of the row and its two unique constraints admit.        *)
CreateWrites(c) ==
  LET p == job[c].payment IN
  /\ At(c, "create", "write")
  /\ p \notin Oversized /\ ~KeyTaken(c) /\ ~Stored(p)
  /\ payments' = [payments EXCEPT ![p] = [status |-> "PENDING",
                                          completed |-> FALSE,
                                          key |-> job[c].key]]
  /\ AddAttempt(c)
  /\ Goto(c, "committed")
  /\ UNCHANGED <<breakers, job, held, answer, market, faulty>>

RetryWrites(c) ==
  /\ At(c, "retry", "write")
  /\ SetStatus(job[c].payment, "PROCESSING")
  /\ AddAttempt(c)
  /\ Goto(c, "committed")
  /\ UNCHANGED <<breakers, job, held, answer, market, faulty>>

(* The transaction fails: the reference is taken, it does not fit its       *)
(* column, or anything else; a key that is taken is a conflict. The order   *)
(* stays at the provider.                                                  *)
WriteFails(c) ==
  /\ pc[c] = "write"
  /\ \/ End(c, "VALIDATION_ERROR")
     \/ /\ job[c].op = "create" /\ job[c].payment \notin Oversized
        /\ KeyTaken(c)
        /\ End(c, "CONFLICT")

(* The answer to what has committed, or to its lost acknowledgement.        *)
Respond(c) ==
  /\ pc[c] = "committed"
  /\ \/ End(c, IF job[c].op = "create" THEN "CREATED" ELSE "OK")
     \/ End(c, "VALIDATION_ERROR")

-----------------------------------------------------------------------------
(* Reconciliation.                                                         *)

Latest(p) == {n \in DOMAIN attempts[p] :
                \A m \in DOMAIN attempts[p] :
                  attempts[p][m].number <= attempts[p][n].number}

(* The provider of the latest attempt is asked, whatever its breaker. *)
Inquire(c) ==
  LET p == job[c].payment IN
  /\ At(c, "reconcile", "idle") /\ Stored(p)
  /\ NeedsReconciliation(payments[p].status)
  /\ \E n \in Latest(p) :
       LET o == attempts[p][n].order IN
       /\ CB!StatusStarts(c, o.at)
       /\ held' = [held EXCEPT ![c].order = o]
  /\ Goto(c, "query")
  /\ UNCHANGED <<job, answer, tables, market, faulty>>

(* Slip: an order that was taken counts as one that was paid. *)
InquiryAnsweredEagerly(c) ==
  LET o == held[c].order IN
  /\ pc[c] = "query" /\ o.at \in Inquirable
  /\ CB!CallSucceeds(c)
  /\ \E f \in {orders[o], "COMPLETED"} : held' = [held EXCEPT ![c].found = f]
  /\ Goto(c, "write")
  /\ UNCHANGED <<job, answer, tables, market, faulty>>

(* The status of the order, or one the adapter has no name for. *)
InquiryAnswered(c) ==
  LET o == held[c].order IN
  /\ pc[c] = "query" /\ o.at \in Inquirable
  /\ CB!CallSucceeds(c)
  /\ \E f \in {orders[o], "UNKNOWN"} : held' = [held EXCEPT ![c].found = f]
  /\ Goto(c, "write")
  /\ UNCHANGED <<job, answer, tables, market, faulty>>

(* nicepay's adapter always fails, without a request; the breaker counts    *)
(* that as well.                                                           *)
InquiryFails(c) ==
  LET v == held[c].order.at IN
  /\ pc[c] = "query"
  /\ CB!CallFails(c)
  /\ held' = [held EXCEPT ![c].found = "ERROR"]
  /\ faulty' = IF v \in Inquirable THEN faulty \cup {v} ELSE faulty
  /\ Goto(c, "write")
  /\ UNCHANGED <<job, answer, tables, market>>

(* Slip: the provider's word for the status is stored. *)
ReconcileWritesAsIs(c) ==
  LET f == held[c].found IN
  /\ At(c, "reconcile", "write")
  /\ IF f \in {"COMPLETED", "FAILED"} THEN SetStatus(job[c].payment, f)
                                     ELSE UNCHANGED payments
  /\ Goto(c, "committed")
  /\ UNCHANGED <<breakers, job, held, answer, attempts, market, faulty>>

(* Only the end of an order decides the status of the payment. *)
ReconcileWrites(c) ==
  LET f == held[c].found IN
  /\ At(c, "reconcile", "write")
  /\ CASE f = "COMPLETED" -> SetStatus(job[c].payment, "SUCCESS")
       [] f = "FAILED"    -> SetStatus(job[c].payment, "FAILED")
       [] OTHER           -> UNCHANGED payments
  /\ Goto(c, "committed")
  /\ UNCHANGED <<breakers, job, held, answer, attempts, market, faulty>>

-----------------------------------------------------------------------------
(* What happens from outside.                                              *)

(* The request is dropped at an await: in a call, before its write, or      *)
(* after its commit took effect.                                           *)
Drop(c) ==
  /\ \/ pc[c] \in {"sent", "taken", "query"} /\ CB!CallDropped(c)
     \/ pc[c] \in {"write", "committed"} /\ UNCHANGED breakers
  /\ Goto(c, "dropped")
  /\ UNCHANGED <<job, held, answer, tables, market, faulty>>

(* Customers pay or do not, providers refund. *)
Settle(o, s) ==
  /\ \/ orders[o] = "PENDING" /\ s \in {"COMPLETED", "FAILED"}
     \/ orders[o] = "COMPLETED" /\ s = "REFUNDED"
  /\ orders' = [orders EXCEPT ![o] = s]
  /\ UNCHANGED <<breakers, pc, job, held, answer, tables, placedBy, faulty>>

(* The worker that the code has not yet: without it no payment is ever to   *)
(* be reconciled. A payment that waits comes to its reconciliation, by way  *)
(* of PROCESSING if it is PENDING.                                         *)
Escalate(p) ==
  /\ Stored(p) /\ payments[p].status \in {"PENDING", "PROCESSING"}
  /\ SetStatus(p, "PENDING_RECONCILIATION")
  /\ UNCHANGED <<breakers, pc, job, held, answer, attempts, market, faulty>>

Tick ==
  /\ CB!Tick
  /\ UNCHANGED <<pc, job, held, answer, tables, market, faulty>>

-----------------------------------------------------------------------------
Serve(c) ==
  \/ CreateRefused(c) \/ CreateAdmitted(c)
  \/ RetryAdmitted(c) \/ RetryRefused(c) \/ ReconcileRefused(c)
  \/ NotFound(c) \/ ReadFails(c)
  \/ Look(c) \/ NoProvider(c) \/ Send(c)
  \/ AdapterRefuses(c) \/ CreateFails(c) \/ CreateAnswered(c)
  \/ CreateWrites(c) \/ RetryWrites(c) \/ WriteFails(c) \/ Respond(c)
  \/ Inquire(c) \/ InquiryAnswered(c) \/ InquiryFails(c) \/ ReconcileWrites(c)

Next ==
  \/ \E c \in Call : Serve(c) \/ ProviderTakes(c) \/ Drop(c)
  \/ \E o \in Order, s \in OrderState : Settle(o, s)
  \/ \E p \in Payment : Escalate(p)
  \/ Tick

Spec == Init /\ [][Next]_vars

-----------------------------------------------------------------------------
(* Safety.                                                                 *)

Recorded(o) == \E p \in Payment : \E n \in DOMAIN attempts[p] :
                 attempts[p][n].order = o

Paid(o) == orders[o] \in {"COMPLETED", "REFUNDED"}

(* A payment is SUCCESS only if an order of one of its attempts was paid,   *)
(* and that order was placed for this very payment; only at a provider that *)
(* goes by references may it have been placed for another merchant's        *)
(* payment, one with the same reference.                                    *)
SuccessIsPaidFor ==
  \A p \in Payment : Stored(p) /\ payments[p].status = "SUCCESS" =>
    \E n \in DOMAIN attempts[p] :
      LET o == attempts[p][n].order
          q == job[placedBy[o]].payment IN
      /\ Paid(o)
      /\ \/ q = p
         \/ o.at \in ByReference /\ RefOf[q] = RefOf[p]

(* Who placed an order knows of it: an order that no attempt records was    *)
(* placed by a request still under way, dropped, or answered with one of    *)
(* the three errors that leave it open: a failed call, a failed write, or a  *)
(* key that was taken when the order was placed already. All other answers, *)
(* NO provider among them, mean that the request placed none.               *)
LeavesOpen == {"PROVIDER_ERROR", "VALIDATION_ERROR", "CONFLICT"}

OrdersAreTold ==
  \A o \in Order : orders[o] # "NONE" =>
    LET c == placedBy[o] IN
    /\ c # None /\ job[c].payment \notin Malformed \cup Foreign
    /\ \/ Recorded(o)
       \/ pc[c] \in {"taken", "write", "dropped"}
       \/ answer[c] \in LeavesOpen
    /\ answer[c] \in {"NONE", "CREATED", "OK"} \cup LeavesOpen

(* A final payment has a completion time. One that is not final has none,   *)
(* unless a retry took it up after it had FAILED: the time stays.           *)
CompletedAtIsSound ==
  \A p \in Payment : Stored(p) =>
    /\ IsFinal(payments[p].status) => payments[p].completed
    /\ payments[p].completed /\ ~IsFinal(payments[p].status) =>
         \E n \in DOMAIN attempts[p] : attempts[p][n].number > 1

(* Requests that made an adapter fail without sending anything: creates in  *)
(* a foreign currency, and status queries that v's adapter cannot make.     *)
Unsent(v) ==
  {c \in Call : \/ job[c].payment \in Foreign /\ answer[c] = "PROVIDER_ERROR"
               \/ /\ v \notin Inquirable /\ job[c].op = "reconcile"
                  /\ held[c].found = "ERROR" /\ held[c].order.at = v}

(* A provider that never failed a request it was sent is out of the         *)
(* selection only after as many requests of these two kinds as open a       *)
(* breaker, one at least: no order of creates, queries, drops and late      *)
(* answers keeps it out for anything else.                                 *)
HealthyOutIsUnsent ==
  \A v \in Configured \ faulty : ~CB!IsAvailable(v) =>
    Unsent(v) # {} /\ Cardinality(Unsent(v)) >= Threshold

-----------------------------------------------------------------------------
(* What the documents say and the code does not do.                        *)

(* FR-ORC-06: the breaker keeps requests from providers that are unwell; a  *)
(* provider that never failed a request stays in the selection.             *)
HealthyProvidersStayIn ==
  \A v \in Configured \ faulty : CB!IsAvailable(v)
=============================================================================
