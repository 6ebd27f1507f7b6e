--------------------------- MODULE IdempotentCreate ---------------------------
(***************************************************************************)
(* POST requests that carry an Idempotency-Key: the middleware             *)
(* (api/middleware/idempotency.rs), the Redis lock it takes                *)
(* (infrastructure/redis/lock.rs), the create handler behind it            *)
(* (application/payment.rs) and the two tables the handler commits to      *)
(* (infrastructure/postgres/repositories.rs).                              *)
(*                                                                         *)
(* A request is split at every await: another request may run between any  *)
(* two steps, and the server may drop a request (client gone, process      *)
(* killed) at any of them.                                                 *)
(*                                                                         *)
(* One merchant is modelled: the lookup, the lock name and both unique     *)
(* constraints are scoped by merchant_id, so merchants share no state.     *)
(* A key is never compared to anything but another key, a body only        *)
(* through its SHA-256 digest, so both are members of small sets.          *)
(***************************************************************************)
CONSTANTS
  Request,   \* the POST requests clients ever send, each sent once
  Key,       \* idempotency keys
  Body,      \* request bodies; equal bodies have equal digests
  Ref,       \* merchant references
  RefOf,     \* the merchant_reference a body carries
  None       \* no request: a free lock, an answer that names no payment

ASSUME RefOfAssumption == RefOf \in [Body -> Ref]
ASSUME NoneAssumption  == None \notin Request

VARIABLES
  pc,        \* where each request is
  job,       \* the key, the body and the route of each request
  reply,     \* the answer each request got, or is about to get
  lock,      \* Redis: the holder of idempotency-lock:{merchant}:{key}
  payments,  \* Postgres: table payments
  idem,      \* Postgres: table idempotency_keys
  executed,  \* requests on the other POST routes whose handler took effect
  orders,    \* creates the provider accepted, named by their request
  late,      \* history: requests that arrived when a live row held their key
  lapsed     \* history: requests whose lock ended while they were served

vars == <<pc, job, reply, lock, payments, idem, executed, orders, late, lapsed>>

-----------------------------------------------------------------------------
(* The state.                                                              *)

Route == {"create", "other"}
Job   == [key : Key, body : Body, route : Route]

Stage == {"idle", "find", "lock", "handler", "commit", "release",
          "done", "dropped"}

Code == {"NONE", "CREATED", "OK", "BAD_REQUEST", "REFUSED", "INTERNAL",
         "IDEMPOTENCY_MISMATCH", "IDEMPOTENCY_IN_PROGRESS",
         "PROVIDER_ERROR", "CONFLICT", "VALIDATION"}
Reply == [code : Code, payment : Request \cup {None}]

(* The payment id is a fresh UUID of the create call: its request names it. *)
PaymentRow == [id : Request, key : Key, ref : Ref]

(* live: expires_at is still in the future. *)
IdempotencyRow == [key : Key, hash : Body, payment : Request, live : BOOLEAN]

TypeOK ==
  /\ pc \in [Request -> Stage]
  /\ job \in [Request -> Job]
  /\ reply \in [Request -> Reply]
  /\ lock \in [Key -> Request \cup {None}]
  /\ payments \subseteq PaymentRow
  /\ idem \subseteq IdempotencyRow
  /\ executed \subseteq Request
  /\ orders \subseteq Request
  /\ late \subseteq Request
  /\ lapsed \subseteq Request

(* Requests that hold, or held, the lock and have not released it. *)
Active(r) == pc[r] \in {"handler", "commit", "release"}

(* find_by_key does not see a row whose expires_at has passed. *)
VisibleRows(k) == {i \in idem : i.key = k /\ i.live}

NoReply == [code |-> "NONE", payment |-> None]
Plain(code) == [code |-> code, payment |-> None]

Goto(r, stage) == pc' = [pc EXCEPT ![r] = stage]

(* The request goes to the given stage with this answer. *)
Answer(r, stage, answer) ==
  /\ Goto(r, stage)
  /\ reply' = [reply EXCEPT ![r] = answer]

Init ==
  /\ pc = [r \in Request |-> "idle"]
  /\ job \in [Request -> Job]
  /\ reply = [r \in Request |-> NoReply]
  /\ lock = [k \in Key |-> None]
  /\ payments = {}
  /\ idem = {}
  /\ executed = {}
  /\ orders = {}
  /\ late = {}
  /\ lapsed = {}

-----------------------------------------------------------------------------
(* The middleware, before the lock.                                        *)

(* A POST request reaches the middleware with a usable key and body. *)
Arrive(r) ==
  /\ pc[r] = "idle"
  /\ Goto(r, "find")
  /\ late' = IF VisibleRows(job[r].key) # {} THEN late \cup {r} ELSE late
  /\ UNCHANGED <<job, reply, lock, payments, idem, executed, orders, lapsed>>

(* No key, an empty or an oversized one, or a body over one megabyte. *)
ArriveUnusable(r) ==
  /\ pc[r] = "idle"
  /\ Answer(r, "done", Plain("BAD_REQUEST"))
  /\ UNCHANGED <<job, lock, payments, idem, executed, orders, late, lapsed>>

(* Slip: the digest of the body is not compared. *)
FindRowAnyBody(r) ==
  /\ pc[r] = "find"
  /\ \E i \in VisibleRows(job[r].key) :
       Answer(r, "done", [code |-> "CREATED", payment |-> i.payment])
  /\ UNCHANGED <<job, lock, payments, idem, executed, orders, late, lapsed>>

(* Slip: a request goes on to the lock whatever the lookup found. *)
FindIgnored(r) ==
  /\ pc[r] = "find"
  /\ Goto(r, "lock")
  /\ UNCHANGED <<job, reply, lock, payments, idem, executed, orders, late,
                 lapsed>>

(* The key has a live row: the stored answer for the same body, a refusal   *)
(* for another one.                                                        *)
FindRow(r) ==
  /\ pc[r] = "find"
  /\ \E i \in VisibleRows(job[r].key) :
       Answer(r, "done",
              IF i.hash = job[r].body
                THEN [code |-> "CREATED", payment |-> i.payment]
                ELSE Plain("IDEMPOTENCY_MISMATCH"))
  /\ UNCHANGED <<job, lock, payments, idem, executed, orders, late, lapsed>>

FindNothing(r) ==
  /\ pc[r] = "find"
  /\ VisibleRows(job[r].key) = {}
  /\ Goto(r, "lock")
  /\ UNCHANGED <<job, reply, lock, payments, idem, executed, orders, late,
                 lapsed>>

FindFails(r) ==
  /\ pc[r] = "find"
  /\ Answer(r, "done", Plain("INTERNAL"))
  /\ UNCHANGED <<job, lock, payments, idem, executed, orders, late, lapsed>>

-----------------------------------------------------------------------------
(* The Redis lock: SET key value NX EX 30, and the compare-and-delete       *)
(* script.                                                                 *)

(* Slip: the lock's name is stored as its value. *)
AcquireLockByName(r) ==
  /\ pc[r] = "lock"
  /\ lock[job[r].key] = None
  /\ lock' = [lock EXCEPT ![job[r].key] = job[r].key]
  /\ Goto(r, "handler")
  /\ UNCHANGED <<job, reply, payments, idem, executed, orders, late, lapsed>>

AcquireLock(r) ==
  /\ pc[r] = "lock"
  /\ lock[job[r].key] = None
  /\ lock' = [lock EXCEPT ![job[r].key] = r]
  /\ Goto(r, "handler")
  /\ UNCHANGED <<job, reply, payments, idem, executed, orders, late, lapsed>>

LockTaken(r) ==
  /\ pc[r] = "lock"
  /\ lock[job[r].key] # None
  /\ Answer(r, "done", Plain("IDEMPOTENCY_IN_PROGRESS"))
  /\ UNCHANGED <<job, lock, payments, idem, executed, orders, late, lapsed>>

(* Redis fails the SET: before it took effect, or after, with the answer    *)
(* lost; then the lock stays behind until its TTL ends.                     *)
LockFails(r) ==
  /\ pc[r] = "lock"
  /\ \/ UNCHANGED lock
     \/ /\ lock[job[r].key] = None
        /\ lock' = [lock EXCEPT ![job[r].key] = r]
  /\ Answer(r, "done", Plain("INTERNAL"))
  /\ UNCHANGED <<job, payments, idem, executed, orders, late, lapsed>>

(* Slip: a plain DEL. *)
ReleasedByAnyone(r) == [lock EXCEPT ![job[r].key] = None]

(* The key's value, if it is still this request's, is deleted. *)
ReleasedBy(r) == IF lock[job[r].key] = r
                   THEN [lock EXCEPT ![job[r].key] = None]
                   ELSE lock

(* Slip: only the holder gets its answer out. *)
ReleaseOnlyOwned(r) ==
  /\ pc[r] = "release"
  /\ lock[job[r].key] = r
  /\ lock' \in {ReleasedBy(r), lock}
  /\ Goto(r, "done")
  /\ UNCHANGED <<job, reply, payments, idem, executed, orders, late, lapsed>>

(* The release is best effort: when Redis fails it, the answer goes out     *)
(* all the same.                                                           *)
Release(r) ==
  /\ pc[r] = "release"
  /\ lock' \in {ReleasedBy(r), lock}
  /\ Goto(r, "done")
  /\ UNCHANGED <<job, reply, payments, idem, executed, orders, late, lapsed>>

(* Slip: SET without EX. *)
LockNeverExpires(k) == FALSE

(* The 30 second TTL ends, whether or not the holder is still being served: *)
(* nothing renews it, and a handler may wait longer than that on the pool,  *)
(* the provider and the commit together.                                   *)
LockExpires(k) ==
  /\ lock[k] # None
  /\ lock' = [lock EXCEPT ![k] = None]
  /\ lapsed' = IF Active(lock[k]) THEN lapsed \cup {lock[k]} ELSE lapsed
  /\ UNCHANGED <<pc, job, reply, payments, idem, executed, orders, late>>

-----------------------------------------------------------------------------
(* The create handler: PaymentService::create_payment.                     *)

(* Validation, or no provider available: nothing was sent or stored. *)
CreateRefused(r) ==
  /\ pc[r] = "handler"
  /\ job[r].route = "create"
  /\ Answer(r, "release", Plain("REFUSED"))
  /\ UNCHANGED <<job, lock, payments, idem, executed, orders, late, lapsed>>

(* The provider takes the order and says so. *)
ProviderAccepts(r) ==
  /\ pc[r] = "handler"
  /\ job[r].route = "create"
  /\ orders' = orders \cup {r}
  /\ Goto(r, "commit")
  /\ UNCHANGED <<job, reply, lock, payments, idem, executed, late, lapsed>>

(* The call fails: the provider refused, or it took the order and its       *)
(* answer was lost or came after the client's timeout. Nothing is stored.   *)
ProviderFails(r) ==
  /\ pc[r] = "handler"
  /\ job[r].route = "create"
  /\ orders' \in {orders, orders \cup {r}}
  /\ Answer(r, "release", Plain("PROVIDER_ERROR"))
  /\ UNCHANGED <<job, lock, payments, idem, executed, late, lapsed>>

(* uq_payments_idempotency: UNIQUE (merchant_id, idempotency_key). *)
KeyTaken(r) == \E p \in payments : p.key = job[r].key

(* Slip: no constraint on the merchant reference. *)
KeyClashOnly(r) == \E i \in idem : i.key = job[r].key

(* uq_payments_merchant_ref and the primary key of idempotency_keys, which  *)
(* an expired row still occupies.                                          *)
OtherClash(r) ==
  \/ \E p \in payments : p.ref = RefOf[job[r].body]
  \/ \E i \in idem : i.key = job[r].key

(* The one transaction: payment, attempt, audit log and idempotency row. *)
InsertPayment(r) ==
  /\ payments' = payments \cup
       {[id |-> r, key |-> job[r].key, ref |-> RefOf[job[r].body]]}
  /\ idem' = idem \cup
       {[key |-> job[r].key, hash |-> job[r].body, payment |-> r,
         live |-> TRUE]}

(* The transaction commits; its acknowledgement may be lost, which the      *)
(* repository reports like every other database error.                     *)
CommitPayment(r) ==
  /\ pc[r] = "commit"
  /\ ~KeyTaken(r) /\ ~OtherClash(r)
  /\ InsertPayment(r)
  /\ \/ Answer(r, "release", [code |-> "CREATED", payment |-> r])
     \/ Answer(r, "release", Plain("VALIDATION"))
  /\ UNCHANGED <<job, lock, executed, orders, late, lapsed>>

(* Slip: the result of the commit is ignored. *)
CommitFailureIgnored(r) ==
  /\ pc[r] = "commit"
  /\ Answer(r, "release", [code |-> "CREATED", payment |-> r])
  /\ UNCHANGED <<job, lock, payments, idem, executed, orders, late, lapsed>>

(* The transaction rolls back: on a unique constraint or a database error.  *)
(* The provider's order stays.                                             *)
CommitFails(r) ==
  /\ pc[r] = "commit"
  /\ \/ KeyTaken(r) /\ Answer(r, "release", Plain("CONFLICT"))
     \/ Answer(r, "release", Plain("VALIDATION"))
  /\ UNCHANGED <<job, lock, payments, idem, executed, orders, late, lapsed>>

-----------------------------------------------------------------------------
(* The other POST routes (cancel, retry, reconcile) run behind the same     *)
(* middleware and store no idempotency row.                                *)

OtherHandler(r) ==
  /\ pc[r] = "handler"
  /\ job[r].route = "other"
  /\ \/ /\ executed' = executed \cup {r}
        /\ Answer(r, "release", Plain("OK"))
     \/ /\ UNCHANGED executed
        /\ Answer(r, "release", Plain("REFUSED"))
  /\ UNCHANGED <<job, lock, payments, idem, orders, late, lapsed>>

-----------------------------------------------------------------------------
(* What happens to a request and to a row from outside.                    *)

(* The connection closes or the process dies: the request's future is       *)
(* dropped where it stands, with its lock still in Redis.                   *)
Drop(r) ==
  /\ pc[r] \notin {"idle", "done", "dropped"}
  /\ Answer(r, "dropped", NoReply)
  /\ UNCHANGED <<job, lock, payments, idem, executed, orders, late, lapsed>>

(* expires_at (24 hours after the create) passes. *)
RowExpires(i) ==
  /\ i \in idem /\ i.live
  /\ idem' = (idem \ {i}) \cup {[i EXCEPT !.live = FALSE]}
  /\ UNCHANGED <<pc, job, reply, lock, payments, executed, orders, late,
                 lapsed>>

-----------------------------------------------------------------------------
Serve(r) ==
  \/ FindRow(r) \/ FindNothing(r) \/ FindFails(r)
  \/ AcquireLock(r) \/ LockTaken(r) \/ LockFails(r)
  \/ CreateRefused(r) \/ ProviderAccepts(r) \/ ProviderFails(r)
  \/ CommitPayment(r) \/ CommitFails(r)
  \/ OtherHandler(r)
  \/ Release(r)

Next ==
  \/ \E r \in Request : Arrive(r) \/ ArriveUnusable(r) \/ Serve(r) \/ Drop(r)
  \/ \E k \in Key : LockExpires(k)
  \/ \E i \in idem : RowExpires(i)

Spec == Init /\ [][Next]_vars

(* Every await of a request ends: the HTTP clients have timeouts, the pool  *)
(* and Redis answer or fail. Redis ends every TTL. Clients, drops and the   *)
(* 24 hour expiry are never forced.                                        *)
Fairness ==
  /\ \A r \in Request : WF_vars(Serve(r))
  /\ \A k \in Key : WF_vars(LockExpires(k))

FairSpec == Spec /\ Fairness
-----------------------------------------------------------------------------
(* Safety.                                                                 *)

(* The tables agree: a key and a merchant reference belong to one payment,  *)
(* and a key has an idempotency row exactly when it has a payment, the row  *)
(* naming that payment and the body it was created from. This is what the   *)
(* single transaction and the constraints of the schema are for.            *)
TablesAgree ==
  /\ \A p, q \in payments : p.key = q.key \/ p.ref = q.ref => p = q
  /\ \A i, j \in idem : i.key = j.key => i = j
  /\ \A p \in payments : /\ job[p.id].key = p.key
                         /\ \E i \in idem : i.key = p.key /\ i.payment = p.id
  /\ \A i \in idem : /\ job[i.payment].body = i.hash
                     /\ \E p \in payments : p.key = i.key /\ p.id = i.payment

(* r was told, by a fresh or a replayed 201, of a payment. *)
Told(r) == pc[r] = "done" /\ reply[r].code = "CREATED"

(* However requests with one key interleave, fail, lose the lock or are     *)
(* dropped, every 201 ever sent for the key names one stored payment, and   *)
(* only requests with the body it was created from receive it.              *)
OneAnswerPerKey ==
  \A r \in Request : Told(r) =>
    \E p \in payments :
      /\ p.id = reply[r].payment
      /\ p.key = job[r].key
      /\ job[p.id].body = job[r].body
      /\ \A q \in Request : Told(q) /\ job[q].key = job[r].key =>
                            reply[q] = reply[r]

(* Two requests with one key are behind the lock together only when one of  *)
(* them has lost it to the TTL: neither a Redis failure nor the release of  *)
(* a request that lost its lock takes the lock from its holder.             *)
Exclusive ==
  \A r, q \in Request :
    r # q /\ Active(r) /\ Active(q) /\ job[r].key = job[q].key =>
      r \in lapsed \/ q \in lapsed

(* The retry of PRD 5.2: a request that arrives when its key already has a  *)
(* live row is never executed, as long as the row lives, whatever route it  *)
(* takes and whatever the requests before it are still doing.               *)
LateRequestHasNoEffect ==
  \A r \in late : VisibleRows(job[r].key) # {} => r \notin orders \cup executed

(* The merchant is never told of success for an order that was not stored,  *)
(* and nothing is stored that the provider did not accept: an order without *)
(* a payment belongs to a request that is not answered, or answered with an *)
(* error.                                                                  *)
OrdersAccounted ==
  /\ \A p \in payments : p.id \in orders
  /\ \A r \in orders : r \in {p.id : p \in payments}
                       \/ pc[r] \in {"commit", "dropped"}
                       \/ reply[r].code \in {"PROVIDER_ERROR", "CONFLICT",
                                             "VALIDATION"}

-----------------------------------------------------------------------------
(* Refinement of the promise.                                              *)

RowOf(k) == CHOOSE i \in idem : i.key = k

Promise == INSTANCE OncePerKey WITH
  asked  <- [r \in Request |-> [key |-> job[r].key, body |-> job[r].body]],
  record <- [k \in Key |->
              IF \E i \in idem : i.key = k
                THEN [payment |-> RowOf(k).payment, body |-> RowOf(k).hash]
                ELSE [payment |-> None, body |-> None]],
  told   <- [r \in Request |-> IF Told(r) THEN reply[r].payment ELSE None]

(* The middleware, the handler and the tables together keep the promise.    *)
KeepsPromise == Promise!Spec

-----------------------------------------------------------------------------
(* Liveness.                                                               *)

(* Every request that gets past the header check is answered, unless the    *)
(* server drops it: losing the lock, a foreign lock or a failing Redis do   *)
(* not leave a request waiting.                                            *)
EveryRequestEnds == \A r \in Request :
  pc[r] = "find" ~> pc[r] \in {"done", "dropped"}

(* A lock left behind by a dropped request, a failed release or a lost SET  *)
(* answer does not block its key for ever.                                  *)
LockIsFreed == \A k \in Key : \A r \in Request : lock[k] = r ~> lock[k] # r

-----------------------------------------------------------------------------
(* What the documents say and the code does not do.                        *)

(* PRD 5.2, step 4: a request with a known key starts no new transaction at *)
(* the provider. Restricted to the case in which no lock ever lapsed.       *)
NoOrderForKnownKey ==
  [][lapsed = {} => \A r \in orders' \ orders : VisibleRows(job[r].key) = {}]_vars

(* README: a request with the same key is processed exactly once; the API   *)
(* contract asks for the key on every POST.                                 *)
ExecutedOncePerKey ==
  \A r, q \in executed : job[r] = job[q] => r = q
=============================================================================
