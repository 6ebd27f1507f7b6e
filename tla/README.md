# Secure Payment Orchestrator: models, checks and proofs

TLA+ models of the Rust service in this repository, TLC configurations that check
them on small instances, and theorems about them checked by TLAPS. Paths below are
relative to the repository root. The models follow the code; where the code and
the documentation disagree, a run shows it (section 6).

Contents: 1 inventory, 2 hard behaviours, 3 modules, 4 correspondence with the code,
5 runs and bounds, 6 disagreements with the documentation, 7 fairness, 8 proofs,
9 what is not modelled, 10 plan.

## 1. Inventory

```
merchant / operations
   |  POST, GET  + Authorization: Bearer <api key> + Idempotency-Key
   v
authentication -> require_idempotency_key ----> Redis   idempotency-lock:{merchant}:{key}
   (api/middleware)      |        |  \--------> Postgres idempotency_keys (lookup)
                         v        |
                   handlers (api/routes/payment.rs)
                         |
                   PaymentService (application/payment.rs)
                         |                        \--> Postgres payments, payment_attempts,
        select_best_provider                            idempotency_keys, audit_logs,
                         |                              reconciliation_records
          CircuitBreakerProvider (one per provider)
                         |
          Alpha | Beta | Gamma | NICEPAY adapters --> providers
```

| Component | State it keeps | Operations | What makes it correct |
|---|---|---|---|
| Idempotency middleware (`src/api/middleware/idempotency.rs`) | none in memory; the lock in Redis, the row in Postgres | lookup, compare digest, lock, run handler, release, replay | one payment and one answer per key; nobody is executed twice while a row lives; a refused or dropped request does not block the key for ever |
| Redis lock (`src/infrastructure/redis/lock.rs`) | key, value, TTL | `acquire_lock` (SET NX EX 30), `release_lock` (compare and delete) | excludes, except after a TTL; never released by someone else |
| Payment service, create (`src/application/payment.rs`) | none | validate, select, order at provider, commit | no payment without order, no success for an order without payment |
| Payment service, cancel / retry / reconcile | none; each carries what it read across awaits | read, decide, call, write | status changes follow the matrix; attempts are numbered and bounded; every retry leaves attempt and audit; reconciliation records what the provider decided |
| Domain (`src/domain`) | none | `PaymentStatus`, `validate_transition`, `Payment::transition_to` | the matrix and the status classes |
| Postgres repositories (`src/infrastructure/postgres/repositories.rs`, `migrations/`) | the tables | transactions for create, retry, reconcile; single statements for the rest | the constraints and the transactions keep the tables in agreement |
| Circuit breaker (`src/providers/circuit_breaker.rs`) | failures, state, opened_at behind a mutex | `is_available`, `record_success`, `record_failure`, calls | out exactly while failing; comes back |
| Provider selection (`select_best_provider`) | none | scan, minimum by priority | the best available provider, the first of equals |
| Adapters (`src/providers/*`) | none | create, status, cancel, refund | identify one order per attempt |
| Webhooks, workers | none; the webhook route answers 501 | - | - |
| Authentication (`src/api/middleware/authentication.rs`, `src/security`, `PgApiKeyRepository`, `src/bin/gen_api_key.rs`) | a merchant context per request; `api_keys`, `merchants` | find the key by its prefix, verify the secret, find the merchant, check the role in the handler | nobody gets in, reads or operates without a live key, an active merchant and the role; nobody who has them is turned away |
| Request validation (`src/api/dto/payment.rs`) | none | `validate`, `into_filter` | what passes can be stored |
| Search (`search_payments`, `into_filter`, `PgPaymentRepository::search`) | none | bound the parameters, fetch a page, count, round up the pages | a merchant who walks the pages sees everything; no answer contradicts itself |
| Configuration, metrics, health, logging | none per request | - | - |

Interaction. A POST passes authentication, then the middleware, then a handler which
calls the service. The service has no state; everything it shares with other requests
is in Postgres, in Redis, at the providers or behind the breakers' mutexes. Every
await is a point at which another request may run, the client may disconnect (the
future is dropped there) or the process may die.

## 2. Hard behaviours

* The lookup of an idempotency key happens before its lock is taken and is not
  repeated under it.
* The lock has a TTL of 30 seconds and a handler may take longer; the lock may be lost
  while its holder still works, and be left behind when its holder is dropped.
* Redis, Postgres and providers may do what they were asked and lose the answer.
* Cancel, retry and reconcile read a payment, do other things, and write without
  looking again; they race with each other and with whoever else writes statuses.
* Attempt numbers are counted first and inserted later.
* A transaction commits and its request is dropped, or its acknowledgement lost, before the answer.
* Results of calls reach a breaker in any order, including after it opened.
* The selection looks at the breakers one after the other.
* The adapters refuse some creates themselves, name orders differently, and one cannot answer
  a status query at all; the breaker counts all of it.
* The merchant reference is unique per merchant, while two providers know an order by it alone.
* A key may be revoked, or its merchant suspended, between any two reads of the middleware; the
  handler works from the first.
* A page of the search is two queries without a transaction, and the list shifts between
  pages; its order is `created_at` alone, which is taken long before the commit.

`PROJECT.json` lists each of these at its line ("hazards") with the properties that
cover it.

## 3. Modules

| Module | What it is |
|---|---|
| `OncePerKey` | abstract specification: what an idempotency key promises a merchant |
| `IdempotentCreate` | middleware, Redis lock, create handler, the tables it commits to; the refinement mapping to `OncePerKey` |
| `IdempotentCreate_proofs` | its safety theorems and its refinement theorem |
| `PaymentStatus` | statuses, status classes, transition matrix (constant operators) |
| `PaymentBook` | abstract specification: what cancel, retry and reconcile promise of a payment, each in one step |
| `PaymentLifecycle` | cancel, retry and reconcile of stored payments, the providers' orders, and the outside writer of statuses; the refinement mapping to `PaymentBook` |
| `PaymentLifecycle_proofs`, `PaymentLifecycle_effects`, `PaymentLifecycle_book` | its safety theorems: status changes, numbers and resolutions; questions, effects and traces; the retry limit, cancels and the refinement theorem |
| `CircuitBreaker` | breakers, selection, calls, time |
| `CircuitBreaker_proofs` | its safety theorems |
| `Orchestration` | the composition: creates, retries and reconciliations of several merchants through the selection, `CircuitBreaker` (by INSTANCE), the adapters, the orders at the providers and the tables |
| `Orchestration_proofs` | its safety theorems, which use those of `CircuitBreaker_proofs`, and that it implements `CircuitBreaker` |
| `Authentication` | API keys, the middleware, and what the handlers do with the merchant it finds |
| `Authentication_proofs` | its safety theorems |
| `PaymentSearch` | the search, and a merchant who walks its pages while the list changes |
| `PaymentSearch_proofs` | its safety theorems |
| `MCIdempotentCreate`, `MCPaymentLifecycle`, `MCCircuitBreaker`, `MCOrchestration`, `MCAuthentication`, `MCPaymentSearch` | small instances for TLC: constants, symmetry, restricted initial states |

Definitions whose comment starts with "Slip:" are the code with one plausible mistake in
it (a dropped guard, an off-by-one, a forgotten write). No specification uses them:
putting one in the place of the definition that follows it must break a property,
which shows that the property depends on the code ("mutants" in `PROJECT.json`).

## 4. Correspondence with the code

### IdempotentCreate

| State | Code |
|---|---|
| `pc`, `job`, `reply` | a request's await, its key, body digest and route, its HTTP answer |
| `lock` | the Redis value of each lock: a token, here the request that made it |
| `payments` | `payments`: id, idempotency_key, merchant_reference |
| `idem` | `idempotency_keys`; `live` is `expires_at > NOW()` |
| `orders` | what the provider accepted |
| `executed` | effects of the other POST routes, which run behind the same middleware |
| `late`, `lapsed` | history, for the properties only |

`Arrive`, `FindRow`/`FindNothing`/`FindFails`, `AcquireLock`/`LockTaken`/`LockFails`,
handler, `Release` follow `require_idempotency_key` in order. The handler for
creates is `CreateRefused`, `ProviderAccepts` or `ProviderFails`, then
`CommitPayment` or `CommitFails`; the whole transaction
(`create_with_attempt_and_audit`) is one step because no other transaction sees half
of it and each constraint is decided at commit or insert against committed rows. A
violated `uq_payments_idempotency` is CONFLICT, any other database error VALIDATION, as
in `map_payment_insert_error`. `Drop` ends a request at any await. One merchant is
modelled: the lookup, the lock name and both unique constraints are scoped by merchant.

### PaymentLifecycle

Each await of the three operations is a step: read the payment, count attempts (retry),
call the provider (retry) or read the attempts and ask the provider (reconcile), write.
`held` is what the request's local variables carry. Writes are `UPDATE ... WHERE id`
without a condition on the status, so `SetStatus` overwrites whatever is there.
Cancel writes its audit row in a second statement whose error is ignored; retry writes
status, attempt and audit in one transaction; reconcile writes its record and, if the
provider decided, the status in one transaction. A commit is a step of its own, to `committed`
("audit" for a cancel): from there the answer leaves (`Respond`), or the acknowledgement of the commit is
lost (answer `ERROR`), or the request is dropped (`Drop`) with everything written and nobody told.

`CountReads` says whether `count_attempts` can read what it counted. Over Postgres it cannot: it decodes
`COUNT(*)`, an INT8, as an `i32`, which the driver refuses every time. With `CountReads` false no retry
gets beyond its count. With it true the model has the retry that the rest of the code is written for. Since
a read may fail anyway (`ReadFails`), every behaviour of the first is one of the second. The safety
runs and the theorems therefore take the second, or any value, and what they show holds of the code as it
is and of the code with the cast repaired; runs that show a disagreement take the first.

`orders` is the truth at the providers. `ByReference` are the providers that know an
order by the merchant reference (alpha and gamma) rather than by an identifier of their
own (beta, NICEPAY). External and assumed: a pending order completes or fails, a
completed one may be refunded, nothing else; a create for a reference already known
leaves the order as it is. `OutsideWriter` stands for the writer the code does not have
yet (webhook handler or worker). Without it every payment stays PENDING and retry and
reconcile can never pass their guard. It is assumed to follow `validate_transition` on
the current row and to report SUCCESS only of a completed order.

The properties say what still holds in spite of the unguarded writes. `overtaken` is
history: the requests whose payment was written by another between their read and their
write. `StatusChangesLegal` and `NumbersAreSound` hold outright for the others.

`PaymentBook` says the same as a specification: a request is new, begun or over; it begins when
the status it reads admits its operation, and takes effect at most once, in one step, under
the rules as they are at that step. A begun request whose payment somebody else writes is
`stale`, and its effect is not checked again. Nothing else is let off: in particular a
SUCCESS needs a paid order, stale or not. `Book` is the mapping: begun is between the read and the
write (`Flight`), over is after the write, so the audit row of a cancel and the answers
stutter; a lost acknowledgement, or a drop after the commit, is an effect without an answer.

### CircuitBreaker

A breaker is `Closed(failures)` or `Open(age)`; half-open is an open breaker whose
`open_duration` has elapsed, as in `is_available`. `age` stops at `OpenDuration` since
the code asks no more. The mutex makes each look and each record atomic. A task scans
`Registered` one breaker per step (`SelectLooks`), then calls (`CreateStarts`), or asks
for a status without asking the breaker (`StatusStarts`). A call succeeds, fails (any
`Err`) or is dropped unrecorded. `Registered`, `Priority`, `Configured` come from
`build_providers` and the settings. `streak` and `quiet` are history: the failures since
the last success, and the ticks since the last failure.

### Orchestration

| State | Code |
|---|---|
| `breaker`, `call`, `streak`, `quiet`, `settled` | those of `CircuitBreaker`; every step that looks at or moves a breaker is one of its steps, conjoined |
| `pc`, `job`, `held`, `answer` | a request's await, what it asks, the order and attempt number it carries to its write, its answer |
| `payments`, `attempts` | the rows: status, whether `completed_at` is set, idempotency key; number and order of each attempt |
| `orders` | the state of each order at the providers |
| `placedBy`, `faulty` | history: who placed an order first; providers that failed a request they were really sent |

A `Payment` is a merchant with one of its references, for which Postgres keeps one row.
`Malformed`, `Foreign` and `Oversized` say what is wrong with a create: `validate` refuses
it; the adapter refuses its currency; its reference passes the length check, which trims,
and not its column, which does not. `CreateAdmitted`/`RetryAdmitted`, `Look`, `Send` are
the service and the selection. `ProviderTakes` is the provider; between it and `CreateAnswered` the
answer is under way and may be lost (`CreateFails`) or its request dropped (`Drop`).
`OrderOf` is the order id each adapter sends: the reference (alpha, gamma) or an id of its own (beta,
NICEPAY). `AdapterRefuses` and the failing query of NICEPAY (`InquiryFails` at a provider
outside `Inquirable`) send nothing and are counted by the breaker. `SetStatus` is the UPDATE with
`COALESCE(completed_at, ...)`. `Settle` is the customer and the provider (external);
`Escalate` stands for the worker that would bring payments to reconciliation. The reads that
begin a retry or reconciliation are one step here, since `PaymentLifecycle` takes
them apart. As there, a commit (`CreateWrites`, `RetryWrites`, `ReconcileWrites`) and the answer (`Respond`)
are two steps, and a request may be dropped between them.

The requests are those that `require_idempotency_key` lets through to a handler, and several of them may
carry one key: a second create gets there when it was looked up before the first one committed, or after
the row of the first expired (`IdempotentCreate` has the middleware itself). `KeyTaken` and `Stored` are the two
unique constraints of `payments`, both within a merchant (`MerchantOf`). They are met at the INSERT only, when
the provider has the order: `WriteFails` then answers CONFLICT for a key that is taken and
VALIDATION_ERROR for anything else.

### Authentication

`NoToken`/`Present`, `AcceptKey`/`RejectKey`, `AcceptMerchant`/`RejectMerchant` and `AuthReadFails` follow
`require_api_key` in order, one step per query; then one handler runs. `keys` and `active` are
`api_keys` and the ACTIVE merchants; `Issue`, `Turn`, `Entitle` and `Switch` are operators who work on the
tables (`gen_api_key` prints the row to insert). `key_prefix` is UNIQUE, so of the keys that
share a prefix one at most has a row. `Operations` are the permissions `operations` and `admin`. `since`
is history: what was true at some moment since the request came in. It is what a property may ask:
the middleware's reads are not a snapshot, so "the key is live now" cannot be promised.

### PaymentSearch

`Begin` and `Refused` are `into_filter`: defaults, bounds, one 400 for all violations.
`FetchItems` and `CountTotal` are the two statements of `search`, each over what is committed
when it runs. `Page(S)` says what `ORDER BY created_at DESC LIMIT OFFSET` may return: any
breaking of ties, a new one for every query. `TotalPages` is the rounding of
`SearchPaymentsResponse::from`. `Commit` gives a row any `created_at`, since it is taken in
`Payment::new` before the provider is called; `Move` is any write of a status or
provider, which a filter may ask for. The filters on merchant, reference and dates never
change for a row, so `Payment` stands for the rows that pass them. `Follow`, `AskAgain` and
`Finish` are the merchant (external): next page while `page < total_pages`, the same page
after an error. `start`, `seen` and `left` are history.

## 5. Runs and bounds

Requests are model values, each sent once, so `CHECK_DEADLOCK FALSE` is used where all
requests may be over; the breaker model never stops.

| Run | Question | Bounds |
|---|---|---|
| `IdempotentSafety` | the create path's safety | 3 requests on any route with 1 key and 2 bodies; or 3 creates, one of them with a second key. Three: one that holds the lock or lost it, one that took it over, one that arrives later. Keys meet only at the merchant reference of a create, so the second key needs no more |
| `IdempotentLive` | does it implement `OncePerKey`; are requests answered and locks freed | 2 requests, 1 key, 2 bodies; the implementation is proved for all values |
| `LifecycleSafety` | safety of cancel, retry, reconcile racing; do they implement `PaymentBook` | 2 requests of any kind by the owner, who may not operate, or operations, who do not own, 1 payment, 2 providers (one by reference), limit 2. Two requests are a race; a payment shares no row with another. Only three requests (two retries with one number and a reconciliation) can bring about the tie in `AsksMostRecent`: its exception is covered by the theorem alone |
| `Breaker` | out exactly while failing; the scan finds the best; does a provider come back | 2 tasks, 3 providers, two of equal priority, threshold 2, duration 1: a late result meets a probe, a status query or a scan. The theorems hold for every threshold and duration |
| `OrchestrationSafety` | is SUCCESS paid for, are orders told of, are completion times sound, what takes a healthy provider out | 3 requests of which at most 2 create, or 3 creates of one payment (two failures leave no provider to the third); payments `mine` and `yours` of two merchants with one reference, `more` of the merchant of `mine` with another, and one odd payment (malformed, foreign or overlong) at most; 2 keys; 2 providers, one of each kind, threshold 1, duration 1, limit 2. Two creates share an order, a key, a reference or all of them; the third request retries or reconciles what one of them made; or create, retry and reconciliation of one payment |
| `AuthenticationSafety` | is everybody let in, served or refused for a cause; does a revocation hold | 1 request of any kind (requests share nothing but the tables; the theorems hold for any number), 3 keys of 2 merchants, two with one prefix, 2 payments |
| `SearchWalk` | does a walk over the pages miss anything | 4 payments, 3 stamps (so two tie), pages of one or two rows: walks of up to four pages, late commits before, on and after the page. A payment misses a page only by passing it, for which one page boundary and one other payment are enough |

Symmetry among requests or payments is used for safety only. Named bounds: `StreakBound`
(a history counter counts up to one past the threshold), `MaxRetryAttempts`,
`Threshold` and `OpenDuration` (small values of the code's constants; the theorems
hold for all).

What the passing runs show:

* `TablesAgree`, `OneAnswerPerKey`, `KeepsPromise`: in spite of lapsed locks, lost
  answers, drops and expiry, all 201 answers of a key name its single stored payment.
  The unique constraints carry this, not the lock.
* `Exclusive`: two requests of a key are behind the lock together only after a TTL.
* `LateRequestHasNoEffect`: the plain retry, sent after the first answer, is safe.
* `OrdersAccounted`: nothing is stored without an order, and an order without a payment
  belongs to a request that was dropped or answered with an error.
* `ResolutionsAreReal`, `RetriesAreRecorded`, `EffectsAreEntitled`, `NumbersAreSound`,
  `StatusChangesLegal`: what the lifecycle guarantees without locks.
* `KeepsBook`: all an observer of statuses, attempt numbers and paid orders can see is single
  steps under the rules, and steps of requests that were overtaken before.
* `RetriesAreRecorded`: a retry that was answered something else than OK or an internal error has left
  nothing; one that was dropped may have left everything, attempt and audit row together.
* `CancelsStand`: a cancel told OK is undone only by a retry or a reconciliation that had
  read the payment before somebody wrote it, answered or not; none that reads it later can.
* `ExcessIsRaces`: with a count that can be read, retries that count together pass the limit (the
  three steps of `retry_payment` hold no lock), but by at most one attempt for each retry that
  made one after it was overtaken.
* `OutExactlyWhenFailing`, `ScanFindsBest`, `RecoversFromCreates`: the breakers.
* `AsksMostRecent`: a reconciliation asks about the newest attempt, unless retries that overtook
  each other gave two attempts one number; `max_by_key` then takes the last of those it is
  given.
* `SuccessIsPaidFor`: no interleaving of creates, retries and reconciliations reports a success that no
  order of the payment's attempts was paid for. The order may be another merchant's only at a
  provider that goes by references, for an equal reference: the exception is the code's.
* `OrdersAreTold`: whoever has an order at a provider that is in no table was answered
  PROVIDER_ERROR, VALIDATION_ERROR or CONFLICT, or went away. So a client that gets any other answer
  need not look for an order, and after those three it must. CONFLICT is what a create gets that was let through
  with a key whose payment is there by the time it inserts; VALIDATION_ERROR is also what a create gets whose
  reference was used before, or does not fit its column.
* `HealthyOutIsUnsent`: what the finding of `OrchestrationHealthyOut` shows is all there is: a provider that never failed
  a request it was sent is out only after `Threshold` creates in a foreign currency or
  status queries its adapter cannot make, never because of drops, late answers or lost ones.
* `CompletedAtIsSound`: `completed_at` is there when the status is final; otherwise it is a leftover
  of a failure before a retry.
* `AdmissionIsEarned`, `RefusalHasCause`, `ReadsStayHome`, `OperationsAreEntitled`: the middleware against keys and
  merchants that change under it, shared prefixes included.
* `RevocationHolds`: a request that comes in after its key was revoked never gets past the middleware,
  whatever is issued, extended or reactivated meanwhile.
* `NothingMissed`: pages shift only backwards under commits, and the count is taken after the
  items, so a walk that ends at `total_pages` has shown every payment it began with.
  The two exceptions are the code's: equal `created_at` have no second sort key, and a payment
  that leaves the filtered status pulls others over a page boundary.
* `ItemsWithinTotal`: an answer never shows more than it counts. Counting first would break it.

## 6. Disagreements with the documentation

Each is a run that is expected to violate its property; the details and the quoted lines are
in `PROJECT.json` ("findings").

| Run | What happens |
|---|---|
| `IdempotentSecondOrder` | two requests look up before either commits; the second takes the lock after the first released it and orders again at the provider |
| `IdempotentOtherRoutes` | cancel, retry and reconcile store no row and are executed again |
| `LifecycleCancelSuccess` | a cancel overwrites a SUCCESS written after its read |
| `LifecycleRetryNever` | the count of the attempts is decoded into a type that the driver refuses, so no retry gets to a provider |
| `OrchestrationHealthyOut` | creates in SGD, which every adapter refuses without sending them, open the breaker of a provider that never failed |

Further disagreements that need no run of their own. The late request of
`IdempotentSecondOrder` is answered CONFLICT, where the PRD (FR-IDM-02) promises the first
result. `COALESCE(completed_at, ...)` leaves `completed_at` on a FAILED payment that is
retried. A database error after the provider took the order is answered 400
VALIDATION_ERROR. A status query is sent to a provider whose circuit is open, and so is a create whose
provider failed elsewhere between the look and the call, where the PRD
(FR-ORC-06) says that requests are not sent while the circuit is open. A retry may order at another provider
although nobody asked what became of the earlier order; FR-ORC-07 wants a reconciliation first. A reconciliation writes no audit row (PRD 5.3, step 6). Several creates may
probe a half-open breaker at once, which the module comment accepts and the
architecture document does not, and a call begun before a breaker opened closes it by
succeeding late.

Once the count can be read, the retry limit ("Bounded by `MAX_RETRY_ATTEMPTS`",
`src/application/payment.rs:335`) can be passed by retries that race; `ExcessIsRaces` says how far.

Noticed while reading and not modelled: the migration has a partial index with `WHERE expires_at > NOW()`, and
Postgres accepts only immutable functions there. `retry_delay_seconds` would overflow
from attempt 65 on, but nothing calls it. The comments at
`src/application/payment.rs:79-82` describe an earlier selection.

## 7. Fairness

`IdempotentCreate`: `Serve(r)` is weakly fair: every await of a request ends, because the HTTP clients have
timeouts, and the pool and Redis answer or fail. How it ends is not assumed.
`LockExpires` is weakly fair: Redis ends every TTL. `CircuitBreaker`: `Tick` is weakly fair: time passes.
`CallEnds` is weakly fair: calls have timeouts. Nothing is assumed of clients,
drops, the 24 hour expiry or the providers. `PaymentLifecycle`, `PaymentSearch`,
`Orchestration` and `Authentication` state safety only: their requests wait for no one. `EveryRequestEnds`
and `LockIsFreed` therefore say that no request waits on another. `RecoversFromCreates`
is stated with its exception: a status query is sent whatever the breaker says, and its
failure restarts the duration, so status queries that fail often enough can keep a provider
out for good.

## 8. Proofs

The theorems hold for all values of the constants under the named assumptions of the
modules, and need no bound on requests, keys, bodies, providers, tasks or attempts. Two of them
(`ExcessAlwaysRaces`, `HealthyOutAlwaysUnsent`) bound a number of requests by a cardinality and therefore
assume, as a hypothesis of their own, that the set of requests is finite, of any size.

`IdempotentCreate_proofs`. Assumptions: `RefOf` is a function, `None` is no request. The
inductive invariant is

    IInv == TypeOK /\ TablesAgree /\ RepliesAreStored /\ HeldOrLapsed
            /\ EffectsAtStage /\ LateIsHeldBack /\ OrdersAccounted

* `TablesAgree` is inductive with types: a commit needs both constraints free.
* `RepliesAreStored` strengthens `OneAnswerPerKey`: every CREATED answer, also one still on its
  way out, names a stored payment of the same key and body. With unique keys the
  agreement of two answers follows.
* `HeldOrLapsed`: a request behind the lock holds it or has lapsed. Two requests cannot hold
  one lock, hence `Exclusive`.
* `EffectsAtStage`: where in its code a request with an effect can be; it keeps
  `OrdersAccounted` and `LateIsHeldBack` inductive.
* `LateIsHeldBack`: a late request whose key still has a live row is at the lookup or over, so
  it never reached the lock. The lemma `NoNewLife` (a key that has a row gets no new live
  one) closes the case of a row that expired.

The refinement, at the end of the module. `Refinement == Spec => KeepsPromise`: a commit is `Bind`, an
answer leaving is `Tell`, everything else stutters; uses `IInv`, since the row an answer was
read from must still be the row of the key.

`CircuitBreaker_proofs`. Assumptions: `Registered` is a sequence that covers the providers,
priorities are integers, threshold and duration are naturals (zero included). The
inductive invariant is `TypeOK` and `Exact(v)` for every provider: a closed breaker
has counted exactly the streak, which is below the threshold unless it is zero, and the age
of an open one is the time since the last failure. `BreakerIsExact` follows. For `ScanIsRight` the
invariant adds `ScansHold`: a settled scan has at its best the first of the best available
among the providers it has looked at, and none only if none of those is available. A step that changes
any availability unsettles all scans, so it never has to survive one.

`PaymentLifecycle_proofs`. Assumption used: the retry limit is a positive natural. The lemma
`Steps` sorts the steps into those that write something a proof is about and the rest. The types
need `CarriesAttempt` (a request that is about to write an attempt, or asks about one, has
one). On top of it each theorem has its own invariant:

* `ChangesAreLegal`: `SeenIsCurrent`, between its read and its write a request holds a status that
  admits its operation, and it is still the payment's or the request is overtaken.
* `NumbersAlwaysSound`: `CountIsCurrent`, the same for the number of attempts a retry counted.
* `ResolutionsAlwaysReal`: `FoundIsReal`, the answer a reconciliation holds is true of an attempt
  the payment has; it stays true because attempts are only appended (`AttemptsGrow`) and a
  settled order stays settled (`OrdersSettle`, an assumption about the providers that the
  model states in `Settle`).

`PaymentLifecycle_effects` builds on these:

* `MostRecentIsAsked`: at the moment it is chosen the attempt has the greatest number; with
  `NumbersAreSound` the last one has it too, unless a retry was overtaken; an attempt added later
  comes of a retry, which overtakes the request that asks.
* `EffectsAlwaysEntitled`: `AllMayBeHere`, a request past the first check is of the owner or of operations.
* `RetriesAlwaysRecorded`: `OrdersExist` and `AttemptsAreAudited` (attempt, audit row and order),
  `ProviderWasAsked` (the provider the row shows), `AttemptsAreAnswered` (a retry that committed has its attempt, and
  one that has it is to be answered, was dropped, or was told OK or an error) and `OrdersAreOwned` (where
  the retry is whose order exists).

`PaymentLifecycle_book` uses the invariants of both:

* `BookIsKept`: an operation that writes has read a status that admits it, and that status is still the
  payment's or the request is overtaken (`SeenIsCurrent`); for a retry the same of the count
  (`CountIsCurrent`); for a SUCCESS the answer held is true of a recorded order (`FoundIsReal`). There is
  one lemma for each way a step looks from outside: a write by each operation, a write of the
  outside, a step between awaits, one that gives up, one of the providers.
* `CancelsAlwaysStand`: a CANCELLED row admits no operation, so whoever changes it read it earlier and is
  overtaken by `SeenIsCurrent`; its attempt or record stays in the tables (`WroteStays`), whatever
  becomes of the request.
* `ExcessAlwaysRaces`: a retry that makes an attempt beyond the limit counted fewer, so by
  `CountIsCurrent` it was overtaken; it had made none before (`AttemptsAreAnswered`), so the set of
  overtaken retries with an attempt (`Races`) gains a member with every such attempt.

`Orchestration_proofs`. Assumptions: those of `CircuitBreaker`, `RefOf` is a function, adapters that go
by references are providers, `None` is nothing else. Every step is a step of the breakers or leaves
them alone (`BreakersStep`), so what `CircuitBreaker_proofs` shows holds here too. The
inductive invariant adds

* `RequestsSound`: where a request is, its breaker call is (`InPace`); what it has checked by then
  (`HasChecked`); what it carries to its write (`Carries`): a create an order that exists and is its own,
  a reconciliation an order recorded for its payment, and paid if the answer was COMPLETED;
* `OrdersSound`: an order's id is the one its placer would give it, and where the placer is;
* `RowsSound` and `AttemptsSound`: a SUCCESS row has a paid attempt, completion times are as they should,
  and every recorded order exists and fits the payment.

They are kept because things only `Grow`: attempts and rows are never removed, an order
keeps its placer, and what was paid stays paid or is refunded. `OwnFits` is the point of
`SuccessIsPaidFor`: two requests that make one order are one, or have one reference at a provider that
goes by references.

On the same invariant rest two results about the breakers:

* `BreakersAreKept == Spec => P!Spec`: the composed service implements `CircuitBreaker`, so its theorems
  carry over: `BreakersStayExact`, `SelectionsStayRight`.
* `HealthyOutAlwaysUnsent`: `FailuresAreUnsent`, the streak of a provider that never failed a request it was sent is at most
  the number of unsent requests. A failure that is recorded for such a provider adds a request to
  `Unsent` that was not in it, a success ends the streak, and a drop or any other step changes
  neither; `QueriesInPlace` ties a status query to the provider of the order it is about. With
  `BreakersStayExact`'s invariant (an open breaker has counted `Threshold`) the bound follows.

`Authentication_proofs`. Assumptions: keys, prefixes and payments have owners, `None` is no key and no row. The argument
is about one request at a time: a step is its own, or leaves it where it is and may move the
tables, which `since` records (`FactsAreKept`). `ContextIsEarned` says that the context a handler works from is
that of the presented key, which was live; if never together with its merchant being active, the
merchant is inactive still or was reactivated. By `OnePerPrefix` (the constraint), a row that the
prefix finds and the secret does not fit means that the presented key has no row. `RevocationAlwaysHolds` goes by
`Barred`: a request with a revoked key is before its presentation, waits for its key to be found, or was
turned away; a revoked row stays (`RevokedStays`), and none that is found is revoked.

`PaymentSearch_proofs`. Assumptions: finitely many payments, integer stamps, a positive limit with the
default within it. `ShownSoFar` speaks of `Due(n)`: the payments to be shown of which fewer than
`n` others come before. At each stage those due before the current page have been seen.
`PageHasItsRanks` says that a page of the list contains every untied payment of its ranks, by
counting; `GrowthMovesBack` says that ranks only grow while nothing leaves; `PagesHold` is
the rounding of `total_pages`. `ItemsCounted` carries `ItemsWithinTotal` from the fetch to the count.

Only model-checked: liveness (`EveryRequestEnds`, `LockIsFreed`, `RecoversFromCreates`), which is beyond the
prover. Every safety property of the passing runs is a theorem.

## 9. Not modelled

* Retry classification and backoff (`is_retryable_http_status`, `is_retryable_error`,
  `retry_delay_seconds`): nothing calls them.
* Webhooks: the route answers 501, `application/webhook.rs` is empty, and the statements of the webhook
  repository are issued by nobody. `OutsideWriter` and `Escalate` stand for what would come of them. The
  services `audit`, `provider` and `reconciliation` are files of one line.
* Which characters make an email, a currency or a date valid; whether `validate` refuses is modelled,
  and so is the one place where what it admits cannot be stored.
* Payloads, URLs and signatures of the adapters, and their cancel and refund calls, which the service
  does not make.
* The hash of a key: a secret verifies against the row of its own key alone.
* `failure_reason`, `payment_url`, the snapshots and the JSON of audit rows, which no decision reads.
* Health, metrics, logging, configuration and start-up: I/O, or read once. What the settings decide
  (threshold, duration, priorities, credentials, the retry limit) are constants.

## 10. Plan

Done: the create path (most important: money is ordered twice or not), the lifecycle, the
breakers, the search, their composition in `Orchestration`, authentication, the abstract specifications
`OncePerKey` and `PaymentBook`, and the safety and refinement theorems of all of them.

What could come next:

1. The middleware in the composition: its creates share keys, but which of them get through together is
   `IdempotentCreate`'s matter.
2. `Orchestration` as a second implementation of `PaymentBook`, which `PaymentLifecycle` implements: it has
   the creates that `PaymentBook` takes as given.
3. The webhook handler and the worker, once the code has them, in the place of `OutsideWriter` and
   `Escalate`.
