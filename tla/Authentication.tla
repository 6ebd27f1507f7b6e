---------------------------- MODULE Authentication ----------------------------
(***************************************************************************)
(* API keys, the middleware that checks them                               *)
(* (api/middleware/authentication.rs, security/, PgApiKeyRepository), and   *)
(* what the routes do with the merchant it finds: read the merchant's own   *)
(* payments, or run an operation for which the key needs the role.          *)
(*                                                                         *)
(* The middleware reads the key's row and the merchant's row one after the  *)
(* other, and the handler works from a snapshot of the first: keys may be   *)
(* revoked, and merchants suspended, between any two of these steps. Keys   *)
(* are found by a prefix that several keys may share, and known by their    *)
(* secret. Operators work on the two tables by hand.                        *)
(*                                                                         *)
(* The status of a merchant is only ever compared with ACTIVE. Hashing is   *)
(* left out: a secret verifies against the row of its own key alone.        *)
(***************************************************************************)

CONSTANTS
  Merchant,
  Key,         \* API keys, known by their secrets
  MerchantOf,  \* whose key it is to be
  Prefix,
  PrefixOf,    \* key_prefix: the first ten characters
  Permission,
  Operations,  \* operations and admin
  Payment,
  Belongs,     \* the merchant of a payment
  Request,     \* each sent once
  None

ASSUME KeysAssumption       == /\ MerchantOf \in [Key -> Merchant]
                               /\ PrefixOf \in [Key -> Prefix]
ASSUME OperationsAssumption == Operations \subseteq Permission
ASSUME BelongsAssumption    == Belongs \in [Payment -> Merchant]
ASSUME NoneIsNoKey          == None \notin Key

VARIABLES
  keys,     \* Postgres: api_keys, as far as there is a row
  active,   \* Postgres: the merchants that are ACTIVE
  pc,       \* where each request is
  job,      \* what each request asks for, and the secret it presents
  context,  \* the MerchantContext of each request
  answer,   \* what each request was answered
  shown,    \* the payments it was shown
  since     \* history: what was the case since each request came in

vars   == <<keys, active, pc, job, context, answer, shown, since>>
tables == <<keys, active>>

-----------------------------------------------------------------------------
(* The state.                                                              *)

KeyRow == [state : {"valid", "revoked", "expired"}, permission : Permission]

ASSUME NoneIsNoRow == None \notin KeyRow

(* key: None stands for a header that is missing or no bearer token. *)
Job == [op : {"get", "search", "operate"}, key : Key \cup {None},
        payment : Payment]

Context == [merchant : Merchant, permission : Permission]

Stage == {"idle", "find", "merchant", "handler", "done"}

Reply == {"NONE", "OK", "UNAUTHORIZED", "FORBIDDEN", "NOT_FOUND", "ERROR"}

Fact == {"live", "dead", "active", "inactive", "both", "role",
         "reactivated", "failed"}

TypeOK ==
  /\ keys \in [Key -> KeyRow \cup {None}]
  /\ active \subseteq Merchant
  /\ pc \in [Request -> Stage]
  /\ job \in [Request -> Job]
  /\ context \in [Request -> Context \cup {None}]
  /\ answer \in [Request -> Reply]
  /\ shown \in [Request -> SUBSET Payment]
  /\ since \in [Request -> SUBSET Fact]

Init ==
  /\ keys = [k \in Key |-> None]
  /\ active = Merchant
  /\ pc = [r \in Request |-> "idle"]
  /\ job \in [Request -> Job]
  /\ context = [r \in Request |-> None]
  /\ answer = [r \in Request |-> "NONE"]
  /\ shown = [r \in Request |-> {}]
  /\ since = [r \in Request |-> {}]

Live(k) == keys[k] # None /\ keys[k].state = "valid"

UnderWay(r) == pc[r] \in {"find", "merchant", "handler"}

-----------------------------------------------------------------------------
(* The history.                                                            *)

(* What is the case for a key: some of these facts at any moment. *)
Facts(k) ==
  LET on == MerchantOf[k] \in active IN
     {IF Live(k) THEN "live" ELSE "dead", IF on THEN "active" ELSE "inactive"}
  \cup (IF Live(k) /\ on THEN {"both"} ELSE {})
  \cup (IF Live(k) /\ keys[k].permission \in Operations THEN {"role"} ELSE {})

(* What a step adds for a request that is under way after it. *)
Witnessed(r) ==
  LET k == job[r].key IN
  IF k = None THEN {}
  ELSE Facts(k)' \cup (IF MerchantOf[k] \in active' \ active
                         THEN {"reactivated"} ELSE {})

(* Every step, of a request or an operator. *)
Witness ==
  since' = [r \in Request |-> IF UnderWay(r)' THEN since[r] \cup Witnessed(r)
                                              ELSE since[r]]

-----------------------------------------------------------------------------
(* The middleware.                                                         *)

Goto(r, stage) == pc' = [pc EXCEPT ![r] = stage]

Finish(r, reply) ==
  /\ Goto(r, "done")
  /\ answer' = [answer EXCEPT ![r] = reply]

End(r, reply) ==
  /\ Finish(r, reply)
  /\ UNCHANGED <<tables, job, context, shown, since>>

NoToken(r) ==
  /\ pc[r] = "idle" /\ job[r].key = None
  /\ End(r, "UNAUTHORIZED")

Present(r) ==
  /\ pc[r] = "idle" /\ job[r].key # None
  /\ Goto(r, "find")
  /\ UNCHANGED <<tables, job, context, answer, shown>>
  /\ Witness

(* Slip: revoked and expired keys are found as well. *)
FoundAnyState(k) == {l \in Key : PrefixOf[l] = PrefixOf[k] /\ keys[l] # None}

(* The rows find_by_key_prefix may return one of. *)
FoundBy(k) == {l \in Key : PrefixOf[l] = PrefixOf[k] /\ Live(l)}

(* Slip: a row that is found is the right one. *)
AcceptPrefix(r) ==
  /\ pc[r] = "find"
  /\ \E k \in FoundBy(job[r].key) :
       context' = [context EXCEPT ![r] =
         [merchant |-> MerchantOf[k], permission |-> keys[k].permission]]
  /\ Goto(r, "merchant")
  /\ UNCHANGED <<tables, job, answer, shown>>
  /\ Witness

(* Slip: the id of the key for the id of its merchant. *)
AcceptKeyId(r) ==
  LET k == job[r].key IN
  /\ pc[r] = "find" /\ k \in FoundBy(k)
  /\ context' = [context EXCEPT ![r] =
       [merchant |-> k, permission |-> keys[k].permission]]
  /\ Goto(r, "merchant")
  /\ UNCHANGED <<tables, job, answer, shown>>
  /\ Witness

(* The row that was found verifies the secret. *)
AcceptKey(r) ==
  LET k == job[r].key IN
  /\ pc[r] = "find" /\ k \in FoundBy(k)
  /\ context' = [context EXCEPT ![r] =
       [merchant |-> MerchantOf[k], permission |-> keys[k].permission]]
  /\ Goto(r, "merchant")
  /\ UNCHANGED <<tables, job, answer, shown>>
  /\ Witness

(* There is no row, or one that does not verify the secret. *)
RejectKey(r) ==
  LET k == job[r].key IN
  /\ pc[r] = "find"
  /\ FoundBy(k) = {} \/ \E l \in FoundBy(k) : l # k
  /\ End(r, "UNAUTHORIZED")

AcceptMerchant(r) ==
  /\ pc[r] = "merchant" /\ context[r].merchant \in active
  /\ Goto(r, "handler")
  /\ UNCHANGED <<tables, job, context, answer, shown>>
  /\ Witness

RejectMerchant(r) ==
  /\ pc[r] = "merchant" /\ context[r].merchant \notin active
  /\ End(r, "UNAUTHORIZED")

(* A database error in either read is a bad key to the caller. *)
AuthReadFails(r) ==
  /\ pc[r] \in {"find", "merchant"}
  /\ Finish(r, "UNAUTHORIZED")
  /\ since' = [since EXCEPT ![r] = @ \cup {"failed"}]
  /\ UNCHANGED <<tables, job, context, shown>>

-----------------------------------------------------------------------------
(* The handlers.                                                           *)

Show(r, ps) ==
  /\ shown' = [shown EXCEPT ![r] = ps]
  /\ Finish(r, "OK")
  /\ UNCHANGED <<tables, job, context, since>>

In(r, op) == pc[r] = "handler" /\ job[r].op = op

Owned(r) == {p \in Payment : Belongs[p] = context[r].merchant}

GetPayment(r) ==
  /\ In(r, "get") /\ job[r].payment \in Owned(r)
  /\ Show(r, {job[r].payment})

(* Another merchant's payment is none. *)
GetNotFound(r) ==
  /\ In(r, "get") /\ job[r].payment \notin Owned(r)
  /\ End(r, "NOT_FOUND")

SearchPayments(r) ==
  /\ In(r, "search")
  /\ Show(r, Owned(r))

(* Slip: the route does not look at the role. *)
OperateUnchecked(r) ==
  /\ In(r, "operate")
  /\ Show(r, {job[r].payment})

(* Retry and reconcile are for operations keys, whoever's the payment. *)
Operate(r) ==
  /\ In(r, "operate") /\ context[r].permission \in Operations
  /\ Show(r, {job[r].payment})

OperateForbidden(r) ==
  /\ In(r, "operate") /\ context[r].permission \notin Operations
  /\ End(r, "FORBIDDEN")

HandlerFails(r) ==
  /\ pc[r] = "handler"
  /\ End(r, "ERROR")

-----------------------------------------------------------------------------
(* The operators.                                                          *)

Write(k, row) ==
  /\ keys' = [keys EXCEPT ![k] = row]
  /\ UNCHANGED <<active, pc, job, context, answer, shown>>
  /\ Witness

(* Slip: key_prefix is a plain index. *)
IssueAnyPrefix(k, permission) ==
  /\ keys[k] = None
  /\ Write(k, [state |-> "valid", permission |-> permission])

(* gen_api_key prints the INSERT; key_prefix is UNIQUE, revoked rows count. *)
Issue(k, permission) ==
  /\ \A l \in Key : PrefixOf[l] = PrefixOf[k] => keys[l] = None
  /\ Write(k, [state |-> "valid", permission |-> permission])

(* A key is revoked for good, expires, or is extended after it expired. *)
Turn(k, state) ==
  /\ keys[k] # None /\ keys[k].state \notin {"revoked", state}
  /\ Write(k, [keys[k] EXCEPT !.state = state])

Entitle(k, permission) ==
  /\ keys[k] # None
  /\ Write(k, [keys[k] EXCEPT !.permission = permission])

Switch(m) ==
  /\ active' = IF m \in active THEN active \ {m} ELSE active \cup {m}
  /\ UNCHANGED <<keys, pc, job, context, answer, shown>>
  /\ Witness

-----------------------------------------------------------------------------
Serve(r) ==
  \/ NoToken(r) \/ Present(r)
  \/ AcceptKey(r) \/ RejectKey(r) \/ AcceptMerchant(r) \/ RejectMerchant(r)
  \/ AuthReadFails(r)
  \/ GetPayment(r) \/ GetNotFound(r) \/ SearchPayments(r)
  \/ Operate(r) \/ OperateForbidden(r) \/ HandlerFails(r)

Next ==
  \/ \E r \in Request : Serve(r)
  \/ \E k \in Key, permission \in Permission :
       Issue(k, permission) \/ Entitle(k, permission)
  \/ \E k \in Key, state \in {"valid", "revoked", "expired"} : Turn(k, state)
  \/ \E m \in Merchant : Switch(m)

Spec == Init /\ [][Next]_vars

-----------------------------------------------------------------------------
(* Safety.                                                                 *)

Admitted(r) == \/ pc[r] = "handler"
               \/ answer[r] \notin {"NONE", "UNAUTHORIZED"}

(* A request gets past the middleware only if, since it came in, its key    *)
(* was live and its merchant active, and both at one moment unless the      *)
(* merchant was reactivated meanwhile: whatever the operators do between    *)
(* the two reads.                                                          *)
AdmissionIsEarned ==
  \A r \in Request : Admitted(r) =>
    /\ {"live", "active"} \subseteq since[r]
    /\ {"both", "reactivated"} \cap since[r] # {}

(* A bearer of a key is told UNAUTHORIZED only if the key was not live or   *)
(* its merchant not active at some moment since the request came in, or the *)
(* database failed: no key stands in the way of another one with its        *)
(* prefix.                                                                 *)
RefusalHasCause ==
  \A r \in Request : answer[r] = "UNAUTHORIZED" =>
    \/ job[r].key = None
    \/ {"dead", "inactive", "failed"} \cap since[r] # {}

(* Whatever prefixes the keys share, a request sees payments of the         *)
(* merchant of the very key it presented, and another merchant's only by an *)
(* operation.                                                              *)
ReadsStayHome ==
  \A r \in Request : \A p \in shown[r] :
    /\ job[r].key # None
    /\ Belongs[p] = MerchantOf[job[r].key] \/ job[r].op = "operate"

(* An operation runs only for a key that was live, with the role, at one    *)
(* moment since the request came in.                                       *)
OperationsAreEntitled ==
  \A r \in Request : job[r].op = "operate" /\ answer[r] = "OK" =>
    "role" \in since[r]

Revoked(k) == keys[k] # None /\ keys[k].state = "revoked"

TooLate(r) == pc[r] = "idle" /\ job[r].key # None /\ Revoked(job[r].key)

(* A key that is revoked opens nothing ever again: a request that comes in  *)
(* after it never gets past the middleware, whatever rows share its prefix  *)
(* and whatever the operators do to them and to the merchant.               *)
RevocationHolds == \A r \in Request : [](TooLate(r) => []~Admitted(r))
=============================================================================
