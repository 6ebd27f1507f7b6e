------------------------- MODULE Authentication_proofs -------------------------
(***************************************************************************)
(* Proofs about Authentication: the types, that nobody passes the           *)
(* middleware or is turned away without a cause, and that nobody is served  *)
(* what the presented key does not give.                                   *)
(*                                                                         *)
(* The argument for every property is about one request at a time: a step   *)
(* either is one of its own, or leaves it where it is and may move the      *)
(* tables under it, which the history then records.                        *)
(***************************************************************************)
EXTENDS Authentication, TLAPS

(* A request that is not done has no answer yet and saw nothing.            *)
Fresh == \A r \in Request : pc[r] # "done" => answer[r] = "NONE" /\ shown[r] = {}

(* What is the case now was recorded for every request that is under way.   *)
FactsAreKept ==
  \A r \in Request : UnderWay(r) =>
    job[r].key \in Key /\ Facts(job[r].key) \subseteq since[r]

(* key_prefix is UNIQUE. *)
OnePerPrefix ==
  \A k, l \in Key : PrefixOf[k] = PrefixOf[l] /\ keys[k] # None /\ keys[l] # None
                      => k = l

(* The context is that of the presented key, which was live. If it was not  *)
(* live and its merchant active together, the merchant is inactive still,   *)
(* or was reactivated.                                                     *)
ContextIsEarned ==
  \A r \in Request : pc[r] \in {"merchant", "handler"} =>
    LET m == MerchantOf[job[r].key] IN
    /\ context[r] \in Context /\ context[r].merchant = m
    /\ "live" \in since[r]
    /\ context[r].permission \in Operations => "role" \in since[r]
    /\ \/ "both" \in since[r] \/ "reactivated" \in since[r]
       \/ pc[r] = "merchant" /\ m \notin active

Grounds == Fresh /\ FactsAreKept /\ OnePerPrefix /\ ContextIsEarned

IInv == /\ TypeOK /\ Grounds
        /\ AdmissionIsEarned /\ RefusalHasCause
        /\ ReadsStayHome /\ OperationsAreEntitled

-----------------------------------------------------------------------------
LEMMA InitInv == Init => IInv
  BY DEF Init, IInv, TypeOK, Grounds, Fresh, FactsAreKept, OnePerPrefix,
     ContextIsEarned, AdmissionIsEarned, RefusalHasCause, ReadsStayHome,
     OperationsAreEntitled, Admitted, UnderWay, Stage, Reply

(* The steps of the operators: one of the tables changes.                   *)
Operators ==
  \/ \E k \in Key, permission \in Permission :
       Issue(k, permission) \/ Entitle(k, permission)
  \/ \E k \in Key, state \in {"valid", "revoked", "expired"} : Turn(k, state)
  \/ \E m \in Merchant : Switch(m)

LEMMA NextSplits == Next => Operators \/ \E r \in Request : Serve(r)
  BY DEF Next, Operators

LEMMA OperatorsStep ==
  ASSUME Operators
  PROVE  UNCHANGED <<pc, job, context, answer, shown>> /\ Witness
  BY DEF Operators, Issue, Entitle, Turn, Switch, Write

(* A request does not touch the tables, and only itself.                    *)
LEMMA ServeStep ==
  ASSUME TypeOK, NEW r \in Request, Serve(r)
  PROVE  /\ UNCHANGED <<tables, job>>
         /\ \A q \in Request \ {r} : /\ pc'[q] = pc[q]
                                     /\ answer'[q] = answer[q]
                                     /\ context'[q] = context[q]
                                     /\ shown'[q] = shown[q]
  BY DEF TypeOK, tables, Serve, NoToken, Present, AcceptKey, RejectKey, AcceptMerchant,
     RejectMerchant, AuthReadFails, GetPayment, GetNotFound, SearchPayments,
     Operate, OperateForbidden, HandlerFails, End, Finish, Goto, Show

LEMMA FactsAreFacts == \A k : Facts(k) \subseteq Fact /\ Facts(k)' \subseteq Fact
  BY DEF Facts, Fact

LEMMA WitnessIsTyped ==
  ASSUME TypeOK, Witness
  PROVE  /\ since' \in [Request -> SUBSET Fact]
         /\ \A r \in Request : since[r] \subseteq since'[r]
  <1>1. \A r \in Request : Witnessed(r) \subseteq Fact
    BY FactsAreFacts DEF Witnessed, Fact
  <1>2. QED
    BY <1>1 DEF Witness, TypeOK

(* The history only grows.                                                 *)
LEMMA SinceGrows ==
  ASSUME TypeOK, [Next]_vars
  PROVE  /\ since' \in [Request -> SUBSET Fact]
         /\ \A r \in Request : since[r] \subseteq since'[r]
  <1>1. CASE Operators
    BY <1>1, OperatorsStep, WitnessIsTyped
  <1>2. ASSUME NEW r \in Request, Serve(r)
        PROVE  Witness \/ since' = since
                 \/ since' = [since EXCEPT ![r] = @ \cup {"failed"}]
    BY <1>2 DEF Serve, NoToken, Present, AcceptKey, RejectKey, AcceptMerchant,
       RejectMerchant, AuthReadFails, GetPayment, GetNotFound, SearchPayments,
       Operate, OperateForbidden, HandlerFails, End, Show
  <1>3. CASE \E r \in Request : Serve(r)
    <2>1. PICK r \in Request : Serve(r)
      BY <1>3
    <2>2. CASE Witness
      BY <2>2, WitnessIsTyped
    <2>3. CASE since' = since
      BY <2>3 DEF TypeOK
    <2>4. CASE since' = [since EXCEPT ![r] = @ \cup {"failed"}]
      BY <2>4 DEF TypeOK, Fact
    <2>5. QED
      BY <1>2, <2>1, <2>2, <2>3, <2>4
  <1>4. CASE UNCHANGED vars
    BY <1>4 DEF vars, TypeOK
  <1>5. QED
    BY <1>1, <1>3, <1>4, NextSplits

-----------------------------------------------------------------------------
LEMMA KeysAreTyped ==
  ASSUME TypeOK, Operators
  PROVE  keys' \in [Key -> KeyRow \cup {None}] /\ active' \subseteq Merchant
  <1>1. ASSUME NEW k \in Key, NEW permission \in Permission, Issue(k, permission)
        PROVE  keys' \in [Key -> KeyRow \cup {None}] /\ active' = active
    BY <1>1 DEF Issue, Write, TypeOK, KeyRow
  <1>2. ASSUME NEW k \in Key, NEW permission \in Permission, Entitle(k, permission)
        PROVE  keys' \in [Key -> KeyRow \cup {None}] /\ active' = active
    BY <1>2 DEF Entitle, Write, TypeOK, KeyRow
  <1>3. ASSUME NEW k \in Key, NEW state \in {"valid", "revoked", "expired"},
               Turn(k, state)
        PROVE  keys' \in [Key -> KeyRow \cup {None}] /\ active' = active
    BY <1>3 DEF Turn, Write, TypeOK, KeyRow
  <1>4. ASSUME NEW m \in Merchant, Switch(m)
        PROVE  keys' = keys /\ active' \subseteq Merchant
    BY <1>4 DEF Switch, TypeOK
  <1>5. QED
    BY <1>1, <1>2, <1>3, <1>4 DEF Operators, TypeOK

LEMMA RequestsAreTyped ==
  ASSUME TypeOK, NEW r \in Request, Serve(r)
  PROVE  /\ pc' \in [Request -> Stage]
         /\ context' \in [Request -> Context \cup {None}]
         /\ answer' \in [Request -> Reply]
         /\ shown' \in [Request -> SUBSET Payment]
  <1>1. CASE NoToken(r) \/ RejectKey(r) \/ RejectMerchant(r) \/ GetNotFound(r)
             \/ OperateForbidden(r) \/ HandlerFails(r) \/ AuthReadFails(r)
    BY <1>1 DEF NoToken, RejectKey, RejectMerchant, GetNotFound, OperateForbidden,
       HandlerFails, AuthReadFails, End, Finish, Goto, TypeOK, Stage, Reply
  <1>2. CASE Present(r) \/ AcceptMerchant(r)
    BY <1>2 DEF Present, AcceptMerchant, Goto, TypeOK, Stage
  <1>3. CASE AcceptKey(r)
    <2> DEFINE k == job[r].key
               c == [merchant |-> MerchantOf[k], permission |-> keys[k].permission]
    <2>1. k \in Key /\ keys[k] # None
      BY <1>3 DEF AcceptKey, FoundBy, Live
    <2>2. keys[k] \in KeyRow
      BY <2>1 DEF TypeOK
    <2>3. c \in Context
      BY <2>1, <2>2, KeysAssumption DEF Context, KeyRow
    <2>4. context' = [context EXCEPT ![r] = c] /\ pc' = [pc EXCEPT ![r] = "merchant"]
          /\ answer' = answer /\ shown' = shown
      BY <1>3 DEF AcceptKey, Goto
    <2> HIDE DEF c
    <2>5. QED
      BY <2>3, <2>4 DEF TypeOK, Stage
  <1>4. CASE GetPayment(r) \/ SearchPayments(r) \/ Operate(r)
    <2>1. job[r].payment \in Payment
      BY DEF TypeOK, Job
    <2>2. Owned(r) \subseteq Payment
      BY DEF Owned
    <2>3. PICK ps \in SUBSET Payment : Show(r, ps)
      BY <1>4, <2>1, <2>2 DEF GetPayment, SearchPayments, Operate
    <2>4. QED
      BY <2>3 DEF Show, Finish, Goto, TypeOK, Stage, Reply
  <1>5. QED
    BY <1>1, <1>2, <1>3, <1>4 DEF Serve

LEMMA TypeStep == TypeOK /\ [Next]_vars => TypeOK'
  <1> SUFFICES ASSUME TypeOK, [Next]_vars PROVE TypeOK'
    OBVIOUS
  <1>1. CASE Operators
    BY <1>1, KeysAreTyped, OperatorsStep, SinceGrows DEF TypeOK
  <1>2. CASE \E r \in Request : Serve(r)
    <2>1. PICK r \in Request : Serve(r)
      BY <1>2
    <2>2. QED
      BY <2>1, RequestsAreTyped, ServeStep, SinceGrows DEF TypeOK, tables
  <1>3. CASE UNCHANGED vars
    BY <1>3 DEF vars, TypeOK
  <1>4. QED
    BY <1>1, <1>2, <1>3, NextSplits

-----------------------------------------------------------------------------
(* The grounds.                                                            *)

(* A request that stays where it is. *)
Rests(q) == pc'[q] = pc[q] /\ answer'[q] = answer[q]
            /\ context'[q] = context[q] /\ shown'[q] = shown[q]

LEMMA JobStays ==
  ASSUME TypeOK, [Next]_vars
  PROVE  job' = job
  BY NextSplits, OperatorsStep, ServeStep DEF vars

(* A step of the system is a step of this request, or leaves it in place.   *)
LEMMA OwnOrRests ==
  ASSUME TypeOK, [Next]_vars, NEW q \in Request
  PROVE  Serve(q) \/ Rests(q)
  <1>1. CASE Operators
    BY <1>1, OperatorsStep DEF Rests
  <1>2. CASE \E r \in Request : Serve(r)
    BY <1>2, ServeStep DEF Rests
  <1>3. CASE UNCHANGED vars
    BY <1>3 DEF vars, Rests
  <1>4. QED
    BY <1>1, <1>2, <1>3, NextSplits

LEMMA FreshStep ==
  ASSUME TypeOK, Fresh, [Next]_vars
  PROVE  Fresh'
  <1> SUFFICES ASSUME NEW q \in Request, pc'[q] # "done"
               PROVE  answer'[q] = "NONE" /\ shown'[q] = {}
    BY DEF Fresh
  <1>1. CASE Rests(q)
    BY <1>1 DEF Rests, Fresh
  <1>2. CASE Serve(q)
    BY <1>2 DEF Fresh, TypeOK, Serve, NoToken, Present, AcceptKey, RejectKey,
       AcceptMerchant, RejectMerchant, AuthReadFails, GetPayment, GetNotFound,
       SearchPayments, Operate, OperateForbidden, HandlerFails, End, Finish,
       Goto, Show
  <1>3. QED
    BY <1>1, <1>2, OwnOrRests

LEMMA PrefixStep ==
  ASSUME TypeOK, OnePerPrefix, [Next]_vars
  PROVE  OnePerPrefix'
  <1>1. ASSUME NEW k \in Key, NEW permission \in Permission, Issue(k, permission)
        PROVE  OnePerPrefix'
    BY <1>1 DEF Issue, Write, OnePerPrefix, TypeOK
  <1>2. ASSUME NEW k \in Key, keys[k] # None, NEW row, keys' = [keys EXCEPT ![k] = row]
        PROVE  OnePerPrefix'
    BY <1>2 DEF OnePerPrefix, TypeOK
  <1>3. ASSUME keys' = keys
        PROVE  OnePerPrefix'
    BY <1>3 DEF OnePerPrefix
  <1>4. CASE Operators
    BY <1>1, <1>2, <1>3, <1>4 DEF Operators, Entitle, Turn, Switch, Write
  <1>5. QED
    BY <1>3, <1>4, NextSplits, ServeStep DEF vars, tables

(* Every step records what is the case after it, or leaves the tables alone.*)
LEMMA WitnessedOrStill ==
  ASSUME TypeOK, [Next]_vars
  PROVE  \/ Witness
         \/ /\ UNCHANGED tables
            /\ \A q \in Request : UnderWay(q)' => UnderWay(q)
  <1>1. CASE Operators
    BY <1>1, OperatorsStep
  <1>2. ASSUME NEW r \in Request, Serve(r)
        PROVE  \/ Witness
               \/ /\ UNCHANGED tables
                  /\ \A q \in Request : UnderWay(q)' => UnderWay(q)
    <2>1. CASE Present(r) \/ AcceptKey(r) \/ AcceptMerchant(r)
      BY <2>1 DEF Present, AcceptKey, AcceptMerchant
    <2>2. CASE ~(Present(r) \/ AcceptKey(r) \/ AcceptMerchant(r))
      <3>1. pc' = [pc EXCEPT ![r] = "done"]
        BY <1>2, <2>2 DEF Serve, NoToken, RejectKey, RejectMerchant, AuthReadFails,
           GetPayment, GetNotFound, SearchPayments, Operate, OperateForbidden,
           HandlerFails, End, Finish, Goto, Show
      <3>2. \A q \in Request : UnderWay(q)' => UnderWay(q)
        BY <3>1 DEF UnderWay, TypeOK
      <3>3. QED
        BY <1>2, <3>2, ServeStep
    <2>3. QED
      BY <2>1, <2>2
  <1>3. CASE UNCHANGED vars
    BY <1>3 DEF vars, tables, UnderWay
  <1>4. QED
    BY <1>1, <1>2, <1>3, NextSplits

LEMMA FactsStep ==
  ASSUME TypeOK, FactsAreKept, [Next]_vars
  PROVE  FactsAreKept'
  <1> SUFFICES ASSUME NEW q \in Request, UnderWay(q)'
               PROVE  (/\ job[q].key \in Key
                       /\ Facts(job[q].key) \subseteq since[q])'
    BY DEF FactsAreKept
  <1> DEFINE k == job[q].key
  <1>1. job' = job /\ since[q] \subseteq since'[q]
    BY JobStays, SinceGrows
  <1>2. k \in Key
    <2>1. CASE UnderWay(q)
      BY <2>1 DEF FactsAreKept
    <2>2. CASE ~UnderWay(q) /\ Serve(q)
      <3>1. k # None
        BY <2>2 DEF UnderWay, TypeOK, Serve, NoToken, Present, AcceptKey,
           RejectKey, AcceptMerchant, RejectMerchant, AuthReadFails, GetPayment,
           GetNotFound, SearchPayments, Operate, OperateForbidden, HandlerFails,
           In, End, Finish, Goto, Show
      <3>2. QED
        BY <3>1 DEF TypeOK, Job
    <2>3. CASE Rests(q)
      BY <2>3 DEF Rests, UnderWay, FactsAreKept
    <2>4. QED
      BY <2>1, <2>2, <2>3, OwnOrRests
  <1>3. CASE Witness
    <2>1. since'[q] = since[q] \cup Witnessed(q)
      BY <1>3 DEF Witness
    <2>2. Facts(k)' \subseteq Witnessed(q)
      BY <1>1, <1>2, NoneIsNoKey DEF Witnessed
    <2>3. QED
      BY <1>1, <1>2, <2>1, <2>2
  <1>4. CASE UNCHANGED tables /\ UnderWay(q)
    <2>1. Facts(k)' = Facts(k)
      BY <1>1, <1>4 DEF tables, Facts, Live
    <2>2. QED
      BY <1>1, <1>2, <1>4, <2>1 DEF FactsAreKept
  <1>5. QED
    BY <1>3, <1>4, WitnessedOrStill

(* A merchant that becomes active under a request is remembered.            *)
LEMMA ReactivationIsSeen ==
  ASSUME TypeOK, FactsAreKept, [Next]_vars, NEW q \in Request,
         UnderWay(q), UnderWay(q)',
         MerchantOf[job[q].key] \in active', MerchantOf[job[q].key] \notin active
  PROVE  "reactivated" \in since'[q]
  <1>1. ~ UNCHANGED tables
    BY DEF tables
  <1>2. Witness /\ job' = job
    BY <1>1, WitnessedOrStill, JobStays
  <1>3. job[q].key # None
    BY NoneIsNoKey DEF FactsAreKept
  <1>4. "reactivated" \in Witnessed(q)
    BY <1>3 DEF Witnessed
  <1>5. QED
    BY <1>2, <1>4 DEF Witness

LEMMA ContextStep ==
  ASSUME TypeOK, FactsAreKept, ContextIsEarned, [Next]_vars
  PROVE  ContextIsEarned'
  <1> DEFINE Earned(q) ==
        LET m == MerchantOf[job[q].key] IN
        /\ context[q] \in Context /\ context[q].merchant = m
        /\ "live" \in since[q]
        /\ context[q].permission \in Operations => "role" \in since[q]
        /\ \/ "both" \in since[q] \/ "reactivated" \in since[q]
           \/ pc[q] = "merchant" /\ m \notin active
  <1> SUFFICES ASSUME NEW q \in Request, pc'[q] \in {"merchant", "handler"}
               PROVE  Earned(q)'
    BY DEF ContextIsEarned
  <1> DEFINE k == job[q].key
  <1>1. job' = job /\ since[q] \subseteq since'[q]
    BY JobStays, SinceGrows
  <1>2. CASE AcceptKey(q)
    <2>1. k \in Key /\ Live(k) /\ Facts(k) \subseteq since'[q]
      BY <1>1, <1>2 DEF AcceptKey, FoundBy, FactsAreKept, UnderWay
    <2>2. /\ context'[q] = [merchant |-> MerchantOf[k],
                            permission |-> keys[k].permission]
          /\ pc'[q] = "merchant" /\ active' = active
      BY <1>2 DEF AcceptKey, Goto, TypeOK, tables
    <2>3. keys[k] \in KeyRow
      BY <2>1 DEF Live, TypeOK
    <2>4. context'[q] \in Context
      BY <2>1, <2>2, <2>3, KeysAssumption DEF Context, KeyRow
    <2>5. /\ "live" \in Facts(k)
          /\ keys[k].permission \in Operations => "role" \in Facts(k)
          /\ MerchantOf[k] \in active => "both" \in Facts(k)
      BY <2>1 DEF Facts
    <2>6. QED
      BY <1>1, <2>1, <2>2, <2>4, <2>5
  <1>3. CASE AcceptMerchant(q)
    <2>1. /\ pc[q] = "merchant" /\ context[q].merchant \in active
          /\ context' = context /\ pc'[q] = "handler"
      BY <1>3 DEF AcceptMerchant, Goto, TypeOK
    <2>2. QED
      BY <1>1, <2>1 DEF ContextIsEarned
  <1>4. CASE Rests(q)
    <2>1. pc[q] \in {"merchant", "handler"} /\ UnderWay(q) /\ UnderWay(q)'
      BY <1>4 DEF Rests, UnderWay
    <2>2. Earned(q) /\ context'[q] = context[q] /\ pc'[q] = pc[q]
      BY <1>4, <2>1 DEF ContextIsEarned, Rests
    <2>3. MerchantOf[k] \notin active =>
            MerchantOf[k] \notin active' \/ "reactivated" \in since'[q]
      BY <2>1, ReactivationIsSeen
    <2>4. QED
      BY <1>1, <2>2, <2>3
  <1>5. CASE Serve(q) /\ ~AcceptKey(q) /\ ~AcceptMerchant(q)
    BY <1>5 DEF TypeOK, Serve, NoToken, Present, RejectKey, RejectMerchant,
       AuthReadFails, GetPayment, GetNotFound, SearchPayments, Operate,
       OperateForbidden, HandlerFails, End, Finish, Goto, Show
  <1>6. QED
    BY <1>2, <1>3, <1>4, <1>5, OwnOrRests

LEMMA GroundsStep ==
  ASSUME TypeOK, Grounds, [Next]_vars
  PROVE  Grounds'
  BY FreshStep, FactsStep, PrefixStep, ContextStep DEF Grounds

-----------------------------------------------------------------------------
(* The properties.                                                         *)

LEMMA AdmissionStep ==
  ASSUME TypeOK, Grounds, AdmissionIsEarned, [Next]_vars
  PROVE  AdmissionIsEarned'
  <1> DEFINE Earned(q) == /\ {"live", "active"} \subseteq since[q]
                          /\ {"both", "reactivated"} \cap since[q] # {}
  <1> SUFFICES ASSUME NEW q \in Request, Admitted(q)'
               PROVE  Earned(q)'
    BY DEF AdmissionIsEarned
  <1>1. since[q] \subseteq since'[q]
    BY SinceGrows
  <1>2. CASE Admitted(q)
    BY <1>1, <1>2 DEF AdmissionIsEarned
  <1>3. CASE AcceptMerchant(q)
    <2>1. /\ pc[q] = "merchant" /\ context[q].merchant \in active
      BY <1>3 DEF AcceptMerchant
    <2>2. /\ "live" \in since[q] /\ MerchantOf[job[q].key] \in active
          /\ "both" \in since[q] \/ "reactivated" \in since[q]
      BY <2>1 DEF Grounds, ContextIsEarned
    <2>3. "active" \in since[q]
      BY <2>1, <2>2 DEF Grounds, FactsAreKept, Facts, UnderWay
    <2>4. QED
      BY <1>1, <2>2, <2>3
  <1>4. CASE Rests(q)
    BY <1>4, <1>2 DEF Rests, Admitted
  <1>5. CASE Serve(q) /\ ~AcceptMerchant(q) /\ ~Admitted(q)
    BY <1>5 DEF Grounds, Fresh, Admitted, TypeOK, Serve, NoToken, Present,
       AcceptKey, RejectKey, RejectMerchant, AuthReadFails, GetPayment,
       GetNotFound, SearchPayments, Operate, OperateForbidden, HandlerFails,
       In, End, Finish, Goto, Show
  <1>6. QED
    BY <1>2, <1>3, <1>4, <1>5, OwnOrRests

LEMMA RefusalStep ==
  ASSUME TypeOK, Grounds, RefusalHasCause, [Next]_vars
  PROVE  RefusalHasCause'
  <1> SUFFICES ASSUME NEW q \in Request, answer'[q] = "UNAUTHORIZED",
                      job[q].key # None
               PROVE  {"dead", "inactive", "failed"} \cap since'[q] # {}
    BY JobStays DEF RefusalHasCause
  <1> DEFINE k == job[q].key
  <1>1. since[q] \subseteq since'[q]
    BY SinceGrows
  <1>2. CASE answer[q] = "UNAUTHORIZED"
    BY <1>1, <1>2 DEF RefusalHasCause
  <1>3. CASE RejectKey(q)
    <2>1. k \in Key /\ Facts(k) \subseteq since[q]
      BY <1>3 DEF RejectKey, Grounds, FactsAreKept, UnderWay
    <2>2. ~Live(k)
      BY <1>3, <2>1 DEF RejectKey, FoundBy, Live, Grounds, OnePerPrefix
    <2>3. "dead" \in Facts(k)
      BY <2>2 DEF Facts
    <2>4. QED
      BY <1>1, <2>1, <2>3
  <1>4. CASE RejectMerchant(q)
    <2>1. Facts(k) \subseteq since[q] /\ MerchantOf[k] \notin active
      BY <1>4 DEF RejectMerchant, Grounds, FactsAreKept, ContextIsEarned, UnderWay
    <2>2. "inactive" \in Facts(k)
      BY <2>1 DEF Facts
    <2>3. QED
      BY <1>1, <2>1, <2>2
  <1>5. CASE AuthReadFails(q)
    BY <1>5 DEF AuthReadFails, TypeOK
  <1>6. CASE Rests(q)
    BY <1>2, <1>6 DEF Rests
  <1>7. CASE /\ Serve(q) /\ answer[q] # "UNAUTHORIZED"
             /\ ~(RejectKey(q) \/ RejectMerchant(q) \/ AuthReadFails(q))
    BY <1>7 DEF TypeOK, Serve, NoToken, Present, AcceptKey, AcceptMerchant,
       GetPayment, GetNotFound, SearchPayments, Operate, OperateForbidden,
       HandlerFails, End, Finish, Goto, Show
  <1>8. QED
    BY <1>2, <1>3, <1>4, <1>5, <1>6, <1>7, OwnOrRests

LEMMA ReadsStep ==
  ASSUME TypeOK, Grounds, ReadsStayHome, [Next]_vars
  PROVE  ReadsStayHome'
  <1> SUFFICES ASSUME NEW q \in Request, NEW p \in shown'[q]
               PROVE  /\ job[q].key # None
                      /\ Belongs[p] = MerchantOf[job[q].key] \/ job[q].op = "operate"
    BY JobStays DEF ReadsStayHome
  <1>1. CASE p \in shown[q]
    BY <1>1 DEF ReadsStayHome
  <1>2. CASE GetPayment(q) \/ SearchPayments(q) \/ Operate(q)
    <2>1. pc[q] = "handler"
      BY <1>2 DEF GetPayment, SearchPayments, Operate, In
    <2>2. job[q].key \in Key /\ context[q].merchant = MerchantOf[job[q].key]
      BY <2>1 DEF Grounds, FactsAreKept, ContextIsEarned, UnderWay
    <2>3. p \in Owned(q) \/ job[q].op = "operate"
      BY <1>2 DEF GetPayment, SearchPayments, Operate, Show, In, TypeOK
    <2>4. QED
      BY <2>2, <2>3, NoneIsNoKey DEF Owned
  <1>3. CASE Rests(q)
    BY <1>1, <1>3 DEF Rests
  <1>4. CASE Serve(q) /\ ~(GetPayment(q) \/ SearchPayments(q) \/ Operate(q))
    <2>1. shown' = shown
      BY <1>4 DEF Serve, NoToken, Present, AcceptKey, RejectKey, AcceptMerchant,
         RejectMerchant, AuthReadFails, GetNotFound, OperateForbidden,
         HandlerFails, End
    <2>2. QED
      BY <1>1, <2>1
  <1>5. QED
    BY <1>2, <1>3, <1>4, OwnOrRests

LEMMA OperationsStep ==
  ASSUME TypeOK, Grounds, OperationsAreEntitled, [Next]_vars
  PROVE  OperationsAreEntitled'
  <1> SUFFICES ASSUME NEW q \in Request, job[q].op = "operate", answer'[q] = "OK"
               PROVE  "role" \in since'[q]
    BY JobStays DEF OperationsAreEntitled
  <1>1. since[q] \subseteq since'[q]
    BY SinceGrows
  <1>2. CASE answer[q] = "OK"
    BY <1>1, <1>2 DEF OperationsAreEntitled
  <1>3. CASE Operate(q)
    BY <1>1, <1>3 DEF Operate, In, Grounds, ContextIsEarned
  <1>4. CASE Rests(q)
    BY <1>2, <1>4 DEF Rests
  <1>5. CASE Serve(q) /\ ~Operate(q) /\ answer[q] # "OK"
    BY <1>5 DEF TypeOK, Serve, NoToken, Present, AcceptKey, RejectKey,
       AcceptMerchant, RejectMerchant, AuthReadFails, GetPayment, GetNotFound,
       SearchPayments, OperateForbidden, HandlerFails, In, End, Finish, Goto, Show
  <1>6. QED
    BY <1>2, <1>3, <1>4, <1>5, OwnOrRests

LEMMA Invariance == Spec => []IInv
  <1>1. IInv /\ [Next]_vars => IInv'
    BY TypeStep, GroundsStep, AdmissionStep, RefusalStep, ReadsStep,
       OperationsStep DEF IInv
  <1>2. QED
    BY InitInv, <1>1, PTL DEF Spec

(* Type correctness, for any keys, merchants, prefixes and requests.        *)
THEOREM TypeCorrect == Spec => []TypeOK
  <1>1. IInv => TypeOK
    BY DEF IInv
  <1>2. QED
    BY Invariance, <1>1, PTL

(* Nobody is let in whose key was not live, or whose merchant not active,   *)
(* since the request came in.                                              *)
THEOREM AdmissionAlwaysEarned == Spec => []AdmissionIsEarned
  <1>1. IInv => AdmissionIsEarned
    BY DEF IInv
  <1>2. QED
    BY Invariance, <1>1, PTL

(* Nobody is turned away without a cause.                                   *)
THEOREM RefusalAlwaysHasCause == Spec => []RefusalHasCause
  <1>1. IInv => RefusalHasCause
    BY DEF IInv
  <1>2. QED
    BY Invariance, <1>1, PTL

(* Nobody reads another merchant's payments.                                *)
THEOREM ReadsAlwaysStayHome == Spec => []ReadsStayHome
  <1>1. IInv => ReadsStayHome
    BY DEF IInv
  <1>2. QED
    BY Invariance, <1>1, PTL

(* Nobody runs an operation without the role.                               *)
THEOREM OperationsAlwaysEntitled == Spec => []OperationsAreEntitled
  <1>1. IInv => OperationsAreEntitled
    BY DEF IInv
  <1>2. QED
    BY Invariance, <1>1, PTL

-----------------------------------------------------------------------------
(* Revocation. No operator brings a revoked key back: its row stays, and    *)
(* the secret is not issued a second time.                                 *)
LEMMA RevokedStays ==
  ASSUME TypeOK, [Next]_vars, NEW k \in Key, Revoked(k)
  PROVE  Revoked(k)'
  <1> USE DEF TypeOK, Revoked
  <1>1. ASSUME NEW l \in Key, NEW permission \in Permission, Issue(l, permission)
        PROVE  Revoked(k)'
    BY <1>1 DEF Issue, Write
  <1>2. ASSUME NEW l \in Key, NEW permission \in Permission, Entitle(l, permission)
        PROVE  Revoked(k)'
    <2>1. keys'[k] = keys[k]
          \/ keys'[k] = [keys[k] EXCEPT !.permission = permission]
      BY <1>2 DEF Entitle, Write
    <2>2. keys[k] \in KeyRow
      OBVIOUS
    <2>3. keys'[k].state = "revoked" /\ keys'[k] \in KeyRow
      BY <2>1, <2>2 DEF KeyRow
    <2>4. QED
      BY <2>3, NoneIsNoRow
  <1>3. ASSUME NEW l \in Key, NEW state \in {"valid", "revoked", "expired"},
               Turn(l, state)
        PROVE  Revoked(k)'
    BY <1>3 DEF Turn, Write
  <1>4. ASSUME NEW m \in Merchant, Switch(m)
        PROVE  Revoked(k)'
    BY <1>4 DEF Switch
  <1>5. CASE \E r \in Request : Serve(r)
    BY <1>5, ServeStep DEF tables
  <1>6. CASE UNCHANGED vars
    BY <1>6 DEF vars
  <1>7. QED
    BY <1>1, <1>2, <1>3, <1>4, <1>5, <1>6, NextSplits DEF Operators

(* A request whose key is revoked: it did not present it yet, its key was   *)
(* not found yet, or it was turned away.                                   *)
Barred(r) ==
  /\ job[r].key \in Key /\ Revoked(job[r].key)
  /\ \/ pc[r] \in {"idle", "find"} /\ answer[r] = "NONE"
     \/ pc[r] = "done" /\ answer[r] = "UNAUTHORIZED"

LEMMA TooLateIsBarred ==
  ASSUME IInv, NEW r \in Request, TooLate(r)
  PROVE  Barred(r)
  BY DEF IInv, TypeOK, Grounds, Fresh, Job, TooLate, Barred

LEMMA BarredStays ==
  ASSUME TypeOK, [Next]_vars, NEW r \in Request, Barred(r)
  PROVE  Barred(r)'
  <1> DEFINE k == job[r].key
  <1>1. k \in Key /\ job' = job /\ Revoked(k)
    BY JobStays DEF Barred
  <1>2. ASSUME NEW l \in Key, l = k
        PROVE  Revoked(l)'
    BY <1>1, <1>2, RevokedStays
  <1>3. Revoked(k)'
    BY <1>1, <1>2 DEF Revoked
  <1>4. (job[r].key \in Key)'
    BY <1>1
  <1>5. CASE Rests(r)
    BY <1>3, <1>4, <1>5 DEF Rests, Barred
  <1>6. CASE Serve(r)
    <2>1. k \notin FoundBy(k)
      BY <1>1 DEF FoundBy, Live, Revoked
    <2>2. \/ pc'[r] = "find" /\ answer'[r] = "NONE"
          \/ pc'[r] = "done" /\ answer'[r] = "UNAUTHORIZED"
      BY <1>6, <2>1 DEF Barred, TypeOK, Serve, NoToken, Present, AcceptKey,
         RejectKey, AcceptMerchant, RejectMerchant, AuthReadFails, GetPayment,
         GetNotFound, SearchPayments, Operate, OperateForbidden, HandlerFails,
         In, End, Finish, Goto
    <2>3. QED
      BY <1>3, <1>4, <2>2 DEF Barred
  <1>7. QED
    BY <1>5, <1>6, OwnOrRests

LEMMA BarredIsOut ==
  ASSUME NEW r \in Request, Barred(r)
  PROVE  ~Admitted(r)
  BY DEF Barred, Admitted

(* A request that comes in after its key was revoked never gets past the    *)
(* middleware, for any keys and prefixes.                                  *)
THEOREM RevocationAlwaysHolds == Spec => RevocationHolds
  <1>1. ASSUME NEW r \in Request
        PROVE  Spec => [](TooLate(r) => []~Admitted(r))
    <2>1. IInv /\ TooLate(r) => Barred(r)
      BY TooLateIsBarred
    <2>2. IInv /\ Barred(r) /\ [Next]_vars => Barred(r)'
      BY BarredStays DEF IInv
    <2>3. Barred(r) => ~Admitted(r)
      BY BarredIsOut
    <2>4. QED
      BY <2>1, <2>2, <2>3, Invariance, PTL DEF Spec
  <1>2. QED
    BY <1>1 DEF RevocationHolds
=============================================================================
