------------------------ MODULE PaymentLifecycle_proofs ------------------------
(***************************************************************************)
(* Proofs about PaymentLifecycle, for any sets of payments, providers,      *)
(* requests and callers, and any retry limit.                              *)
(***************************************************************************)
EXTENDS PaymentLifecycle, SequenceTheorems, TLAPS

(* Where a request carries an attempt, its held attempt is one.             *)
Carrying(r) == \/ At(r, "retry", "write")
               \/ At(r, "reconcile", "query")
               \/ At(r, "reconcile", "write")

CarriesAttempt == \A r \in Request : Carrying(r) => held[r].attempt \in Attempt

(* The steps that matter to the invariants.                                 *)
Moves(r) ==
  \/ Read(r) \/ CancelWrite(r) \/ RetryCount(r)
  \/ \E v \in Provider : RetryAccepted(r, v) \/ RetryCallFails(r, v)
  \/ RetryWrite(r)
  \/ ReconcileAttempts(r) \/ ReconcileQuery(r) \/ ReconcileWrite(r)

(* All others: the request begins, or ends, and nothing else moves.         *)
Quiet(r) ==
  /\ \E stage \in {"read", "done", "dropped"} : Goto(r, stage)
  /\ UNCHANGED <<job, held, payments, attempts, records, orders, overtaken>>

Outside == \/ \E o \in Order, s \in OrderState : Settle(o, s)
           \/ \E p \in Payment, s \in Status : OutsideWriter(p, s)

Still == UNCHANGED <<pc, job, held, payments, attempts, records, orders,
                     overtaken>>

(* Every step is one of these. *)
LEMMA Steps ==
  ASSUME [Next]_vars
  PROVE  \/ \E r \in Request : Moves(r) \/ Quiet(r)
         \/ Outside
         \/ Still
  <1>1. ASSUME NEW r \in Request,
               \/ Ask(r) \/ AskForbidden(r) \/ ReadNotFound(r)
               \/ ReadRefused(r) \/ ReadFails(r) \/ WriteFails(r) \/ Respond(r)
               \/ RetryExhausted(r) \/ RetryNoProvider(r) \/ CancelAudit(r)
               \/ Drop(r)
        PROVE  Quiet(r)
    BY <1>1 DEF Ask, AskForbidden, ReadNotFound, ReadRefused, ReadFails,
                WriteFails, Respond, RetryExhausted, RetryNoProvider, CancelAudit, Drop,
                End, Finish, Goto, Quiet, tables
  <1>2. CASE UNCHANGED vars
    BY <1>2 DEF vars, Still
  <1>3. QED
    BY <1>1, <1>2 DEF Next, Serve, Moves, Outside

LEMMA JobStays == ASSUME [Next]_vars PROVE job' = job
  <1>1. ASSUME NEW r \in Request, Moves(r) PROVE job' = job
    BY <1>1 DEF Moves, Read, CancelWrite, RetryCount, RetryAccepted,
                RetryCallFails, RetryWrite, ReconcileAttempts, ReconcileQuery,
                ReconcileWrite
  <1>2. CASE Outside
    BY <1>2 DEF Outside, Settle, OutsideWriter
  <1>3. QED
    BY Steps, <1>1, <1>2 DEF Quiet, Still
-----------------------------------------------------------------------------
(* Types.                                                                  *)

LEMMA OrderOfIsOrder ==
  ASSUME NEW v \in Provider, NEW p \in Payment, NEW by \in Payment \cup Request
  PROVE  OrderOf(v, p, by) \in Order
  BY DEF OrderOf, Order

LEMMA OrderedIsTyped ==
  ASSUME NEW o \in Order, orders \in [Order -> OrderState]
  PROVE  Ordered(o) \in [Order -> OrderState]
  BY DEF Ordered, OrderState

LEMMA SetStatusIsTyped ==
  ASSUME NEW p \in Payment, NEW s \in Status, NEW v \in Provider,
         payments \in [Payment -> Row], SetStatus(p, s, v)
  PROVE  payments' \in [Payment -> Row]
  BY DEF SetStatus, Row

LEMMA AttemptsAreAttempts ==
  ASSUME TypeOK, NEW p \in Payment
  PROVE  Attempts(p) \subseteq Attempt
  <1>1. attempts[p] \in Seq(Attempt)
    BY DEF TypeOK
  <1>2. \A n \in DOMAIN attempts[p] : attempts[p][n] \in Attempt
    BY <1>1, ElementOfSeq
  <1>3. QED
    BY <1>2 DEF Attempts

LEMMA TypeInit == Init => TypeOK /\ CarriesAttempt
  <1> SUFFICES ASSUME Init PROVE TypeOK /\ CarriesAttempt
    OBVIOUS
  <1>1. PICK first \in [Payment -> Provider] :
          /\ payments = [p \in Payment |-> [status |-> "PENDING",
                                            provider |-> first[p]]]
          /\ attempts = [p \in Payment |-> <<InitialAttempt(p, first[p])>>]
          /\ orders = [o \in Order |->
                         IF \E p \in Payment : o = OrderOf(first[p], p, p)
                           THEN "PENDING" ELSE "NONE"]
    BY DEF Init
  <1>2. payments \in [Payment -> Row]
    BY <1>1 DEF Row, Status
  <1>3. attempts \in [Payment -> Seq(Attempt)]
    <2>1. ASSUME NEW p \in Payment
          PROVE  InitialAttempt(p, first[p]) \in Attempt
      <3>1. OrderOf(first[p], p, p) \in Order
        BY OrderOfIsOrder
      <3>2. QED
        BY <3>1 DEF InitialAttempt, Attempt
    <2>2. ASSUME NEW p \in Payment
          PROVE  <<InitialAttempt(p, first[p])>> \in Seq(Attempt)
      BY <2>1
    <2>3. QED
      BY <1>1, <2>2
  <1>4. orders \in [Order -> OrderState]
    BY <1>1 DEF OrderState
  <1>5. held \in [Request -> Held]
    BY DEF Init, Held, Status, Found
  <1>6. QED
    BY <1>2, <1>3, <1>4, <1>5
       DEF Init, TypeOK, Stage, Reply, CarriesAttempt, Carrying, At

(* The steps of a request keep the types of what they write.                *)
LEMMA MovesAreTyped ==
  ASSUME TypeOK, CarriesAttempt, NEW r \in Request, Moves(r)
  PROVE  /\ held' \in [Request -> Held]
         /\ payments' \in [Payment -> Row]
         /\ attempts' \in [Payment -> Seq(Attempt)]
         /\ records' \subseteq Record
         /\ orders' \in [Order -> OrderState]
  <1> DEFINE p == job[r].payment
             Typed == /\ held' \in [Request -> Held]
                      /\ payments' \in [Payment -> Row]
                      /\ attempts' \in [Payment -> Seq(Attempt)]
                      /\ records' \subseteq Record
                      /\ orders' \in [Order -> OrderState]
  <1>1. /\ p \in Payment /\ payments[p] \in Row /\ held[r] \in Held
        /\ attempts[p] \in Seq(Attempt) /\ Len(attempts[p]) \in Nat
    BY DEF TypeOK, Job
  <1>2. CASE Read(r)
    <2>1. payments[p].status \in Status
      BY <1>1 DEF Row
    <2>2. held' \in [Request -> Held]
      BY <1>1, <1>2, <2>1 DEF Read, TypeOK, Held
    <2>3. QED
      BY <1>2, <2>2 DEF Read, TypeOK, tables
  <1>3. CASE CancelWrite(r)
    <2>1. payments' \in [Payment -> Row]
      BY <1>1, <1>3, SetStatusIsTyped DEF CancelWrite, TypeOK, Row, Status
    <2>2. QED
      BY <1>3, <2>1 DEF CancelWrite, TypeOK
  <1>4. CASE RetryCount(r)
    <2>1. held' \in [Request -> Held]
      BY <1>1, <1>4 DEF RetryCount, TypeOK, Held
    <2>2. QED
      BY <1>4, <2>1 DEF RetryCount, TypeOK, tables
  <1>5. ASSUME NEW v \in Provider, RetryAccepted(r, v) PROVE Typed
    <2> DEFINE o == OrderOf(v, p, r)
               a == [by |-> r, number |-> held[r].count + 1, order |-> o]
    <2>1. o \in Order
      BY <1>1, OrderOfIsOrder
    <2>2. a \in Attempt
      BY <1>1, <2>1 DEF Attempt, Held
    <2>3. held' = [held EXCEPT ![r].attempt = a] /\ orders' = Ordered(o)
      BY <1>5 DEF RetryAccepted
    <2>4. held' \in [Request -> Held]
      BY <1>1, <2>2, <2>3 DEF TypeOK, Held
    <2>5. orders' \in [Order -> OrderState]
      BY <2>1, <2>3, OrderedIsTyped DEF TypeOK
    <2>6. QED
      BY <1>5, <2>4, <2>5 DEF RetryAccepted, TypeOK, tables
  <1>6. ASSUME NEW v \in Provider, RetryCallFails(r, v) PROVE Typed
    <2>1. Ordered(OrderOf(v, p, r)) \in [Order -> OrderState]
      BY <1>1, OrderOfIsOrder, OrderedIsTyped DEF TypeOK
    <2>2. QED
      BY <1>6, <2>1 DEF RetryCallFails, TypeOK, tables
  <1>7. CASE RetryWrite(r)
    <2> DEFINE a == held[r].attempt
    <2>1. a \in Attempt
      BY <1>7 DEF RetryWrite, CarriesAttempt, Carrying
    <2>2. payments' \in [Payment -> Row]
      <3>1. a.order.at \in Provider
        BY <2>1 DEF Attempt, Order
      <3>2. QED
        BY <1>1, <1>7, <3>1, SetStatusIsTyped DEF RetryWrite, TypeOK, Status
    <2>3. attempts' \in [Payment -> Seq(Attempt)]
      <3>1. Append(attempts[p], a) \in Seq(Attempt)
        BY <1>1, <2>1
      <3>2. QED
        BY <1>7, <3>1 DEF RetryWrite, TypeOK
    <2>4. QED
      BY <1>7, <2>2, <2>3 DEF RetryWrite, TypeOK
  <1>8. CASE ReconcileAttempts(r)
    <2>1. PICK a \in Attempts(p) : held' = [held EXCEPT ![r].attempt = a]
      BY <1>8 DEF ReconcileAttempts, Latest
    <2>2. a \in Attempt
      BY <1>1, <2>1, AttemptsAreAttempts
    <2>3. held' \in [Request -> Held]
      BY <1>1, <2>1, <2>2 DEF TypeOK, Held
    <2>4. QED
      BY <1>8, <2>3 DEF ReconcileAttempts, TypeOK, tables
  <1>9. CASE ReconcileQuery(r)
    <2>1. held[r].attempt.order \in Order
      BY <1>9 DEF ReconcileQuery, CarriesAttempt, Carrying, Attempt
    <2>2. {orders[held[r].attempt.order], "UNKNOWN", "ERROR"} \subseteq Found
      BY <2>1 DEF TypeOK, Found
    <2>3. PICK f \in Found : held' = [held EXCEPT ![r].found = f]
      BY <1>9, <2>2 DEF ReconcileQuery
    <2>4. held' \in [Request -> Held]
      BY <1>1, <2>3 DEF TypeOK, Held
    <2>5. QED
      BY <1>9, <2>4 DEF ReconcileQuery, TypeOK, tables
  <1>10. CASE ReconcileWrite(r)
    <2> DEFINE resolution == Resolve(held[r].found)
    <2>1. held[r].attempt \in Attempt
      BY <1>10 DEF ReconcileWrite, CarriesAttempt, Carrying
    <2>2. records' \subseteq Record
      BY <1>1, <1>10, <2>1
         DEF ReconcileWrite, TypeOK, Record, Resolution, Resolve
    <2>3. payments' \in [Payment -> Row]
      <3>1. Resolved(resolution) \in Status
        BY DEF Resolved, Status
      <3>2. payments[p].provider \in Provider
        BY <1>1 DEF Row
      <3>3. CASE resolution = "UNCERTAIN"
        BY <1>10, <3>3 DEF ReconcileWrite, TypeOK
      <3>4. CASE resolution # "UNCERTAIN"
        <4>1. SetStatus(p, Resolved(resolution), payments[p].provider)
          BY <1>10, <3>4 DEF ReconcileWrite
        <4>2. QED
          BY <1>1, <3>1, <3>2, <4>1, SetStatusIsTyped DEF TypeOK
      <3>5. QED
        BY <3>3, <3>4
    <2>4. QED
      BY <1>10, <2>2, <2>3 DEF ReconcileWrite, TypeOK
  <1>11. QED
    BY <1>2, <1>3, <1>4, <1>5, <1>6, <1>7, <1>8, <1>9, <1>10 DEF Moves

(* The stages, the answers and the sets of requests.                        *)
LEMMA ControlIsTyped ==
  ASSUME TypeOK, [Next]_vars
  PROVE  /\ pc' \in [Request -> Stage]
         /\ answer' \in [Request -> Reply]
         /\ audit' \subseteq Request
         /\ overtaken' \subseteq Request
  <1> USE DEF TypeOK, Stage, Reply, End, Finish, Goto, tables
  <1> DEFINE Typed == /\ pc' \in [Request -> Stage]
                      /\ answer' \in [Request -> Reply]
                      /\ audit' \subseteq Request
                      /\ overtaken' \subseteq Request
  <1>0. \A p \in Payment : \A writers : Overtake(p, writers) =>
                                      overtaken' \subseteq Request
    BY DEF Overtake, InFlight
  <1>1. ASSUME NEW r \in Request,
               \/ Ask(r) \/ AskForbidden(r) \/ ReadNotFound(r)
               \/ ReadRefused(r) \/ ReadFails(r) \/ WriteFails(r) \/ Respond(r)
               \/ RetryExhausted(r) \/ RetryNoProvider(r) \/ CancelAudit(r)
        PROVE  Typed
    BY <1>1 DEF Ask, AskForbidden, ReadNotFound, ReadRefused, ReadFails,
                WriteFails, Respond, RetryExhausted, RetryNoProvider, CancelAudit
  <1>2. ASSUME NEW r \in Request, Drop(r) PROVE Typed
    BY <1>2 DEF Drop
  <1>3. ASSUME NEW r \in Request, Read(r) PROVE Typed
    <2>1. AfterRead(job[r].op) \in Stage
      BY DEF AfterRead, Job, Op
    <2>2. QED
      BY <1>3, <2>1 DEF Read
  <1>4. ASSUME NEW r \in Request,
               CancelWrite(r) \/ RetryWrite(r) \/ ReconcileWrite(r)
        PROVE  Typed
    <2>1. job[r].payment \in Payment
      BY DEF Job
    <2>2. overtaken' \subseteq Request
      BY <1>0, <1>4, <2>1 DEF CancelWrite, RetryWrite, ReconcileWrite
    <2>3. pc' \in [Request -> Stage] /\ answer' \in [Request -> Reply]
      BY <1>4 DEF CancelWrite, RetryWrite, ReconcileWrite
    <2>4. audit' \subseteq Request
      BY <1>4 DEF CancelWrite, RetryWrite, ReconcileWrite
    <2>5. QED
      BY <2>2, <2>3, <2>4
  <1>5. ASSUME NEW r \in Request, RetryCount(r) PROVE Typed
    BY <1>5 DEF RetryCount
  <1>6. ASSUME NEW r \in Request, NEW v \in Provider,
               RetryAccepted(r, v) \/ RetryCallFails(r, v)
        PROVE  Typed
    BY <1>6 DEF RetryAccepted, RetryCallFails
  <1>7. ASSUME NEW r \in Request, ReconcileAttempts(r) \/ ReconcileQuery(r)
        PROVE  Typed
    BY <1>7 DEF ReconcileAttempts, ReconcileQuery
  <1>8. CASE Outside
    BY <1>0, <1>8 DEF Outside, Settle, OutsideWriter
  <1>9. CASE UNCHANGED vars
    BY <1>9 DEF vars
  <1>10. QED
    BY <1>1, <1>2, <1>3, <1>4, <1>5, <1>6, <1>7, <1>8, <1>9
       DEF Next, Serve, Outside

(* What is held changes only with a step of its request.                    *)
LEMMA CarriesStep ==
  ASSUME TypeOK, CarriesAttempt, [Next]_vars
  PROVE  CarriesAttempt'
  <1> USE DEF CarriesAttempt, Carrying, At, Goto, Finish
  <1>0. job' = job
    BY JobStays
  <1>1. ASSUME NEW r \in Request, Moves(r) PROVE CarriesAttempt'
    <2> DEFINE p == job[r].payment
    <2>0. /\ p \in Payment /\ held[r] \in Held /\ held \in [Request -> Held]
          /\ pc \in [Request -> Stage]
      BY DEF TypeOK, Job
    <2>1. CASE Read(r)
      BY <1>0, <2>0, <2>1 DEF Read, AfterRead
    <2>2. CASE CancelWrite(r)
      BY <1>0, <2>0, <2>2 DEF CancelWrite
    <2>3. CASE RetryCount(r)
      BY <1>0, <2>0, <2>3 DEF RetryCount
    <2>4. ASSUME NEW v \in Provider, RetryAccepted(r, v) PROVE CarriesAttempt'
      <3> DEFINE o == OrderOf(v, p, r)
                 a == [by |-> r, number |-> held[r].count + 1, order |-> o]
      <3>1. a \in Attempt
        BY <2>0, OrderOfIsOrder DEF Attempt, Held
      <3>2. held' = [held EXCEPT ![r].attempt = a]
        BY <2>4 DEF RetryAccepted
      <3> HIDE DEF a
      <3>3. held'[r].attempt = a /\ \A q \in Request \ {r} : held'[q] = held[q]
        BY <2>0, <3>2 DEF Held
      <3>4. pc' = [pc EXCEPT ![r] = "write"]
        BY <2>4 DEF RetryAccepted
      <3>5. QED
        BY <1>0, <2>0, <3>1, <3>3, <3>4
    <2>5. ASSUME NEW v \in Provider, RetryCallFails(r, v)
          PROVE  CarriesAttempt'
      BY <1>0, <2>0, <2>5 DEF RetryCallFails
    <2>6. CASE RetryWrite(r)
      BY <1>0, <2>0, <2>6 DEF RetryWrite
    <2>7. CASE ReconcileAttempts(r)
      <3>1. PICK a \in Attempts(p) : held' = [held EXCEPT ![r].attempt = a]
        BY <2>7 DEF ReconcileAttempts, Latest
      <3>2. a \in Attempt
        BY <2>0, <3>1, AttemptsAreAttempts
      <3>3. held'[r].attempt = a /\ \A q \in Request \ {r} : held'[q] = held[q]
        BY <2>0, <3>1 DEF Held
      <3>4. pc' = [pc EXCEPT ![r] = "query"]
        BY <2>7 DEF ReconcileAttempts
      <3>5. QED
        BY <1>0, <2>0, <3>2, <3>3, <3>4
    <2>8. CASE ReconcileQuery(r)
      BY <1>0, <2>0, <2>8 DEF ReconcileQuery, Held
    <2>9. CASE ReconcileWrite(r)
      BY <1>0, <2>0, <2>9 DEF ReconcileWrite
    <2>10. QED
      BY <1>1, <2>1, <2>2, <2>3, <2>4, <2>5, <2>6, <2>7, <2>8, <2>9 DEF Moves
  <1>2. ASSUME NEW r \in Request, Quiet(r) PROVE CarriesAttempt'
    BY <1>0, <1>2 DEF Quiet, TypeOK
  <1>3. CASE Outside
    BY <1>0, <1>3 DEF Outside, Settle, OutsideWriter
  <1>4. CASE Still
    BY <1>0, <1>4 DEF Still
  <1>5. QED
    BY Steps, <1>1, <1>2, <1>3, <1>4

LEMMA TypeStep ==
  TypeOK /\ CarriesAttempt /\ [Next]_vars => (TypeOK /\ CarriesAttempt)'
  <1> SUFFICES ASSUME TypeOK, CarriesAttempt, [Next]_vars
               PROVE  (TypeOK /\ CarriesAttempt)'
    OBVIOUS
  <1> DEFINE Typed == /\ held' \in [Request -> Held]
                      /\ payments' \in [Payment -> Row]
                      /\ attempts' \in [Payment -> Seq(Attempt)]
                      /\ records' \subseteq Record
                      /\ orders' \in [Order -> OrderState]
  <1>1. ASSUME NEW r \in Request, Moves(r) PROVE Typed
    BY <1>1, MovesAreTyped
  <1>2. ASSUME NEW r \in Request, Quiet(r) PROVE Typed
    BY <1>2 DEF Quiet, TypeOK
  <1>3. ASSUME NEW o \in Order, NEW s \in OrderState, Settle(o, s) PROVE Typed
    BY <1>3 DEF Settle, TypeOK, tables
  <1>4. ASSUME NEW p \in Payment, NEW s \in Status, OutsideWriter(p, s)
        PROVE  Typed
    <2>1. payments' \in [Payment -> Row]
      <3>1. payments[p].provider \in Provider
        BY DEF TypeOK, Row
      <3>2. QED
        BY <1>4, <3>1, SetStatusIsTyped DEF OutsideWriter, TypeOK
    <2>2. QED
      BY <1>4, <2>1 DEF OutsideWriter, TypeOK
  <1>5. ASSUME Still PROVE Typed
    BY <1>5 DEF Still, TypeOK
  <1>6. Typed
    BY Steps, <1>1, <1>2, <1>3, <1>4, <1>5 DEF Outside
  <1>7. job' \in [Request -> Job]
    BY JobStays DEF TypeOK
  <1>8. QED
    BY <1>6, <1>7, ControlIsTyped, CarriesStep DEF TypeOK

(* Every value a variable ever has is of its type: in particular no request *)
(* writes, asks about or records an attempt it does not have.               *)
THEOREM TypeCorrect == Spec => []TypeOK
  <1>1. Init => TypeOK /\ CarriesAttempt
    BY TypeInit
  <1>2. QED
    BY <1>1, TypeStep, PTL DEF Spec
-----------------------------------------------------------------------------
(* What never goes back.                                                   *)

LEMMA OvertakenGrows == ASSUME [Next]_vars PROVE overtaken \subseteq overtaken'
  <1>1. ASSUME NEW r \in Request, Moves(r) PROVE overtaken \subseteq overtaken'
    BY <1>1 DEF Moves, Read, CancelWrite, RetryCount, RetryAccepted,
                RetryCallFails, RetryWrite, ReconcileAttempts, ReconcileQuery,
                ReconcileWrite, Overtake
  <1>2. CASE Outside
    BY <1>2 DEF Outside, Settle, OutsideWriter, Overtake
  <1>3. QED
    BY Steps, <1>1, <1>2 DEF Quiet, Still

(* Only a retry's write appends an attempt. *)
LEMMA AttemptsWritten ==
  ASSUME [Next]_vars
  PROVE  attempts' = attempts \/ \E r \in Request : RetryWrite(r)
  <1>1. ASSUME NEW r \in Request, Moves(r)
        PROVE  attempts' = attempts \/ RetryWrite(r)
    BY <1>1 DEF Moves, Read, CancelWrite, RetryCount, RetryAccepted,
                RetryCallFails, ReconcileAttempts, ReconcileQuery,
                ReconcileWrite, tables
  <1>2. CASE Outside
    BY <1>2 DEF Outside, Settle, OutsideWriter, tables
  <1>3. QED
    BY Steps, <1>1, <1>2 DEF Quiet, Still

(* An append keeps the attempts before it and adds one.                     *)
LEMMA Appended ==
  ASSUME TypeOK, CarriesAttempt, NEW r \in Request, RetryWrite(r)
  PROVE  LET p == job[r].payment
             n == Len(attempts[p]) IN
         /\ p \in Payment /\ n \in Nat /\ held[r].attempt \in Attempt
         /\ \A q \in Payment \ {p} : attempts'[q] = attempts[q]
         /\ DOMAIN attempts[p] = 1..n /\ DOMAIN attempts'[p] = 1..(n + 1)
         /\ \A m \in 1..n : attempts'[p][m] = attempts[p][m]
         /\ attempts'[p][n + 1] = held[r].attempt
  <1> DEFINE p == job[r].payment
             a == held[r].attempt
             s == attempts[p]
  <1>1. p \in Payment /\ s \in Seq(Attempt)
    BY DEF TypeOK, Job
  <1>2. a \in Attempt
    BY DEF RetryWrite, CarriesAttempt, Carrying
  <1>3. attempts' = [attempts EXCEPT ![p] = Append(s, a)]
    BY DEF RetryWrite
  <1>4. attempts'[p] = Append(s, a)
        /\ \A q \in Payment \ {p} : attempts'[q] = attempts[q]
    BY <1>1, <1>3 DEF TypeOK
  <1> HIDE DEF p, a, s
  <1>5. /\ Len(s) \in Nat /\ DOMAIN s = 1..Len(s)
        /\ Append(s, a) \in Seq(Attempt) /\ Len(Append(s, a)) = Len(s) + 1
        /\ \A m \in 1..Len(s) : Append(s, a)[m] = s[m]
        /\ Append(s, a)[Len(s) + 1] = a
    BY <1>1, <1>2, AppendProperties, LenProperties
  <1>6. DOMAIN Append(s, a) = 1..(Len(s) + 1)
    BY <1>5, LenProperties
  <1>7. QED
    BY <1>1, <1>2, <1>4, <1>5, <1>6 DEF p, a, s

LEMMA AttemptsGrow ==
  ASSUME TypeOK, CarriesAttempt, [Next]_vars, NEW q \in Payment
  PROVE  Attempts(q) \subseteq Attempts(q)'
  <1>1. CASE attempts' = attempts
    BY <1>1 DEF Attempts
  <1>2. ASSUME NEW r \in Request, RetryWrite(r)
        PROVE  Attempts(q) \subseteq Attempts(q)'
    <2>1. CASE q = job[r].payment
      BY <1>2, <2>1, Appended DEF Attempts
    <2>2. CASE q # job[r].payment
      BY <1>2, <2>2, Appended DEF Attempts
    <2>3. QED
      BY <2>1, <2>2
  <1>3. QED
    BY <1>1, <1>2, AttemptsWritten

(* An order that failed stays failed; a completed one is at most refunded.  *)
LEMMA OrdersSettle ==
  ASSUME TypeOK, [Next]_vars, NEW o \in Order
  PROVE  /\ orders[o] = "FAILED" => orders'[o] = "FAILED"
         /\ orders[o] \in {"COMPLETED", "REFUNDED"} =>
              orders'[o] \in {"COMPLETED", "REFUNDED"}
         /\ orders[o] # "NONE" => orders'[o] # "NONE"
  <1> DEFINE Kept(f) == /\ orders[o] = "FAILED" => f[o] = "FAILED"
                        /\ orders[o] \in {"COMPLETED", "REFUNDED"} =>
                             f[o] \in {"COMPLETED", "REFUNDED"}
                        /\ orders[o] # "NONE" => f[o] # "NONE"
  <1>1. ASSUME NEW x PROVE Kept(Ordered(x))
    BY DEF Ordered, TypeOK
  <1>2. ASSUME NEW r \in Request, Moves(r) PROVE Kept(orders')
    <2>1. orders' = orders \/ \E x : orders' = Ordered(x)
      BY <1>2 DEF Moves, Read, CancelWrite, RetryCount, RetryAccepted,
                  RetryCallFails, RetryWrite, ReconcileAttempts,
                  ReconcileQuery, ReconcileWrite
    <2>2. QED
      BY <1>1, <2>1
  <1>3. CASE Outside
    <2>1. ASSUME NEW x \in Order, NEW s \in OrderState, Settle(x, s)
          PROVE  Kept(orders')
      BY <2>1 DEF Settle, TypeOK
    <2>2. ASSUME NEW p \in Payment, NEW s \in Status, OutsideWriter(p, s)
          PROVE  Kept(orders')
      BY <2>2 DEF OutsideWriter
    <2>3. QED
      BY <1>3, <2>1, <2>2 DEF Outside
  <1>4. QED
    BY Steps, <1>2, <1>3 DEF Quiet, Still
-----------------------------------------------------------------------------
(* Changes of status.                                                      *)

(* Between its read and its write a request knows a status that admits its  *)
(* operation, and it is the payment's, or the request was overtaken.        *)
SeenIsCurrent ==
  \A r \in Request : pc[r] \in Flight =>
    /\ Eligible(job[r].op, held[r].seen)
    /\ held[r].seen = payments[job[r].payment].status \/ r \in overtaken

(* A write to p by w, or by no request, overtakes everyone else in flight.  *)
LEMMA WriteOvertakes ==
  ASSUME TypeOK, SeenIsCurrent, NEW p \in Payment, NEW w, Overtake(p, {w}),
         job' = job, held' = held,
         \A q \in Payment \ {p} : payments'[q] = payments[q],
         \A q \in Request : q # w => pc'[q] = pc[q],
         w \in Request => pc'[w] \notin Flight
  PROVE  SeenIsCurrent'
  <1> SUFFICES ASSUME NEW r \in Request, pc'[r] \in Flight
               PROVE  /\ Eligible(job[r].op, held[r].seen)
                      /\ \/ held[r].seen = payments'[job[r].payment].status
                         \/ r \in overtaken'
    BY DEF SeenIsCurrent
  <1>1. r # w /\ pc[r] \in Flight
    OBVIOUS
  <1>2. Eligible(job[r].op, held[r].seen)
    BY <1>1 DEF SeenIsCurrent
  <1>3. CASE job[r].payment = p
    BY <1>1, <1>3, <1>2 DEF Overtake, InFlight, Flight
  <1>4. CASE job[r].payment # p
    BY <1>1, <1>2, <1>4 DEF SeenIsCurrent, Overtake, TypeOK, Job
  <1>5. QED
    BY <1>3, <1>4

(* A step of r that stays in flight, or leaves it, and writes no payment.   *)
LEMMA SeenStays ==
  ASSUME TypeOK, SeenIsCurrent, NEW r \in Request,
         UNCHANGED <<job, payments, overtaken>>,
         \A q \in Request \ {r} : held'[q] = held[q] /\ pc'[q] = pc[q],
         pc'[r] \in Flight => pc[r] \in Flight /\ held'[r].seen = held[r].seen
  PROVE  SeenIsCurrent'
  BY DEF SeenIsCurrent

LEMMA SetStatusElsewhere ==
  ASSUME TypeOK, NEW p \in Payment, NEW s, NEW v, SetStatus(p, s, v)
  PROVE  /\ payments'[p].status = s
         /\ \A q \in Payment \ {p} : payments'[q] = payments[q]
  BY DEF SetStatus, TypeOK

LEMMA SeenStep ==
  ASSUME TypeOK, SeenIsCurrent, [Next]_vars
  PROVE  SeenIsCurrent'
  <1>0. /\ pc \in [Request -> Stage] /\ held \in [Request -> Held]
        /\ \A r \in Request : job[r].payment \in Payment
    BY DEF TypeOK, Job
  <1>1. ASSUME NEW r \in Request, Moves(r) PROVE SeenIsCurrent'
    <2> DEFINE p == job[r].payment
    <2> USE DEF Goto, Finish
    <2>1. CASE Read(r)
      BY <1>0, <2>1 DEF Read, SeenIsCurrent, Held, tables
    <2>2. CASE CancelWrite(r)
      BY <1>0, <2>2, SetStatusElsewhere, WriteOvertakes DEF CancelWrite, Flight
    <2>3. CASE RetryCount(r)
      <3>1. held' = [held EXCEPT ![r].count = Len(attempts[p])]
            /\ pc[r] = "count"
        BY <2>3 DEF RetryCount, At
      <3>2. held'[r].seen = held[r].seen
        BY <1>0, <3>1 DEF Held
      <3>3. QED
        BY <1>0, <2>3, <3>1, <3>2, SeenStays DEF RetryCount, Flight, tables
    <2>4. ASSUME NEW v \in Provider, RetryAccepted(r, v) PROVE SeenIsCurrent'
      <3>1. held'[r].seen = held[r].seen /\ pc[r] = "call"
        BY <1>0, <2>4 DEF RetryAccepted, At, Held
      <3>2. QED
        BY <1>0, <2>4, <3>1, SeenStays DEF RetryAccepted, Flight, tables
    <2>5. ASSUME NEW v \in Provider, RetryCallFails(r, v) PROVE SeenIsCurrent'
      BY <1>0, <2>5, SeenStays DEF RetryCallFails, Flight, tables
    <2>6. CASE RetryWrite(r)
      BY <1>0, <2>6, SetStatusElsewhere, WriteOvertakes DEF RetryWrite, Flight
    <2>7. CASE ReconcileAttempts(r)
      <3>1. held'[r].seen = held[r].seen /\ pc[r] = "attempts"
        BY <1>0, <2>7 DEF ReconcileAttempts, At, Held
      <3>2. \A q \in Request \ {r} : held'[q] = held[q]
        BY <1>0, <2>7 DEF ReconcileAttempts
      <3>3. QED
        BY <1>0, <2>7, <3>1, <3>2, SeenStays
           DEF ReconcileAttempts, Flight, tables
    <2>8. CASE ReconcileQuery(r)
      <3>1. held'[r].seen = held[r].seen /\ pc[r] = "query"
        BY <1>0, <2>8 DEF ReconcileQuery, At, Held
      <3>2. \A q \in Request \ {r} : held'[q] = held[q]
        BY <1>0, <2>8 DEF ReconcileQuery
      <3>3. QED
        BY <1>0, <2>8, <3>1, <3>2, SeenStays DEF ReconcileQuery, Flight, tables
    <2>9. CASE ReconcileWrite(r)
      <3>1. CASE Resolve(held[r].found) = "UNCERTAIN"
        BY <1>0, <2>9, <3>1, SeenStays DEF ReconcileWrite, Flight
      <3>2. CASE Resolve(held[r].found) # "UNCERTAIN"
        BY <1>0, <2>9, <3>2, SetStatusElsewhere, WriteOvertakes
           DEF ReconcileWrite, Flight
      <3>3. QED
        BY <3>1, <3>2
    <2>10. QED
      BY <1>1, <2>1, <2>2, <2>3, <2>4, <2>5, <2>6, <2>7, <2>8, <2>9 DEF Moves
  <1>2. ASSUME NEW r \in Request, Quiet(r) PROVE SeenIsCurrent'
    BY <1>0, <1>2, SeenStays DEF Quiet, Goto, Flight
  <1>3. ASSUME NEW o \in Order, NEW s \in OrderState, Settle(o, s)
        PROVE  SeenIsCurrent'
    BY <1>3 DEF Settle, SeenIsCurrent, tables
  <1>4. ASSUME NEW p \in Payment, NEW s \in Status, OutsideWriter(p, s)
        PROVE  SeenIsCurrent'
    <2>1. \A q \in Payment \ {p} : payments'[q] = payments[q]
      BY <1>4, SetStatusElsewhere DEF OutsideWriter
    <2>2. overtaken' = overtaken \cup InFlight(p)
      BY <1>4 DEF OutsideWriter, Overtake
    <2>3. QED
      BY <1>0, <1>4, <2>1, <2>2
         DEF OutsideWriter, SeenIsCurrent, InFlight, Flight
  <1>5. CASE Still
    BY <1>5 DEF Still, SeenIsCurrent
  <1>6. QED
    BY Steps, <1>1, <1>2, <1>3, <1>4, <1>5 DEF Outside

(* A write of r on the status it saw is legal.                              *)
LEMMA WriteIsLegal ==
  ASSUME TypeOK, SeenIsCurrent, NEW r \in Request, pc[r] = "write",
         pc'[r] # "write", NEW s, NEW v, SetStatus(job[r].payment, s, v),
         \/ job[r].op = "cancel" /\ s = "CANCELLED"
         \/ job[r].op = "retry" /\ s = "PROCESSING"
         \/ job[r].op = "reconcile" /\ s \in {"SUCCESS", "FAILED"}
  PROVE  LegalChange
  <1> DEFINE p == job[r].payment
  <1>1. p \in Payment
    BY DEF TypeOK, Job
  <1>2. /\ payments'[p].status = s
        /\ \A q \in Payment \ {p} : payments'[q] = payments[q]
    BY <1>1, SetStatusElsewhere
  <1>3. CASE r \in overtaken
    BY <1>1, <1>2, <1>3 DEF LegalChange
  <1>4. CASE r \notin overtaken
    <2>1. Eligible(job[r].op, payments[p].status)
      BY <1>4 DEF SeenIsCurrent, Flight
    <2>2. Legal(payments[p].status, s)
      BY <2>1 DEF Eligible, Legal, ValidateTransition, IsRetryable,
                  NeedsReconciliation, IsFinal
    <2>3. QED
      BY <1>1, <1>2, <2>2 DEF LegalChange
  <1>5. QED
    BY <1>3, <1>4

LEMMA ChangeStep ==
  ASSUME TypeOK, SeenIsCurrent, [Next]_vars
  PROVE  LegalChange
  <1>0. pc \in [Request -> Stage]
    BY DEF TypeOK
  <1>1. ASSUME payments' = payments PROVE LegalChange
    BY <1>1 DEF LegalChange
  <1>2. ASSUME NEW r \in Request, Moves(r) PROVE LegalChange
    <2> USE DEF Goto, Finish, At
    <2>1. CASE CancelWrite(r)
      BY <1>0, <2>1, WriteIsLegal DEF CancelWrite
    <2>2. CASE RetryWrite(r)
      BY <1>0, <2>2, WriteIsLegal DEF RetryWrite
    <2>3. CASE ReconcileWrite(r)
      BY <1>0, <1>1, <2>3, WriteIsLegal DEF ReconcileWrite, Resolved
    <2>4. CASE ~(CancelWrite(r) \/ RetryWrite(r) \/ ReconcileWrite(r))
      BY <1>1, <1>2, <2>4
         DEF Moves, Read, RetryCount, RetryAccepted, RetryCallFails,
             ReconcileAttempts, ReconcileQuery, tables
    <2>5. QED
      BY <2>1, <2>2, <2>3, <2>4
  <1>3. ASSUME NEW o \in Order, NEW s \in OrderState, Settle(o, s)
        PROVE  LegalChange
    BY <1>1, <1>3 DEF Settle, tables
  <1>4. ASSUME NEW p \in Payment, NEW s \in Status, OutsideWriter(p, s)
        PROVE  LegalChange
    BY <1>4, SetStatusElsewhere DEF OutsideWriter, LegalChange, Legal
  <1>5. QED
    BY Steps, <1>1, <1>2, <1>3, <1>4 DEF Outside, Quiet, Still

(* However requests and the outside writer race, only an overtaken request  *)
(* makes a change of status that the rules do not admit.                    *)
THEOREM ChangesAreLegal == Spec => StatusChangesLegal
  <1>1. Init => TypeOK /\ CarriesAttempt /\ SeenIsCurrent
    BY TypeInit DEF Init, SeenIsCurrent, Flight
  <1>2. TypeOK /\ CarriesAttempt /\ SeenIsCurrent /\ [Next]_vars
          => (TypeOK /\ CarriesAttempt /\ SeenIsCurrent)'
    BY TypeStep, SeenStep
  <1>3. TypeOK /\ SeenIsCurrent /\ [Next]_vars => [LegalChange]_vars
    BY ChangeStep
  <1>4. QED
    BY <1>1, <1>2, <1>3, PTL DEF Spec, StatusChangesLegal
-----------------------------------------------------------------------------
(* Attempt numbers.                                                        *)

Counted(r) == At(r, "retry", "call") \/ At(r, "retry", "write")

(* A retry that has counted knows the number of attempts, or was overtaken  *)
(* and knows a smaller one; its attempt takes the next number.              *)
CountIsCurrent ==
  \A r \in Request :
    /\ Counted(r) =>
         LET n == Len(attempts[job[r].payment]) IN
         /\ held[r].count \in 0..n
         /\ held[r].count < MaxRetryAttempts
         /\ held[r].count = n \/ r \in overtaken
    /\ At(r, "retry", "write") =>
         /\ held[r].attempt.number = held[r].count + 1
         /\ held[r].attempt.by = r

(* A step of r that appends no attempt, and that counts, or numbers the     *)
(* attempt, as the two actions of a retry do.                              *)
LEMMA CountStays ==
  ASSUME TypeOK, CountIsCurrent, NEW r \in Request, job' = job,
         attempts' = attempts, overtaken \subseteq overtaken',
         \A q \in Request \ {r} : held'[q] = held[q] /\ pc'[q] = pc[q],
         ~Counted(r)'
  PROVE  CountIsCurrent'
  BY DEF CountIsCurrent, Counted, At

LEMMA CountStep ==
  ASSUME TypeOK, CarriesAttempt, CountIsCurrent, [Next]_vars
  PROVE  CountIsCurrent'
  <1>0. /\ pc \in [Request -> Stage] /\ held \in [Request -> Held]
        /\ job' = job /\ overtaken \subseteq overtaken'
        /\ \A r \in Request : /\ job[r].payment \in Payment
                              /\ Len(attempts[job[r].payment]) \in Nat
    BY JobStays, OvertakenGrows DEF TypeOK, Job
  <1>1. ASSUME NEW r \in Request, Moves(r) PROVE CountIsCurrent'
    <2> DEFINE p == job[r].payment
    <2> USE DEF Goto, Finish
    <2>1. CASE Read(r)
      BY <1>0, <2>1, CountStays DEF Read, AfterRead, Counted, At, tables
    <2>2. CASE CancelWrite(r)
      BY <1>0, <2>2, CountStays DEF CancelWrite, Counted, At
    <2>3. CASE RetryCount(r)
      <3> DEFINE n == Len(attempts[p])
      <3>1. /\ held' = [held EXCEPT ![r].count = n]
            /\ n < MaxRetryAttempts /\ pc'[r] = "call"
            /\ attempts' = attempts
            /\ \A q \in Request \ {r} : pc'[q] = pc[q]
        BY <1>0, <2>3 DEF RetryCount, tables
      <3>2. held'[r].count = n /\ \A q \in Request \ {r} : held'[q] = held[q]
        BY <1>0, <3>1 DEF Held
      <3>3. QED
        BY <1>0, <3>1, <3>2 DEF CountIsCurrent, Counted, At
    <2>4. ASSUME NEW v \in Provider, RetryAccepted(r, v) PROVE CountIsCurrent'
      <3> DEFINE a == [by |-> r, number |-> held[r].count + 1,
                       order |-> OrderOf(v, p, r)]
      <3>1. /\ held' = [held EXCEPT ![r].attempt = a] /\ Counted(r)
            /\ pc'[r] = "write" /\ attempts' = attempts
            /\ \A q \in Request \ {r} : pc'[q] = pc[q]
        BY <1>0, <2>4 DEF RetryAccepted, Counted, At, tables
      <3>2. /\ held'[r].count = held[r].count /\ held'[r].attempt = a
            /\ \A q \in Request \ {r} : held'[q] = held[q]
        BY <1>0, <3>1 DEF Held
      <3>3. QED
        BY <1>0, <3>1, <3>2 DEF CountIsCurrent, Counted, At
    <2>5. ASSUME NEW v \in Provider, RetryCallFails(r, v) PROVE CountIsCurrent'
      BY <1>0, <2>5, CountStays DEF RetryCallFails, Counted, At, tables
    <2>6. CASE RetryWrite(r)
      <3>1. SUFFICES ASSUME NEW q \in Request, Counted(q)'
                     PROVE  /\ q # r /\ held'[q] = held[q] /\ pc'[q] = pc[q]
                            /\ LET n == Len(attempts'[job[q].payment]) IN
                               /\ held[q].count \in 0..n
                               /\ held[q].count = n \/ q \in overtaken'
        BY <1>0 DEF CountIsCurrent, Counted, At
      <3>2. q # r /\ held'[q] = held[q] /\ pc'[q] = pc[q] /\ Counted(q)
        BY <1>0, <2>6, <3>1 DEF RetryWrite, Counted, At
      <3>3. CASE job[q].payment = p
        <4>1. Len(attempts'[p]) = Len(attempts[p]) + 1
          <5>1. attempts' = [attempts EXCEPT ![p] = Append(@, held[r].attempt)]
            BY <2>6 DEF RetryWrite
          <5>2. held[r].attempt \in Attempt /\ attempts[p] \in Seq(Attempt)
            BY <1>0, <2>6, Appended DEF TypeOK
          <5>3. QED
            BY <1>0, <5>1, <5>2, AppendProperties DEF TypeOK
        <4>2. q \in overtaken'
          BY <2>6, <3>2, <3>3
             DEF RetryWrite, Overtake, InFlight, Flight, Counted, At
        <4>3. QED
          BY <1>0, <3>2, <3>3, <4>1, <4>2 DEF CountIsCurrent
      <3>4. CASE job[q].payment # p
        BY <1>0, <2>6, <3>2, <3>4, Appended DEF CountIsCurrent
      <3>5. QED
        BY <3>2, <3>3, <3>4
    <2>7. CASE ReconcileAttempts(r)
      <3>1. \A q \in Request \ {r} : held'[q] = held[q]
        BY <1>0, <2>7 DEF ReconcileAttempts
      <3>2. QED
        BY <1>0, <2>7, <3>1, CountStays
           DEF ReconcileAttempts, Counted, At, tables
    <2>8. CASE ReconcileQuery(r)
      <3>1. \A q \in Request \ {r} : held'[q] = held[q]
        BY <1>0, <2>8 DEF ReconcileQuery
      <3>2. QED
        BY <1>0, <2>8, <3>1, CountStays DEF ReconcileQuery, Counted, At, tables
    <2>9. CASE ReconcileWrite(r)
      BY <1>0, <2>9, CountStays DEF ReconcileWrite, Counted, At
    <2>10. QED
      BY <1>1, <2>1, <2>2, <2>3, <2>4, <2>5, <2>6, <2>7, <2>8, <2>9 DEF Moves
  <1>2. ASSUME NEW r \in Request, Quiet(r) PROVE CountIsCurrent'
    BY <1>0, <1>2, CountStays DEF Quiet, Goto, Counted, At
  <1>3. CASE Outside
    BY <1>0, <1>3 DEF Outside, Settle, OutsideWriter, CountIsCurrent, Counted,
                      At, tables
  <1>4. CASE Still
    BY <1>4 DEF Still, CountIsCurrent, Counted, At
  <1>5. QED
    BY Steps, <1>1, <1>2, <1>3, <1>4

LEMMA NumbersStep ==
  ASSUME TypeOK, CarriesAttempt, CountIsCurrent, NumbersAreSound, [Next]_vars
  PROVE  NumbersAreSound'
  <1>0. overtaken \subseteq overtaken'
    BY OvertakenGrows
  <1>1. CASE attempts' = attempts
    BY <1>0, <1>1 DEF NumbersAreSound
  <1>2. ASSUME NEW r \in Request, RetryWrite(r) PROVE NumbersAreSound'
    <2> DEFINE p == job[r].payment
               n == Len(attempts[p])
               a == held[r].attempt
    <2>1. /\ p \in Payment /\ n \in Nat
          /\ \A q \in Payment \ {p} : attempts'[q] = attempts[q]
          /\ DOMAIN attempts[p] = 1..n /\ DOMAIN attempts'[p] = 1..(n + 1)
          /\ \A m \in 1..n : attempts'[p][m] = attempts[p][m]
          /\ attempts'[p][n + 1] = a
      BY <1>2, Appended
    <2>2. /\ a.number \in 1..(n + 1) /\ a.number <= MaxRetryAttempts
          /\ a.number = n + 1 \/ a.by \in overtaken
      BY <1>2, <2>1, MaxAssumption
         DEF RetryWrite, CountIsCurrent, Counted, At, TypeOK, Held
    <2>3. SUFFICES ASSUME NEW q \in Payment, NEW m \in DOMAIN attempts'[q]
                   PROVE  LET b == attempts'[q][m] IN
                          /\ b.number \in 1..m
                          /\ b.number <= MaxRetryAttempts
                          /\ b.number = m \/ b.by \in overtaken'
      BY DEF NumbersAreSound
    <2>4. CASE q # p
      BY <1>0, <2>1, <2>4 DEF NumbersAreSound
    <2>5. CASE q = p /\ m \in 1..n
      BY <1>0, <2>1, <2>5 DEF NumbersAreSound
    <2>6. CASE q = p /\ m \notin 1..n
      <3>1. m = n + 1
        BY <2>1, <2>6
      <3>2. QED
        BY <1>0, <2>1, <2>2, <2>6, <3>1
    <2>7. QED
      BY <2>4, <2>5, <2>6
  <1>3. QED
    BY <1>1, <1>2, AttemptsWritten

LEMMA NumbersInit == Init => CountIsCurrent /\ NumbersAreSound
  <1> SUFFICES ASSUME Init PROVE CountIsCurrent /\ NumbersAreSound
    OBVIOUS
  <1>1. PICK first \in [Payment -> Provider] :
          attempts = [p \in Payment |-> <<InitialAttempt(p, first[p])>>]
    BY DEF Init
  <1>2. \A p \in Payment : /\ DOMAIN attempts[p] = {1}
                          /\ attempts[p][1].number = 1
    BY <1>1 DEF InitialAttempt
  <1>3. QED
    BY <1>2, MaxAssumption
       DEF Init, CountIsCurrent, NumbersAreSound, Counted, At

(* The n-th attempt of a payment has number n unless its retry was          *)
(* overtaken, and no attempt has a number beyond the limit.                 *)
THEOREM NumbersAlwaysSound == Spec => []NumbersAreSound
  <1> DEFINE Inv == TypeOK /\ CarriesAttempt /\ CountIsCurrent
                    /\ NumbersAreSound
  <1>1. Init => Inv
    BY TypeInit, NumbersInit
  <1>2. Inv /\ [Next]_vars => Inv'
    BY TypeStep, CountStep, NumbersStep
  <1>3. Inv => NumbersAreSound
    OBVIOUS
  <1>4. QED
    BY <1>1, <1>2, <1>3, PTL DEF Spec
-----------------------------------------------------------------------------
(* Resolutions.                                                            *)

Asking(r) == At(r, "reconcile", "query") \/ At(r, "reconcile", "write")

(* What an answer says of its order, in the orders f.                       *)
IsTrue(f, found, o) ==
  /\ found = "COMPLETED" => f[o] \in {"COMPLETED", "REFUNDED"}
  /\ found = "FAILED" => f[o] = "FAILED"

(* A reconciliation asks about a recorded attempt, and its answer is true.  *)
FoundIsReal ==
  \A r \in Request :
    /\ Asking(r) => held[r].attempt \in Attempts(job[r].payment)
    /\ At(r, "reconcile", "write") =>
         IsTrue(orders, held[r].found, held[r].attempt.order)

LEMMA TruthStays ==
  ASSUME TypeOK, [Next]_vars, NEW o \in Order, NEW found,
         IsTrue(orders, found, o)
  PROVE  IsTrue(orders', found, o)
  BY OrdersSettle DEF IsTrue

(* A step that asks no new question and brings no new answer.               *)
LEMMA FoundStays ==
  ASSUME TypeOK, CarriesAttempt, FoundIsReal, [Next]_vars,
         \A q \in Request : Asking(q)' =>
           pc'[q] = pc[q] /\ held'[q] = held[q]
  PROVE  FoundIsReal'
  <1>1. job' = job
    BY JobStays
  <1>2. ASSUME NEW q \in Request, Asking(q)'
        PROVE  /\ held'[q].attempt \in Attempts(job[q].payment)'
               /\ At(q, "reconcile", "write")' =>
                    IsTrue(orders', held'[q].found, held'[q].attempt.order)
    <2>1. Asking(q) /\ pc'[q] = pc[q] /\ held'[q] = held[q]
      BY <1>1, <1>2 DEF Asking, At
    <2>2. job[q].payment \in Payment
      BY DEF TypeOK, Job
    <2>3. held[q].attempt \in Attempts(job[q].payment)
      BY <2>1 DEF FoundIsReal
    <2>4. held[q].attempt \in Attempts(job[q].payment)'
      BY <1>1, <2>2, <2>3, AttemptsGrow DEF Attempts
    <2>5. held[q].attempt.order \in Order
      BY <2>2, <2>3, AttemptsAreAttempts DEF Attempt
    <2>6. CASE At(q, "reconcile", "write")
      <3>1. IsTrue(orders, held[q].found, held[q].attempt.order)
        BY <2>6 DEF FoundIsReal
      <3>2. IsTrue(orders', held[q].found, held[q].attempt.order)
        BY <2>5, <3>1, TruthStays
      <3>3. QED
        BY <1>1, <2>1, <2>4, <3>2 DEF Attempts
    <2>7. CASE ~At(q, "reconcile", "write")
      BY <1>1, <2>1, <2>4, <2>7 DEF Attempts, At
    <2>8. QED
      BY <2>6, <2>7
  <1>3. QED
    BY <1>2 DEF FoundIsReal, Asking, At

LEMMA FoundStep ==
  ASSUME TypeOK, CarriesAttempt, FoundIsReal, [Next]_vars
  PROVE  FoundIsReal'
  <1>0. /\ pc \in [Request -> Stage] /\ held \in [Request -> Held]
        /\ job' = job /\ \A r \in Request : job[r].payment \in Payment
    BY JobStays DEF TypeOK, Job
  <1>1. ASSUME NEW r \in Request, Moves(r) PROVE FoundIsReal'
    <2> DEFINE p == job[r].payment
    <2> USE DEF Goto, Finish
    <2>1. CASE Read(r)
      BY <1>0, <2>1, FoundStays DEF Read, AfterRead, Asking, At
    <2>2. CASE CancelWrite(r)
      BY <1>0, <2>2, FoundStays DEF CancelWrite, Asking, At
    <2>3. CASE RetryCount(r)
      BY <1>0, <2>3, FoundStays DEF RetryCount, Asking, At
    <2>4. ASSUME NEW v \in Provider, RetryAccepted(r, v) PROVE FoundIsReal'
      <3>1. \A q \in Request \ {r} : held'[q] = held[q]
        BY <1>0, <2>4 DEF RetryAccepted
      <3>2. QED
        BY <1>0, <2>4, <3>1, FoundStays DEF RetryAccepted, Asking, At
    <2>5. ASSUME NEW v \in Provider, RetryCallFails(r, v) PROVE FoundIsReal'
      BY <1>0, <2>5, FoundStays DEF RetryCallFails, Asking, At
    <2>6. CASE RetryWrite(r)
      BY <1>0, <2>6, FoundStays DEF RetryWrite, Asking, At
    <2>7. CASE ReconcileAttempts(r)
      <3>1. PICK a \in Attempts(p) : held' = [held EXCEPT ![r].attempt = a]
        BY <2>7 DEF ReconcileAttempts, Latest
      <3>2. held'[r].attempt = a /\ \A q \in Request \ {r} : held'[q] = held[q]
        BY <1>0, <3>1 DEF Held
      <3>3. /\ pc' = [pc EXCEPT ![r] = "query"] /\ attempts' = attempts
            /\ orders' = orders
        BY <2>7 DEF ReconcileAttempts, tables
      <3>4. \A q \in Request :
              /\ Asking(q)' => \/ q = r /\ ~At(q, "reconcile", "write")'
                              \/ /\ Asking(q) /\ held'[q] = held[q]
                                 /\ pc'[q] = pc[q]
              /\ Attempts(job[q].payment)' = Attempts(job[q].payment)
        BY <1>0, <3>2, <3>3 DEF Asking, At, Attempts
      <3>5. QED
        BY <1>0, <3>1, <3>2, <3>3, <3>4 DEF FoundIsReal, At
    <2>8. CASE ReconcileQuery(r)
      <3> DEFINE o == held[r].attempt.order
      <3>1. PICK f \in {orders[o], "UNKNOWN", "ERROR"} :
              held' = [held EXCEPT ![r].found = f]
        BY <2>8 DEF ReconcileQuery
      <3>2. /\ held'[r].found = f /\ held'[r].attempt = held[r].attempt
            /\ \A q \in Request \ {r} : held'[q] = held[q]
        BY <1>0, <3>1 DEF Held
      <3>3. /\ pc' = [pc EXCEPT ![r] = "write"] /\ attempts' = attempts
            /\ orders' = orders /\ Asking(r)
        BY <2>8 DEF ReconcileQuery, Asking, tables
      <3>4. IsTrue(orders, f, o)
        BY <3>1 DEF IsTrue
      <3>5. QED
        BY <1>0, <3>2, <3>3, <3>4 DEF FoundIsReal, Asking, At, Attempts
    <2>9. CASE ReconcileWrite(r)
      BY <1>0, <2>9, FoundStays DEF ReconcileWrite, Asking, At
    <2>10. QED
      BY <1>1, <2>1, <2>2, <2>3, <2>4, <2>5, <2>6, <2>7, <2>8, <2>9 DEF Moves
  <1>2. ASSUME NEW r \in Request, Quiet(r) PROVE FoundIsReal'
    BY <1>0, <1>2, FoundStays DEF Quiet, Goto, Asking, At
  <1>3. CASE Outside
    BY <1>0, <1>3, FoundStays DEF Outside, Settle, OutsideWriter
  <1>4. CASE Still
    BY <1>0, <1>4, FoundStays DEF Still
  <1>5. QED
    BY Steps, <1>1, <1>2, <1>3, <1>4

(* The order of some attempt of p completed. *)
Completed(p) ==
  \E a \in Attempts(p) : orders[a.order] \in {"COMPLETED", "REFUNDED"}

LEMMA CompletedStays ==
  ASSUME TypeOK, CarriesAttempt, [Next]_vars, NEW p \in Payment, Completed(p)
  PROVE  Completed(p)'
  <1>1. PICK a \in Attempts(p) : orders[a.order] \in {"COMPLETED", "REFUNDED"}
    BY DEF Completed
  <1>2. a.order \in Order
    BY <1>1, AttemptsAreAttempts DEF Attempt
  <1>3. orders'[a.order] \in {"COMPLETED", "REFUNDED"}
    BY <1>1, <1>2, OrdersSettle
  <1>4. a \in Attempts(p)'
    BY <1>1, AttemptsGrow
  <1>5. QED
    BY <1>3, <1>4 DEF Completed

(* A status becomes SUCCESS only when an order of the payment completed.    *)
LEMMA SuccessIsReal ==
  ASSUME TypeOK, CarriesAttempt, FoundIsReal, [Next]_vars, NEW p \in Payment,
         payments'[p].status = "SUCCESS", payments[p].status # "SUCCESS"
  PROVE  Completed(p)
  <1>0. \A r \in Request : job[r].payment \in Payment
    BY DEF TypeOK, Job
  <1>1. ASSUME NEW r \in Request, Moves(r) PROVE Completed(p)
    <2>1. ASSUME NEW s \in Status, NEW v, SetStatus(job[r].payment, s, v)
          PROVE  p = job[r].payment /\ s = "SUCCESS"
      BY <1>0, <2>1, SetStatusElsewhere
    <2>2. CASE ReconcileWrite(r)
      <3>1. Resolve(held[r].found) # "UNCERTAIN"
        BY <2>2 DEF ReconcileWrite
      <3>2. /\ SetStatus(job[r].payment, Resolved(Resolve(held[r].found)),
                         payments[job[r].payment].provider)
            /\ At(r, "reconcile", "write")
        BY <2>2, <3>1 DEF ReconcileWrite
      <3>3. p = job[r].payment /\ held[r].found = "COMPLETED"
        BY <1>0, <3>1, <3>2, SetStatusElsewhere DEF Resolved, Resolve
      <3>4. QED
        BY <3>2, <3>3 DEF FoundIsReal, Asking, IsTrue, Completed
    <2>3. CASE CancelWrite(r)
      BY <2>1, <2>3 DEF CancelWrite, Status
    <2>4. CASE RetryWrite(r)
      BY <2>1, <2>4 DEF RetryWrite, Status
    <2>5. CASE ~(CancelWrite(r) \/ RetryWrite(r) \/ ReconcileWrite(r))
      BY <1>1, <2>5
         DEF Moves, Read, RetryCount, RetryAccepted, RetryCallFails,
             ReconcileAttempts, ReconcileQuery, tables
    <2>6. QED
      BY <2>2, <2>3, <2>4, <2>5
  <1>2. ASSUME NEW q \in Payment, NEW s \in Status, OutsideWriter(q, s)
        PROVE  Completed(p)
    <2>1. p = q /\ s = "SUCCESS"
      BY <1>2, SetStatusElsewhere DEF OutsideWriter
    <2>2. QED
      BY <1>2, <2>1 DEF OutsideWriter, Completed
  <1>3. ASSUME NEW o \in Order, NEW s \in OrderState, Settle(o, s)
        PROVE  Completed(p)
    BY <1>3 DEF Settle, tables
  <1>4. QED
    BY Steps, <1>1, <1>2, <1>3 DEF Outside, Quiet, Still

(* A record is written with the answer its request holds.                   *)
LEMMA RecordWritten ==
  ASSUME [Next]_vars, NEW c \in records', c \notin records
  PROVE  \E r \in Request :
           /\ At(r, "reconcile", "write")
           /\ c = [by |-> r, payment |-> job[r].payment,
                   attempt |-> held[r].attempt,
                   resolution |-> Resolve(held[r].found)]
  <1>1. ASSUME NEW r \in Request, Moves(r)
        PROVE  records' = records \/ ReconcileWrite(r)
    BY <1>1 DEF Moves, Read, CancelWrite, RetryCount, RetryAccepted,
                RetryCallFails, RetryWrite, ReconcileAttempts, ReconcileQuery,
                tables
  <1>2. CASE Outside
    BY <1>2 DEF Outside, Settle, OutsideWriter, tables
  <1>3. QED
    BY Steps, <1>1, <1>2 DEF Quiet, Still, ReconcileWrite

LEMMA ResolutionsStep ==
  ASSUME TypeOK, CarriesAttempt, FoundIsReal, ResolutionsAreReal, [Next]_vars
  PROVE  ResolutionsAreReal'
  <1>1. ASSUME NEW c \in records'
        PROVE  /\ c.attempt \in Attempts(c.payment)'
               /\ IsTrue(orders', c.resolution, c.attempt.order)
    <2>1. /\ c.payment \in Payment /\ c.attempt \in Attempts(c.payment)
          /\ IsTrue(orders, c.resolution, c.attempt.order)
      <3>1. CASE c \in records
        BY <3>1 DEF ResolutionsAreReal, IsTrue, TypeOK, Record
      <3>2. CASE c \notin records
        <4>1. PICK r \in Request :
                /\ At(r, "reconcile", "write")
                /\ c = [by |-> r, payment |-> job[r].payment,
                        attempt |-> held[r].attempt,
                        resolution |-> Resolve(held[r].found)]
          BY <1>1, <3>2, RecordWritten
        <4>2. QED
          BY <4>1 DEF FoundIsReal, Asking, IsTrue, Resolve, TypeOK, Job
      <3>3. QED
        BY <3>1, <3>2
    <2>2. c.attempt.order \in Order
      BY <2>1, AttemptsAreAttempts DEF Attempt
    <2>3. c.attempt \in Attempts(c.payment)'
      BY <2>1, AttemptsGrow
    <2>4. IsTrue(orders', c.resolution, c.attempt.order)
      BY <2>1, <2>2, TruthStays
    <2>5. QED
      BY <2>3, <2>4
  <1>2. ASSUME NEW p \in Payment, payments'[p].status = "SUCCESS"
        PROVE  Completed(p)'
    <2>1. Completed(p)
      BY <1>2, SuccessIsReal DEF ResolutionsAreReal, Completed
    <2>2. QED
      BY <2>1, CompletedStays
  <1>3. QED
    BY <1>1, <1>2 DEF ResolutionsAreReal, IsTrue, Completed

(* What reconciliation records is what an order of the payment came to, and *)
(* no payment is SUCCESS without an order that completed.                   *)
THEOREM ResolutionsAlwaysReal == Spec => []ResolutionsAreReal
  <1> DEFINE Inv == TypeOK /\ CarriesAttempt /\ FoundIsReal
                    /\ ResolutionsAreReal
  <1>1. Init => Inv
    <2>1. Init => FoundIsReal /\ ResolutionsAreReal
      BY DEF Init, FoundIsReal, ResolutionsAreReal, Asking, At
    <2>2. QED
      BY <2>1, TypeInit
  <1>2. Inv /\ [Next]_vars => Inv'
    BY TypeStep, FoundStep, ResolutionsStep
  <1>3. Inv => ResolutionsAreReal
    OBVIOUS
  <1>4. QED
    BY <1>1, <1>2, <1>3, PTL DEF Spec
=============================================================================
