------------------------ MODULE IdempotentCreate_proofs ------------------------
(***************************************************************************)
(* Proofs about IdempotentCreate, for any sets of requests, keys, bodies    *)
(* and references.                                                         *)
(***************************************************************************)
EXTENDS IdempotentCreate, TLAPS

(* Every reply kept for a request names a payment it may be told about.     *)
RepliesAreStored ==
  \A r \in Request : reply[r].code = "CREATED" =>
    \E p \in payments : /\ p.id = reply[r].payment
                        /\ p.key = job[r].key
                        /\ job[p.id].body = job[r].body

(* A request behind the lock holds it, or has lost it to the TTL.           *)
HeldOrLapsed ==
  \A r \in Request : Active(r) => lock[job[r].key] = r \/ r \in lapsed

(* Orders and executions belong to requests that got that far.              *)
EffectsAtStage ==
  /\ \A r \in orders : pc[r] \in {"commit", "release", "done", "dropped"}
  /\ \A r \in executed : pc[r] \in {"release", "done", "dropped"}
  /\ \A r \in Request : pc[r] = "commit" => r \in orders

(* The key of a late request has its row for good, and as long as the row   *)
(* lives the request cannot have passed the lookup.                         *)
LateIsHeldBack ==
  \A r \in late :
    /\ \E i \in idem : i.key = job[r].key
    /\ VisibleRows(job[r].key) # {} =>
         /\ pc[r] \in {"find", "done", "dropped"}
         /\ r \notin orders \cup executed

IInv ==
  /\ TypeOK
  /\ TablesAgree
  /\ RepliesAreStored
  /\ HeldOrLapsed
  /\ EffectsAtStage
  /\ LateIsHeldBack
  /\ OrdersAccounted

-----------------------------------------------------------------------------
LEMMA InitInv == Init => IInv
  <1> SUFFICES ASSUME Init PROVE IInv
    OBVIOUS
  <1>1. TypeOK
    BY NoneAssumption DEF Init, TypeOK, Stage, Reply, Code, NoReply
  <1>2. QED
    BY <1>1 DEF Init, IInv, TablesAgree, RepliesAreStored, HeldOrLapsed,
                EffectsAtStage, LateIsHeldBack, OrdersAccounted, Active, NoReply

(* The types are preserved, action by action.                               *)
LEMMA TypeStep == TypeOK /\ [Next]_vars => TypeOK'
  <1> SUFFICES ASSUME TypeOK, [Next]_vars PROVE TypeOK'
    OBVIOUS
  <1> USE DEF TypeOK, Stage, Goto, Answer, Plain, NoReply
  <1>1. ASSUME NEW r \in Request, Arrive(r) PROVE TypeOK'
    BY <1>1 DEF Arrive
  <1>2. ASSUME NEW r \in Request, ArriveUnusable(r) PROVE TypeOK'
    BY <1>2 DEF ArriveUnusable, Reply, Code
  <1>3. ASSUME NEW r \in Request, FindRow(r) PROVE TypeOK'
    <2>1. PICK i \in VisibleRows(job[r].key) :
            Answer(r, "done", IF i.hash = job[r].body
                                THEN [code |-> "CREATED", payment |-> i.payment]
                                ELSE Plain("IDEMPOTENCY_MISMATCH"))
      BY <1>3 DEF FindRow
    <2>2. i.payment \in Request
      BY <2>1 DEF VisibleRows, IdempotencyRow
    <2>3. reply' \in [Request -> Reply]
      BY <2>1, <2>2 DEF Reply, Code
    <2>4. QED
      BY <1>3, <2>1, <2>3 DEF FindRow
  <1>4. ASSUME NEW r \in Request, FindNothing(r) PROVE TypeOK'
    BY <1>4 DEF FindNothing
  <1>5. ASSUME NEW r \in Request, FindFails(r) PROVE TypeOK'
    BY <1>5 DEF FindFails, Reply, Code
  <1>6. ASSUME NEW r \in Request, AcquireLock(r) PROVE TypeOK'
    BY <1>6 DEF AcquireLock
  <1>7. ASSUME NEW r \in Request, LockTaken(r) PROVE TypeOK'
    BY <1>7 DEF LockTaken, Reply, Code
  <1>8. ASSUME NEW r \in Request, LockFails(r) PROVE TypeOK'
    BY <1>8 DEF LockFails, Reply, Code
  <1>9. ASSUME NEW r \in Request, CreateRefused(r) PROVE TypeOK'
    BY <1>9 DEF CreateRefused, Reply, Code
  <1>10. ASSUME NEW r \in Request, ProviderAccepts(r) PROVE TypeOK'
    BY <1>10 DEF ProviderAccepts
  <1>11. ASSUME NEW r \in Request, ProviderFails(r) PROVE TypeOK'
    BY <1>11 DEF ProviderFails, Reply, Code
  <1>12. ASSUME NEW r \in Request, CommitPayment(r) PROVE TypeOK'
    <2> DEFINE k == job[r].key
               b == job[r].body
    <2>0. k \in Key /\ b \in Body /\ RefOf[b] \in Ref
      BY RefOfAssumption DEF Job
    <2>1. payments' \subseteq PaymentRow
      <3>1. [id |-> r, key |-> k, ref |-> RefOf[b]] \in PaymentRow
        BY <2>0 DEF PaymentRow
      <3>2. QED
        BY <1>12, <3>1 DEF CommitPayment, InsertPayment
    <2>2. idem' \subseteq IdempotencyRow
      <3>1. [key |-> k, hash |-> b, payment |-> r, live |-> TRUE]
              \in IdempotencyRow
        BY <2>0 DEF IdempotencyRow
      <3>2. QED
        BY <1>12, <3>1 DEF CommitPayment, InsertPayment
    <2>3. QED
      BY <1>12, <2>1, <2>2 DEF CommitPayment, Reply, Code
  <1>13. ASSUME NEW r \in Request, CommitFails(r) PROVE TypeOK'
    BY <1>13 DEF CommitFails, Reply, Code
  <1>14. ASSUME NEW r \in Request, OtherHandler(r) PROVE TypeOK'
    BY <1>14 DEF OtherHandler, Reply, Code
  <1>15. ASSUME NEW r \in Request, Release(r) PROVE TypeOK'
    BY <1>15 DEF Release, ReleasedBy
  <1>16. ASSUME NEW r \in Request, Drop(r) PROVE TypeOK'
    BY <1>16 DEF Drop, Reply, Code
  <1>17. ASSUME NEW k \in Key, LockExpires(k) PROVE TypeOK'
    BY <1>17 DEF LockExpires
  <1>18. ASSUME NEW i \in idem, RowExpires(i) PROVE TypeOK'
    BY <1>18 DEF RowExpires, IdempotencyRow
  <1>19. CASE UNCHANGED vars
    BY <1>19 DEF vars
  <1>20. QED
    BY <1>1, <1>2, <1>3, <1>4, <1>5, <1>6, <1>7, <1>8, <1>9, <1>10, <1>11,
       <1>12, <1>13, <1>14, <1>15, <1>16, <1>17, <1>18, <1>19
       DEF Next, Serve

(* Every value a variable ever has is of its type.                          *)
THEOREM TypeCorrect == Spec => []TypeOK
  <1>1. Init => TypeOK
    BY InitInv DEF IInv
  <1>2. QED
    BY <1>1, TypeStep, PTL DEF Spec
-----------------------------------------------------------------------------
(* Requests keep their job, and only a commit and an expiry write tables.   *)
LEMMA Writers ==
  ASSUME [Next]_vars
  PROVE  /\ job' = job
         /\ \/ UNCHANGED <<payments, idem>>
            \/ \E r \in Request : CommitPayment(r)
            \/ \E i \in idem : RowExpires(i)
  BY DEF Next, Serve, vars, Arrive, ArriveUnusable, FindRow, FindNothing,
         FindFails, AcquireLock, LockTaken, LockFails, CreateRefused,
         ProviderAccepts, ProviderFails, CommitPayment, CommitFails,
         OtherHandler, Release, Drop, LockExpires, RowExpires

(* A key's idempotency row, once inserted, stays, alive or not.             *)
LEMMA KeysStay ==
  ASSUME [Next]_vars, NEW k \in Key, \E i \in idem : i.key = k, TypeOK
  PROVE  \E i \in idem' : i.key = k
  <1>1. CASE UNCHANGED <<payments, idem>>
    BY <1>1
  <1>2. CASE \E r \in Request : CommitPayment(r)
    BY <1>2 DEF CommitPayment, InsertPayment
  <1>3. CASE \E i \in idem : RowExpires(i)
    <2>1. PICK j \in idem : RowExpires(j)
      BY <1>3
    <2>2. [j EXCEPT !.live = FALSE].key = j.key
      BY <2>1 DEF TypeOK, IdempotencyRow
    <2>3. QED
      BY <2>1, <2>2 DEF RowExpires
  <1>4. QED
    BY <1>1, <1>2, <1>3, Writers

(* No row comes alive for a key that has a row already.                     *)
LEMMA NoNewLife ==
  ASSUME [Next]_vars, TypeOK, NEW k \in Key, \E i \in idem : i.key = k,
         VisibleRows(k)' # {}
  PROVE  VisibleRows(k) # {}
  <1>1. CASE UNCHANGED <<payments, idem>>
    BY <1>1 DEF VisibleRows
  <1>2. CASE \E r \in Request : CommitPayment(r)
    BY <1>2 DEF CommitPayment, InsertPayment, OtherClash, VisibleRows
  <1>3. CASE \E i \in idem : RowExpires(i)
    <2>1. PICK j \in idem : RowExpires(j)
      BY <1>3
    <2>2. ~[j EXCEPT !.live = FALSE].live
      BY <2>1 DEF TypeOK, IdempotencyRow
    <2>3. QED
      BY <2>1, <2>2 DEF RowExpires, VisibleRows
  <1>4. QED
    BY <1>1, <1>2, <1>3, Writers

(* The tables stay in agreement: the insert meets a key and a reference     *)
(* that nothing uses, and an expiry changes neither key nor payment.        *)
LEMMA TablesStep ==
  ASSUME TypeOK, TablesAgree, [Next]_vars
  PROVE  TablesAgree'
  <1>1. CASE UNCHANGED <<payments, idem>>
    BY <1>1, Writers DEF TablesAgree
  <1>2. ASSUME NEW r \in Request, CommitPayment(r) PROVE TablesAgree'
    <2> DEFINE p0 == [id |-> r, key |-> job[r].key, ref |-> RefOf[job[r].body]]
               i0 == [key |-> job[r].key, hash |-> job[r].body,
                      payment |-> r, live |-> TRUE]
    <2>1. payments' = payments \cup {p0} /\ idem' = idem \cup {i0} /\ job' = job
      BY <1>2 DEF CommitPayment, InsertPayment
    <2>2. \A p \in payments : p.key # p0.key /\ p.ref # p0.ref
      BY <1>2 DEF CommitPayment, KeyTaken, OtherClash
    <2>3. \A i \in idem : i.key # i0.key
      BY <1>2 DEF CommitPayment, OtherClash
    <2>4. p0.id = r /\ p0.key = job[r].key /\ i0.key = job[r].key
          /\ i0.payment = r /\ i0.hash = job[r].body
      OBVIOUS
    <2> HIDE DEF p0, i0
    <2>5. QED
      BY <2>1, <2>2, <2>3, <2>4 DEF TablesAgree
  <1>3. ASSUME NEW j \in idem, RowExpires(j) PROVE TablesAgree'
    <2> DEFINE j0 == [j EXCEPT !.live = FALSE]
    <2>1. /\ idem' = (idem \ {j}) \cup {j0}
          /\ payments' = payments /\ job' = job
      BY <1>3 DEF RowExpires
    <2>2. j0.key = j.key /\ j0.payment = j.payment /\ j0.hash = j.hash
      BY DEF TypeOK, IdempotencyRow
    <2> HIDE DEF j0
    <2>3. QED
      BY <2>1, <2>2 DEF TablesAgree
  <1>4. QED
    BY <1>1, <1>2, <1>3, Writers

(* A reply that says CREATED is written by a commit, with the row it        *)
(* inserts, or by a lookup, with a row the tables agree about; no step      *)
(* removes a payment.                                                      *)
LEMMA RepliesStep ==
  ASSUME TypeOK, TablesAgree, RepliesAreStored, [Next]_vars
  PROVE  RepliesAreStored'
  <1> DEFINE Stored(P, x, y) ==
        \E p \in P : /\ p.id = x
                     /\ p.key = job[y].key
                     /\ job[p.id].body = job[y].body
  <1>1. payments \subseteq payments' /\ job' = job
    BY Writers DEF CommitPayment, InsertPayment, RowExpires
  <1>2. ASSUME NEW q \in Request, reply'[q].code = "CREATED",
               reply'[q] = reply[q]
        PROVE  Stored(payments', reply'[q].payment, q)
    BY <1>1, <1>2 DEF RepliesAreStored
  <1>3. ASSUME NEW r \in Request, FindRow(r),
               NEW q \in Request, reply'[q].code = "CREATED"
        PROVE  Stored(payments', reply'[q].payment, q)
    <2>1. PICK i \in VisibleRows(job[r].key) :
            Answer(r, "done", IF i.hash = job[r].body
                                THEN [code |-> "CREATED", payment |-> i.payment]
                                ELSE Plain("IDEMPOTENCY_MISMATCH"))
      BY <1>3 DEF FindRow
    <2>2. CASE q # r
      BY <1>2, <1>3, <2>1, <2>2 DEF Answer, TypeOK
    <2>3. CASE q = r /\ i.hash = job[r].body
      <3>1. reply'[r].payment = i.payment
        BY <2>1, <2>3 DEF Answer, TypeOK
      <3>2. i \in idem /\ i.key = job[r].key
        BY DEF VisibleRows
      <3>3. PICK p \in payments : /\ p.id = i.payment /\ p.key = i.key
                                  /\ job[p.id].body = i.hash
        BY <3>2 DEF TablesAgree
      <3>4. QED
        BY <1>1, <2>3, <3>1, <3>2, <3>3
    <2>4. CASE q = r /\ i.hash # job[r].body
      BY <1>3, <2>1, <2>4 DEF Answer, TypeOK, Plain
    <2>5. QED
      BY <2>2, <2>3, <2>4
  <1>4. ASSUME NEW r \in Request, CommitPayment(r),
               NEW q \in Request, reply'[q].code = "CREATED"
        PROVE  Stored(payments', reply'[q].payment, q)
    <2>1. CASE q # r
      BY <1>2, <1>4, <2>1 DEF CommitPayment, Answer, TypeOK
    <2>2. CASE q = r
      <3> DEFINE p0 == [id |-> r, key |-> job[r].key, ref |-> RefOf[job[r].body]]
      <3>1. reply'[r].payment = r
        BY <1>4, <2>2 DEF CommitPayment, Answer, TypeOK, Plain
      <3>2. p0 \in payments' /\ p0.id = r /\ p0.key = job[r].key
        BY <1>4 DEF CommitPayment, InsertPayment
      <3>3. QED
        BY <2>2, <3>1, <3>2
    <2>3. QED
      BY <2>1, <2>2
  <1>5. ASSUME NEW q \in Request, reply'[q].code = "CREATED",
               ~\E r \in Request : FindRow(r) \/ CommitPayment(r)
        PROVE  reply'[q] = reply[q]
    BY <1>5 DEF Next, Serve, vars, Arrive, ArriveUnusable, FindNothing,
         FindFails, AcquireLock, LockTaken, LockFails, CreateRefused,
         ProviderAccepts, ProviderFails, CommitFails, OtherHandler, Release,
         Drop, LockExpires, RowExpires, Answer, Plain, NoReply, TypeOK
  <1>6. QED
    BY <1>1, <1>2, <1>3, <1>4, <1>5 DEF RepliesAreStored

(* The lock leaves a request only by its own release or by the TTL.         *)
LEMMA HeldStep ==
  ASSUME TypeOK, NoneAssumption, HeldOrLapsed, [Next]_vars
  PROVE  HeldOrLapsed'
  <1> USE DEF HeldOrLapsed, Active, Goto, Answer, TypeOK, Job
  <1>1. ASSUME NEW r \in Request, AcquireLock(r) PROVE HeldOrLapsed'
    BY <1>1, NoneAssumption DEF AcquireLock
  <1>2. ASSUME NEW r \in Request, LockFails(r) PROVE HeldOrLapsed'
    BY <1>2, NoneAssumption DEF LockFails
  <1>3. ASSUME NEW r \in Request, Release(r) PROVE HeldOrLapsed'
    BY <1>3, NoneAssumption DEF Release, ReleasedBy
  <1>4. ASSUME NEW k \in Key, LockExpires(k) PROVE HeldOrLapsed'
    BY <1>4, NoneAssumption DEF LockExpires
  <1>5. ASSUME NEW r \in Request,
               \/ CreateRefused(r) \/ ProviderAccepts(r) \/ ProviderFails(r)
               \/ CommitPayment(r) \/ CommitFails(r) \/ OtherHandler(r)
        PROVE  HeldOrLapsed'
    BY <1>5 DEF CreateRefused, ProviderAccepts, ProviderFails, CommitPayment,
                CommitFails, OtherHandler
  <1>6. ASSUME NEW r \in Request,
               \/ Arrive(r) \/ ArriveUnusable(r) \/ FindRow(r)
               \/ FindNothing(r) \/ FindFails(r) \/ LockTaken(r) \/ Drop(r)
        PROVE  HeldOrLapsed'
    BY <1>6 DEF Arrive, ArriveUnusable, FindRow, FindNothing, FindFails,
                LockTaken, Drop
  <1>7. ASSUME NEW i \in idem, RowExpires(i) PROVE HeldOrLapsed'
    BY <1>7 DEF RowExpires
  <1>8. CASE UNCHANGED vars
    BY <1>8 DEF vars
  <1>9. QED
    BY <1>1, <1>2, <1>3, <1>4, <1>5, <1>6, <1>7, <1>8 DEF Next, Serve

LEMMA StageStep ==
  ASSUME TypeOK, EffectsAtStage, [Next]_vars
  PROVE  EffectsAtStage'
  <1> USE DEF EffectsAtStage, Goto, Answer, TypeOK
  <1>1. ASSUME NEW r \in Request,
               \/ CreateRefused(r) \/ ProviderAccepts(r) \/ ProviderFails(r)
               \/ CommitPayment(r) \/ CommitFails(r) \/ OtherHandler(r)
        PROVE  EffectsAtStage'
    BY <1>1 DEF CreateRefused, ProviderAccepts, ProviderFails, CommitPayment,
                CommitFails, OtherHandler
  <1>2. ASSUME NEW r \in Request,
               \/ Arrive(r) \/ ArriveUnusable(r) \/ FindRow(r)
               \/ FindNothing(r) \/ FindFails(r) \/ LockTaken(r) \/ Drop(r)
        PROVE  EffectsAtStage'
    BY <1>2 DEF Arrive, ArriveUnusable, FindRow, FindNothing, FindFails,
                LockTaken, Drop
  <1>3. ASSUME NEW r \in Request, AcquireLock(r) \/ LockFails(r) \/ Release(r)
        PROVE  EffectsAtStage'
    BY <1>3 DEF AcquireLock, LockFails, Release
  <1>4. ASSUME NEW k \in Key, LockExpires(k) PROVE EffectsAtStage'
    BY <1>4 DEF LockExpires
  <1>5. ASSUME NEW i \in idem, RowExpires(i) PROVE EffectsAtStage'
    BY <1>5 DEF RowExpires
  <1>6. CASE UNCHANGED vars
    BY <1>6 DEF vars
  <1>7. QED
    BY <1>1, <1>2, <1>3, <1>4, <1>5, <1>6 DEF Next, Serve

(* A request that has not passed the lookup does not pass it while its key  *)
(* has a live row.                                                         *)
LEMMA StaysBefore ==
  ASSUME TypeOK, [Next]_vars, NEW q \in Request,
         VisibleRows(job[q].key) # {},
         pc[q] \in {"find", "done", "dropped"}, q \notin orders \cup executed
  PROVE  /\ pc'[q] \in {"find", "done", "dropped"}
         /\ q \notin orders' \cup executed'
  <1> USE DEF Goto, Answer, TypeOK
  <1>1. ASSUME NEW r \in Request,
               \/ CreateRefused(r) \/ ProviderAccepts(r) \/ ProviderFails(r)
               \/ CommitPayment(r) \/ CommitFails(r) \/ OtherHandler(r)
        PROVE  pc'[q] = pc[q] /\ q \notin orders' \cup executed'
    BY <1>1 DEF CreateRefused, ProviderAccepts, ProviderFails, CommitPayment,
                CommitFails, OtherHandler
  <1>2. ASSUME NEW r \in Request,
               \/ Arrive(r) \/ ArriveUnusable(r) \/ FindRow(r)
               \/ FindNothing(r) \/ FindFails(r) \/ LockTaken(r) \/ Drop(r)
        PROVE  /\ pc'[q] \in {"find", "done", "dropped"}
               /\ q \notin orders' \cup executed'
    BY <1>2 DEF Arrive, ArriveUnusable, FindRow, FindNothing, FindFails,
                LockTaken, Drop
  <1>3. ASSUME NEW r \in Request, AcquireLock(r) \/ LockFails(r) \/ Release(r)
        PROVE  pc'[q] = pc[q] /\ q \notin orders' \cup executed'
    BY <1>3 DEF AcquireLock, LockFails, Release
  <1>4. ASSUME NEW k \in Key, LockExpires(k)
        PROVE  pc'[q] = pc[q] /\ q \notin orders' \cup executed'
    BY <1>4 DEF LockExpires
  <1>5. ASSUME NEW i \in idem, RowExpires(i)
        PROVE  pc'[q] = pc[q] /\ q \notin orders' \cup executed'
    BY <1>5 DEF RowExpires
  <1>6. CASE UNCHANGED vars
    BY <1>6 DEF vars
  <1>7. QED
    BY <1>1, <1>2, <1>3, <1>4, <1>5, <1>6 DEF Next, Serve

LEMMA LateStep ==
  ASSUME TypeOK, EffectsAtStage, LateIsHeldBack, [Next]_vars
  PROVE  LateIsHeldBack'
  <1>1. job' = job
    BY Writers
  <1>2. ASSUME NEW q \in late
        PROVE  /\ \E i \in idem' : i.key = job'[q].key
               /\ VisibleRows(job[q].key)' # {} =>
                    /\ pc'[q] \in {"find", "done", "dropped"}
                    /\ q \notin orders' \cup executed'
    <2>1. q \in Request /\ job[q].key \in Key
      BY DEF TypeOK, Job
    <2>2. \E i \in idem : i.key = job[q].key
      BY DEF LateIsHeldBack
    <2>3. \E i \in idem' : i.key = job[q].key
      BY <2>1, <2>2, KeysStay
    <2>4. ASSUME VisibleRows(job[q].key)' # {}
          PROVE  /\ pc'[q] \in {"find", "done", "dropped"}
                 /\ q \notin orders' \cup executed'
      <3>1. VisibleRows(job[q].key) # {}
        <4> DEFINE k == job[q].key
        <4>1. VisibleRows(k)' # {} => {i \in idem' : i.key = k /\ i.live} # {}
          BY <1>1 DEF VisibleRows
        <4>2. QED
          BY <1>1, <2>1, <2>2, <2>4, <4>1, NoNewLife DEF VisibleRows
      <3>2. QED
        BY <2>1, <3>1, StaysBefore DEF LateIsHeldBack
    <2>5. QED
      BY <1>1, <2>3, <2>4
  <1>3. ASSUME NEW r \in Request, Arrive(r), VisibleRows(job[r].key) # {}
        PROVE  /\ \E i \in idem' : i.key = job'[r].key
               /\ pc'[r] \in {"find", "done", "dropped"}
               /\ r \notin orders' \cup executed'
    BY <1>3 DEF Arrive, Goto, TypeOK, EffectsAtStage, VisibleRows
  <1>4. late' = late \/ \E r \in Request :
          Arrive(r) /\ VisibleRows(job[r].key) # {} /\ late' = late \cup {r}
    BY DEF Next, Serve, vars, Arrive, ArriveUnusable, FindRow, FindNothing,
         FindFails, AcquireLock, LockTaken, LockFails, CreateRefused,
         ProviderAccepts, ProviderFails, CommitPayment, CommitFails,
         OtherHandler, Release, Drop, LockExpires, RowExpires
  <1>5. QED
    BY <1>1, <1>2, <1>3, <1>4 DEF LateIsHeldBack

LEMMA OrdersStep ==
  ASSUME TypeOK, EffectsAtStage, OrdersAccounted, [Next]_vars
  PROVE  OrdersAccounted'
  <1> DEFINE Errors == {"PROVIDER_ERROR", "CONFLICT", "VALIDATION"}
  <1> USE DEF OrdersAccounted, EffectsAtStage, Goto, Answer, Plain, TypeOK
  <1>1. ASSUME NEW r \in Request,
               \/ CreateRefused(r) \/ ProviderAccepts(r) \/ ProviderFails(r)
               \/ CommitFails(r) \/ OtherHandler(r)
        PROVE  OrdersAccounted'
    BY <1>1 DEF CreateRefused, ProviderAccepts, ProviderFails, CommitFails,
                OtherHandler
  <1>2. ASSUME NEW r \in Request, CommitPayment(r)
        PROVE  OrdersAccounted'
    <2> DEFINE p0 == [id |-> r, key |-> job[r].key, ref |-> RefOf[job[r].body]]
    <2>1. payments' = payments \cup {p0} /\ p0.id = r
      BY <1>2 DEF CommitPayment, InsertPayment
    <2> HIDE DEF p0
    <2>2. r \in orders /\ orders' = orders
      BY <1>2 DEF CommitPayment
    <2>3. \A q \in Request \ {r} : pc'[q] = pc[q] /\ reply'[q] = reply[q]
      BY <1>2 DEF CommitPayment
    <2>4. QED
      BY <2>1, <2>2, <2>3
  <1>3. ASSUME NEW r \in Request,
               \/ Arrive(r) \/ ArriveUnusable(r) \/ FindRow(r)
               \/ FindNothing(r) \/ FindFails(r) \/ LockTaken(r) \/ Drop(r)
        PROVE  OrdersAccounted'
    BY <1>3 DEF Arrive, ArriveUnusable, FindRow, FindNothing, FindFails,
                LockTaken, Drop
  <1>4. ASSUME NEW r \in Request, AcquireLock(r) \/ LockFails(r) \/ Release(r)
        PROVE  OrdersAccounted'
    BY <1>4 DEF AcquireLock, LockFails, Release
  <1>5. ASSUME NEW k \in Key, LockExpires(k) PROVE OrdersAccounted'
    BY <1>5 DEF LockExpires
  <1>6. ASSUME NEW i \in idem, RowExpires(i) PROVE OrdersAccounted'
    BY <1>6 DEF RowExpires
  <1>7. CASE UNCHANGED vars
    BY <1>7 DEF vars
  <1>8. QED
    BY <1>1, <1>2, <1>3, <1>4, <1>5, <1>6, <1>7 DEF Next, Serve

-----------------------------------------------------------------------------
LEMMA InvStep == IInv /\ [Next]_vars => IInv'
  BY NoneAssumption, TypeStep, TablesStep, RepliesStep, HeldStep, StageStep,
     LateStep, OrdersStep DEF IInv

LEMMA Invariance == Spec => []IInv
  BY InitInv, InvStep, PTL DEF Spec

(* At most one payment per key and per reference, bound to the key's row.   *)
THEOREM TablesAlwaysAgree == Spec => []TablesAgree
  <1>1. IInv => TablesAgree
    BY DEF IInv
  <1>2. QED
    BY <1>1, Invariance, PTL

(* Every 201 for a key names the one payment of the key.                    *)
THEOREM AnswersAgree == Spec => []OneAnswerPerKey
  <1>1. IInv => OneAnswerPerKey
    <2> SUFFICES ASSUME IInv, NEW r \in Request, Told(r)
                 PROVE  \E p \in payments :
                          /\ p.id = reply[r].payment
                          /\ p.key = job[r].key
                          /\ job[p.id].body = job[r].body
                          /\ \A q \in Request :
                               Told(q) /\ job[q].key = job[r].key =>
                                 reply[q] = reply[r]
      BY DEF OneAnswerPerKey
    <2>1. PICK p \in payments : /\ p.id = reply[r].payment
                                /\ p.key = job[r].key
                                /\ job[p.id].body = job[r].body
      BY DEF IInv, RepliesAreStored, Told
    <2>2. ASSUME NEW q \in Request, Told(q), job[q].key = job[r].key
          PROVE  reply[q] = reply[r]
      <3>1. PICK o \in payments : o.id = reply[q].payment /\ o.key = job[q].key
        BY <2>2 DEF IInv, RepliesAreStored, Told
      <3>2. o = p
        BY <2>1, <2>2, <3>1 DEF IInv, TablesAgree
      <3>3. reply[q].payment = reply[r].payment /\ reply[q].code = reply[r].code
        BY <2>1, <2>2, <3>1, <3>2 DEF Told
      <3>4. QED
        BY <3>3 DEF IInv, TypeOK, Reply
    <2>3. QED
      BY <2>1, <2>2
  <1>2. QED
    BY <1>1, Invariance, PTL

(* Two requests of one key behind the lock: one of them has lost it.        *)
THEOREM LockExcludes == Spec => []Exclusive
  <1>1. IInv => Exclusive
    BY DEF IInv, Exclusive, HeldOrLapsed
  <1>2. QED
    BY <1>1, Invariance, PTL

(* A request that arrives at a live row is never executed while it lives.   *)
THEOREM LateRequestsAreSafe == Spec => []LateRequestHasNoEffect
  <1>1. IInv => LateRequestHasNoEffect
    BY DEF IInv, LateRequestHasNoEffect, LateIsHeldBack
  <1>2. QED
    BY <1>1, Invariance, PTL

(* No order is lost without an error, nothing is stored without an order.   *)
THEOREM OrdersAlwaysAccounted == Spec => []OrdersAccounted
  <1>1. IInv => OrdersAccounted
    BY DEF IInv
  <1>2. QED
    BY <1>1, Invariance, PTL

-----------------------------------------------------------------------------
(* Refinement: the middleware, the handler and the tables keep the promise  *)
(* of OncePerKey.                                                          *)

(* The abstract state, by name.                                             *)
Asked == [r \in Request |-> [key |-> job[r].key, body |-> job[r].body]]

Bound(k) == IF \E i \in idem : i.key = k
              THEN [payment |-> RowOf(k).payment, body |-> RowOf(k).hash]
              ELSE [payment |-> None, body |-> None]

Record == [k \in Key |-> Bound(k)]

Informed == [r \in Request |-> IF Told(r) THEN reply[r].payment ELSE None]

-----------------------------------------------------------------------------
LEMMA RowIsUnique ==
  ASSUME TablesAgree, NEW i \in idem
  PROVE  RowOf(i.key) = i
  BY DEF TablesAgree, RowOf

(* The key of a row is bound to the row's payment and body.                 *)
LEMMA BoundRow ==
  ASSUME TablesAgree, NEW i \in idem
  PROVE  Bound(i.key) = [payment |-> i.payment, body |-> i.hash]
  BY RowIsUnique DEF Bound

(* What a stored reply names is what its key is bound to.                   *)
LEMMA StoredIsBound ==
  ASSUME IInv, NEW r \in Request, reply[r].code = "CREATED"
  PROVE  /\ \E i \in idem : i.key = job[r].key
         /\ Bound(job[r].key) = [payment |-> reply[r].payment,
                                 body |-> job[r].body]
         /\ reply[r].payment \in Request
  <1>1. PICK p \in payments : /\ p.id = reply[r].payment
                              /\ p.key = job[r].key
                              /\ job[p.id].body = job[r].body
    BY DEF IInv, RepliesAreStored
  <1>2. PICK i \in idem : i.key = p.key /\ i.payment = p.id
    BY DEF IInv, TablesAgree
  <1>3. i.hash = job[r].body /\ p.id \in Request
    BY <1>1, <1>2 DEF IInv, TypeOK, PaymentRow, TablesAgree
  <1>4. QED
    BY <1>1, <1>2, <1>3, BoundRow DEF IInv
(* Nothing is bound, and nobody was told, at the start.                     *)
LEMMA RefineInit == Init => Promise!Init
  <1> SUFFICES ASSUME Init PROVE Promise!Init
    OBVIOUS
  <1>1. \A r \in Request : ~Told(r)
    BY DEF Init, Told
  <1>2. Asked \in [Request -> [key : Key, body : Body]]
    BY DEF Init, Asked, Job
  <1>3. QED
    BY <1>1, <1>2 DEF Init, Promise!Init, Promise!Nothing, Asked

(* A step that leaves the tables alone and tells nobody anything new is a   *)
(* stuttering step of the promise.                                         *)
LEMMA Stutter ==
  ASSUME job' = job, Record' = Record, Informed' = Informed
  PROVE  UNCHANGED Promise!vars
  BY DEF Promise!vars, Record, Bound, Informed

LEMMA SameRows ==
  ASSUME idem' = idem
  PROVE  Record' = Record
  BY DEF Record, Bound, RowOf

LEMMA SameTold ==
  ASSUME \A r \in Request : /\ Told(r)' <=> Told(r)
                            /\ Told(r) => reply'[r] = reply[r]
  PROVE  Informed' = Informed
  BY DEF Informed

(* The commit binds its key.                                                *)
LEMMA RefineCommit ==
  ASSUME IInv, IInv', NEW r \in Request, CommitPayment(r)
  PROVE  Promise!Bind(r)
  <1> DEFINE i0 == [key |-> job[r].key, hash |-> job[r].body, payment |-> r,
                    live |-> TRUE]
  <1>1. idem' = idem \cup {i0} /\ job' = job
    BY DEF CommitPayment, InsertPayment
  <1>2. ~\E i \in idem : i.key = job[r].key
    BY DEF CommitPayment, OtherClash
  <1>3. job[r].key \in Key
    BY DEF IInv, TypeOK, Job
  <1>4. Informed' = Informed
    BY SameTold DEF CommitPayment, Told, Answer, Goto, IInv, TypeOK
  <1>5. Record' = [Record EXCEPT ![job[r].key] =
                     [payment |-> r, body |-> job[r].body]]
    <2>1. Bound(job[r].key)' = [payment |-> r, body |-> job[r].body]
      <3>1. TablesAgree'
        BY DEF IInv
      <3>2. RowOf(job[r].key)' = i0
        <4>1. i0 \in idem' /\ i0.key = job'[r].key
          BY <1>1
        <4>2. \A i \in idem' : i.key = job'[r].key => i = i0
          BY <1>1, <1>2
        <4>3. QED
          BY <4>1, <4>2 DEF RowOf
      <3>3. QED
        BY <1>1, <3>2 DEF Bound
    <2>2. ASSUME NEW k \in Key, k # job[r].key
          PROVE  Bound(k)' = Bound(k)
      <3>1. i0.key # k
        BY <2>2
      <3>2. \A i : i \in idem' /\ i.key = k <=> i \in idem /\ i.key = k
        BY <1>1, <3>1
      <3>3. RowOf(k)' = RowOf(k)
        BY <3>2 DEF RowOf
      <3>4. QED
        BY <3>2, <3>3 DEF Bound
    <2>3. QED
      BY <1>1, <2>1, <2>2 DEF Record
  <1>6. Record[job[r].key] = [payment |-> None, body |-> None]
    BY <1>2, <1>3 DEF Record, Bound
  <1>7. QED
    BY <1>1, <1>4, <1>5, <1>6
       DEF Promise!Bind, Promise!Nothing, Record, Bound, Informed

(* An answer that reaches its request with the payment its key is bound to. *)
LEMMA RefineTell ==
  ASSUME IInv, NEW r \in Request, NEW x \in Request,
         job' = job, idem' = idem,
         \E i \in idem : i.key = job[r].key,
         Bound(job[r].key) = [payment |-> x, body |-> job[r].body],
         ~Told(r), Told(r)', reply'[r].payment = x,
         \A q \in Request \ {r} : /\ Told(q)' <=> Told(q)
                                 /\ reply'[q] = reply[q]
  PROVE  Promise!Tell(r)
  <1>1. Record' = Record
    BY SameRows
  <1>2. Informed' = [Informed EXCEPT ![r] = x]
    BY DEF Informed
  <1>3. Informed[r] = None
    BY DEF Informed
  <1>4. job[r].key \in Key
    BY DEF IInv, TypeOK, Job
  <1>5. Record[job[r].key] = [payment |-> x, body |-> job[r].body]
    BY <1>4 DEF Record
  <1>6. x # None
    BY NoneAssumption
  <1>7. Asked' = Asked /\ Asked[r] = [key |-> job[r].key, body |-> job[r].body]
    BY DEF Asked
  <1>8. /\ Record[Asked[r].key] # [payment |-> None, body |-> None]
        /\ Record[Asked[r].key].body = Asked[r].body
        /\ Record[Asked[r].key].payment = x
    BY <1>5, <1>6, <1>7
  <1>9. /\ Informed[r] = None
        /\ Informed' = [Informed EXCEPT ![r] = Record[Asked[r].key].payment]
    BY <1>2, <1>3, <1>8
  <1>10. /\ Informed[r] = None
         /\ Record[Asked[r].key] # [payment |-> None, body |-> None]
         /\ Record[Asked[r].key].body = Asked[r].body
         /\ Informed' = [Informed EXCEPT ![r] = Record[Asked[r].key].payment]
         /\ Asked' = Asked /\ Record' = Record
    BY <1>1, <1>7, <1>8, <1>9
  <1>11. QED
    BY <1>10 DEF Promise!Tell, Promise!Nothing, Record, Bound, Informed, Asked

(* The lookup tells a request of the row it found.                          *)
LEMMA RefineFind ==
  ASSUME IInv, NEW r \in Request, FindRow(r)
  PROVE  Promise!Tell(r) \/ UNCHANGED Promise!vars
  <1>1. PICK i \in VisibleRows(job[r].key) :
          Answer(r, "done", IF i.hash = job[r].body
                              THEN [code |-> "CREATED", payment |-> i.payment]
                              ELSE Plain("IDEMPOTENCY_MISMATCH"))
    BY DEF FindRow
  <1>2. i \in idem /\ i.key = job[r].key /\ i.payment \in Request
    BY DEF VisibleRows, IInv, TypeOK, IdempotencyRow
  <1>3. job' = job /\ idem' = idem /\ pc[r] = "find"
    BY DEF FindRow
  <1>4. \A q \in Request \ {r} : /\ Told(q)' <=> Told(q)
                               /\ reply'[q] = reply[q]
    BY <1>1 DEF Told, Answer, Goto, IInv, TypeOK
  <1>5. CASE i.hash = job[r].body
    <2>1. Told(r)' /\ reply'[r].payment = i.payment
      BY <1>1, <1>5 DEF Told, Answer, Goto, IInv, TypeOK
    <2>2. Bound(job[r].key) = [payment |-> i.payment, body |-> job[r].body]
      BY <1>2, <1>5, BoundRow DEF IInv
    <2>3. ~Told(r)
      BY <1>3 DEF Told
    <2>4. QED
      BY <1>2, <1>3, <1>4, <2>1, <2>2, <2>3, RefineTell
  <1>6. CASE i.hash # job[r].body
    <2>1. ~Told(r) /\ ~Told(r)'
      BY <1>1, <1>3, <1>6 DEF Told, Answer, Goto, Plain, IInv, TypeOK
    <2>2. QED
      BY <1>3, <1>4, <2>1, SameRows, SameTold, Stutter
  <1>7. QED
    BY <1>5, <1>6

(* The release sends a fresh answer out.                                    *)
LEMMA RefineRelease ==
  ASSUME IInv, NEW r \in Request, Release(r)
  PROVE  Promise!Tell(r) \/ UNCHANGED Promise!vars
  <1>1. /\ job' = job /\ idem' = idem /\ reply' = reply
        /\ pc[r] = "release" /\ pc' = [pc EXCEPT ![r] = "done"]
    BY DEF Release, Goto
  <1>2. \A q \in Request \ {r} : /\ Told(q)' <=> Told(q)
                               /\ reply'[q] = reply[q]
    BY <1>1 DEF Told, IInv, TypeOK
  <1>3. CASE reply[r].code = "CREATED"
    <2>1. Told(r)' /\ ~Told(r)
      BY <1>1, <1>3 DEF Told, IInv, TypeOK
    <2>2. QED
      BY <1>1, <1>2, <1>3, <2>1, StoredIsBound, RefineTell
  <1>4. CASE reply[r].code # "CREATED"
    <2>1. ~Told(r) /\ ~Told(r)'
      BY <1>1, <1>4 DEF Told
    <2>2. QED
      BY <1>1, <1>2, <2>1, SameRows, SameTold, Stutter
  <1>5. QED
    BY <1>3, <1>4

(* An expired row binds its key as before.                                  *)
LEMMA RefineExpiry ==
  ASSUME IInv, NEW j \in idem, RowExpires(j)
  PROVE  UNCHANGED Promise!vars
  <1> DEFINE j0 == [j EXCEPT !.live = FALSE]
  <1>1. /\ idem' = (idem \ {j}) \cup {j0}
        /\ job' = job /\ pc' = pc /\ reply' = reply
    BY DEF RowExpires
  <1>2. j0.key = j.key /\ j0.payment = j.payment /\ j0.hash = j.hash
    BY DEF IInv, TypeOK, IdempotencyRow
  <1> HIDE DEF j0
  <1>3. Informed' = Informed
    BY <1>1, SameTold DEF Told
  <1>4. ASSUME NEW k \in Key
        PROVE  Bound(k)' = Bound(k)
    <2>1. CASE k = j.key
      <3>1. RowOf(k) = j
        BY <2>1, RowIsUnique DEF IInv
      <3>2. RowOf(k)' = j0
        <4>1. j0 \in idem' /\ j0.key = k
          BY <1>1, <1>2, <2>1
        <4>2. \A i \in idem' : i.key = k => i = j0
          BY <1>1, <2>1 DEF IInv, TablesAgree
        <4>3. QED
          BY <4>1, <4>2 DEF RowOf
      <3>3. QED
        BY <1>1, <1>2, <2>1, <3>1, <3>2 DEF Bound
    <2>2. CASE k # j.key
      <3>1. \A i : i \in idem' /\ i.key = k <=> i \in idem /\ i.key = k
        BY <1>1, <1>2, <2>2
      <3>2. RowOf(k)' = RowOf(k)
        BY <3>1 DEF RowOf
      <3>3. QED
        BY <3>1, <3>2 DEF Bound
    <2>3. QED
      BY <2>1, <2>2
  <1>5. QED
    BY <1>1, <1>3, <1>4, Stutter DEF Record

(* Every other step of a request leaves its key and what it was told alone. *)
LEMMA RefineOthers ==
  ASSUME IInv, [Next]_vars,
         ~\E r \in Request : CommitPayment(r) \/ FindRow(r) \/ Release(r),
         ~\E i \in idem : RowExpires(i)
  PROVE  UNCHANGED Promise!vars
  <1>1. job' = job /\ idem' = idem
    BY Writers
  <1>2. \A r \in Request : /\ Told(r)' <=> Told(r)
                           /\ Told(r) => reply'[r] = reply[r]
    BY DEF Next, Serve, vars, Arrive, ArriveUnusable, FindNothing,
         FindFails, AcquireLock, LockTaken, LockFails, CreateRefused,
         ProviderAccepts, ProviderFails, CommitFails, OtherHandler,
         Drop, LockExpires, Answer, Goto, Plain, NoReply, Told, IInv, TypeOK
  <1>3. QED
    BY <1>1, <1>2, SameRows, SameTold, Stutter

LEMMA RefineStep ==
  ASSUME IInv, IInv', [Next]_vars
  PROVE  [Promise!Next]_(Promise!vars)
  BY RefineCommit, RefineFind, RefineRelease, RefineExpiry, RefineOthers
     DEF Promise!Next

(* The create path implements OncePerKey: a key is bound to one payment and *)
(* one body for good, and a 201 tells of that payment, to requests with     *)
(* that body only.                                                         *)
THEOREM Refinement == Spec => KeepsPromise
  <1>1. Init => Promise!Init
    BY RefineInit
  <1>2. IInv /\ IInv' /\ [Next]_vars => [Promise!Next]_(Promise!vars)
    BY RefineStep
  <1>3. QED
    BY <1>1, <1>2, Invariance, PTL DEF Spec, KeepsPromise, Promise!Spec

=============================================================================
