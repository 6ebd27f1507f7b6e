------------------------ MODULE PaymentLifecycle_effects ------------------------
(***************************************************************************)
(* More proofs about PaymentLifecycle: what a reconciliation asks about,    *)
(* what retries leave behind, and at whose wish anything happens. For any   *)
(* sets of payments, providers, requests and callers, and any retry limit.  *)
(***************************************************************************)
EXTENDS PaymentLifecycle_proofs

LEMMA JobsAreJobs ==
  ASSUME TypeOK, NEW r \in Request
  PROVE  job[r] \in Job /\ job[r].payment \in Payment
  BY DEF TypeOK, Job
-----------------------------------------------------------------------------
(* The question of a reconciliation.                                       *)

Asks(r) == At(r, "reconcile", "query")

(* A request that asks has just chosen its attempt, or asked before.        *)
LEMMA QuestionStays ==
  ASSUME TypeOK, [Next]_vars, NEW r \in Request, Asks(r)'
  PROVE  ReconcileAttempts(r) \/ (Asks(r) /\ held'[r] = held[r])
  <1>0. /\ pc \in [Request -> Stage] /\ held \in [Request -> Held]
        /\ job' = job
    BY JobStays DEF TypeOK
  <1> SUFFICES ASSUME ~ReconcileAttempts(r)
               PROVE  Asks(r) /\ held'[r] = held[r]
    OBVIOUS
  <1>1. ASSUME NEW q \in Request, Moves(q)
        PROVE  Asks(r) /\ held'[r] = held[r]
    <2> USE DEF Asks, At, Goto, Finish
    <2>1. CASE Read(q)
      BY <1>0, <2>1 DEF Read, AfterRead
    <2>2. CASE CancelWrite(q)
      BY <1>0, <2>2 DEF CancelWrite
    <2>3. CASE RetryCount(q)
      BY <1>0, <2>3 DEF RetryCount
    <2>4. ASSUME NEW v \in Provider, RetryAccepted(q, v)
          PROVE  Asks(r) /\ held'[r] = held[r]
      BY <1>0, <2>4 DEF RetryAccepted
    <2>5. ASSUME NEW v \in Provider, RetryCallFails(q, v)
          PROVE  Asks(r) /\ held'[r] = held[r]
      BY <1>0, <2>5 DEF RetryCallFails
    <2>6. CASE RetryWrite(q)
      BY <1>0, <2>6 DEF RetryWrite
    <2>7. CASE ReconcileAttempts(q)
      <3>1. q # r
        BY <2>7
      <3>2. QED
        BY <1>0, <2>7, <3>1 DEF ReconcileAttempts
    <2>8. CASE ReconcileQuery(q)
      BY <1>0, <2>8 DEF ReconcileQuery
    <2>9. CASE ReconcileWrite(q)
      BY <1>0, <2>9 DEF ReconcileWrite
    <2>10. QED
      BY <1>1, <2>1, <2>2, <2>3, <2>4, <2>5, <2>6, <2>7, <2>8, <2>9 DEF Moves
  <1>2. ASSUME NEW q \in Request, Quiet(q) PROVE Asks(r) /\ held'[r] = held[r]
    BY <1>0, <1>2 DEF Quiet, Goto, Asks, At
  <1>3. CASE Outside
    BY <1>0, <1>3 DEF Outside, Settle, OutsideWriter, Asks, At
  <1>4. CASE Still
    BY <1>0, <1>4 DEF Still, Asks, At
  <1>5. QED
    BY Steps, <1>1, <1>2, <1>3, <1>4

(* With sound numbers the highest is that of the last attempt, unless the   *)
(* retry that made the last one was overtaken.                             *)
LEMMA LatestIsLast ==
  ASSUME TypeOK, NumbersAreSound, NEW p \in Payment, NEW a \in Latest(p)
  PROVE  LET all == attempts[p]
             last == all[Len(all)] IN
         a = last \/ last.by \in overtaken
  <1> DEFINE all == attempts[p]
             n == Len(all)
  <1>1. all \in Seq(Attempt) /\ n \in Nat /\ DOMAIN all = 1..n
    BY DEF TypeOK
  <1>2. PICK m \in DOMAIN all : a = all[m]
    BY DEF Latest, Attempts
  <1>3. n \in DOMAIN all
    BY <1>1, <1>2
  <1>4. all[n].number <= a.number
    BY <1>3 DEF Latest, Attempts
  <1>5. a.number \in 1..m /\ (all[n].number = n \/ all[n].by \in overtaken)
    BY <1>2, <1>3 DEF NumbersAreSound
  <1>6. CASE all[n].number = n
    BY <1>1, <1>2, <1>4, <1>5, <1>6
  <1>7. QED
    BY <1>5, <1>6

LEMMA AsksInit == Init => AsksMostRecent
  BY DEF Init, AsksMostRecent, At

LEMMA AsksStep ==
  ASSUME TypeOK, CarriesAttempt, NumbersAreSound, AsksMostRecent, [Next]_vars
  PROVE  AsksMostRecent'
  <1>0. job' = job /\ overtaken \subseteq overtaken'
    BY JobStays, OvertakenGrows
  <1> SUFFICES ASSUME NEW r \in Request, Asks(r)'
               PROVE  LET all  == attempts'[job[r].payment]
                          last == all[Len(all)] IN
                      \/ held'[r].attempt = last
                      \/ r \in overtaken'
                      \/ last.by \in overtaken'
    BY <1>0 DEF AsksMostRecent, Asks
  <1> DEFINE p == job[r].payment
             last == attempts[p][Len(attempts[p])]
  <1>1. p \in Payment
    BY JobsAreJobs
  <1>2. CASE ReconcileAttempts(r)
    <2>1. PICK a \in Latest(p) : held' = [held EXCEPT ![r].attempt = a]
      BY <1>2 DEF ReconcileAttempts
    <2>2. held'[r].attempt = a
      BY <2>1 DEF TypeOK, Held
    <2>3. attempts' = attempts
      BY <1>2 DEF ReconcileAttempts, tables
    <2>4. QED
      BY <1>0, <1>1, <2>2, <2>3, LatestIsLast
  <1>3. CASE Asks(r) /\ held'[r] = held[r]
    <2>1. held[r].attempt = last \/ r \in overtaken \/ last.by \in overtaken
      BY <1>3 DEF AsksMostRecent, Asks
    <2>2. CASE attempts' = attempts
      BY <1>0, <1>3, <2>1, <2>2
    <2>3. ASSUME NEW w \in Request, RetryWrite(w), attempts' # attempts
          PROVE  r \in overtaken' \/ attempts'[p] = attempts[p]
      <3>1. CASE job[w].payment = p
        <4>1. r # w /\ r \in InFlight(p)
          BY <1>3, <2>3, <3>1 DEF RetryWrite, Asks, At, InFlight, Flight
        <4>2. QED
          BY <2>3, <3>1, <4>1 DEF RetryWrite, Overtake
      <3>2. CASE job[w].payment # p
        BY <1>1, <2>3, <3>2, Appended
      <3>3. QED
        BY <3>1, <3>2
    <2>4. QED
      BY <1>0, <1>3, <2>1, <2>2, <2>3, AttemptsWritten
  <1>4. QED
    BY <1>2, <1>3, QuestionStays

(* A reconciliation asks about the attempt made last, unless somebody wrote *)
(* the payment since it was read, or the last retry was overtaken itself.   *)
THEOREM MostRecentIsAsked == Spec => []AsksMostRecent
  <1> DEFINE Inv == TypeOK /\ CarriesAttempt /\ CountIsCurrent
                    /\ NumbersAreSound /\ AsksMostRecent
  <1>1. Init => Inv
    BY TypeInit, NumbersInit, AsksInit
  <1>2. Inv /\ [Next]_vars => Inv'
    BY TypeStep, CountStep, NumbersStep, AsksStep
  <1>3. Inv => AsksMostRecent
    OBVIOUS
  <1>4. QED
    BY <1>1, <1>2, <1>3, PTL DEF Spec
-----------------------------------------------------------------------------
(* At whose wish.                                                          *)

(* What got a request where it is: past its route a retry or a              *)
(* reconciliation is of operations, a cancel about to write is of the owner, *)
(* and a retry about to write carries an attempt of its own.                *)
MayBeHere(r) ==
  /\ pc[r] \in Flight \cup {"read"} /\ job[r].op # "cancel" =>
       job[r].caller \in Operations
  /\ At(r, "cancel", "write") => Owner[job[r].payment] = job[r].caller
  /\ At(r, "retry", "write") => held[r].attempt.by = r

AllMayBeHere == \A r \in Request : MayBeHere(r)

(* A step that leaves r in place, or ends it, or is about someone else.     *)
LEMMA MayStay ==
  ASSUME NEW r \in Request, MayBeHere(r), job' = job,
         \/ pc'[r] \notin Flight \cup {"read"}
         \/ pc'[r] = pc[r] /\ held'[r] = held[r]
  PROVE  MayBeHere(r)'
  BY DEF MayBeHere, At, Flight

LEMMA MayStep ==
  ASSUME TypeOK, AllMayBeHere, [Next]_vars
  PROVE  AllMayBeHere'
  <1>0. /\ pc \in [Request -> Stage] /\ held \in [Request -> Held]
        /\ job' = job
        /\ \A q \in Request : job[q] \in Job
    BY JobStays DEF TypeOK
  <1> SUFFICES ASSUME NEW r \in Request PROVE MayBeHere(r)'
    BY DEF AllMayBeHere
  <1>1. MayBeHere(r)
    BY DEF AllMayBeHere
  <1>2. ASSUME NEW q \in Request, Ask(q) PROVE MayBeHere(r)'
    <2>1. CASE q = r
      BY <1>0, <1>1, <1>2, <2>1 DEF Ask, Goto, MayBeHere, At, Flight
    <2>2. CASE q # r
      BY <1>0, <1>1, <1>2, <2>2, MayStay DEF Ask, Goto
    <2>3. QED
      BY <2>1, <2>2
  <1>3. ASSUME NEW q \in Request,
               \/ AskForbidden(q) \/ ReadNotFound(q)
               \/ ReadRefused(q) \/ ReadFails(q) \/ WriteFails(q) \/ Respond(q)
               \/ RetryExhausted(q) \/ RetryNoProvider(q) \/ CancelAudit(q)
               \/ Drop(q)
        PROVE  MayBeHere(r)'
    <2>1. held' = held /\ \E stage \in {"done", "dropped"} : Goto(q, stage)
      BY <1>3 DEF AskForbidden, ReadNotFound, ReadRefused, ReadFails,
                  WriteFails, Respond, RetryExhausted, RetryNoProvider,
                  CancelAudit, Drop, End, Finish
    <2>2. QED
      BY <1>0, <1>1, <2>1, MayStay DEF Goto, Flight
  <1>4. ASSUME NEW q \in Request, Read(q) PROVE MayBeHere(r)'
    <2>1. CASE q = r
      <3>1. /\ pc' = [pc EXCEPT ![r] = AfterRead(job[r].op)]
            /\ pc[r] = "read" /\ Visible(r)
        BY <1>4, <2>1 DEF Read, Goto
      <3>2. /\ job[r].op # "cancel" => job[r].caller \in Operations
            /\ job[r].op = "cancel" => Owner[job[r].payment] = job[r].caller
        BY <1>1, <3>1 DEF MayBeHere, Visible
      <3>3. ~At(r, "retry", "write")'
        BY <1>0, <3>1 DEF At, AfterRead
      <3>4. QED
        BY <1>0, <3>2, <3>3 DEF MayBeHere, At
    <2>2. CASE q # r
      <3>1. pc'[r] = pc[r] /\ held'[r] = held[r]
        BY <1>0, <1>4, <2>2 DEF Read, Goto
      <3>2. QED
        BY <1>0, <1>1, <3>1, MayStay
    <2>3. QED
      BY <2>1, <2>2
  <1>5. ASSUME NEW q \in Request, RetryCount(q) PROVE MayBeHere(r)'
    <2>1. CASE q = r
      BY <1>0, <1>1, <1>5, <2>1 DEF RetryCount, Goto, MayBeHere, At, Flight
    <2>2. CASE q # r
      <3>1. pc'[r] = pc[r] /\ held'[r] = held[r]
        BY <1>0, <1>5, <2>2 DEF RetryCount, Goto
      <3>2. QED
        BY <1>0, <1>1, <3>1, MayStay
    <2>3. QED
      BY <2>1, <2>2
  <1>6. ASSUME NEW q \in Request, NEW v \in Provider, RetryAccepted(q, v)
        PROVE  MayBeHere(r)'
    <2> DEFINE a == [by |-> q, number |-> held[q].count + 1,
                     order |-> OrderOf(v, job[q].payment, q)]
    <2>1. /\ held' = [held EXCEPT ![q].attempt = a]
          /\ pc' = [pc EXCEPT ![q] = "write"] /\ At(q, "retry", "call")
      BY <1>6 DEF RetryAccepted, Goto
    <2>2. a.by = q
      OBVIOUS
    <2> HIDE DEF a
    <2>3. CASE q = r
      <3>1. held'[r].attempt.by = r
        BY <1>0, <2>1, <2>2, <2>3 DEF Held
      <3>2. QED
        BY <1>0, <1>1, <2>1, <2>3, <3>1 DEF MayBeHere, At, Flight
    <2>4. CASE q # r
      <3>1. pc'[r] = pc[r] /\ held'[r] = held[r]
        BY <1>0, <2>1, <2>4
      <3>2. QED
        BY <1>0, <1>1, <3>1, MayStay
    <2>5. QED
      BY <2>3, <2>4
  <1>7. ASSUME NEW q \in Request,
               \/ \E v \in Provider : RetryCallFails(q, v)
               \/ RetryWrite(q) \/ ReconcileWrite(q) \/ CancelWrite(q)
        PROVE  MayBeHere(r)'
    <2>1. held' = held /\ \E stage \in {"done", "audit", "committed"} : Goto(q, stage)
      BY <1>7 DEF RetryCallFails, RetryWrite, ReconcileWrite, CancelWrite,
                  Finish
    <2>2. QED
      BY <1>0, <1>1, <2>1, MayStay DEF Goto, Flight
  <1>8. ASSUME NEW q \in Request, ReconcileAttempts(q) \/ ReconcileQuery(q)
        PROVE  MayBeHere(r)'
    <2>1. /\ \A x \in Request \ {q} : held'[x] = held[x]
          /\ \E stage \in {"query", "write"} : Goto(q, stage)
          /\ pc[q] \in Flight /\ job[q].op = "reconcile"
      BY <1>0, <1>8 DEF ReconcileAttempts, ReconcileQuery, At, Flight
    <2>2. CASE q = r
      BY <1>0, <1>1, <2>1, <2>2 DEF MayBeHere, At
    <2>3. CASE q # r
      BY <1>0, <1>1, <2>1, <2>3, MayStay DEF Goto
    <2>4. QED
      BY <2>2, <2>3
  <1>9. CASE Outside \/ UNCHANGED vars
    <2>1. pc' = pc /\ held' = held
      BY <1>9 DEF Outside, Settle, OutsideWriter, vars
    <2>2. QED
      BY <1>0, <1>1, <2>1, MayStay
  <1>10. QED
    BY <1>2, <1>3, <1>4, <1>5, <1>6, <1>7, <1>8, <1>9
       DEF Next, Serve, Outside
(* Once a request has written, or ended, it never goes back.                *)
LEMMA LateStays ==
  ASSUME TypeOK, [Next]_vars, NEW r \in Request,
         pc[r] \in {"audit", "done", "dropped"}
  PROVE  /\ pc'[r] \in {"audit", "done", "dropped"}
         /\ pc[r] \in {"done", "dropped"} => pc'[r] = pc[r]
  <1> DEFINE Late == /\ pc'[r] \in {"audit", "done", "dropped"}
                     /\ pc[r] \in {"done", "dropped"} => pc'[r] = pc[r]
  <1>0. pc \in [Request -> Stage]
    BY DEF TypeOK
  <1>1. ASSUME NEW q \in Request, \E stage : Goto(q, stage),
               pc[q] \notin {"audit", "done", "dropped"}
        PROVE  Late
    BY <1>0, <1>1 DEF Goto
  <1>2. ASSUME NEW q \in Request, CancelAudit(q) \/ Drop(q)
        PROVE  Late
    BY <1>0, <1>2 DEF CancelAudit, Drop, Finish, Goto, At
  <1>3. ASSUME NEW q \in Request,
               \/ Ask(q) \/ AskForbidden(q) \/ ReadNotFound(q)
               \/ ReadRefused(q) \/ ReadFails(q) \/ WriteFails(q) \/ Respond(q)
               \/ RetryExhausted(q) \/ RetryNoProvider(q)
        PROVE  Late
    <2>1. /\ pc[q] \notin {"audit", "done", "dropped"}
          /\ \E stage \in {"read", "done"} : Goto(q, stage)
      BY <1>3 DEF Ask, AskForbidden, ReadNotFound, ReadRefused, ReadFails,
                  WriteFails, Respond, RetryExhausted, RetryNoProvider, End,
                  Finish, At
    <2>2. QED
      BY <1>1, <2>1
  <1>4. ASSUME NEW q \in Request, Moves(q) PROVE Late
    <2>1. pc[q] \notin {"audit", "done", "dropped"}
      BY <1>4 DEF Moves, Read, CancelWrite, RetryCount, RetryAccepted,
                  RetryCallFails, RetryWrite, ReconcileAttempts,
                  ReconcileQuery, ReconcileWrite, At
    <2>2. \E stage \in {AfterRead(job[q].op), "audit", "committed", "done",
                        "call", "write", "query"} : Goto(q, stage)
      BY <1>4 DEF Moves, Read, CancelWrite, RetryCount, RetryAccepted,
                  RetryCallFails, RetryWrite, ReconcileAttempts,
                  ReconcileQuery, ReconcileWrite, Finish
    <2>3. QED
      BY <1>1, <2>1, <2>2
  <1>5. CASE Outside \/ UNCHANGED vars
    BY <1>5 DEF Outside, Settle, OutsideWriter, vars
  <1>6. QED
    BY <1>2, <1>3, <1>4, <1>5 DEF Next, Serve, Moves, Outside

(* Only the write of a cancel makes a payment CANCELLED.                    *)
LEMMA CancelledByCancel ==
  ASSUME TypeOK, [Next]_vars, NEW p \in Payment,
         payments'[p].status = "CANCELLED", payments[p].status # "CANCELLED"
  PROVE  \E r \in Request : CancelWrite(r) /\ job[r].payment = p
  <1>1. ASSUME NEW q \in Payment, NEW s, NEW v, SetStatus(q, s, v)
        PROVE  p = q /\ s = "CANCELLED"
    BY <1>1, SetStatusElsewhere
  <1>2. ASSUME NEW r \in Request, Moves(r)
        PROVE  CancelWrite(r) /\ job[r].payment = p
    <2>0. job[r].payment \in Payment
      BY JobsAreJobs
    <2>1. CASE CancelWrite(r)
      BY <1>1, <2>0, <2>1 DEF CancelWrite
    <2>2. CASE RetryWrite(r)
      BY <1>1, <2>0, <2>2 DEF RetryWrite
    <2>3. CASE ReconcileWrite(r)
      <3>1. SetStatus(job[r].payment, Resolved(Resolve(held[r].found)),
                      payments[job[r].payment].provider)
        BY <2>3 DEF ReconcileWrite
      <3>2. QED
        BY <1>1, <2>0, <3>1 DEF Resolved
    <2>4. CASE ~(CancelWrite(r) \/ RetryWrite(r) \/ ReconcileWrite(r))
      BY <1>2, <2>4
         DEF Moves, Read, RetryCount, RetryAccepted, RetryCallFails,
             ReconcileAttempts, ReconcileQuery, tables
    <2>5. QED
      BY <2>1, <2>2, <2>3, <2>4
  <1>3. ASSUME NEW q \in Payment, NEW s \in Status, OutsideWriter(q, s)
        PROVE  FALSE
    BY <1>1, <1>3 DEF OutsideWriter
  <1>4. ASSUME NEW o \in Order, NEW s \in OrderState, Settle(o, s)
        PROVE  FALSE
    BY <1>4 DEF Settle, tables
  <1>5. QED
    BY Steps, <1>2, <1>3, <1>4 DEF Outside, Quiet, Still

CancelsAreWanted ==
  \A p \in Payment : payments[p].status = "CANCELLED" =>
    \E r \in Request : /\ job[r] = [op |-> "cancel", payment |-> p,
                                    caller |-> Owner[p]]
                       /\ pc[r] \in {"audit", "done", "dropped"}

AttemptsAreWanted ==
  \A p \in Payment : \A a \in Attempts(p) :
    a.by # p => job[a.by].payment = p /\ job[a.by].caller \in Operations

RecordsAreWanted == \A c \in records : job[c.by].caller \in Operations

LEMMA CancelsStep ==
  ASSUME TypeOK, AllMayBeHere, CancelsAreWanted, [Next]_vars
  PROVE  CancelsAreWanted'
  <1>0. job' = job
    BY JobStays
  <1> SUFFICES ASSUME NEW p \in Payment, payments'[p].status = "CANCELLED"
               PROVE  \E r \in Request :
                        /\ job[r] = [op |-> "cancel", payment |-> p,
                                     caller |-> Owner[p]]
                        /\ pc'[r] \in {"audit", "done", "dropped"}
    BY <1>0 DEF CancelsAreWanted
  <1>1. CASE payments[p].status = "CANCELLED"
    BY <1>1, LateStays DEF CancelsAreWanted
  <1>2. CASE payments[p].status # "CANCELLED"
    <2>1. PICK r \in Request : CancelWrite(r) /\ job[r].payment = p
      BY <1>2, CancelledByCancel
    <2>2. At(r, "cancel", "write") /\ pc'[r] \in {"audit", "done"}
      BY <2>1 DEF CancelWrite, Goto, Finish, TypeOK
    <2>3. Owner[p] = job[r].caller
      BY <2>1, <2>2 DEF AllMayBeHere, MayBeHere
    <2>4. job[r] = [op |-> "cancel", payment |-> p, caller |-> Owner[p]]
      BY <2>1, <2>2, <2>3, JobsAreJobs DEF At, Job
    <2>5. QED
      BY <2>2, <2>4
  <1>3. QED
    BY <1>1, <1>2

LEMMA AttemptsWantedStep ==
  ASSUME TypeOK, CarriesAttempt, AllMayBeHere, AttemptsAreWanted, [Next]_vars
  PROVE  AttemptsAreWanted'
  <1>0. job' = job
    BY JobStays
  <1>1. CASE attempts' = attempts
    BY <1>0, <1>1 DEF AttemptsAreWanted, Attempts
  <1>2. ASSUME NEW r \in Request, RetryWrite(r) PROVE AttemptsAreWanted'
    <2> DEFINE p == job[r].payment
               n == Len(attempts[p])
    <2>1. /\ p \in Payment /\ n \in Nat
          /\ \A q \in Payment \ {p} : attempts'[q] = attempts[q]
          /\ DOMAIN attempts[p] = 1..n /\ DOMAIN attempts'[p] = 1..(n + 1)
          /\ \A m \in 1..n : attempts'[p][m] = attempts[p][m]
          /\ attempts'[p][n + 1] = held[r].attempt
      BY <1>2, Appended
    <2>2. held[r].attempt.by = r /\ job[r].caller \in Operations
      BY <1>2 DEF RetryWrite, AllMayBeHere, MayBeHere, At, Flight
    <2> SUFFICES ASSUME NEW q \in Payment, NEW m \in DOMAIN attempts'[q]
                 PROVE  LET a == attempts'[q][m] IN
                        a.by # q => /\ job[a.by].payment = q
                                    /\ job[a.by].caller \in Operations
      BY <1>0 DEF AttemptsAreWanted, Attempts
    <2>3. CASE q # p
      BY <2>1, <2>3 DEF AttemptsAreWanted, Attempts
    <2>4. CASE q = p /\ m \in 1..n
      BY <2>1, <2>4 DEF AttemptsAreWanted, Attempts
    <2>5. CASE q = p /\ m \notin 1..n
      <3>1. m = n + 1
        BY <2>1, <2>5
      <3>2. QED
        BY <2>1, <2>2, <2>5, <3>1
    <2>6. QED
      BY <2>3, <2>4, <2>5
  <1>3. QED
    BY <1>1, <1>2, AttemptsWritten

LEMMA RecordsStep ==
  ASSUME TypeOK, AllMayBeHere, RecordsAreWanted, [Next]_vars
  PROVE  RecordsAreWanted'
  <1>0. job' = job
    BY JobStays
  <1> SUFFICES ASSUME NEW c \in records'
               PROVE  job[c.by].caller \in Operations
    BY <1>0 DEF RecordsAreWanted
  <1>1. CASE c \in records
    BY <1>1 DEF RecordsAreWanted
  <1>2. CASE c \notin records
    <2>1. PICK r \in Request : At(r, "reconcile", "write") /\ c.by = r
      BY <1>2, RecordWritten
    <2>2. QED
      BY <2>1 DEF AllMayBeHere, MayBeHere, At, Flight
  <1>3. QED
    BY <1>1, <1>2

LEMMA WantedInit ==
  Init => AllMayBeHere /\ CancelsAreWanted /\ AttemptsAreWanted
          /\ RecordsAreWanted
  <1> SUFFICES ASSUME Init
               PROVE  AllMayBeHere /\ CancelsAreWanted /\ AttemptsAreWanted
                      /\ RecordsAreWanted
    OBVIOUS
  <1>1. PICK first \in [Payment -> Provider] :
          /\ payments = [p \in Payment |-> [status |-> "PENDING",
                                            provider |-> first[p]]]
          /\ attempts = [p \in Payment |-> <<InitialAttempt(p, first[p])>>]
    BY DEF Init
  <1>2. \A p \in Payment : payments[p].status = "PENDING"
    BY <1>1
  <1>3. \A p \in Payment : \A a \in Attempts(p) : a.by = p
    BY <1>1 DEF Attempts, InitialAttempt
  <1>4. QED
    BY <1>2, <1>3 DEF Init, AllMayBeHere, MayBeHere, At, Flight,
                      CancelsAreWanted, AttemptsAreWanted, RecordsAreWanted

(* Whoever asks for what and however the requests race: a payment is        *)
(* CANCELLED only by a cancel of its owner's, and an attempt or a record is *)
(* made only by a request of operations.                                   *)
THEOREM EffectsAlwaysEntitled == Spec => []EffectsAreEntitled
  <1> DEFINE Inv == TypeOK /\ CarriesAttempt /\ AllMayBeHere
                    /\ CancelsAreWanted /\ AttemptsAreWanted
                    /\ RecordsAreWanted
  <1>1. Init => Inv
    BY TypeInit, WantedInit
  <1>2. Inv /\ [Next]_vars => Inv'
    BY TypeStep, MayStep, CancelsStep, AttemptsWantedStep, RecordsStep
  <1>3. Inv => EffectsAreEntitled
    BY DEF CancelsAreWanted, AttemptsAreWanted, RecordsAreWanted,
           EffectsAreEntitled
  <1>4. QED
    BY <1>1, <1>2, <1>3, PTL DEF Spec
-----------------------------------------------------------------------------
(* What a retry leaves behind.                                             *)

Acts(q) == Ask(q) \/ AskForbidden(q) \/ Serve(q) \/ Drop(q)

(* r and everything known of it stay as they are. *)
Rests(r) == /\ pc'[r] = pc[r] /\ answer'[r] = answer[r] /\ held'[r] = held[r]
            /\ r \in audit' <=> r \in audit

LEMMA OthersRest ==
  ASSUME TypeOK, NEW q \in Request, Acts(q), NEW r \in Request, r # q
  PROVE  Rests(r)
  <1>0. /\ pc \in [Request -> Stage] /\ held \in [Request -> Held]
        /\ answer \in [Request -> Reply]
    BY DEF TypeOK
  <1> USE DEF Goto, Finish, End, tables, Rests
  <1>1. CASE \/ Ask(q) \/ AskForbidden(q) \/ ReadNotFound(q)
             \/ ReadRefused(q) \/ ReadFails(q) \/ WriteFails(q) \/ Respond(q)
             \/ RetryExhausted(q) \/ RetryNoProvider(q) \/ Drop(q)
    BY <1>0, <1>1 DEF Ask, AskForbidden, ReadNotFound, ReadRefused, ReadFails,
                WriteFails, Respond, RetryExhausted, RetryNoProvider, Drop
  <1>2. CASE CancelWrite(q) \/ CancelAudit(q) \/ RetryWrite(q)
             \/ ReconcileWrite(q)
    BY <1>0, <1>2 DEF CancelWrite, CancelAudit, RetryWrite, ReconcileWrite
  <1>3. CASE Read(q)
    BY <1>0, <1>3 DEF Read
  <1>4. CASE RetryCount(q)
    BY <1>0, <1>4 DEF RetryCount
  <1>5. ASSUME NEW v \in Provider, RetryAccepted(q, v) PROVE Rests(r)
    BY <1>0, <1>5 DEF RetryAccepted
  <1>6. ASSUME NEW v \in Provider, RetryCallFails(q, v) PROVE Rests(r)
    BY <1>0, <1>6 DEF RetryCallFails
  <1>7. CASE ReconcileAttempts(q)
    BY <1>0, <1>7 DEF ReconcileAttempts
  <1>8. CASE ReconcileQuery(q)
    BY <1>0, <1>8 DEF ReconcileQuery
  <1>9. QED
    BY <1>1, <1>2, <1>3, <1>4, <1>5, <1>6, <1>7, <1>8 DEF Acts, Serve

(* A step of the retry r that writes nothing, orders nothing it keeps, and  *)
(* tells nothing of a write that committed.                                *)
MovesOn(r) ==
  /\ pc[r] \notin {"done", "dropped"} /\ pc'[r] \notin {"write", "committed"}
  /\ r \in audit' <=> r \in audit
  /\ \/ /\ pc'[r] # "done" /\ answer'[r] = answer[r]
        /\ pc[r] \in {"write", "committed"} => pc'[r] = "dropped"
     \/ /\ pc'[r] = "done" /\ answer'[r] \notin {"NONE", "OK"}
        /\ pc[r] # "committed"
        /\ pc[r] = "write" => answer'[r] = "ERROR"

LEMMA RetrySteps ==
  ASSUME TypeOK, [Next]_vars, NEW r \in Request, job[r].op = "retry"
  PROVE  \/ Rests(r) \/ MovesOn(r) \/ RetryWrite(r) \/ Respond(r)
         \/ \E v \in Provider : RetryAccepted(r, v)
  <1>0. /\ pc \in [Request -> Stage] /\ held \in [Request -> Held]
        /\ answer \in [Request -> Reply]
    BY DEF TypeOK
  <1>1. ASSUME Acts(r)
        PROVE  \/ MovesOn(r) \/ RetryWrite(r) \/ Respond(r)
               \/ \E v \in Provider : RetryAccepted(r, v)
    <2> USE DEF Goto, Finish, End, tables, At, MovesOn
    <2>1. CASE \/ Ask(r) \/ AskForbidden(r) \/ ReadNotFound(r)
               \/ ReadRefused(r) \/ ReadFails(r) \/ WriteFails(r)
               \/ RetryExhausted(r) \/ RetryNoProvider(r) \/ Drop(r)
      BY <1>0, <2>1 DEF Ask, AskForbidden, ReadNotFound, ReadRefused,
                        ReadFails, WriteFails, RetryExhausted, RetryNoProvider,
                        Drop
    <2>2. CASE Read(r) \/ RetryCount(r)
      BY <1>0, <2>2 DEF Read, AfterRead, RetryCount
    <2>3. ASSUME NEW v \in Provider, RetryCallFails(r, v) PROVE MovesOn(r)
      BY <1>0, <2>3 DEF RetryCallFails
    <2>4. CASE CancelWrite(r) \/ CancelAudit(r) \/ ReconcileAttempts(r)
               \/ ReconcileQuery(r) \/ ReconcileWrite(r)
      BY <2>4 DEF CancelWrite, CancelAudit, ReconcileAttempts, ReconcileQuery,
                  ReconcileWrite
    <2>5. QED
      BY <1>1, <2>1, <2>2, <2>3, <2>4 DEF Acts, Serve
  <1>2. CASE Outside \/ UNCHANGED vars
    BY <1>2 DEF Outside, Settle, OutsideWriter, vars, tables, Rests
  <1>3. Outside \/ UNCHANGED vars \/ \E q \in Request : Acts(q)
    BY DEF Next, Acts, Outside
  <1>4. ASSUME NEW q \in Request, Acts(q), q # r PROVE Rests(r)
    BY <1>4, OthersRest
  <1>5. QED
    BY <1>1, <1>2, <1>3, <1>4

(* An order is placed by the call of a retry, under its own name or under   *)
(* the payment's.                                                          *)
LEMMA OrdersPlaced ==
  ASSUME TypeOK, [Next]_vars, NEW o \in Order,
         orders[o] = "NONE", orders'[o] # "NONE"
  PROVE  \E r \in Request :
           /\ o.id \in {r, job[r].payment}
           /\ pc'[r] = "write" \/ answer'[r] = "PROVIDER_ERROR"
  <1>0. /\ pc \in [Request -> Stage] /\ answer \in [Request -> Reply]
    BY DEF TypeOK
  <1>1. ASSUME NEW r \in Request, NEW v \in Provider,
               RetryAccepted(r, v) \/ RetryCallFails(r, v)
        PROVE  /\ o.id \in {r, job[r].payment}
               /\ pc'[r] = "write" \/ answer'[r] = "PROVIDER_ERROR"
    <2>1. orders' \in {orders, Ordered(OrderOf(v, job[r].payment, r))}
      BY <1>1 DEF RetryAccepted, RetryCallFails
    <2>2. o = OrderOf(v, job[r].payment, r)
      BY <2>1 DEF Ordered, TypeOK
    <2>3. pc'[r] = "write" \/ answer'[r] = "PROVIDER_ERROR"
      BY <1>0, <1>1 DEF RetryAccepted, RetryCallFails, Goto, Finish
    <2>4. QED
      BY <2>2, <2>3 DEF OrderOf
  <1>2. ASSUME NEW r \in Request, Moves(r),
               ~\E v \in Provider : RetryAccepted(r, v) \/ RetryCallFails(r, v)
        PROVE  FALSE
    BY <1>2 DEF Moves, Read, CancelWrite, RetryCount, RetryWrite,
                ReconcileAttempts, ReconcileQuery, ReconcileWrite
  <1>3. CASE Outside
    <2>1. ASSUME NEW x \in Order, NEW s \in OrderState, Settle(x, s)
          PROVE  FALSE
      BY <2>1 DEF Settle, TypeOK
    <2>2. QED
      BY <1>3, <2>1 DEF Outside, OutsideWriter
  <1>4. QED
    BY Steps, <1>1, <1>2, <1>3 DEF Quiet, Still

-----------------------------------------------------------------------------
(* What the tables hold of a retry: its attempt is there or not. *)
Attempted(r) == \E a \in Attempts(job[r].payment) : a.by = r

(* The orders of attempts, written or about to be, exist. *)
OrdersExist ==
  /\ \A p \in Payment : \A a \in Attempts(p) : orders[a.order] # "NONE"
  /\ \A r \in Request : At(r, "retry", "write") =>
       orders[held[r].attempt.order] # "NONE"

AttemptsAreAudited ==
  \A p \in Payment : \A a \in Attempts(p) : a.by \in Request => a.by \in audit

ProviderWasAsked ==
  \A p \in Payment : \E a \in Attempts(p) : payments[p].provider = a.order.at

(* A retry whose attempt is there has committed and is not answered, was    *)
(* dropped, or was answered; and only one whose attempt is there has        *)
(* committed, is audited, or was answered OK.                              *)
MayHaveCommitted(r) ==
  \/ pc[r] \in {"committed", "dropped"}
  \/ pc[r] = "done" /\ answer[r] \in {"OK", "ERROR"}

AttemptsAreAnswered ==
  \A r \in Request : job[r].op = "retry" =>
    /\ answer[r] # "NONE" => pc[r] = "done"
    /\ Attempted(r) => MayHaveCommitted(r)
    /\ r \in audit \/ answer[r] = "OK" \/ pc[r] = "committed" => Attempted(r)

(* An order without an attempt has a retry that may not know of it. *)
OrdersAreOwned ==
  \A r \in Request : job[r].op = "retry" =>
    \A o \in Order : o.id = r /\ orders[o] # "NONE" =>
      \/ Attempted(r)
      \/ pc[r] \in {"write", "dropped"}
      \/ answer[r] \in {"PROVIDER_ERROR", "ERROR"}

(* What a write of r adds: an attempt of its own, to its own payment.       *)
LEMMA WhatIsAdded ==
  ASSUME TypeOK, CarriesAttempt, AllMayBeHere, NEW r \in Request,
         RetryWrite(r), NEW p \in Payment, NEW a \in Attempts(p)', a \notin Attempts(p)
  PROVE  p = job[r].payment /\ a = held[r].attempt /\ a.by = r
  <1> DEFINE n == Len(attempts[p])
  <1>1. p = job[r].payment
    BY Appended DEF Attempts
  <1>2. PICK m \in DOMAIN attempts'[p] : a = attempts'[p][m]
    BY DEF Attempts
  <1>3. m \notin 1..n
    BY <1>1, <1>2, Appended DEF Attempts
  <1>4. m = n + 1 /\ a = held[r].attempt
    BY <1>1, <1>2, <1>3, Appended
  <1>5. held[r].attempt.by = r
    BY DEF AllMayBeHere, MayBeHere, RetryWrite
  <1>6. QED
    BY <1>1, <1>4, <1>5

LEMMA ItIsAdded ==
  ASSUME TypeOK, CarriesAttempt, AllMayBeHere, NEW r \in Request, RetryWrite(r)
  PROVE  /\ held[r].attempt \in Attempts(job[r].payment)'
         /\ held[r].attempt.by = r
  <1>1. held[r].attempt.by = r
    BY DEF AllMayBeHere, MayBeHere, RetryWrite
  <1>2. job' = job
    BY DEF RetryWrite
  <1>3. QED
    BY <1>1, <1>2, Appended DEF Attempts

(* A retry is attempted by its own write only, and for good.                *)
LEMMA AttemptedStep ==
  ASSUME TypeOK, CarriesAttempt, AllMayBeHere, [Next]_vars, NEW r \in Request
  PROVE  /\ Attempted(r) \/ RetryWrite(r) => Attempted(r)'
         /\ Attempted(r)' => Attempted(r) \/ RetryWrite(r)
  <1>0. job' = job /\ job[r].payment \in Payment
    BY JobStays, JobsAreJobs
  <1>1. Attempted(r) => Attempted(r)'
    BY <1>0, AttemptsGrow DEF Attempted, Attempts
  <1>2. RetryWrite(r) => Attempted(r)'
    BY <1>0, ItIsAdded DEF Attempted, Attempts
  <1>3. ASSUME Attempted(r)', ~Attempted(r) PROVE RetryWrite(r)
    <2>1. PICK a \in Attempts(job[r].payment)' : a.by = r
      BY <1>0, <1>3 DEF Attempted, Attempts
    <2>2. a \notin Attempts(job[r].payment)
      BY <1>3, <2>1 DEF Attempted
    <2>3. attempts' # attempts
      BY <1>0, <2>1, <2>2 DEF Attempts
    <2>4. PICK q \in Request : RetryWrite(q)
      BY <2>3, AttemptsWritten
    <2>5. a.by = q
      BY <1>0, <2>1, <2>2, <2>4, WhatIsAdded DEF Attempts
    <2>6. QED
      BY <2>1, <2>4, <2>5
  <1>4. QED
    BY <1>1, <1>2, <1>3

LEMMA OrdersExistStep ==
  ASSUME TypeOK, CarriesAttempt, AllMayBeHere, OrdersExist, [Next]_vars
  PROVE  OrdersExist'
  <1>0. job' = job
    BY JobStays
  <1>1. ASSUME NEW o \in Order, orders[o] # "NONE" PROVE orders'[o] # "NONE"
    BY <1>1, OrdersSettle
  <1>2. ASSUME NEW p \in Payment, NEW a \in Attempts(p)'
        PROVE  orders'[a.order] # "NONE"
    <2>1. CASE a \in Attempts(p)
      BY <1>1, <2>1, AttemptsAreAttempts DEF OrdersExist, Attempt
    <2>2. CASE a \notin Attempts(p)
      <3>1. attempts' # attempts
        BY <1>2, <2>2 DEF Attempts
      <3>2. PICK r \in Request : RetryWrite(r)
        BY <3>1, AttemptsWritten
      <3>3. a = held[r].attempt
        BY <1>2, <2>2, <3>2, WhatIsAdded
      <3>4. At(r, "retry", "write")
        BY <3>2 DEF RetryWrite
      <3>5. orders[a.order] # "NONE" /\ a.order \in Order
        BY <3>3, <3>4 DEF OrdersExist, CarriesAttempt, Carrying, Attempt
      <3>6. QED
        BY <1>1, <3>5
    <2>3. QED
      BY <2>1, <2>2
  <1>3. ASSUME NEW r \in Request, At(r, "retry", "write")'
        PROVE  orders'[held'[r].attempt.order] # "NONE"
    <2>1. job[r].op = "retry" /\ pc'[r] = "write"
      BY <1>0, <1>3 DEF At
    <2>2. CASE Rests(r)
      <3>1. At(r, "retry", "write") /\ held'[r] = held[r]
        BY <2>1, <2>2 DEF Rests, At
      <3>2. /\ orders[held[r].attempt.order] # "NONE"
            /\ held[r].attempt.order \in Order
        BY <3>1 DEF OrdersExist, CarriesAttempt, Carrying, Attempt
      <3>3. QED
        BY <1>1, <3>1, <3>2
    <2>3. ASSUME NEW v \in Provider, RetryAccepted(r, v)
          PROVE  orders'[held'[r].attempt.order] # "NONE"
      <3> DEFINE o == OrderOf(v, job[r].payment, r)
                 a == [by |-> r, number |-> held[r].count + 1, order |-> o]
      <3>1. orders' = Ordered(o) /\ held' = [held EXCEPT ![r].attempt = a]
        BY <2>3 DEF RetryAccepted
      <3>2. o \in Order
        BY OrderOfIsOrder, JobsAreJobs
      <3>3. Ordered(o)[o] # "NONE"
        BY <3>2 DEF Ordered, TypeOK
      <3>4. a.order = o
        OBVIOUS
      <3> HIDE DEF a
      <3>5. held'[r].attempt = a
        BY <3>1 DEF TypeOK, Held
      <3>6. QED
        BY <3>1, <3>3, <3>4, <3>5
    <2>4. ~MovesOn(r) /\ ~RetryWrite(r) /\ ~Respond(r)
      BY <2>1 DEF MovesOn, RetryWrite, Respond, Finish, Goto, TypeOK
    <2>5. QED
      BY <2>1, <2>2, <2>3, <2>4, RetrySteps
  <1>4. QED
    BY <1>2, <1>3 DEF OrdersExist

LEMMA AuditedStep ==
  ASSUME TypeOK, CarriesAttempt, AllMayBeHere, AttemptsAreAudited, [Next]_vars
  PROVE  AttemptsAreAudited'
  <1>1. audit \subseteq audit'
    <2>1. ASSUME NEW q \in Request, Moves(q) \/ CancelAudit(q)
          PROVE  audit \subseteq audit'
      BY <2>1 DEF Moves, Read, CancelWrite, RetryCount, RetryAccepted,
                  RetryCallFails, RetryWrite, ReconcileAttempts,
                  ReconcileQuery, ReconcileWrite, CancelAudit, tables
    <2>2. ASSUME NEW q \in Request,
                 \/ Ask(q) \/ AskForbidden(q) \/ ReadNotFound(q)
                 \/ ReadRefused(q) \/ ReadFails(q) \/ WriteFails(q) \/ Respond(q)
                 \/ RetryExhausted(q) \/ RetryNoProvider(q) \/ Drop(q)
          PROVE  audit \subseteq audit'
      BY <2>2 DEF Ask, AskForbidden, ReadNotFound, ReadRefused, ReadFails,
                  WriteFails, Respond, RetryExhausted, RetryNoProvider, Drop,
                  End, Finish, tables
    <2>3. CASE Outside \/ UNCHANGED vars
      BY <2>3 DEF Outside, Settle, OutsideWriter, vars, tables
    <2>4. QED
      BY <2>1, <2>2, <2>3 DEF Next, Serve, Moves, Outside
  <1> SUFFICES ASSUME NEW p \in Payment, NEW a \in Attempts(p)',
                      a.by \in Request
               PROVE  a.by \in audit'
    BY DEF AttemptsAreAudited
  <1>2. CASE a \in Attempts(p)
    BY <1>1, <1>2 DEF AttemptsAreAudited
  <1>3. CASE a \notin Attempts(p)
    <2>1. attempts' # attempts
      BY <1>3 DEF Attempts
    <2>2. PICK r \in Request : RetryWrite(r)
      BY <2>1, AttemptsWritten
    <2>3. a.by = r
      BY <1>3, <2>2, WhatIsAdded
    <2>4. QED
      BY <2>2, <2>3 DEF RetryWrite
  <1>4. QED
    BY <1>2, <1>3

(* A payment keeps its provider, or gets that of the attempt written.       *)
LEMMA ProviderStep ==
  ASSUME TypeOK, CarriesAttempt, AllMayBeHere, ProviderWasAsked, [Next]_vars
  PROVE  ProviderWasAsked'
  <1>0. /\ payments \in [Payment -> Row]
        /\ \A r \in Request : job[r].payment \in Payment
    BY JobsAreJobs DEF TypeOK
  <1> SUFFICES ASSUME NEW p \in Payment
               PROVE  \E a \in Attempts(p)' : payments'[p].provider = a.order.at
    BY DEF ProviderWasAsked
  <1>1. ASSUME payments'[p].provider = payments[p].provider
        PROVE  \E a \in Attempts(p)' : payments'[p].provider = a.order.at
    <2>1. PICK a \in Attempts(p) : payments[p].provider = a.order.at
      BY DEF ProviderWasAsked
    <2>2. a \in Attempts(p)'
      BY <2>1, AttemptsGrow
    <2>3. QED
      BY <1>1, <2>1, <2>2
  <1>2. ASSUME NEW q \in Payment, NEW s,
               SetStatus(q, s, payments[q].provider)
        PROVE  payments'[p].provider = payments[p].provider
    BY <1>0, <1>2 DEF SetStatus
  <1>3. ASSUME NEW r \in Request, Moves(r)
        PROVE  \/ payments'[p].provider = payments[p].provider
               \/ RetryWrite(r) /\ p = job[r].payment
    <2>1. CASE CancelWrite(r)
      BY <1>0, <1>2, <2>1 DEF CancelWrite
    <2>2. CASE RetryWrite(r)
      BY <1>0, <2>2 DEF RetryWrite, SetStatus
    <2>3. CASE ReconcileWrite(r)
      BY <1>0, <1>2, <2>3 DEF ReconcileWrite
    <2>4. CASE ~(CancelWrite(r) \/ RetryWrite(r) \/ ReconcileWrite(r))
      BY <1>3, <2>4
         DEF Moves, Read, RetryCount, RetryAccepted, RetryCallFails,
             ReconcileAttempts, ReconcileQuery, tables
    <2>5. QED
      BY <2>1, <2>2, <2>3, <2>4
  <1>4. ASSUME NEW r \in Request, RetryWrite(r), p = job[r].payment
        PROVE  \E a \in Attempts(p)' : payments'[p].provider = a.order.at
    <2>1. payments'[p].provider = held[r].attempt.order.at
      BY <1>0, <1>4 DEF RetryWrite, SetStatus
    <2>2. held[r].attempt \in Attempts(job[r].payment)'
      BY <1>4, ItIsAdded
    <2>3. job' = job
      BY JobStays
    <2>4. QED
      BY <1>4, <2>1, <2>2, <2>3 DEF Attempts
  <1>5. CASE Outside
    BY <1>2, <1>1, <1>5 DEF Outside, Settle, OutsideWriter, tables
  <1>6. QED
    BY Steps, <1>1, <1>3, <1>4, <1>5 DEF Quiet, Still

LEMMA AnsweredStep ==
  ASSUME TypeOK, CarriesAttempt, AllMayBeHere, AttemptsAreAnswered, [Next]_vars
  PROVE  AttemptsAreAnswered'
  <1>0. job' = job
    BY JobStays
  <1> SUFFICES ASSUME NEW r \in Request, job[r].op = "retry"
               PROVE  /\ answer'[r] # "NONE" => pc'[r] = "done"
                      /\ Attempted(r)' => MayHaveCommitted(r)'
                      /\ \/ r \in audit' \/ answer'[r] = "OK"
                         \/ pc'[r] = "committed"
                         => Attempted(r)'
    BY <1>0 DEF AttemptsAreAnswered
  <1>1. /\ answer[r] # "NONE" => pc[r] = "done"
        /\ Attempted(r) => MayHaveCommitted(r)
        /\ r \in audit \/ answer[r] = "OK" \/ pc[r] = "committed" => Attempted(r)
    BY DEF AttemptsAreAnswered
  <1>2. /\ Attempted(r) \/ RetryWrite(r) => Attempted(r)'
        /\ Attempted(r)' => Attempted(r) \/ RetryWrite(r)
    BY AttemptedStep
  <1>3. CASE RetryWrite(r)
    <2>1. pc[r] = "write" /\ pc'[r] = "committed" /\ answer' = answer
      BY <1>3 DEF RetryWrite, At, Goto, TypeOK
    <2>2. QED
      BY <1>1, <1>2, <1>3, <2>1 DEF MayHaveCommitted
  <1>4. CASE Rests(r) /\ ~RetryWrite(r)
    BY <1>1, <1>2, <1>4 DEF Rests, MayHaveCommitted
  <1>5. CASE MovesOn(r) /\ ~RetryWrite(r)
    BY <1>1, <1>2, <1>5 DEF MovesOn, MayHaveCommitted
  <1>6. CASE Respond(r)
    <2>1. /\ pc[r] = "committed" /\ pc'[r] = "done"
          /\ answer'[r] \in {"OK", "ERROR"} /\ audit' = audit
      BY <1>6 DEF Respond, Finish, Goto, tables, TypeOK
    <2>2. QED
      BY <1>1, <1>2, <2>1 DEF MayHaveCommitted
  <1>7. ASSUME NEW v \in Provider, RetryAccepted(r, v)
        PROVE  /\ pc[r] = "call" /\ pc'[r] = "write" /\ answer' = answer
               /\ audit' = audit /\ ~RetryWrite(r)
    BY <1>7 DEF RetryAccepted, At, Goto, tables, RetryWrite, TypeOK
  <1>8. QED
    BY <1>1, <1>2, <1>3, <1>4, <1>5, <1>6, <1>7, RetrySteps
       DEF MayHaveCommitted

LEMMA OwnedStep ==
  ASSUME TypeOK, CarriesAttempt, AllMayBeHere, AttemptsAreAnswered,
         OrdersAreOwned, [Next]_vars
  PROVE  OrdersAreOwned'
  <1>0. job' = job
    BY JobStays
  <1> SUFFICES ASSUME NEW r \in Request, job[r].op = "retry",
                      NEW o \in Order, o.id = r, orders'[o] # "NONE"
               PROVE  \/ Attempted(r)'
                      \/ pc'[r] \in {"write", "dropped"}
                      \/ answer'[r] \in {"PROVIDER_ERROR", "ERROR"}
    BY <1>0 DEF OrdersAreOwned
  <1>1. Attempted(r) \/ RetryWrite(r) => Attempted(r)'
    BY AttemptedStep
  <1>2. CASE orders[o] = "NONE"
    <2>1. PICK q \in Request :
            /\ o.id \in {q, job[q].payment}
            /\ pc'[q] = "write" \/ answer'[q] = "PROVIDER_ERROR"
      BY <1>2, OrdersPlaced
    <2>2. q = r
      BY <2>1, JobsAreJobs, RequestAssumption
    <2>3. QED
      BY <2>1, <2>2
  <1>3. CASE orders[o] # "NONE"
    <2>1. \/ Attempted(r) \/ pc[r] \in {"write", "dropped"}
          \/ answer[r] \in {"PROVIDER_ERROR", "ERROR"}
      BY <1>3 DEF OrdersAreOwned
    <2>2. answer[r] # "NONE" => pc[r] = "done"
      BY DEF AttemptsAreAnswered
    <2>3. CASE Rests(r)
      BY <1>1, <2>1, <2>3 DEF Rests
    <2>4. CASE MovesOn(r)
      BY <1>1, <2>1, <2>2, <2>4 DEF MovesOn
    <2>5. ASSUME NEW v \in Provider, RetryAccepted(r, v)
          PROVE  pc'[r] = "write"
      BY <2>5 DEF RetryAccepted, Goto, TypeOK
    <2>6. CASE Respond(r)
      BY <1>1, <2>6 DEF Respond, AttemptsAreAnswered
    <2>7. QED
      BY <1>1, <2>3, <2>4, <2>5, <2>6, RetrySteps
  <1>4. QED
    BY <1>2, <1>3

LEMMA TracesInit ==
  Init => OrdersExist /\ AttemptsAreAudited /\ ProviderWasAsked
          /\ AttemptsAreAnswered /\ OrdersAreOwned
  <1> SUFFICES ASSUME Init
               PROVE  OrdersExist /\ AttemptsAreAudited /\ ProviderWasAsked
                      /\ AttemptsAreAnswered /\ OrdersAreOwned
    OBVIOUS
  <1>1. PICK first \in [Payment -> Provider] :
          /\ payments = [p \in Payment |-> [status |-> "PENDING",
                                            provider |-> first[p]]]
          /\ attempts = [p \in Payment |-> <<InitialAttempt(p, first[p])>>]
          /\ orders = [o \in Order |->
                         IF \E p \in Payment : o = OrderOf(first[p], p, p)
                           THEN "PENDING" ELSE "NONE"]
    BY DEF Init
  <1>2. \A p \in Payment : Attempts(p) = {InitialAttempt(p, first[p])}
    BY <1>1 DEF Attempts
  <1>3. ASSUME NEW p \in Payment
        PROVE  LET a == InitialAttempt(p, first[p]) IN
               /\ a.by = p /\ a.order.at = payments[p].provider
               /\ orders[a.order] # "NONE"
    <2>1. OrderOf(first[p], p, p) \in Order /\ OrderOf(first[p], p, p).at = first[p]
      BY OrderOfIsOrder DEF OrderOf
    <2>2. QED
      BY <1>1, <2>1 DEF InitialAttempt
  <1>4. \A p \in Payment : p \notin Request
    BY RequestAssumption
  <1>5. OrdersExist /\ AttemptsAreAudited
    <2>1. \A r \in Request : pc[r] # "write"
      BY DEF Init
    <2>2. \A p \in Payment : \A a \in Attempts(p) :
            orders[a.order] # "NONE" /\ a.by \notin Request
      BY <1>2, <1>3, <1>4
    <2>3. OrdersExist
      BY <2>1, <2>2 DEF OrdersExist, At
    <2>4. QED
      BY <2>2, <2>3 DEF AttemptsAreAudited
  <1>6. ProviderWasAsked
    BY <1>2, <1>3 DEF ProviderWasAsked
  <1>7. AttemptsAreAnswered
    <2>1. \A r \in Request : job[r].payment \in Payment
      BY DEF Init, Job
    <2>2. \A r \in Request : ~Attempted(r)
      BY <1>2, <1>3, <1>4, <2>1 DEF Attempted
    <2>3. QED
      BY <2>2 DEF Init, AttemptsAreAnswered
  <1>8. OrdersAreOwned
    <2>1. ASSUME NEW o \in Order, orders[o] # "NONE" PROVE o.id \in Payment
      <3>1. PICK p \in Payment : o = OrderOf(first[p], p, p)
        BY <1>1, <2>1
      <3>2. QED
        BY <3>1 DEF OrderOf
    <2>2. QED
      BY <1>4, <2>1 DEF OrdersAreOwned
  <1>9. QED
    BY <1>5, <1>6, <1>7, <1>8

(* However retries race, fail, are dropped or lose an acknowledgement: an   *)
(* attempt has its audit row and its order, the provider shown was asked,   *)
(* and an order nobody recorded belongs to a retry that was not told OK.    *)
THEOREM RetriesAlwaysRecorded == Spec => []RetriesAreRecorded
  <1> DEFINE Inv == /\ TypeOK /\ CarriesAttempt /\ AllMayBeHere
                    /\ OrdersExist /\ AttemptsAreAudited /\ ProviderWasAsked
                    /\ AttemptsAreAnswered /\ OrdersAreOwned
  <1>1. Init => Inv
    BY TypeInit, WantedInit, TracesInit
  <1>2. Inv /\ [Next]_vars => Inv'
    BY TypeStep, MayStep, OrdersExistStep, AuditedStep, ProviderStep,
       AnsweredStep, OwnedStep
  <1>3. Inv => RetriesAreRecorded
    <2> SUFFICES ASSUME Inv PROVE RetriesAreRecorded
      OBVIOUS
    <2>1. ASSUME NEW p \in Payment
          PROVE  /\ \A a \in Attempts(p) : /\ orders[a.order] # "NONE"
                                           /\ a.by \in Request => a.by \in audit
                 /\ \E a \in Attempts(p) : payments[p].provider = a.order.at
      BY DEF OrdersExist, AttemptsAreAudited, ProviderWasAsked
    <2>2. ASSUME NEW r \in Request, job[r].op = "retry"
          PROVE  /\ r \in audit \/ answer[r] = "OK" => Attempted(r)
                 /\ Attempted(r) => \/ pc[r] \in {"committed", "dropped"}
                                    \/ answer[r] \in {"OK", "ERROR"}
                 /\ \A o \in Order : o.id = r /\ orders[o] # "NONE" =>
                      \/ Attempted(r)
                      \/ pc[r] \in {"write", "dropped"}
                      \/ answer[r] \in {"PROVIDER_ERROR", "ERROR"}
      BY <2>2 DEF AttemptsAreAnswered, MayHaveCommitted, OrdersAreOwned
    <2>3. QED
      BY <2>1, <2>2 DEF RetriesAreRecorded, Attempted
  <1>4. QED
    BY <1>1, <1>2, <1>3, PTL DEF Spec
=============================================================================
