------------------------- MODULE PaymentLifecycle_book -------------------------
(***************************************************************************)
(* Proofs about what races do to PaymentLifecycle and what they do not: how *)
(* far the retry limit is exceeded, what undoes a cancel, and that the      *)
(* operations keep the promise of PaymentBook. For any sets of payments,    *)
(* providers and callers and any retry limit; for any set of requests, too, *)
(* except that a bound on a number of requests needs a finite one.          *)
(***************************************************************************)
EXTENDS PaymentLifecycle_effects, FiniteSetTheorems

-----------------------------------------------------------------------------
(* The retry limit.                                                        *)

(* Overtaken retries that have written payment p. *)
Races(p) == overtaken \cap Retried(p)

LEMMA RetriedStays ==
  ASSUME TypeOK, CarriesAttempt, [Next]_vars, NEW p \in Payment
  PROVE  Retried(p) \subseteq Retried(p)'
  BY AttemptsGrow DEF Retried

LEMMA RacesStay ==
  ASSUME TypeOK, CarriesAttempt, [Next]_vars, NEW p \in Payment
  PROVE  Races(p) \subseteq Races(p)'
  BY RetriedStays, OvertakenGrows DEF Races

LEMMA RacesAreCounted ==
  ASSUME IsFiniteSet(Request), TypeOK, NEW p \in Payment
  PROVE  /\ IsFiniteSet(Races(p))
         /\ Cardinality(Races(p)) \in Nat
  <1>1. Races(p) \subseteq Request
    BY DEF Races, TypeOK
  <1>2. QED
    BY <1>1, FS_Subset, FS_CardinalityType

(* The write of a retry makes it one that has written, and it was not one.  *)
LEMMA WriteRetries ==
  ASSUME TypeOK, CarriesAttempt, AllMayBeHere, AttemptsAreAnswered,
         NEW r \in Request, NEW p \in Payment, RetryWrite(r), job[r].payment = p
  PROVE  r \notin Retried(p) /\ r \in Retried(p)'
  <1>1. pc[r] = "write" /\ job[r].op = "retry" /\ job' = job
    BY DEF RetryWrite, At
  <1>2. r \notin Retried(p)
    BY <1>1 DEF AttemptsAreAnswered, Attempted, MayHaveCommitted, Retried
  <1>3. /\ held[r].attempt \in Attempts(job[r].payment)'
        /\ held[r].attempt.by = r
    BY ItIsAdded
  <1>4. r \in Retried(p)'
    BY <1>1, <1>3 DEF Retried, Attempts
  <1>5. QED
    BY <1>2, <1>4

LEMMA AppendedLength ==
  ASSUME TypeOK, CarriesAttempt, NEW r \in Request, RetryWrite(r)
  PROVE  /\ Len(attempts[job[r].payment]) \in Nat
         /\ Len(attempts'[job[r].payment]) = Len(attempts[job[r].payment]) + 1
  <1>1. attempts' = [attempts EXCEPT ![job[r].payment] =
                       Append(@, held[r].attempt)]
    BY DEF RetryWrite
  <1>2. /\ job[r].payment \in Payment /\ held[r].attempt \in Attempt
        /\ attempts[job[r].payment] \in Seq(Attempt)
    BY Appended DEF TypeOK
  <1>3. attempts'[job[r].payment] =
          Append(attempts[job[r].payment], held[r].attempt)
    BY <1>1, <1>2 DEF TypeOK
  <1>4. QED
    BY <1>2, <1>3, AppendProperties, LenProperties

LEMMA ExcessInit == ASSUME IsFiniteSet(Request) PROVE Init => ExcessIsRaces
  <1> SUFFICES ASSUME Init PROVE ExcessIsRaces
    OBVIOUS
  <1>1. \A p \in Payment : Len(attempts[p]) = 1
    <2>1. PICK first \in [Payment -> Provider] :
            attempts = [p \in Payment |-> <<InitialAttempt(p, first[p])>>]
      BY DEF Init
    <2>2. QED
      BY <2>1
  <1>2. \A p \in Payment : Cardinality(Races(p)) \in Nat
    BY RacesAreCounted, TypeInit
  <1>3. ASSUME NEW p \in Payment
        PROVE  Len(attempts[p])
                 <= MaxRetryAttempts + Cardinality(Races(p))
    <2> DEFINE races == Cardinality(Races(p))
    <2>1. Len(attempts[p]) = 1 /\ races \in Nat
      BY <1>1, <1>2
    <2> HIDE DEF races
    <2>2. QED
      BY <2>1, MaxAssumption DEF races
  <1>4. QED
    BY <1>3 DEF ExcessIsRaces, Races

(* An overtaken retry answers for its attempt itself, whatever becomes of   *)
(* it after the commit. Any other counted the attempts that are there.      *)
LEMMA ExcessStep ==
  ASSUME IsFiniteSet(Request), TypeOK, TypeOK', CarriesAttempt,
         AllMayBeHere, AttemptsAreAnswered, CountIsCurrent, ExcessIsRaces,
         [Next]_vars
  PROVE  ExcessIsRaces'
  <1> SUFFICES ASSUME NEW p \in Payment
               PROVE  Len(attempts'[p])
                        <= MaxRetryAttempts + Cardinality(Races(p)')
    BY DEF ExcessIsRaces, Races
  <1> DEFINE n     == Len(attempts[p])
             races == Races(p)
  <1>1. /\ n \in Nat /\ IsFiniteSet(races) /\ Cardinality(races) \in Nat
        /\ IsFiniteSet(races') /\ Cardinality(races') \in Nat
    <2>1. n \in Nat
      BY DEF TypeOK
    <2>2. races' \subseteq Request
      BY DEF Races, TypeOK
    <2>3. QED
      BY <2>1, <2>2, RacesAreCounted, FS_Subset, FS_CardinalityType
  <1>2. races \subseteq races'
    BY RacesStay
  <1>3. Cardinality(races) <= Cardinality(races')
    BY <1>1, <1>2, FS_Subset
  <1>4. n <= MaxRetryAttempts + Cardinality(races)
    BY DEF ExcessIsRaces, Races
  <1>5. MaxRetryAttempts \in Nat
    BY MaxAssumption
  <1>6. CASE attempts'[p] = attempts[p]
    BY <1>1, <1>3, <1>4, <1>5, <1>6
  <1>7. ASSUME NEW r \in Request, RetryWrite(r), job[r].payment = p
        PROVE  Len(attempts'[p]) <= MaxRetryAttempts + Cardinality(races')
    <2>1. Len(attempts'[p]) = n + 1
      BY <1>7, AppendedLength
    <2>2. At(r, "retry", "write")
      BY <1>7 DEF RetryWrite
    <2>3. CASE r \notin overtaken
      <3>1. n < MaxRetryAttempts
        BY <1>7, <2>2, <2>3 DEF CountIsCurrent, Counted
      <3>2. QED
        BY <1>1, <1>5, <2>1, <3>1
    <2>4. CASE r \in overtaken
      <3>1. r \notin races
        BY <1>7, WriteRetries DEF Races
      <3>2. r \in races'
        BY <1>7, <2>4, WriteRetries, OvertakenGrows DEF Races
      <3>3. Cardinality(races \cup {r}) = Cardinality(races) + 1
        BY <1>1, <3>1, FS_AddElement
      <3>4. Cardinality(races \cup {r}) <= Cardinality(races')
        <4>1. races \cup {r} \subseteq races'
          BY <1>2, <3>2
        <4>2. QED
          BY <1>1, <4>1, FS_Subset
      <3>5. QED
        BY <1>1, <1>4, <1>5, <2>1, <3>3, <3>4
    <2>5. QED
      BY <2>3, <2>4
  <1>8. ASSUME attempts'[p] # attempts[p]
        PROVE  \E r \in Request : RetryWrite(r) /\ job[r].payment = p
    <2>1. PICK r \in Request : RetryWrite(r)
      BY <1>8, AttemptsWritten
    <2>2. QED
      BY <1>8, <2>1, Appended
  <1>9. QED
    BY <1>6, <1>7, <1>8

(* Among finitely many requests, each attempt beyond the retry limit has an *)
(* overtaken retry of its own to answer for it, which may have been         *)
(* answered, or dropped after its commit.                                  *)
THEOREM ExcessAlwaysRaces ==
  ASSUME IsFiniteSet(Request)
  PROVE  Spec => []ExcessIsRaces
  <1> DEFINE Inv == TypeOK /\ CarriesAttempt /\ AllMayBeHere
                    /\ AttemptsAreAnswered /\ CountIsCurrent
                    /\ ExcessIsRaces
  <1>1. Init => Inv
    BY TypeInit, WantedInit, TracesInit, NumbersInit, ExcessInit
  <1>2. Inv /\ [Next]_vars => Inv'
    BY TypeStep, MayStep, AnsweredStep, CountStep, ExcessStep
  <1>3. Inv => ExcessIsRaces
    OBVIOUS
  <1>4. QED
    BY <1>1, <1>2, <1>3, PTL DEF Spec
-----------------------------------------------------------------------------
(* Cancels.                                                                *)

(* Who changes a status, and to what.                                       *)
LEMMA StatusWriters ==
  ASSUME TypeOK, [Next]_vars, NEW p \in Payment,
         payments'[p].status # payments[p].status
  PROVE  \/ \E r \in Request : /\ job[r].payment = p
                               /\ CancelWrite(r) \/ RetryWrite(r)
                                    \/ ReconcileWrite(r)
         \/ \E s \in Status : OutsideWriter(p, s)
  <1>1. ASSUME NEW q \in Payment, NEW s, NEW v, SetStatus(q, s, v)
        PROVE  p = q
    BY <1>1, SetStatusElsewhere
  <1>2. ASSUME NEW r \in Request, Moves(r)
        PROVE  /\ job[r].payment = p
               /\ CancelWrite(r) \/ RetryWrite(r) \/ ReconcileWrite(r)
    <2>1. job[r].payment \in Payment
      BY JobsAreJobs
    <2>2. CancelWrite(r) \/ RetryWrite(r) \/ ReconcileWrite(r)
      BY <1>2 DEF Moves, Read, RetryCount, RetryAccepted, RetryCallFails,
                  ReconcileAttempts, ReconcileQuery, tables
    <2>3. job[r].payment = p
      BY <1>1, <2>1, <2>2 DEF CancelWrite, RetryWrite, ReconcileWrite
    <2>4. QED
      BY <2>2, <2>3
  <1>3. ASSUME NEW q \in Payment, NEW s \in Status, OutsideWriter(q, s)
        PROVE  p = q
    BY <1>1, <1>3 DEF OutsideWriter
  <1>4. ASSUME NEW o \in Order, NEW s \in OrderState, Settle(o, s)
        PROVE  FALSE
    BY <1>4 DEF Settle, tables
  <1>5. QED
    BY Steps, <1>2, <1>3, <1>4 DEF Outside, Quiet, Still

(* Those who have written to p what may undo a cancel. *)
Wrote(p) == Retried(p) \cup Reconciled(p)

LEMMA RecordsStay == ASSUME [Next]_vars PROVE records \subseteq records'
  <1>1. ASSUME NEW r \in Request, Moves(r) PROVE records \subseteq records'
    BY <1>1 DEF Moves, Read, CancelWrite, RetryCount, RetryAccepted,
                RetryCallFails, RetryWrite, ReconcileAttempts, ReconcileQuery,
                ReconcileWrite, tables
  <1>2. CASE Outside
    BY <1>2 DEF Outside, Settle, OutsideWriter, tables
  <1>3. QED
    BY Steps, <1>1, <1>2 DEF Quiet, Still

LEMMA WroteStays ==
  ASSUME TypeOK, CarriesAttempt, [Next]_vars, NEW p \in Payment
  PROVE  Wrote(p) \subseteq Wrote(p)'
  <1>1. Reconciled(p) \subseteq Reconciled(p)'
    BY RecordsStay DEF Reconciled
  <1>2. QED
    BY <1>1, RetriedStays DEF Wrote

(* CANCELLED admits nothing: only who was overtaken writes over it.         *)
LEMMA OnlyRacesUndo ==
  ASSUME TypeOK, CarriesAttempt, AllMayBeHere, SeenIsCurrent, [Next]_vars,
         NEW p \in Payment,
         payments[p].status = "CANCELLED", payments'[p].status # "CANCELLED"
  PROVE  \E q \in overtaken' : q \in Wrote(p)'
  <1>1. ASSUME NEW s \in Status, OutsideWriter(p, s) PROVE FALSE
    BY <1>1 DEF OutsideWriter, ValidateTransition, IsFinal
  <1>2. PICK r \in Request : /\ job[r].payment = p
                             /\ CancelWrite(r) \/ RetryWrite(r)
                                  \/ ReconcileWrite(r)
    BY <1>1, StatusWriters
  <1>3. ~CancelWrite(r)
    BY <1>2, SetStatusElsewhere DEF CancelWrite
  <1>4. /\ job[r].op \in {"retry", "reconcile"}
        /\ pc[r] = "write" /\ job' = job
    BY <1>2, <1>3 DEF RetryWrite, ReconcileWrite, At
  <1>5. r \in overtaken
    <2>1. ~Eligible(job[r].op, payments[p].status)
      BY <1>4 DEF Eligible, IsRetryable, NeedsReconciliation
    <2>2. QED
      BY <1>2, <1>4, <2>1 DEF SeenIsCurrent, Flight
  <1>6. CASE RetryWrite(r)
    <2>1. /\ held[r].attempt \in Attempts(job[r].payment)'
          /\ held[r].attempt.by = r
      BY <1>6, ItIsAdded
    <2>2. r \in Retried(p)'
      BY <1>2, <1>4, <2>1 DEF Retried, Attempts
    <2>3. QED
      BY <1>5, <2>2, OvertakenGrows DEF Wrote
  <1>7. CASE ReconcileWrite(r)
    <2> DEFINE c == [by |-> r, payment |-> p, attempt |-> held[r].attempt,
                     resolution |-> Resolve(held[r].found)]
    <2>1. c \in records'
      BY <1>2, <1>7 DEF ReconcileWrite
    <2>2. c.resolution # "UNCERTAIN"
      BY <1>2, <1>7 DEF ReconcileWrite
    <2>3. c.by = r /\ c.payment = p
      OBVIOUS
    <2> HIDE DEF c
    <2>4. r \in Reconciled(p)'
      BY <2>1, <2>2, <2>3 DEF Reconciled
    <2>5. QED
      BY <1>5, <2>4, OvertakenGrows DEF Wrote
  <1>8. QED
    BY <1>2, <1>3, <1>6, <1>7

Cancelled(r) == \/ At(r, "cancel", "audit")
                \/ job[r].op = "cancel" /\ answer[r] = "OK"

(* A cancel is told of by its own write only.                               *)
LEMMA CancelTold ==
  ASSUME TypeOK, [Next]_vars, NEW r \in Request, Cancelled(r)'
  PROVE  Cancelled(r) \/ CancelWrite(r)
  <1>0. /\ pc \in [Request -> Stage] /\ answer \in [Request -> Reply]
        /\ job' = job /\ job[r].op = "cancel"
    BY JobStays DEF TypeOK, Cancelled, At
  <1>1. ASSUME Rests(r) PROVE Cancelled(r)
    BY <1>0, <1>1 DEF Rests, Cancelled, At
  <1>2. ASSUME Acts(r), ~CancelWrite(r) PROVE Cancelled(r)
    <2> USE DEF Goto, Finish, End, At, Cancelled
    <2>1. CASE \/ AskForbidden(r) \/ ReadNotFound(r) \/ ReadRefused(r)
               \/ ReadFails(r) \/ WriteFails(r)
      BY <1>0, <2>1 DEF AskForbidden, ReadNotFound, ReadRefused, ReadFails,
                        WriteFails
    <2>2. CASE Ask(r) \/ Read(r) \/ Drop(r)
      BY <1>0, <2>2 DEF Ask, Read, AfterRead, Drop
    <2>3. CASE CancelAudit(r)
      BY <2>3 DEF CancelAudit
    <2>4. At(r, "cancel", pc[r])
      BY <1>0
    <2>5. QED
      BY <1>2, <2>1, <2>2, <2>3, <2>4
         DEF Acts, Serve, Respond, RetryCount, RetryExhausted,
             RetryNoProvider, RetryAccepted, RetryCallFails, RetryWrite, ReconcileAttempts,
             ReconcileQuery, ReconcileWrite
  <1>3. CASE Outside \/ UNCHANGED vars
    BY <1>1, <1>3 DEF Outside, Settle, OutsideWriter, vars, tables, Rests
  <1>4. ASSUME NEW q \in Request, Acts(q), q # r PROVE Rests(r)
    BY <1>4, OthersRest
  <1>5. QED
    BY <1>1, <1>2, <1>3, <1>4 DEF Next, Acts, Outside

LEMMA CancelsStandStep ==
  ASSUME TypeOK, CarriesAttempt, AllMayBeHere, SeenIsCurrent, CancelsStand,
         [Next]_vars
  PROVE  CancelsStand'
  <1>0. job' = job /\ overtaken \subseteq overtaken'
    BY JobStays, OvertakenGrows
  <1> DEFINE Undone(p) == \E q \in overtaken : q \in Wrote(p)
  <1> SUFFICES ASSUME NEW r \in Request, Cancelled(r)',
                      NEW p \in Payment, p = job[r].payment
               PROVE  payments'[p].status = "CANCELLED" \/ Undone(p)'
    <2>1. \A r \in Request : job[r].payment \in Payment
      BY JobsAreJobs
    <2>2. \A p \in Payment :
            Undone(p)' => overtaken' \cap (Retried(p)' \cup Reconciled(p)') # {}
      BY DEF Wrote
    <2>3. QED
      BY <1>0, <2>1, <2>2 DEF CancelsStand, Cancelled, At, Retried, Reconciled,
                              Attempts
  <1>2. CASE CancelWrite(r)
    BY <1>2, SetStatusElsewhere DEF CancelWrite
  <1>3. CASE Cancelled(r)
    <2>1. payments[p].status = "CANCELLED" \/ Undone(p)
      BY <1>3 DEF CancelsStand, Cancelled, Wrote
    <2>2. Undone(p) => Undone(p)'
      BY <1>0, WroteStays
    <2>3. QED
      BY <2>1, <2>2, OnlyRacesUndo
  <1>4. QED
    BY <1>2, <1>3, CancelTold

(* However requests race: a cancel that is told OK stands, unless a retry or *)
(* a reconciliation wrote the payment that was overtaken, by it or by       *)
(* another; what that one was answered, if anything, does not matter.       *)
THEOREM CancelsAlwaysStand == Spec => []CancelsStand
  <1> DEFINE Inv == TypeOK /\ CarriesAttempt /\ AllMayBeHere /\ SeenIsCurrent
                    /\ CancelsStand
  <1>1. Init => Inv
    BY TypeInit, WantedInit
       DEF Init, SeenIsCurrent, Flight, CancelsStand, At
  <1>2. Inv /\ [Next]_vars => Inv'
    BY TypeStep, MayStep, SeenStep, CancelsStandStep
  <1>3. Inv => CancelsStand
    OBVIOUS
  <1>4. QED
    BY <1>1, <1>2, <1>3, PTL DEF Spec
-----------------------------------------------------------------------------
(* Refinement: the operations keep the promise of PaymentBook.              *)

(* The abstract state, by name. *)
Wishes == [r \in Request |-> [op |-> job[r].op, payment |-> job[r].payment]]

Phases == [r \in Request |-> IF pc[r] \in {"idle", "read"} THEN "new"
                            ELSE IF pc[r] \in Flight THEN "begun" ELSE "over"]

Statuses == [p \in Payment |-> payments[p].status]

Tries == [p \in Payment |-> Len(attempts[p])]

PaidFor == {p \in Payment : \E a \in Attempts(p) :
                              orders[a.order] \in {"COMPLETED", "REFUNDED"}}

(* Those whom a write of p makes stale. *)
Begun(p) == {q \in Request : Wishes[q].payment = p /\ Phases[q] = "begun"}

LEMMA BegunIsInFlight ==
  ASSUME NEW p \in Payment
  PROVE  Begun(p) = InFlight(p)
  BY DEF Begun, InFlight, Wishes, Phases, Flight

(* The promise and the operations ask the same of a status.                 *)
LEMMA RulesAgree ==
  ASSUME NEW s, NEW to, NEW op
  PROVE  /\ Book!Admits(s, op) <=> Eligible(op, s)
         /\ Book!ValidateTransition(s, to) <=> ValidateTransition(s, to)
  BY DEF Book!Admits, Eligible, Book!ValidateTransition, ValidateTransition,
         Book!IsFinal, IsFinal, Book!IsRetryable, IsRetryable,
         Book!NeedsReconciliation, NeedsReconciliation

LEMMA PhasesStay ==
  ASSUME TypeOK, NEW r \in Request, NEW stage, Goto(r, stage)
  PROVE  /\ (stage \in Flight /\ pc[r] \in Flight) => Phases' = Phases
         /\ (stage = "read" /\ pc[r] = "idle") => Phases' = Phases
         /\ stage \in Flight => Phases' = [Phases EXCEPT ![r] = "begun"]
         /\ stage \in {"audit", "committed", "done", "dropped"} =>
              Phases' = [Phases EXCEPT ![r] = "over"]
  <1>1. pc' = [pc EXCEPT ![r] = stage] /\ pc \in [Request -> Stage]
    BY DEF Goto, TypeOK
  <1>2. pc'[r] = stage /\ \A q \in Request \ {r} : pc'[q] = pc[q]
    BY <1>1
  <1>3. QED
    BY <1>2 DEF Phases, Flight

(* The write of a status, by r or by none of the requests.                  *)
LEMMA StatusWritten ==
  ASSUME TypeOK, NEW p \in Payment, NEW s, NEW v, SetStatus(p, s, v)
  PROVE  Statuses' = [Statuses EXCEPT ![p] = s]
  BY SetStatusElsewhere DEF Statuses

(* Whether an order was paid for does not depend on a new order.            *)
LEMMA PaidStays ==
  ASSUME TypeOK, attempts' = attempts,
         orders' = orders \/ \E o \in Order : orders' = Ordered(o)
  PROVE  PaidFor' = PaidFor
  <1>1. \A x \in Order : orders'[x] \in {"COMPLETED", "REFUNDED"}
                           <=> orders[x] \in {"COMPLETED", "REFUNDED"}
    BY DEF Ordered, TypeOK
  <1>2. \A p \in Payment : \A a \in Attempts(p) : a.order \in Order
    BY AttemptsAreAttempts DEF Attempt
  <1>3. \A p \in Payment : Attempts(p)' = Attempts(p)
    BY DEF Attempts
  <1>4. QED
    BY <1>1, <1>2, <1>3 DEF PaidFor

LEMMA BookInit == Init => Book!Init
  <1> SUFFICES ASSUME Init PROVE Book!Init
    OBVIOUS
  <1>1. PICK first \in [Payment -> Provider] :
          /\ payments = [p \in Payment |-> [status |-> "PENDING",
                                            provider |-> first[p]]]
          /\ attempts = [p \in Payment |-> <<InitialAttempt(p, first[p])>>]
          /\ orders = [o \in Order |->
                         IF \E p \in Payment : o = OrderOf(first[p], p, p)
                           THEN "PENDING" ELSE "NONE"]
    BY DEF Init
  <1>2. Wishes \in [Request -> Book!Wish]
    BY DEF Init, Wishes, Book!Wish, Job, Op
  <1>3. Phases = [r \in Request |-> "new"] /\ overtaken = {}
    BY DEF Init, Phases
  <1>4. Statuses = [p \in Payment |-> "PENDING"]
    BY <1>1 DEF Statuses
  <1>5. Tries = [p \in Payment |-> 1]
    <2>1. \A p \in Payment : Len(attempts[p]) = 1
      BY <1>1
    <2>2. QED
      BY <2>1 DEF Tries
  <1>6. PaidFor = {}
    <2>1. \A o \in Order : orders[o] \notin {"COMPLETED", "REFUNDED"}
      BY <1>1
    <2>2. \A p \in Payment : \A a \in Attempts(p) : a.order \in Order
      BY TypeInit, AttemptsAreAttempts DEF Attempt
    <2>3. QED
      BY <2>1, <2>2 DEF PaidFor
  <1>7. QED
    BY <1>2, <1>3, <1>4, <1>5, <1>6
       DEF Book!Init, Wishes, Phases, Statuses, Tries, PaidFor

(* The abstract variables a step leaves alone. *)
LEMMA BookStays ==
  ASSUME TypeOK, job' = job
  PROVE  /\ Wishes' = Wishes
         /\ pc' = pc => Phases' = Phases
         /\ payments' = payments => Statuses' = Statuses
         /\ attempts' = attempts => Tries' = Tries
         /\ attempts' = attempts /\ orders' = orders => PaidFor' = PaidFor
  BY PaidStays DEF Wishes, Phases, Statuses, Tries

LEMMA BookStutter ==
  ASSUME Wishes' = Wishes, Phases' = Phases, Statuses' = Statuses,
         Tries' = Tries, PaidFor' = PaidFor, overtaken' = overtaken
  PROVE  UNCHANGED Book!vars
  BY DEF Book!vars, Wishes, Phases, Statuses, Tries, PaidFor

(* A read that finds the payment eligible begins.                           *)
LEMMA RefineRead ==
  ASSUME TypeOK, NEW r \in Request, Read(r)
  PROVE  Book!Begin(r)
  <1>1. /\ pc[r] = "read" /\ job[r].payment \in Payment
        /\ Eligible(job[r].op, payments[job[r].payment].status)
        /\ Goto(r, AfterRead(job[r].op)) /\ job' = job /\ payments' = payments
        /\ attempts' = attempts /\ orders' = orders /\ overtaken' = overtaken
    BY JobsAreJobs DEF Read, tables
  <1>2. AfterRead(job[r].op) \in Flight
    BY JobsAreJobs DEF AfterRead, Flight, Job, Op
  <1>3. /\ Wishes' = Wishes /\ Statuses' = Statuses /\ Tries' = Tries
        /\ PaidFor' = PaidFor
    BY <1>1, BookStays
  <1>4. Phases[r] = "new" /\ Phases' = [Phases EXCEPT ![r] = "begun"]
    <2>1. Phases[r] = "new"
      BY <1>1 DEF Phases
    <2>2. QED
      BY <1>1, <1>2, <2>1, PhasesStay
  <1>5. Book!Admits(Statuses[Wishes[r].payment], Wishes[r].op)
    BY <1>1, RulesAgree DEF Statuses, Wishes
  <1>6. QED
    BY <1>1, <1>3, <1>4, <1>5
       DEF Book!Begin, Wishes, Phases, Statuses, Tries, PaidFor

(* Ask, and what a request does between its read and its write, is not      *)
(* visible.                                                                *)
LEMMA RefineWork ==
  ASSUME TypeOK, NEW r \in Request,
         \/ Ask(r) \/ RetryCount(r) \/ ReconcileAttempts(r)
         \/ ReconcileQuery(r)
         \/ \E v \in Provider : RetryAccepted(r, v)
  PROVE  UNCHANGED Book!vars
  <1>1. /\ job' = job /\ payments' = payments /\ attempts' = attempts
        /\ overtaken' = overtaken
    BY DEF Ask, RetryCount, ReconcileAttempts, ReconcileQuery, RetryAccepted,
           tables
  <1>2. orders' = orders \/ \E o \in Order : orders' = Ordered(o)
    BY OrderOfIsOrder, JobsAreJobs
       DEF Ask, RetryCount, ReconcileAttempts, ReconcileQuery, RetryAccepted
  <1>3. Phases' = Phases
    BY PhasesStay DEF Ask, RetryCount, ReconcileAttempts, ReconcileQuery,
                      RetryAccepted, At, Flight
  <1>4. QED
    BY <1>1, <1>2, <1>3, BookStays, PaidStays, BookStutter
(* A request that is refused, fails, is dropped or is answered gives up,     *)
(* unless it has taken effect before.                                      *)
LEMMA RefineEnd ==
  ASSUME TypeOK, NEW r \in Request,
         \/ AskForbidden(r) \/ ReadNotFound(r) \/ ReadRefused(r)
         \/ ReadFails(r) \/ WriteFails(r) \/ Respond(r) \/ RetryExhausted(r)
         \/ RetryNoProvider(r) \/ CancelAudit(r) \/ Drop(r)
         \/ \E v \in Provider : RetryCallFails(r, v)
  PROVE  Book!GiveUp(r) \/ UNCHANGED Book!vars
  <1>1. /\ job' = job /\ payments' = payments /\ attempts' = attempts
        /\ overtaken' = overtaken
        /\ pc[r] \in {"idle", "read", "audit", "committed"} \cup Flight
        /\ Goto(r, "done") \/ Goto(r, "dropped")
    BY DEF AskForbidden, ReadNotFound, ReadRefused, ReadFails, WriteFails,
           Respond, RetryExhausted, RetryNoProvider, CancelAudit, Drop,
           RetryCallFails,
           End, Finish, At, tables, Flight, TypeOK, Stage
  <1>2. orders' = orders \/ \E o \in Order : orders' = Ordered(o)
    BY OrderOfIsOrder, JobsAreJobs
       DEF AskForbidden, ReadNotFound, ReadRefused, ReadFails, WriteFails,
           Respond, RetryExhausted, RetryNoProvider, CancelAudit, Drop,
           RetryCallFails,
           End
  <1>3. /\ Wishes' = Wishes /\ Statuses' = Statuses /\ Tries' = Tries
        /\ PaidFor' = PaidFor
    BY <1>1, <1>2, BookStays, PaidStays
  <1>4. Phases' = [Phases EXCEPT ![r] = "over"]
    BY <1>1, PhasesStay
  <1>5. CASE pc[r] \in {"audit", "committed"}
    <2>1. Phases' = Phases
      BY <1>4, <1>5 DEF Phases, Flight
    <2>2. QED
      BY <1>1, <1>3, <2>1, BookStutter
  <1>6. CASE pc[r] \notin {"audit", "committed"}
    <2>1. Phases[r] # "over"
      BY <1>1, <1>6 DEF Phases
    <2>2. QED
      BY <1>1, <1>3, <1>4, <2>1
         DEF Book!GiveUp, Book!Close, Wishes, Phases, Statuses, Tries, PaidFor
  <1>7. QED
    BY <1>5, <1>6

(* A request about to write has begun, and knows a status that admits it,   *)
(* or is stale.                                                            *)
LEMMA RefineMay ==
  ASSUME TypeOK, SeenIsCurrent, NEW r \in Request, pc[r] = "write"
  PROVE  /\ Phases[r] = "begun" /\ Wishes[r].op = job[r].op
         /\ Wishes[r].payment = job[r].payment
         /\ \/ r \in overtaken
            \/ Book!Admits(Statuses[Wishes[r].payment], job[r].op)
  <1>1. /\ Eligible(job[r].op, held[r].seen)
        /\ held[r].seen = payments[job[r].payment].status \/ r \in overtaken
    BY DEF SeenIsCurrent, Flight
  <1>2. Statuses[job[r].payment] = payments[job[r].payment].status
    BY JobsAreJobs DEF Statuses
  <1>3. Phases[r] = "begun" /\ Wishes[r] = [op |-> job[r].op, payment |-> job[r].payment]
    BY DEF Phases, Wishes, Flight
  <1>4. QED
    BY <1>1, <1>2, <1>3, RulesAgree

LEMMA RefineCancel ==
  ASSUME TypeOK, SeenIsCurrent, NEW r \in Request, CancelWrite(r)
  PROVE  Book!Cancel(r)
  <1> DEFINE p == Wishes[r].payment
  <1>1. /\ pc[r] = "write" /\ job[r].op = "cancel" /\ job' = job
        /\ attempts' = attempts /\ orders' = orders
        /\ Goto(r, "audit") \/ Goto(r, "done")
    BY DEF CancelWrite, At, Finish
  <1>2. p = job[r].payment /\ p \in Payment /\ Wishes[r].op = "cancel"
    BY <1>1, RefineMay, JobsAreJobs
  <1>3. Wishes' = Wishes /\ Tries' = Tries /\ PaidFor' = PaidFor
    BY <1>1, BookStays
  <1>4. Phases' = [Phases EXCEPT ![r] = "over"]
    BY <1>1, PhasesStay
  <1>5. Statuses' = [Statuses EXCEPT ![p] = "CANCELLED"]
    BY <1>2, StatusWritten DEF CancelWrite
  <1>6. overtaken' = overtaken \cup (Begun(p) \ {r})
    BY <1>2, BegunIsInFlight DEF CancelWrite, Overtake
  <1>7. /\ Phases[r] = "begun"
        /\ r \in overtaken \/ Book!Admits(Statuses[p], "cancel")
    BY <1>1, RefineMay
  <1>8. QED
    BY <1>2, <1>3, <1>4, <1>5, <1>6, <1>7
       DEF Book!Cancel, Book!MayTakeEffect, Book!Write, Book!Close, Begun,
           Wishes, Phases, Statuses, Tries, PaidFor

(* An append of an attempt may pay for its payment, and for no other.       *)
LEMMA RefineRetry ==
  ASSUME TypeOK, CarriesAttempt, SeenIsCurrent, CountIsCurrent,
         NEW r \in Request, RetryWrite(r)
  PROVE  Book!Retry(r)
  <1> DEFINE p == Wishes[r].payment
  <1>1. /\ pc[r] = "write" /\ job[r].op = "retry" /\ job' = job
        /\ orders' = orders /\ Goto(r, "committed")
    BY DEF RetryWrite, At
  <1>2. p = job[r].payment /\ p \in Payment /\ Wishes[r].op = "retry"
    BY <1>1, RefineMay, JobsAreJobs
  <1>3. Wishes' = Wishes /\ Phases' = [Phases EXCEPT ![r] = "over"]
    BY <1>1, BookStays, PhasesStay
  <1>4. Statuses' = [Statuses EXCEPT ![p] = "PROCESSING"]
    BY <1>2, StatusWritten DEF RetryWrite
  <1>5. overtaken' = overtaken \cup (Begun(p) \ {r})
    BY <1>2, BegunIsInFlight DEF RetryWrite, Overtake
  <1>6. /\ Phases[r] = "begun"
        /\ r \in overtaken \/ Book!Admits(Statuses[p], "retry")
    BY <1>1, RefineMay
  <1>7. Tries' = [Tries EXCEPT ![p] = @ + 1]
    <2>1. Len(attempts'[p]) = Len(attempts[p]) + 1
      BY <1>2, AppendedLength
    <2>2. \A q \in Payment \ {p} : attempts'[q] = attempts[q]
      BY <1>2, Appended
    <2>3. QED
      BY <1>2, <2>1, <2>2 DEF Tries
  <1>8. r \in overtaken \/ Tries[p] < MaxRetryAttempts
    BY <1>1, <1>2 DEF CountIsCurrent, Counted, At, Tries
  <1>9. PaidFor' = PaidFor \/ PaidFor' = PaidFor \cup {p}
    <2>1. \A q \in Payment \ {p} : Attempts(q)' = Attempts(q)
      BY <1>2, Appended DEF Attempts
    <2>2. ASSUME NEW q \in Payment, q = p
          PROVE  Attempts(q) \subseteq Attempts(q)'
      <3>1. q = job[r].payment
        BY <1>2, <2>2
      <3>2. QED
        BY <3>1, Appended DEF Attempts
    <2> HIDE DEF p
    <2>3. PaidFor \subseteq PaidFor' /\ PaidFor' \subseteq PaidFor \cup {p}
      BY <1>1, <1>2, <2>1, <2>2 DEF PaidFor
    <2>4. QED
      BY <2>3
  <1>10. QED
    BY <1>2, <1>3, <1>4, <1>5, <1>6, <1>7, <1>8, <1>9
       DEF Book!Retry, Book!MayTakeEffect, Book!Write, Book!Close, Begun,
           Wishes, Phases, Statuses, Tries, PaidFor

(* What a reconciliation holds of a completed order is true of the payment.  *)
LEMMA RefineReconcile ==
  ASSUME TypeOK, SeenIsCurrent, FoundIsReal, NEW r \in Request,
         ReconcileWrite(r)
  PROVE  Book!Reconcile(r)
  <1> DEFINE p == Wishes[r].payment
             resolution == Resolve(held[r].found)
  <1>1. /\ pc[r] = "write" /\ job[r].op = "reconcile" /\ job' = job
        /\ attempts' = attempts /\ orders' = orders /\ Goto(r, "committed")
    BY DEF ReconcileWrite, At
  <1>2. p = job[r].payment /\ p \in Payment /\ Wishes[r].op = "reconcile"
    BY <1>1, RefineMay, JobsAreJobs
  <1>3. Wishes' = Wishes /\ Tries' = Tries /\ PaidFor' = PaidFor
    BY <1>1, BookStays
  <1>4. Phases' = [Phases EXCEPT ![r] = "over"]
    BY <1>1, PhasesStay
  <1>5. /\ Phases[r] = "begun"
        /\ r \in overtaken \/ Book!Admits(Statuses[p], "reconcile")
    BY <1>1, RefineMay
  <1>6. \/ Statuses' = Statuses /\ overtaken' = overtaken
        \/ /\ p \in PaidFor /\ Statuses' = [Statuses EXCEPT ![p] = "SUCCESS"]
           /\ overtaken' = overtaken \cup (Begun(p) \ {r})
        \/ /\ Statuses' = [Statuses EXCEPT ![p] = "FAILED"]
           /\ overtaken' = overtaken \cup (Begun(p) \ {r})
    <2>1. CASE resolution = "UNCERTAIN"
      BY <1>1, <2>1, BookStays DEF ReconcileWrite
    <2>2. CASE resolution # "UNCERTAIN"
      <3>1. /\ SetStatus(p, Resolved(resolution), payments[p].provider)
            /\ Overtake(p, {r})
        BY <1>2, <2>2 DEF ReconcileWrite
      <3>2. Statuses' = [Statuses EXCEPT ![p] = Resolved(resolution)]
        BY <1>2, <3>1, StatusWritten
      <3>3. overtaken' = overtaken \cup (Begun(p) \ {r})
        BY <1>2, <3>1, BegunIsInFlight DEF Overtake
      <3>4. CASE resolution = "COMPLETED"
        <4>1. p \in PaidFor
          BY <1>1, <1>2, <3>4
             DEF FoundIsReal, Asking, At, IsTrue, Resolve, PaidFor
        <4>2. QED
          BY <3>2, <3>3, <3>4, <4>1 DEF Resolved
      <3>5. CASE resolution # "COMPLETED"
        BY <3>2, <3>3, <3>5 DEF Resolved
      <3>6. QED
        BY <3>4, <3>5
    <2>3. QED
      BY <2>1, <2>2
  <1>7. QED
    BY <1>2, <1>3, <1>4, <1>5, <1>6
       DEF Book!Reconcile, Book!MayTakeEffect, Book!Write, Book!Close, Begun,
           Wishes, Phases, Statuses, Tries, PaidFor

(* The outside writer advances a payment, the provider pays for some.       *)
LEMMA RefineAdvance ==
  ASSUME TypeOK, NEW p \in Payment, NEW s \in Status, OutsideWriter(p, s)
  PROVE  Book!Advance(p, s)
  <1>1. /\ pc' = pc /\ job' = job /\ attempts' = attempts /\ orders' = orders
        /\ s # "CANCELLED" /\ ValidateTransition(payments[p].status, s)
    BY DEF OutsideWriter
  <1>2. /\ Wishes' = Wishes /\ Phases' = Phases /\ Tries' = Tries
        /\ PaidFor' = PaidFor
    BY <1>1, BookStays
  <1>3. Book!ValidateTransition(Statuses[p], s)
    BY <1>1, RulesAgree DEF Statuses
  <1>4. s = "SUCCESS" => p \in PaidFor
    BY DEF OutsideWriter, PaidFor
  <1>5. Statuses' = [Statuses EXCEPT ![p] = s]
    BY StatusWritten DEF OutsideWriter
  <1>6. overtaken' = overtaken \cup Begun(p)
    BY BegunIsInFlight DEF OutsideWriter, Overtake
  <1>7. QED
    BY <1>1, <1>2, <1>3, <1>4, <1>5, <1>6
       DEF Book!Advance, Begun, Wishes, Phases, Statuses, Tries, PaidFor

LEMMA RefinePay ==
  ASSUME TypeOK, CarriesAttempt, [Next]_vars, NEW o \in Order,
         NEW s \in OrderState, Settle(o, s)
  PROVE  Book!Pay
  <1>1. /\ pc' = pc /\ job' = job /\ payments' = payments
        /\ attempts' = attempts /\ overtaken' = overtaken
    BY DEF Settle, tables
  <1>2. /\ Wishes' = Wishes /\ Phases' = Phases /\ Statuses' = Statuses
        /\ Tries' = Tries
    BY <1>1, BookStays
  <1>3. PaidFor \subseteq PaidFor' /\ PaidFor' \in SUBSET Payment
    BY CompletedStays DEF PaidFor, Completed
  <1>4. \E more \in SUBSET Payment : PaidFor' = PaidFor \cup more
    BY <1>3
  <1>5. QED
    BY <1>1, <1>2, <1>4
       DEF Book!Pay, Wishes, Phases, Statuses, Tries, PaidFor

LEMMA RefineNext ==
  ASSUME TypeOK, CarriesAttempt, SeenIsCurrent, CountIsCurrent, FoundIsReal,
         [Next]_vars
  PROVE  [Book!Next]_(Book!vars)
  <1>1. ASSUME NEW r \in Request, Acts(r)
        PROVE  \/ Book!Begin(r) \/ Book!GiveUp(r) \/ Book!Cancel(r)
               \/ Book!Retry(r) \/ Book!Reconcile(r)
               \/ UNCHANGED Book!vars
    BY <1>1, RefineRead, RefineWork, RefineEnd, RefineCancel, RefineRetry,
       RefineReconcile DEF Acts, Serve
  <1>2. ASSUME NEW p \in Payment, NEW s \in Status, OutsideWriter(p, s)
        PROVE  Book!Advance(p, s) /\ s \in Book!Status
    BY <1>2, RefineAdvance DEF Book!Status, Status
  <1>3. ASSUME NEW o \in Order, NEW s \in OrderState, Settle(o, s)
        PROVE  Book!Pay
    BY <1>3, RefinePay
  <1>4. CASE UNCHANGED vars
    <2>1. /\ pc' = pc /\ job' = job /\ payments' = payments
          /\ attempts' = attempts /\ orders' = orders /\ overtaken' = overtaken
      BY <1>4 DEF vars
    <2>2. QED
      BY <2>1, BookStays, BookStutter
  <1>5. QED
    BY <1>1, <1>2, <1>3, <1>4 DEF Next, Acts, Book!Next

(* Cancel, retry and reconcile implement PaymentBook: each takes effect at   *)
(* most once, as if in one step and under the rules of that step, or was    *)
(* overtaken before.                                                       *)
THEOREM BookIsKept == Spec => KeepsBook
  <1> DEFINE Inv == TypeOK /\ CarriesAttempt /\ SeenIsCurrent
                    /\ CountIsCurrent /\ FoundIsReal
  <1>1. Init => Inv /\ Book!Init
    BY TypeInit, NumbersInit, BookInit
       DEF Init, SeenIsCurrent, FoundIsReal, Asking, At, Flight
  <1>2. Inv /\ [Next]_vars => Inv' /\ [Book!Next]_(Book!vars)
    BY TypeStep, SeenStep, CountStep, FoundStep, RefineNext
  <1>3. QED
    BY <1>1, <1>2, PTL DEF Spec, KeepsBook, Book!Spec
=============================================================================
