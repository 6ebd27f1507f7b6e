------------------------- MODULE Orchestration_proofs -------------------------
(***************************************************************************)
(* Proofs about Orchestration: a payment that is SUCCESS was paid for, an   *)
(* order nobody recorded was told of, and completion times are sound. The   *)
(* breakers do here what CircuitBreaker says, and a provider that answers   *)
(* is taken out only by requests that were never sent to it. For any        *)
(* providers, merchants, payments, requests and limits.                     *)
(***************************************************************************)
EXTENDS Orchestration, FiniteSetTheorems, TLAPS

(* The breakers, with what is proved of them on their own. *)
P == INSTANCE CircuitBreaker_proofs

LEMMA BreakerAssumptions ==
  /\ P!RegisteredAssumption /\ P!PriorityAssumption /\ P!ConfiguredAssumption
  /\ P!ThresholdAssumption /\ P!DurationAssumption /\ P!NoneAssumption
  BY SelectionAssumption, BreakerAssumption, NoneAssumption
     DEF P!RegisteredAssumption, P!PriorityAssumption, P!ConfiguredAssumption,
         P!ThresholdAssumption, P!DurationAssumption, P!NoneAssumption

-----------------------------------------------------------------------------
(* Every step is a step of the breakers, or leaves them alone.              *)

LEMMA SameBreakers ==
  /\ \A v : CB!IsOpen(v) <=> P!IsOpen(v)
  /\ \A v : CB!IsAvailable(v) <=> P!IsAvailable(v)
  /\ CB!Resettle <=> P!Resettle
  /\ CB!Idle = P!Idle
  BY DEF CB!IsOpen, P!IsOpen, CB!IsAvailable, P!IsAvailable, CB!HalfOpen,
         P!HalfOpen, CB!Resettle, P!Resettle, CB!Idle, P!Idle, CB!Doing,
         P!Doing

LEMMA SameSelect ==
  ASSUME NEW c \in Call
  PROVE  /\ CB!SelectStarts(c) => P!SelectStarts(c)
         /\ CB!SelectLooks(c) => P!SelectLooks(c)
         /\ CB!SelectFails(c) => P!SelectFails(c)
         /\ CB!CreateStarts(c) => P!CreateStarts(c)
         /\ \A v : CB!StatusStarts(c, v) => P!StatusStarts(c, v)
  <1>1. CB!SelectStarts(c) => P!SelectStarts(c)
    BY DEF CB!SelectStarts, P!SelectStarts, CB!Doing, P!Doing
  <1>2. CB!SelectLooks(c) => P!SelectLooks(c)
    BY SameBreakers DEF CB!SelectLooks, P!SelectLooks, CB!Better, P!Better
  <1>3. CB!SelectFails(c) => P!SelectFails(c)
    BY SameBreakers DEF CB!SelectFails, P!SelectFails, CB!Scanned, P!Scanned
  <1>4. CB!CreateStarts(c) => P!CreateStarts(c)
    BY DEF CB!CreateStarts, P!CreateStarts, CB!Scanned, P!Scanned, CB!Begin,
           P!Begin, CB!Doing, P!Doing
  <1>5. \A v : CB!StatusStarts(c, v) => P!StatusStarts(c, v)
    BY DEF CB!StatusStarts, P!StatusStarts, CB!Begin, P!Begin, CB!Doing,
           P!Doing
  <1>6. QED
    BY <1>1, <1>2, <1>3, <1>4, <1>5

LEMMA SameEnds ==
  ASSUME NEW c \in Call
  PROVE  /\ CB!CallSucceeds(c) => P!CallSucceeds(c)
         /\ CB!CallFails(c) => P!CallFails(c)
         /\ CB!CallDropped(c) => P!CallDropped(c)
  <1>1. CB!Calling(c) <=> P!Calling(c)
    BY DEF CB!Calling, P!Calling
  <1>2. CB!CallSucceeds(c) => P!CallSucceeds(c)
    BY <1>1, SameBreakers
       DEF CB!CallSucceeds, P!CallSucceeds, CB!RecordSuccess,
           P!RecordSuccess, CB!Closed, P!Closed
  <1>3. CB!CallFails(c) => P!CallFails(c)
    BY <1>1, SameBreakers
       DEF CB!CallFails, P!CallFails, CB!RecordFailure, P!RecordFailure,
           CB!Closed, P!Closed, CB!Open, P!Open, CB!StreakBound, P!StreakBound
  <1>4. CB!CallDropped(c) => P!CallDropped(c)
    BY <1>1, SameBreakers DEF CB!CallDropped, P!CallDropped
  <1>5. QED
    BY <1>2, <1>3, <1>4

LEMMA SameTick == CB!Tick => P!Tick
  BY SameBreakers DEF CB!Tick, P!Tick, CB!Later, P!Later, CB!Open, P!Open

(* A reconciliation asks a provider.                                        *)
LEMMA InquireAsksProvider ==
  ASSUME TypeOK, NEW c \in Call, Inquire(c)
  PROVE  \E p \in Payment : \E n \in DOMAIN attempts[p] :
           LET o == attempts[p][n].order IN
           /\ p = job[c].payment /\ payments[p] # None
           /\ o \in Order /\ o.at \in Provider
           /\ CB!StatusStarts(c, o.at)
           /\ held' = [held EXCEPT ![c].order = o]
  <1>1. job[c].payment \in Payment
    BY DEF TypeOK, Job
  <1>2. PICK n \in Latest(job[c].payment) :
          LET o == attempts[job[c].payment][n].order IN
          /\ CB!StatusStarts(c, o.at)
          /\ held' = [held EXCEPT ![c].order = o]
    BY DEF Inquire
  <1>3. n \in DOMAIN attempts[job[c].payment]
    BY <1>2 DEF Latest
  <1>4. attempts[job[c].payment][n] \in Attempt
    BY <1>1, <1>3 DEF TypeOK
  <1>5. /\ attempts[job[c].payment][n].order \in Order
        /\ attempts[job[c].payment][n].order.at \in Provider
    BY <1>4 DEF Attempt, Order
  <1>6. QED
    BY <1>1, <1>2, <1>3, <1>5 DEF Inquire, Stored

LEMMA BreakersStep ==
  ASSUME TypeOK, [Next]_vars
  PROVE  [P!Next]_P!vars
  <1>1. ASSUME NEW c \in Call, Serve(c)
        PROVE  \/ P!Select(c) \/ P!CallEnds(c)
               \/ \E v \in Provider : P!StatusStarts(c, v)
               \/ UNCHANGED breakers
    <2>1. CASE Inquire(c)
      BY <2>1, InquireAsksProvider, SameSelect
    <2>2. CASE CreateAdmitted(c) \/ RetryAdmitted(c) \/ Look(c)
               \/ NoProvider(c) \/ Send(c)
      BY <2>2, SameSelect
         DEF CreateAdmitted, RetryAdmitted, Look, NoProvider, Send, P!Select
    <2>3. CASE AdapterRefuses(c) \/ CreateFails(c) \/ CreateAnswered(c)
               \/ InquiryAnswered(c) \/ InquiryFails(c)
      BY <2>3, SameEnds
         DEF AdapterRefuses, CreateFails, CreateAnswered, InquiryAnswered,
             InquiryFails, P!CallEnds
    <2>4. QED
      BY <1>1, <2>1, <2>2, <2>3
         DEF Serve, End, CreateRefused, RetryRefused, ReconcileRefused,
             NotFound, ReadFails, CreateWrites, RetryWrites, WriteFails, Respond,
             ReconcileWrites
  <1>2. ASSUME NEW c \in Call, ProviderTakes(c) \/ Drop(c)
        PROVE  P!CallEnds(c) \/ UNCHANGED breakers
    BY <1>2, SameEnds DEF ProviderTakes, Drop, P!CallEnds
  <1>3. CASE \/ \E o \in Order, s \in OrderState : Settle(o, s)
             \/ \E p \in Payment : Escalate(p)
             \/ UNCHANGED vars
    BY <1>3 DEF Settle, Escalate, vars, breakers, P!vars
  <1>4. CASE Tick
    BY <1>4, SameTick DEF Tick, P!Next
  <1>5. QED
    BY <1>1, <1>2, <1>3, <1>4 DEF Next, P!Next, breakers, P!vars

-----------------------------------------------------------------------------
(* What the control of a request says of its call.                          *)

TurnsTo(c, stage) ==
  /\ call'[c].stage = stage
  /\ \A d \in Call \ {c} : call'[d] = call[d]

LEMMA Selecting ==
  ASSUME CB!TypeOK, NEW c \in Call
  PROVE  /\ CB!SelectStarts(c) => call[c].stage = "idle" /\ TurnsTo(c, "scan")
         /\ CB!SelectLooks(c) => call[c].stage = "scan" /\ TurnsTo(c, "scan")
         /\ CB!SelectFails(c) => call[c].stage = "scan" /\ TurnsTo(c, "idle")
         /\ CB!CreateStarts(c) => /\ call[c].stage = "scan"
                                  /\ TurnsTo(c, "create")
                                  /\ call'[c].at \in Provider
         /\ \A v : CB!StatusStarts(c, v) =>
                     call[c].stage = "idle" /\ TurnsTo(c, "status")
  <1>1. call \in [Call -> CB!Task] /\ call[c].at \in Provider \cup {None}
    BY DEF CB!TypeOK, CB!Task
  <1>2. QED
    BY <1>1 DEF TurnsTo, CB!SelectStarts, CB!SelectLooks, CB!SelectFails,
                CB!CreateStarts, CB!StatusStarts, CB!Scanned, CB!Begin,
                CB!Doing, CB!Idle

LEMMA Ending ==
  ASSUME CB!TypeOK, NEW c \in Call,
         CB!CallSucceeds(c) \/ CB!CallFails(c) \/ CB!CallDropped(c)
  PROVE  call[c].stage \in {"create", "status"} /\ TurnsTo(c, "idle")
  BY DEF TurnsTo, CB!TypeOK, CB!CallSucceeds, CB!CallFails, CB!CallDropped,
         CB!Calling, CB!Doing, CB!Idle

-----------------------------------------------------------------------------
(* The invariant.                                                          *)

Places(c) == job[c].op # "reconcile"

(* o is an order that the create of c makes. *)
Own(o, c) == o.id = IF o.at \in ByReference THEN RefOf[job[c].payment] ELSE c

Exists(o) == o \in Order /\ orders[o] # "NONE"

(* The order was placed for p, or for a payment with its reference. *)
Fits(o, p) ==
  LET q == job[placedBy[o]].payment IN
  q = p \/ (o.at \in ByReference /\ RefOf[q] = RefOf[p])

RecordedFor(o, p) ==
  \E n \in DOMAIN attempts[p] : attempts[p][n].order = o

(* Where a request is, its breaker call is, and it has no answer yet.       *)
InPace(c) ==
  /\ call[c].stage = "scan" <=> pc[c] = "select"
  /\ call[c].stage = "create" <=> pc[c] \in {"sent", "taken"}
  /\ call[c].stage = "status" <=> pc[c] = "query"
  /\ pc[c] \in {"sent", "taken"} => call[c].at \in Provider
  /\ pc[c] # "done" => answer[c] = "NONE"

(* What a request has checked by the time it is where it is. *)
HasChecked(c) ==
  LET p == job[c].payment IN
  /\ pc[c] \in {"select", "sent", "taken"} => Places(c)
  /\ pc[c] = "query" => ~Places(c)
  /\ job[c].op = "create" /\ pc[c] \in {"select", "sent", "taken", "write"} =>
       p \notin Malformed
  /\ job[c].op = "create" /\ pc[c] \in {"taken", "write"} => p \notin Foreign
  /\ job[c].op = "retry" /\ pc[c] \in {"select", "sent", "taken", "write"} =>
       Stored(p) /\ held[c].number > 1
  /\ ~Places(c) /\ pc[c] \in {"query", "write"} => Stored(p)

(* What a request carries to its write. *)
Carries(c) ==
  LET o == held[c].order IN
  /\ pc[c] = "taken" => Exists(OrderOf(call[c].at, c))
  /\ Places(c) /\ pc[c] = "write" => Exists(o) /\ Own(o, c)
  /\ ~Places(c) /\ pc[c] \in {"query", "write"} =>
       o \in Order /\ RecordedFor(o, job[c].payment)
  /\ ~Places(c) /\ pc[c] = "write" /\ held[c].found = "COMPLETED" => Paid(o)

(* Where the request is that placed an order. *)
IsTold(o) ==
  LET c == placedBy[o] IN
  /\ pc[c] \in {"taken", "write", "committed", "dropped", "done"}
  /\ pc[c] = "taken" => o = OrderOf(call[c].at, c)
  /\ pc[c] = "write" => o = held[c].order
  /\ pc[c] = "committed" => Recorded(o)
  /\ pc[c] = "done" => Recorded(o) \/ answer[c] \in LeavesOpen
  /\ answer[c] \in {"NONE", "CREATED", "OK"} \cup LeavesOpen

IsPlaced(o) ==
  LET c == placedBy[o] IN
  /\ c \in Call /\ Own(o, c) /\ Places(c)
  /\ job[c].payment \notin Malformed \cup Foreign

(* A row and its attempts. *)
RowIsSound(p) ==
  /\ p \notin Malformed \cup Foreign /\ Len(attempts[p]) > 0
  /\ payments[p].status = "SUCCESS" =>
       \E n \in DOMAIN attempts[p] : Paid(attempts[p][n].order)
  /\ IsFinal(payments[p].status) => payments[p].completed
  /\ payments[p].completed /\ ~IsFinal(payments[p].status) =>
       \E n \in DOMAIN attempts[p] : attempts[p][n].number > 1

AttemptsFit(p) ==
  \A n \in DOMAIN attempts[p] :
    LET o == attempts[p][n].order IN Exists(o) /\ Fits(o, p)

RequestsSound == \A c \in Call : InPace(c) /\ HasChecked(c) /\ Carries(c)
OrdersSound   == \A o \in Order : orders[o] # "NONE" => IsPlaced(o) /\ IsTold(o)
RowsSound     == \A p \in Payment : Stored(p) => RowIsSound(p)
AttemptsSound == \A p \in Payment : AttemptsFit(p)

IInv == /\ TypeOK /\ P!IInv
        /\ RequestsSound /\ OrdersSound /\ RowsSound /\ AttemptsSound

-----------------------------------------------------------------------------
LEMMA OrderOfIsOrder ==
  ASSUME TypeOK, NEW v \in Provider, NEW c \in Call
  PROVE  /\ OrderOf(v, c) \in Order /\ OrderOf(v, c).at = v
         /\ Own(OrderOf(v, c), c)
  BY RefAssumption DEF OrderOf, Order, Own, TypeOK, Job

LEMMA SameTypes == CB!TypeOK <=> P!TypeOK
  BY DEF CB!TypeOK, P!TypeOK, CB!Breaker, P!Breaker, CB!Task, P!Task, CB!Open,
         P!Open, CB!Closed, P!Closed, CB!StreakBound, P!StreakBound

LEMMA InitInv == Init => IInv
  <1> SUFFICES ASSUME Init PROVE IInv
    OBVIOUS
  <1>1. P!IInv
    <2>1. P!Init
      BY DEF Init, CB!Init, P!Init, CB!Closed, P!Closed, CB!Idle, P!Idle,
             CB!Doing, P!Doing
    <2>2. QED
      BY <2>1, P!InitInv, BreakerAssumptions
  <1>2. CB!TypeOK
    BY <1>1, SameTypes DEF P!IInv
  <1>3. TypeOK
    BY <1>2 DEF Init, TypeOK, Stage, Reply, Held, Found, OrderState
  <1>4. \A c \in Call : pc[c] = "idle" /\ call[c].stage = "idle"
    BY DEF Init, CB!Init, CB!Idle, CB!Doing
  <1>5. RequestsSound
    BY <1>4 DEF Init, RequestsSound, InPace, HasChecked, Carries
  <1>6. OrdersSound /\ RowsSound /\ AttemptsSound
    BY DEF Init, OrdersSound, RowsSound, AttemptsSound, AttemptsFit, Stored
  <1>7. QED
    BY <1>1, <1>3, <1>5, <1>6 DEF IInv

-----------------------------------------------------------------------------
(* What a step leaves as it was.                                           *)

Same(c) == /\ pc'[c] = pc[c] /\ held'[c] = held[c]
           /\ answer'[c] = answer[c] /\ call'[c] = call[c]

Others(c) == \A d \in Call \ {c} : Same(d)

(* Attempts and rows are never removed, orders never change their placer,   *)
(* and what was paid stays paid or is refunded.                            *)
Grow ==
  /\ job' = job
  /\ \A p \in Payment :
       /\ Stored(p) => Stored(p)'
       /\ \A n \in DOMAIN attempts[p] :
            n \in DOMAIN attempts'[p] /\ attempts'[p][n] = attempts[p][n]
  /\ \A o \in Order : orders[o] # "NONE" =>
       /\ orders'[o] # "NONE" /\ placedBy'[o] = placedBy[o]
       /\ Paid(o) => Paid(o)'

Fine(c) == InPace(c) /\ HasChecked(c) /\ Carries(c)

Sound == RequestsSound /\ OrdersSound /\ RowsSound /\ AttemptsSound

LEMMA StandingStill ==
  ASSUME UNCHANGED <<job, tables, market>>
  PROVE  Grow
  BY DEF Grow, tables, market, Stored, Paid

LEMMA JobIsJob ==
  ASSUME IInv, NEW c \in Call
  PROVE  job[c] \in Job /\ job[c].payment \in Payment
  BY DEF IInv, TypeOK, Job

LEMMA RequestKeeps ==
  ASSUME IInv, Grow, NEW c \in Call, Same(c)
  PROVE  Fine(c)'
  <1>1. Fine(c) /\ job' = job /\ job[c].payment \in Payment
    BY JobIsJob DEF IInv, RequestsSound, Fine, Grow
  <1>2. InPace(c)'
    BY <1>1 DEF Fine, InPace, Same
  <1>3. HasChecked(c)'
    BY <1>1 DEF Fine, HasChecked, Same, Grow, Places
  <1>4. ASSUME NEW o, Exists(o) PROVE Exists(o)'
    BY <1>4 DEF Exists, Grow
  <1>5. ASSUME NEW o \in Order, Paid(o) PROVE Paid(o)'
    BY <1>5 DEF Paid, Grow
  <1>6. ASSUME NEW o, RecordedFor(o, job[c].payment)
        PROVE  RecordedFor(o, job[c].payment)'
    BY <1>1, <1>6 DEF RecordedFor, Grow
  <1>7. OrderOf(call[c].at, c)' = OrderOf(call[c].at, c)
    BY <1>1 DEF OrderOf, Same
  <1>8. Carries(c)'
    BY <1>1, <1>4, <1>5, <1>6, <1>7 DEF Fine, Carries, Same, Places, Own
  <1>9. QED
    BY <1>2, <1>3, <1>8 DEF Fine

LEMMA RecordedStays ==
  ASSUME Grow, NEW o, Recorded(o)
  PROVE  Recorded(o)'
  BY DEF Grow, Recorded

LEMMA PlacedStays ==
  ASSUME IInv, Grow, NEW o \in Order, orders[o] # "NONE"
  PROVE  IsPlaced(o)'
  <1>1. IsPlaced(o)
    BY DEF IInv, OrdersSound
  <1>2. QED
    BY <1>1 DEF IsPlaced, Grow, Own, Places

LEMMA ToldStays ==
  ASSUME IInv, Grow, NEW o \in Order, orders[o] # "NONE", Same(placedBy[o])
  PROVE  IsTold(o)'
  <1>1. IsTold(o) /\ placedBy'[o] = placedBy[o] /\ job' = job
    BY DEF IInv, OrdersSound, Grow
  <1>2. Recorded(o) => Recorded(o)'
    BY RecordedStays
  <1>3. QED
    BY <1>1, <1>2 DEF IsTold, Same, OrderOf

LEMMA FitStays ==
  ASSUME IInv, Grow, NEW p \in Payment, NEW o \in Order, orders[o] # "NONE",
         Fits(o, p)
  PROVE  Fits(o, p)'
  BY DEF Grow, Fits

LEMMA RecordedOrders ==
  ASSUME IInv, NEW p \in Payment, NEW n \in DOMAIN attempts[p]
  PROVE  /\ attempts[p][n].order \in Order
         /\ orders[attempts[p][n].order] # "NONE"
         /\ Fits(attempts[p][n].order, p)
  BY DEF IInv, AttemptsSound, AttemptsFit, Exists

(* A payment whose row and attempts a step does not touch.                  *)
LEMMA PaymentKeeps ==
  ASSUME IInv, Grow, NEW p \in Payment,
         payments'[p] = payments[p], attempts'[p] = attempts[p]
  PROVE  AttemptsFit(p)' /\ (Stored(p)' => RowIsSound(p)')
  <1>1. \A n \in DOMAIN attempts[p] :
          LET o == attempts[p][n].order IN
          /\ o \in Order /\ orders'[o] # "NONE" /\ Fits(o, p)'
          /\ Paid(o) => Paid(o)'
    BY RecordedOrders, FitStays DEF Grow
  <1>2. AttemptsFit(p)'
    BY <1>1 DEF AttemptsFit, Exists
  <1>3. Stored(p)' => RowIsSound(p)'
    BY <1>1 DEF IInv, RowsSound, RowIsSound, Stored
  <1>4. QED
    BY <1>2, <1>3

(* A step of c that touches no table and no order.                          *)
LEMMA Advance ==
  ASSUME IInv, NEW c \in Call, Others(c), UNCHANGED <<job, tables, market>>,
         Fine(c)',
         \A o \in Order : orders[o] # "NONE" /\ placedBy[o] = c => IsTold(o)'
  PROVE  Sound'
  <1>1. Grow
    BY StandingStill
  <1>2. RequestsSound'
    BY <1>1, RequestKeeps DEF RequestsSound, Others, Fine
  <1>3. OrdersSound'
    <2>1. ASSUME NEW o \in Order, orders'[o] # "NONE"
          PROVE  IsPlaced(o)' /\ IsTold(o)'
      <3>1. orders[o] # "NONE"
        BY <2>1 DEF market
      <3>2. placedBy[o] \in Call
        BY <3>1 DEF IInv, OrdersSound, IsPlaced
      <3>3. CASE placedBy[o] = c
        BY <1>1, <3>1, <3>3, PlacedStays
      <3>4. CASE placedBy[o] # c
        BY <1>1, <3>1, <3>2, <3>4, PlacedStays, ToldStays DEF Others
      <3>5. QED
        BY <3>3, <3>4
    <2>2. QED
      BY <2>1 DEF OrdersSound
  <1>4. RowsSound' /\ AttemptsSound'
    BY <1>1, PaymentKeeps DEF RowsSound, AttemptsSound, tables
  <1>5. QED
    BY <1>2, <1>3, <1>4 DEF Sound

-----------------------------------------------------------------------------
(* Requests that end, and requests that go on.                              *)

LEMMA NotCalling ==
  ASSUME IInv, NEW c \in Call,
         pc[c] \in {"idle", "write", "committed", "done", "dropped"}
  PROVE  call[c].stage = "idle"
  <1>1. call[c].stage \in {"idle", "scan", "create", "status"} /\ InPace(c)
    BY DEF IInv, TypeOK, CB!TypeOK, CB!Task, RequestsSound
  <1>2. QED
    BY <1>1 DEF InPace

(* c ends with reply; where it may have placed an order, with an error that *)
(* leaves it open.                                                         *)
Quits(c, reply) ==
  /\ pc[c] \notin {"done", "dropped"}
  /\ pc[c] \in {"taken", "write"} => reply \in LeavesOpen
  /\ pc[c] = "committed" => reply \in {"CREATED", "OK"} \cup LeavesOpen
  /\ Finish(c, reply)
  /\ TurnsTo(c, "idle")
  /\ UNCHANGED <<job, held, tables, market>>

LEMMA QuitStep ==
  ASSUME IInv, NEW c \in Call, NEW reply \in Reply, Quits(c, reply)
  PROVE  Sound'
  <1>1. /\ pc \in [Call -> Stage] /\ answer \in [Call -> Reply]
        /\ pc' = [pc EXCEPT ![c] = "done"]
        /\ answer' = [answer EXCEPT ![c] = reply]
    BY DEF IInv, TypeOK, Quits, Finish, Goto
  <1>2. Others(c)
    BY <1>1 DEF Quits, Others, Same, TurnsTo
  <1>3. Fine(c)'
    BY <1>1 DEF Fine, InPace, HasChecked, Carries, Quits, TurnsTo
  <1>4. ASSUME NEW o \in Order, orders[o] # "NONE", placedBy[o] = c
        PROVE  IsTold(o)'
    <2>1. IsTold(o) /\ placedBy'[o] = c
      BY <1>4 DEF IInv, OrdersSound, Quits, market
    <2>2. \/ reply \in LeavesOpen
          \/ Recorded(o) /\ reply \in {"CREATED", "OK"} \cup LeavesOpen
      BY <1>4, <2>1 DEF IsTold, Quits
    <2>3. Recorded(o) => Recorded(o)'
      BY StandingStill, RecordedStays DEF Quits
    <2>4. QED
      BY <1>1, <2>1, <2>2, <2>3 DEF IsTold
  <1>5. QED
    BY <1>2, <1>3, <1>4, Advance DEF Quits

LEMMA Quitting ==
  ASSUME IInv, NEW c \in Call,
         \/ CreateRefused(c) \/ RetryRefused(c) \/ ReconcileRefused(c)
         \/ NotFound(c) \/ ReadFails(c) \/ NoProvider(c)
         \/ AdapterRefuses(c) \/ CreateFails(c) \/ WriteFails(c)
         \/ Respond(c)
  PROVE  Sound'
  <1>0. CB!TypeOK /\ InPace(c)
    BY DEF IInv, TypeOK, RequestsSound
  <1>1. ASSUME NEW reply \in Reply, End(c, reply),
               pc[c] \in {"idle", "write", "committed"},
               pc[c] = "write" => reply \in LeavesOpen,
               pc[c] = "committed" =>
                 reply \in {"CREATED", "OK"} \cup LeavesOpen
        PROVE  Quits(c, reply)
    BY <1>1, NotCalling DEF End, Quits, TurnsTo, breakers
  <1>2. CASE \/ CreateRefused(c) \/ RetryRefused(c) \/ ReconcileRefused(c)
             \/ NotFound(c) \/ ReadFails(c) \/ WriteFails(c) \/ Respond(c)
    <2>1. \E reply \in Reply : Quits(c, reply)
      BY <1>1, <1>2 DEF CreateRefused, RetryRefused, ReconcileRefused,
                        NotFound, ReadFails, WriteFails, Respond, At, Reply,
                        LeavesOpen
    <2>2. QED
      BY <2>1, QuitStep
  <1>3. CASE NoProvider(c)
    <2>1. Quits(c, "PROVIDER_UNAVAILABLE")
      BY <1>0, <1>3, Selecting DEF NoProvider, Quits, InPace
    <2>2. QED
      BY <2>1, QuitStep DEF Reply
  <1>4. CASE AdapterRefuses(c) \/ CreateFails(c)
    <2>1. Quits(c, "PROVIDER_ERROR")
      BY <1>0, <1>4, Ending DEF AdapterRefuses, CreateFails, Quits, LeavesOpen
    <2>2. QED
      BY <2>1, QuitStep DEF Reply
  <1>5. QED
    BY <1>2, <1>3, <1>4

(* c goes on, and asked nothing of a provider yet. *)
LEMMA Early ==
  ASSUME IInv, NEW c \in Call, Others(c),
         UNCHANGED <<job, tables, market>>, Fine(c)',
         pc[c] \in {"idle", "select", "sent", "query"}
  PROVE  Sound'
  <1>1. \A o \in Order : orders[o] # "NONE" => placedBy[o] # c
    BY DEF IInv, OrdersSound, IsTold
  <1>2. QED
    BY <1>1, Advance

LEMMA Admitting ==
  ASSUME IInv, NEW c \in Call, CreateAdmitted(c) \/ RetryAdmitted(c)
  PROVE  Sound'
  <1>0. /\ CB!TypeOK /\ pc \in [Call -> Stage] /\ held \in [Call -> Held]
        /\ job[c].payment \in Payment
    BY JobIsJob DEF IInv, TypeOK
  <1>1. /\ pc[c] = "idle" /\ pc' = [pc EXCEPT ![c] = "select"]
        /\ TurnsTo(c, "scan") /\ UNCHANGED <<job, answer, tables, market>>
        /\ Places(c)
    BY <1>0, Selecting DEF CreateAdmitted, RetryAdmitted, At, Goto, Places
  <1>2. Others(c)
    BY <1>0, <1>1
       DEF CreateAdmitted, RetryAdmitted, Others, Same, TurnsTo
  <1>3. InPace(c)' /\ Carries(c)'
    BY <1>0, <1>1
       DEF IInv, RequestsSound, InPace, Carries, TurnsTo, Places
  <1>4. CASE CreateAdmitted(c)
    <2>1. HasChecked(c)'
      BY <1>0, <1>1, <1>4 DEF HasChecked, CreateAdmitted, At, Places
    <2>2. QED
      BY <1>1, <1>2, <1>3, <2>1, Early DEF Fine
  <1>5. CASE RetryAdmitted(c)
    <2>1. /\ Stored(job[c].payment) /\ Stored(job[c].payment)'
          /\ Len(attempts[job[c].payment]) \in Nat
      BY <1>0, <1>1, <1>5
         DEF RetryAdmitted, Stored, tables, IInv, TypeOK
    <2>2. Len(attempts[job[c].payment]) > 0
      BY <1>0, <2>1 DEF IInv, RowsSound, RowIsSound
    <2>3. held'[c].number > 1
      BY <1>0, <1>5, <2>1, <2>2 DEF RetryAdmitted, Held
    <2>4. HasChecked(c)'
      BY <1>0, <1>1, <1>5, <2>1, <2>3
         DEF HasChecked, RetryAdmitted, At, Places
    <2>5. QED
      BY <1>1, <1>2, <1>3, <2>4, Early DEF Fine
  <1>6. QED
    BY <1>4, <1>5

LEMMA Sending ==
  ASSUME IInv, NEW c \in Call, Look(c) \/ Send(c)
  PROVE  Sound'
  <1>0. CB!TypeOK /\ pc \in [Call -> Stage] /\ Fine(c)
    BY DEF IInv, TypeOK, RequestsSound, Fine
  <1>1. CASE Look(c)
    <2>1. /\ pc[c] = "select" /\ TurnsTo(c, "scan")
          /\ UNCHANGED <<pc, job, held, answer, tables, market>>
      BY <1>0, <1>1, Selecting DEF Look, Fine, InPace
    <2>2. Others(c)
      BY <2>1 DEF Others, Same, TurnsTo
    <2>3. Fine(c)'
      BY <1>0, <2>1
         DEF Fine, InPace, HasChecked, Carries, TurnsTo, Places, Stored, tables
    <2>4. QED
      BY <2>1, <2>2, <2>3, Early
  <1>2. CASE Send(c)
    <2>1. /\ pc[c] = "select" /\ TurnsTo(c, "create")
          /\ call'[c].at \in Provider
          /\ pc' = [pc EXCEPT ![c] = "sent"]
          /\ UNCHANGED <<job, held, answer, tables, market>>
      BY <1>0, <1>2, Selecting DEF Send, Fine, InPace, Goto
    <2>2. Others(c)
      BY <1>0, <2>1 DEF Others, Same, TurnsTo
    <2>3. Fine(c)'
      BY <1>0, <2>1
         DEF Fine, InPace, HasChecked, Carries, TurnsTo, Places, Stored, tables
    <2>4. QED
      BY <2>1, <2>2, <2>3, Early
  <1>3. QED
    BY <1>1, <1>2

(* The answer of a create: its order is what c carries now.                 *)
LEMMA Answering ==
  ASSUME IInv, NEW c \in Call, CreateAnswered(c)
  PROVE  Sound'
  <1> DEFINE o == OrderOf(call[c].at, c)
  <1>0. /\ CB!TypeOK /\ pc \in [Call -> Stage] /\ held \in [Call -> Held]
        /\ InPace(c) /\ HasChecked(c) /\ Carries(c)
    BY DEF IInv, TypeOK, RequestsSound
  <1>1. /\ pc[c] = "taken" /\ pc' = [pc EXCEPT ![c] = "write"]
        /\ held' = [held EXCEPT ![c].order = o]
        /\ TurnsTo(c, "idle") /\ UNCHANGED <<job, answer, tables, market>>
    BY <1>0, Ending DEF CreateAnswered, Goto
  <1>2. /\ Others(c) /\ pc'[c] = "write"
        /\ held'[c].order = o /\ held'[c].number = held[c].number
    BY <1>0, <1>1 DEF Others, Same, TurnsTo, Held
  <1>3. Exists(o) /\ Own(o, c) /\ Places(c)
    BY <1>0, <1>1, OrderOfIsOrder DEF InPace, HasChecked, Carries, IInv
  <1>4. InPace(c)' /\ HasChecked(c)'
    BY <1>0, <1>1, <1>2, <1>3
       DEF InPace, HasChecked, TurnsTo, Places, Stored, tables
  <1>5. Carries(c)'
    BY <1>1, <1>2, <1>3 DEF Carries, Places, Exists, Own, market
  <1>6. ASSUME NEW x \in Order, orders[x] # "NONE", placedBy[x] = c
        PROVE  IsTold(x)'
    <2>1. IsTold(x) /\ placedBy'[x] = c
      BY <1>1, <1>6 DEF IInv, OrdersSound, market
    <2>2. x = o
      BY <1>1, <1>6, <2>1 DEF IsTold
    <2>3. QED
      BY <1>1, <1>2, <1>6, <2>1, <2>2 DEF IsTold
  <1>7. QED
    BY <1>1, <1>2, <1>4, <1>5, <1>6, Advance DEF Fine

LEMMA Inquiring ==
  ASSUME IInv, NEW c \in Call, Inquire(c)
  PROVE  Sound'
  <1>0. /\ TypeOK /\ CB!TypeOK /\ pc \in [Call -> Stage]
        /\ held \in [Call -> Held] /\ InPace(c)
    BY DEF IInv, TypeOK, RequestsSound
  <1>1. PICK p \in Payment, n \in DOMAIN attempts[job[c].payment] :
          LET o == attempts[p][n].order IN
          /\ p = job[c].payment /\ Stored(p)
          /\ o \in Order /\ CB!StatusStarts(c, o.at)
          /\ held' = [held EXCEPT ![c].order = o]
    BY <1>0, InquireAsksProvider DEF Stored
  <1>2. /\ pc[c] = "idle" /\ pc' = [pc EXCEPT ![c] = "query"]
        /\ TurnsTo(c, "status") /\ UNCHANGED <<job, answer, tables, market>>
        /\ ~Places(c)
    BY <1>0, <1>1, Selecting DEF Inquire, At, Goto, Places
  <1>3. Others(c) /\ held'[c].order = attempts[job[c].payment][n].order
    BY <1>0, <1>1, <1>2 DEF Others, Same, TurnsTo, Held
  <1>4. Fine(c)'
    BY <1>0, <1>1, <1>2, <1>3
       DEF Fine, InPace, HasChecked, Carries, TurnsTo, Places, Stored,
           RecordedFor, tables
  <1>5. QED
    BY <1>2, <1>3, <1>4, Early

LEMMA Hearing ==
  ASSUME IInv, NEW c \in Call, InquiryAnswered(c) \/ InquiryFails(c)
  PROVE  Sound'
  <1>0. /\ CB!TypeOK /\ pc \in [Call -> Stage] /\ held \in [Call -> Held]
        /\ Fine(c)
    BY DEF IInv, TypeOK, RequestsSound, Fine
  <1>1. /\ pc[c] = "query" /\ pc' = [pc EXCEPT ![c] = "write"]
        /\ TurnsTo(c, "idle") /\ UNCHANGED <<job, answer, tables, market>>
    BY <1>0, Ending DEF InquiryAnswered, InquiryFails, Goto
  <1>2. PICK f \in {orders[held[c].order], "UNKNOWN", "ERROR"} :
          held' = [held EXCEPT ![c].found = f]
    BY DEF InquiryAnswered, InquiryFails
  <1>3. /\ Others(c) /\ held'[c].order = held[c].order
        /\ held'[c].found = f
    BY <1>0, <1>1, <1>2 DEF Others, Same, TurnsTo, Held
  <1>4. ~Places(c)
    BY <1>0, <1>1 DEF Fine, HasChecked
  <1>5. f = "COMPLETED" => Paid(held[c].order)
    BY <1>2 DEF Paid
  <1>6. Fine(c)'
    BY <1>0, <1>1, <1>3, <1>4, <1>5
       DEF Fine, InPace, HasChecked, Carries, TurnsTo, Places, Stored, Paid,
           RecordedFor, tables, market
  <1>7. QED
    BY <1>1, <1>3, <1>6, Early

LEMMA Dropping ==
  ASSUME IInv, NEW c \in Call, Drop(c)
  PROVE  Sound'
  <1>0. CB!TypeOK /\ pc \in [Call -> Stage] /\ InPace(c)
    BY DEF IInv, TypeOK, RequestsSound
  <1>1. /\ TurnsTo(c, "idle") /\ pc' = [pc EXCEPT ![c] = "dropped"]
        /\ UNCHANGED <<job, held, answer, tables, market>>
        /\ pc[c] # "done"
    BY <1>0, Ending, NotCalling DEF Drop, Goto, TurnsTo, breakers
  <1>2. Others(c) /\ pc'[c] = "dropped"
    BY <1>0, <1>1 DEF Others, Same, TurnsTo
  <1>3. Fine(c)'
    BY <1>0, <1>1, <1>2
       DEF Fine, InPace, HasChecked, Carries, TurnsTo, Places
  <1>4. ASSUME NEW o \in Order, orders[o] # "NONE", placedBy[o] = c
        PROVE  IsTold(o)'
    BY <1>1, <1>2, <1>4 DEF IInv, OrdersSound, IsTold, market
  <1>5. QED
    BY <1>1, <1>2, <1>3, <1>4, Advance

(* The provider takes the order, if it has not got it.                      *)
LEMMA Taking ==
  ASSUME IInv, NEW c \in Call, ProviderTakes(c)
  PROVE  Sound'
  <1> DEFINE o == OrderOf(call[c].at, c)
  <1>0. /\ TypeOK /\ pc \in [Call -> Stage] /\ InPace(c) /\ HasChecked(c)
        /\ Carries(c) /\ orders \in [Order -> OrderState]
        /\ placedBy \in [Order -> Call \cup {None}]
        /\ job[c].payment \in Payment
    BY JobIsJob DEF IInv, TypeOK, RequestsSound
  <1>1. /\ pc[c] = "sent" /\ pc' = [pc EXCEPT ![c] = "taken"]
        /\ UNCHANGED <<breakers, job, held, answer, tables>>
    BY DEF ProviderTakes, Goto
  <1>2. o \in Order /\ Own(o, c) /\ Places(c)
    BY <1>0, <1>1, OrderOfIsOrder DEF InPace, HasChecked
  <1>3. \/ /\ orders[o] = "NONE"
           /\ orders' = [orders EXCEPT ![o] = "PENDING"]
           /\ placedBy' = [placedBy EXCEPT ![o] = c]
        \/ orders[o] # "NONE" /\ UNCHANGED market
    BY DEF ProviderTakes
  <1>4. /\ orders'[o] # "NONE"
        /\ \A x \in Order : x # o =>
             orders'[x] = orders[x] /\ placedBy'[x] = placedBy[x]
        /\ orders[o] # "NONE" =>
             orders'[o] = orders[o] /\ placedBy'[o] = placedBy[o]
        /\ orders[o] = "NONE" => placedBy'[o] = c
    BY <1>0, <1>2, <1>3 DEF market
  <1> HIDE DEF o
  <1>5. Grow
    BY <1>1, <1>4 DEF Grow, tables, Stored, Paid
  <1>6. job[c].payment \notin Malformed \cup Foreign
    <2>1. job[c].op \in {"create", "retry"} /\ job[c].payment \notin Foreign
      BY <1>0, <1>2 DEF ProviderTakes, Places, TypeOK, Job
    <2>2. QED
      BY <1>0, <1>1, <2>1 DEF HasChecked, IInv, RowsSound, RowIsSound
  <1>7. Others(c) /\ pc'[c] = "taken" /\ call' = call
    BY <1>0, <1>1 DEF Others, Same, breakers
  <1>8. Fine(c)'
    <2>1. InPace(c)'
      BY <1>0, <1>1, <1>7 DEF InPace
    <2>2. HasChecked(c)'
      BY <1>0, <1>1, <1>6, <1>7 DEF HasChecked, Places, Stored, tables
    <2>3. OrderOf(call[c].at, c)' = o
      BY <1>1, <1>7 DEF o, OrderOf
    <2>4. Carries(c)'
      BY <1>1, <1>2, <1>4, <1>7, <2>3 DEF Carries, Places, Exists
    <2>5. QED
      BY <2>1, <2>2, <2>4 DEF Fine
  <1>9. RequestsSound'
    BY <1>5, <1>7, <1>8, RequestKeeps DEF RequestsSound, Others, Fine
  <1>10. ASSUME NEW x \in Order, orders'[x] # "NONE"
         PROVE  IsPlaced(x)' /\ IsTold(x)'
    <2>1. CASE orders[x] # "NONE"
      <3>1. placedBy[x] # c /\ placedBy[x] \in Call
        BY <1>1, <2>1 DEF IInv, OrdersSound, IsTold, IsPlaced
      <3>2. QED
        BY <1>5, <1>7, <2>1, <3>1, PlacedStays, ToldStays DEF Others
    <2>2. CASE orders[x] = "NONE"
      <3>1. x = o /\ placedBy'[x] = c
        BY <1>4, <1>10, <2>2
      <3>2. IsPlaced(x)'
        BY <1>1, <1>2, <1>6, <3>1 DEF IsPlaced, Own, Places
      <3>3. OrderOf(call[c].at, c)' = o /\ answer'[c] = "NONE"
        BY <1>0, <1>1, <1>7 DEF o, OrderOf, InPace
      <3>4. IsTold(x)'
        BY <1>7, <3>1, <3>3 DEF IsTold
      <3>5. QED
        BY <3>2, <3>4
    <2>3. QED
      BY <2>1, <2>2
  <1>11. RowsSound' /\ AttemptsSound'
    BY <1>1, <1>5, PaymentKeeps DEF RowsSound, AttemptsSound, tables
  <1>12. QED
    BY <1>9, <1>10, <1>11 DEF Sound, OrdersSound

-----------------------------------------------------------------------------
(* The writes.                                                             *)

LEMMA OwnFits ==
  ASSUME IInv, NEW c \in Call, NEW o, Exists(o), Own(o, c)
  PROVE  Fits(o, job[c].payment)
  <1>1. IsPlaced(o) /\ o \in Order
    BY DEF IInv, OrdersSound, Exists
  <1>2. QED
    BY <1>1 DEF IsPlaced, Own, Fits

LEMMA NewRowIsRow ==
  ASSUME NEW s \in Status, NEW b \in BOOLEAN, NEW k \in Key
  PROVE  /\ [status |-> s, completed |-> b, key |-> k] \in Row
         /\ [status |-> s, completed |-> b, key |-> k] # None
  BY NoneAssumption DEF Row

LEMMA StatusSet ==
  ASSUME IInv, NEW p \in Payment, Stored(p), NEW s \in Status, SetStatus(p, s)
  PROVE  /\ payments' \in [Payment -> Row \cup {None}]
         /\ Stored(p)' /\ payments'[p].status = s
         /\ payments'[p].completed <=> payments[p].completed \/ IsFinal(s)
         /\ \A q \in Payment \ {p} : payments'[q] = payments[q]
  <1> DEFINE row == [status |-> s,
                     completed |-> payments[p].completed \/ IsFinal(s),
                     key |-> payments[p].key]
  <1>1. payments \in [Payment -> Row \cup {None}] /\ payments[p] \in Row
    BY DEF IInv, TypeOK, Stored
  <1>2. payments' = [payments EXCEPT ![p] = row]
    BY DEF SetStatus
  <1>3. row \in Row /\ row # None
    BY <1>1, NewRowIsRow DEF Row, IsFinal
  <1>4. QED
    BY <1>1, <1>2, <1>3 DEF Stored

(* One attempt more. *)
LEMMA Appended ==
  ASSUME attempts \in [Payment -> Seq(Attempt)], NEW p \in Payment,
         NEW a \in Attempt,
         attempts' = [attempts EXCEPT ![p] = Append(attempts[p], a)]
  PROVE  /\ attempts' \in [Payment -> Seq(Attempt)]
         /\ Len(attempts'[p]) = Len(attempts[p]) + 1
         /\ \A n \in DOMAIN attempts'[p] :
              \/ attempts'[p][n] = a
              \/ n \in DOMAIN attempts[p] /\ attempts'[p][n] = attempts[p][n]
         /\ \E n \in DOMAIN attempts'[p] : attempts'[p][n] = a
         /\ \A n \in DOMAIN attempts[p] :
              n \in DOMAIN attempts'[p] /\ attempts'[p][n] = attempts[p][n]
         /\ \A q \in Payment \ {p} : attempts'[q] = attempts[q]
  <1>1. attempts[p] \in Seq(Attempt) /\ attempts'[p] = Append(attempts[p], a)
    OBVIOUS
  <1>2. DOMAIN attempts'[p] = DOMAIN attempts[p] \cup {Len(attempts[p]) + 1}
    BY <1>1
  <1>3. QED
    BY <1>1, <1>2

LEMMA Adding ==
  ASSUME IInv, NEW c \in Call, Places(c), pc[c] = "write", AddAttempt(c)
  PROVE  \E a \in Attempt :
           /\ a.number = held[c].number /\ a.order = held[c].order
           /\ Exists(a.order) /\ Fits(a.order, job[c].payment)
           /\ attempts' = [attempts EXCEPT ![job[c].payment] =
                             Append(attempts[job[c].payment], a)]
  <1> DEFINE a == [number |-> held[c].number, order |-> held[c].order]
  <1>1. held[c] \in Held /\ Exists(held[c].order)
    BY DEF IInv, TypeOK, RequestsSound, Carries
  <1>2. Fits(held[c].order, job[c].payment)
    BY <1>1, OwnFits DEF IInv, RequestsSound, Carries
  <1>3. a \in Attempt
    BY <1>1 DEF Held, Attempt, Exists
  <1>4. QED
    BY <1>1, <1>2, <1>3 DEF AddAttempt

(* c has written and is to be answered. *)
LEMMA Writing ==
  ASSUME IInv, NEW c \in Call, pc[c] = "write", Grow, Goto(c, "committed"),
         UNCHANGED <<breakers, job, held, answer, market>>,
         Places(c) => Recorded(held[c].order)',
         \A p \in Payment : AttemptsFit(p)' /\ (Stored(p)' => RowIsSound(p)')
  PROVE  Sound'
  <1>1. pc \in [Call -> Stage] /\ pc' = [pc EXCEPT ![c] = "committed"]
    BY DEF IInv, TypeOK, Goto
  <1>2. Others(c) /\ pc'[c] = "committed" /\ answer'[c] = "NONE"
    BY <1>1 DEF Others, Same, breakers, IInv, RequestsSound, InPace
  <1>3. call'[c].stage = "idle"
    BY NotCalling DEF breakers
  <1>4. Fine(c)'
    BY <1>2, <1>3 DEF Fine, InPace, HasChecked, Carries
  <1>5. RequestsSound'
    BY <1>2, <1>4, RequestKeeps DEF RequestsSound, Others, Fine
  <1>6. ASSUME NEW o \in Order, orders'[o] # "NONE"
        PROVE  IsPlaced(o)' /\ IsTold(o)'
    <2>1. orders[o] # "NONE" /\ placedBy' = placedBy
      BY <1>6 DEF market
    <2>2. IsPlaced(o) /\ IsTold(o) /\ IsPlaced(o)'
      BY <2>1, PlacedStays DEF IInv, OrdersSound
    <2>3. CASE placedBy[o] = c
      <3>1. Places(c) /\ o = held[c].order
        BY <2>2, <2>3 DEF IsPlaced, IsTold
      <3>2. Recorded(o)'
        BY <3>1 DEF Recorded
      <3>3. QED
        BY <1>2, <2>1, <2>2, <2>3, <3>2 DEF IsTold
    <2>4. CASE placedBy[o] # c
      BY <1>2, <2>1, <2>2, <2>4, ToldStays DEF IsPlaced, Others
    <2>5. QED
      BY <2>2, <2>3, <2>4
  <1>7. QED
    BY <1>5, <1>6 DEF Sound, OrdersSound, RowsSound, AttemptsSound

(* An order that exists and fits the payment may be added to its attempts.  *)
LEMMA AttemptFits ==
  ASSUME IInv, Grow, attempts \in [Payment -> Seq(Attempt)],
         NEW p \in Payment, NEW a \in Attempt,
         Exists(a.order), Fits(a.order, p),
         attempts' = [attempts EXCEPT ![p] = Append(attempts[p], a)]
  PROVE  AttemptsFit(p)' /\ Recorded(a.order)'
  <1>1. ASSUME NEW n \in DOMAIN attempts'[p], NEW o, o = attempts'[p][n].order
        PROVE  o \in Order /\ orders[o] # "NONE" /\ Fits(o, p)
    <2>1. CASE attempts'[p][n] = a
      BY <1>1, <2>1 DEF Exists
    <2>2. CASE n \in DOMAIN attempts[p] /\ attempts'[p][n] = attempts[p][n]
      BY <1>1, <2>2, RecordedOrders
    <2>3. QED
      BY <2>1, <2>2, Appended
  <1>2. ASSUME NEW n \in DOMAIN attempts'[p], NEW o, o = attempts'[p][n].order
        PROVE  o \in Order /\ orders'[o] # "NONE" /\ Fits(o, p)'
    <2>1. o \in Order /\ orders[o] # "NONE" /\ Fits(o, p)
      BY <1>1, <1>2
    <2>2. orders'[o] # "NONE"
      BY <2>1 DEF Grow
    <2>3. QED
      BY <2>1, <2>2, FitStays
  <1>3. AttemptsFit(p)'
    BY <1>2 DEF AttemptsFit, Exists
  <1>4. Recorded(a.order)'
    BY Appended DEF Recorded
  <1>5. QED
    BY <1>3, <1>4

LEMMA CreateWriteStep ==
  ASSUME IInv, NEW c \in Call, CreateWrites(c)
  PROVE  Sound'
  <1> DEFINE row == [status |-> "PENDING", completed |-> FALSE,
                     key |-> job[c].key]
  <1>p. PICK p \in Payment : p = job[c].payment
    BY JobIsJob
  <1>0. /\ attempts \in [Payment -> Seq(Attempt)]
        /\ payments \in [Payment -> Row \cup {None}]
        /\ pc[c] = "write" /\ ~Stored(p) /\ Places(c)
        /\ p \notin Malformed \cup Foreign
    BY <1>p
       DEF IInv, TypeOK, RequestsSound, HasChecked, CreateWrites, At, Places
  <1>1. /\ payments' = [payments EXCEPT ![p] = row] /\ AddAttempt(c)
        /\ UNCHANGED <<breakers, job, held, market>>
    BY <1>p DEF CreateWrites
  <1>2. row # None
    BY JobIsJob, NewRowIsRow DEF Status, Job
  <1>3. PICK a \in Attempt :
          /\ a.order = held[c].order /\ Exists(a.order) /\ Fits(a.order, p)
          /\ attempts' = [attempts EXCEPT ![p] = Append(attempts[p], a)]
    BY <1>p, <1>0, <1>1, Adding
  <1>4. /\ payments'[p] = row /\ Len(attempts'[p]) > 0
        /\ \A q \in Payment \ {p} :
             payments'[q] = payments[q] /\ attempts'[q] = attempts[q]
        /\ \A n \in DOMAIN attempts[p] :
             n \in DOMAIN attempts'[p] /\ attempts'[p][n] = attempts[p][n]
    BY <1>0, <1>1, <1>3, Appended
  <1>5. Grow
    BY <1>0, <1>1, <1>4 DEF Grow, Stored, Paid, market
  <1>6. AttemptsFit(p)' /\ Recorded(held[c].order)'
    <2>1. AttemptsFit(p)' /\ Recorded(a.order)'
      BY <1>0, <1>3, <1>5, AttemptFits
    <2>2. QED
      BY <1>1, <1>3, <2>1 DEF Recorded
  <1>7. RowIsSound(p)'
    BY <1>0, <1>4 DEF RowIsSound, IsFinal
  <1>8. \A q \in Payment : AttemptsFit(q)' /\ (Stored(q)' => RowIsSound(q)')
    BY <1>4, <1>5, <1>6, <1>7, PaymentKeeps
  <1>9. Goto(c, "committed") /\ answer' = answer
    BY DEF CreateWrites
  <1>10. QED
    BY <1>0, <1>1, <1>5, <1>6, <1>8, <1>9, Writing

LEMMA RetryWriteStep ==
  ASSUME IInv, NEW c \in Call, RetryWrites(c)
  PROVE  Sound'
  <1>p. PICK p \in Payment : p = job[c].payment
    BY JobIsJob
  <1>0. /\ attempts \in [Payment -> Seq(Attempt)]
        /\ pc[c] = "write" /\ Places(c) /\ Stored(p) /\ held[c].number > 1
        /\ RowIsSound(p)
    BY <1>p
       DEF IInv, TypeOK, RequestsSound, HasChecked, RetryWrites, At, Places,
           RowsSound
  <1>1. /\ SetStatus(p, "PROCESSING") /\ AddAttempt(c)
        /\ UNCHANGED <<breakers, job, held, market>>
    BY <1>p DEF RetryWrites
  <1>2. /\ Stored(p)' /\ payments'[p].status = "PROCESSING"
        /\ \A q \in Payment \ {p} : payments'[q] = payments[q]
    BY <1>0, <1>1, StatusSet DEF Status
  <1>3. PICK a \in Attempt :
          /\ a.number = held[c].number /\ a.order = held[c].order
          /\ Exists(a.order) /\ Fits(a.order, p)
          /\ attempts' = [attempts EXCEPT ![p] = Append(attempts[p], a)]
    BY <1>p, <1>0, <1>1, Adding
  <1>4. /\ Len(attempts'[p]) > 0
        /\ \E n \in DOMAIN attempts'[p] : attempts'[p][n] = a
        /\ \A q \in Payment \ {p} : attempts'[q] = attempts[q]
        /\ \A n \in DOMAIN attempts[p] :
             n \in DOMAIN attempts'[p] /\ attempts'[p][n] = attempts[p][n]
    BY <1>0, <1>3, Appended
  <1>5. Grow
    BY <1>0, <1>1, <1>2, <1>4 DEF Grow, Stored, Paid, market
  <1>6. AttemptsFit(p)' /\ Recorded(held[c].order)'
    <2>1. AttemptsFit(p)' /\ Recorded(a.order)'
      BY <1>0, <1>3, <1>5, AttemptFits
    <2>2. QED
      BY <1>1, <1>3, <2>1 DEF Recorded
  <1>7. RowIsSound(p)'
    BY <1>0, <1>2, <1>3, <1>4 DEF RowIsSound, IsFinal
  <1>8. \A q \in Payment : AttemptsFit(q)' /\ (Stored(q)' => RowIsSound(q)')
    BY <1>2, <1>4, <1>5, <1>6, <1>7, PaymentKeeps
  <1>9. Goto(c, "committed") /\ answer' = answer
    BY DEF RetryWrites
  <1>10. QED
    BY <1>0, <1>1, <1>5, <1>6, <1>8, <1>9, Writing

(* A write of a status alone. *)
LEMMA StatusGrows ==
  ASSUME IInv, NEW p \in Payment, Stored(p), NEW s \in Status, SetStatus(p, s),
         UNCHANGED <<job, attempts, market>>
  PROVE  Grow
  <1>1. Stored(p)' /\ \A q \in Payment \ {p} : payments'[q] = payments[q]
    BY StatusSet
  <1>2. QED
    BY <1>1 DEF Grow, Stored, Paid, market

(* It is sound if the success it reports was paid, and if it does not       *)
(* reopen a completed payment.                                             *)
LEMMA StatusSound ==
  ASSUME IInv, NEW p \in Payment, Stored(p), NEW s \in Status, SetStatus(p, s),
         UNCHANGED <<job, attempts, market>>,
         s = "SUCCESS" =>
           \E n \in DOMAIN attempts[p] : Paid(attempts[p][n].order),
         IsFinal(s) \/ ~IsFinal(payments[p].status)
  PROVE  \A q \in Payment : AttemptsFit(q)' /\ (Stored(q)' => RowIsSound(q)')
  <1>1. /\ Stored(p)' /\ payments'[p].status = s
        /\ payments'[p].completed <=> payments[p].completed \/ IsFinal(s)
        /\ \A q \in Payment \ {p} : payments'[q] = payments[q]
    BY StatusSet
  <1>2. Grow /\ RowIsSound(p)
    BY StatusGrows DEF IInv, RowsSound
  <1>3. AttemptsFit(p)'
    <2>1. \A n \in DOMAIN attempts[p] :
            LET o == attempts[p][n].order IN
            o \in Order /\ orders'[o] # "NONE" /\ Fits(o, p)'
      BY <1>2, RecordedOrders, FitStays DEF market
    <2>2. QED
      BY <2>1 DEF AttemptsFit, Exists
  <1>4. RowIsSound(p)'
    BY <1>1, <1>2 DEF RowIsSound, Paid, market, IsFinal
  <1>5. QED
    BY <1>1, <1>2, <1>3, <1>4, PaymentKeeps

LEMMA ReconcileWriteStep ==
  ASSUME IInv, NEW c \in Call, ReconcileWrites(c)
  PROVE  Sound'
  <1>p. PICK p \in Payment : p = job[c].payment
    BY JobIsJob
  <1>0. /\ pc[c] = "write" /\ ~Places(c) /\ Stored(p)
        /\ RecordedFor(held[c].order, p)
        /\ held[c].found = "COMPLETED" => Paid(held[c].order)
    BY <1>p
       DEF IInv, RequestsSound, HasChecked, Carries, ReconcileWrites, At,
           Places
  <1>1. UNCHANGED <<breakers, job, held, attempts, market>>
    BY DEF ReconcileWrites
  <1>2. \/ held[c].found = "COMPLETED" /\ SetStatus(p, "SUCCESS")
        \/ SetStatus(p, "FAILED")
        \/ UNCHANGED payments
    BY <1>p DEF ReconcileWrites
  <1>3. Goto(c, "committed") /\ answer' = answer
    BY DEF ReconcileWrites
  <1>4. Grow /\ \A q \in Payment :
                  AttemptsFit(q)' /\ (Stored(q)' => RowIsSound(q)')
    <2>1. ASSUME held[c].found = "COMPLETED", SetStatus(p, "SUCCESS")
          PROVE  Grow /\ \A q \in Payment :
                   AttemptsFit(q)' /\ (Stored(q)' => RowIsSound(q)')
      <3>1. \E n \in DOMAIN attempts[p] : Paid(attempts[p][n].order)
        BY <1>0, <2>1 DEF RecordedFor
      <3>2. QED
        BY <1>0, <1>1, <2>1, <3>1, StatusGrows, StatusSound
           DEF Status, IsFinal
    <2>2. ASSUME SetStatus(p, "FAILED")
          PROVE  Grow /\ \A q \in Payment :
                   AttemptsFit(q)' /\ (Stored(q)' => RowIsSound(q)')
      BY <1>0, <1>1, <2>2, StatusGrows, StatusSound DEF Status, IsFinal
    <2>3. CASE UNCHANGED payments
      <3>1. Grow
        BY <1>1, <2>3, StandingStill DEF tables
      <3>2. QED
        BY <1>1, <2>3, <3>1, PaymentKeeps
    <2>4. QED
      BY <1>2, <2>1, <2>2, <2>3
  <1>5. QED
    BY <1>0, <1>1, <1>3, <1>4, Writing

-----------------------------------------------------------------------------
(* What happens from outside.                                              *)

LEMMA Aside ==
  ASSUME IInv, Grow, UNCHANGED <<pc, held, answer, call>>,
         \A o \in Order : orders'[o] # "NONE" => orders[o] # "NONE",
         \A p \in Payment : AttemptsFit(p)' /\ (Stored(p)' => RowIsSound(p)')
  PROVE  Sound'
  <1>1. \A c \in Call : Same(c)
    BY DEF Same
  <1>2. RequestsSound'
    BY <1>1, RequestKeeps DEF RequestsSound, Fine
  <1>3. OrdersSound'
    <2>1. ASSUME NEW o \in Order, orders'[o] # "NONE"
          PROVE  IsPlaced(o)' /\ IsTold(o)'
      <3>1. orders[o] # "NONE" /\ placedBy[o] \in Call
        BY <2>1 DEF IInv, OrdersSound, IsPlaced
      <3>2. QED
        BY <1>1, <3>1, PlacedStays, ToldStays
    <2>2. QED
      BY <2>1 DEF OrdersSound
  <1>4. QED
    BY <1>2, <1>3 DEF Sound, RowsSound, AttemptsSound

LEMMA SettleStep ==
  ASSUME IInv, NEW o \in Order, NEW s \in OrderState, Settle(o, s)
  PROVE  Sound'
  <1>1. /\ UNCHANGED <<breakers, pc, job, held, answer, tables, placedBy>>
        /\ orders' = [orders EXCEPT ![o] = s]
        /\ orders[o] \in {"PENDING", "COMPLETED"} /\ s # "NONE"
        /\ orders[o] = "COMPLETED" => s = "REFUNDED"
        /\ orders \in [Order -> OrderState]
    BY DEF Settle, IInv, TypeOK
  <1>2. Grow
    BY <1>1 DEF Grow, Stored, Paid, tables
  <1>3. \A p \in Payment : AttemptsFit(p)' /\ (Stored(p)' => RowIsSound(p)')
    BY <1>1, <1>2, PaymentKeeps DEF tables
  <1>4. \A x \in Order : orders'[x] # "NONE" => orders[x] # "NONE"
    BY <1>1
  <1>5. QED
    BY <1>1, <1>2, <1>3, <1>4, Aside DEF breakers

LEMMA EscalateStep ==
  ASSUME IInv, NEW p \in Payment, Escalate(p)
  PROVE  Sound'
  <1>1. /\ Stored(p) /\ SetStatus(p, "PENDING_RECONCILIATION")
        /\ ~IsFinal(payments[p].status)
        /\ UNCHANGED <<breakers, pc, job, held, answer, attempts, market>>
    BY DEF Escalate, IsFinal
  <1>2. Grow
    BY <1>1, StatusGrows DEF Status
  <1>3. \A q \in Payment : AttemptsFit(q)' /\ (Stored(q)' => RowIsSound(q)')
    BY <1>1, StatusSound DEF Status
  <1>4. \A o \in Order : orders'[o] # "NONE" => orders[o] # "NONE"
    BY <1>1 DEF market
  <1>5. QED
    BY <1>1, <1>2, <1>3, <1>4, Aside DEF breakers

LEMMA StillStep ==
  ASSUME IInv, Tick \/ UNCHANGED vars
  PROVE  Sound'
  <1>1. UNCHANGED <<pc, job, held, answer, call, tables, market>>
    BY DEF Tick, CB!Tick, vars, breakers
  <1>2. Grow
    BY <1>1, StandingStill
  <1>3. \A p \in Payment : AttemptsFit(p)' /\ (Stored(p)' => RowIsSound(p)')
    BY <1>1, <1>2, PaymentKeeps DEF tables
  <1>4. \A o \in Order : orders'[o] # "NONE" => orders[o] # "NONE"
    BY <1>1 DEF market
  <1>5. QED
    BY <1>1, <1>2, <1>3, <1>4, Aside

LEMMA SoundStep ==
  ASSUME IInv, [Next]_vars
  PROVE  Sound'
  <1>1. ASSUME NEW c \in Call, Serve(c)
        PROVE  Sound'
    BY <1>1, Quitting, Admitting, Sending, Answering, Inquiring, Hearing,
       CreateWriteStep, RetryWriteStep, ReconcileWriteStep DEF Serve
  <1>2. ASSUME NEW c \in Call, ProviderTakes(c) \/ Drop(c)
        PROVE  Sound'
    BY <1>2, Taking, Dropping
  <1>3. QED
    BY <1>1, <1>2, SettleStep, EscalateStep, StillStep DEF Next

-----------------------------------------------------------------------------
(* The types.                                                              *)

LEMMA BreakersSound ==
  ASSUME IInv, [Next]_vars
  PROVE  P!IInv' /\ CB!TypeOK'
  <1>1. P!IInv'
    BY BreakersStep, P!InvStep, BreakerAssumptions DEF IInv
  <1>2. CB!TypeOK' <=> P!TypeOK'
    BY DEF CB!TypeOK, P!TypeOK, CB!Breaker, P!Breaker, CB!Task, P!Task,
           CB!Open, P!Open, CB!Closed, P!Closed, CB!StreakBound, P!StreakBound
  <1>3. QED
    BY <1>1, <1>2 DEF P!IInv

LEMMA ControlTyped ==
  ASSUME TypeOK, [Next]_vars
  PROVE  /\ pc' \in [Call -> Stage] /\ job' \in [Call -> Job]
         /\ answer' \in [Call -> Reply]
  <1>0. /\ pc \in [Call -> Stage] /\ job \in [Call -> Job]
        /\ answer \in [Call -> Reply]
    BY DEF TypeOK
  <1> USE DEF Goto, Finish, Stage, Reply
  <1>1. ASSUME NEW c \in Call, Serve(c)
        PROVE  /\ pc' \in [Call -> Stage] /\ job' = job
               /\ answer' \in [Call -> Reply]
    <2>1. CASE \/ CreateRefused(c) \/ RetryRefused(c) \/ ReconcileRefused(c)
               \/ NotFound(c) \/ ReadFails(c) \/ WriteFails(c) \/ Respond(c)
      BY <1>0, <2>1 DEF CreateRefused, RetryRefused, ReconcileRefused,
                        NotFound, ReadFails, WriteFails, Respond, End
    <2>2. CASE \/ CreateAdmitted(c) \/ RetryAdmitted(c) \/ Look(c)
               \/ NoProvider(c) \/ Send(c)
      BY <1>0, <2>2 DEF CreateAdmitted, RetryAdmitted, Look, NoProvider, Send
    <2>3. CASE AdapterRefuses(c) \/ CreateFails(c) \/ CreateAnswered(c)
      BY <1>0, <2>3 DEF AdapterRefuses, CreateFails, CreateAnswered
    <2>4. CASE CreateWrites(c) \/ RetryWrites(c) \/ ReconcileWrites(c)
      BY <1>0, <2>4 DEF CreateWrites, RetryWrites, ReconcileWrites
    <2>5. CASE Inquire(c) \/ InquiryAnswered(c) \/ InquiryFails(c)
      BY <1>0, <2>5 DEF Inquire, InquiryAnswered, InquiryFails
    <2>6. QED
      BY <1>1, <2>1, <2>2, <2>3, <2>4, <2>5 DEF Serve
  <1>2. ASSUME NEW c \in Call, ProviderTakes(c) \/ Drop(c)
        PROVE  /\ pc' \in [Call -> Stage] /\ job' = job /\ answer' = answer
    BY <1>0, <1>2 DEF ProviderTakes, Drop
  <1>3. CASE \/ \E o \in Order, s \in OrderState : Settle(o, s)
             \/ \E p \in Payment : Escalate(p)
             \/ Tick \/ UNCHANGED vars
    BY <1>0, <1>3 DEF Settle, Escalate, Tick, vars
  <1>4. QED
    BY <1>0, <1>1, <1>2, <1>3 DEF Next

LEMMA HeldTyped ==
  ASSUME IInv, [Next]_vars
  PROVE  held' \in [Call -> Held]
  <1>0. /\ TypeOK /\ held \in [Call -> Held]
        /\ orders \in [Order -> OrderState]
    BY DEF IInv, TypeOK
  <1>1. ASSUME NEW c \in Call, CreateAdmitted(c)
        PROVE  held' \in [Call -> Held]
    BY <1>0, <1>1 DEF CreateAdmitted, Held
  <1>2. ASSUME NEW c \in Call, RetryAdmitted(c)
        PROVE  held' \in [Call -> Held]
    <2>1. Len(attempts[job[c].payment]) \in Nat
      BY JobIsJob DEF IInv, TypeOK
    <2>2. held' = [held EXCEPT ![c].number =
                     Len(attempts[job[c].payment]) + 1]
      BY <1>2 DEF RetryAdmitted
    <2>3. PICK k \in Nat : k = Len(attempts[job[c].payment]) + 1
      BY <2>1
    <2>4. held' = [held EXCEPT ![c].number = k]
      BY <2>2, <2>3
    <2>5. QED
      BY <1>0, <2>4 DEF Held
  <1>3. ASSUME NEW c \in Call, CreateAnswered(c)
        PROVE  held' \in [Call -> Held]
    <2>1. OrderOf(call[c].at, c) \in Order
      BY <1>0, <1>3, OrderOfIsOrder
         DEF IInv, RequestsSound, InPace, CreateAnswered
    <2>2. QED
      BY <1>0, <1>3, <2>1 DEF CreateAnswered, Held
  <1>4. ASSUME NEW c \in Call, Inquire(c)
        PROVE  held' \in [Call -> Held]
    BY <1>0, <1>4, InquireAsksProvider DEF Held
  <1>5. ASSUME NEW c \in Call, InquiryAnswered(c) \/ InquiryFails(c)
        PROVE  held' \in [Call -> Held]
    <2>1. pc[c] = "query"
      BY <1>5 DEF InquiryAnswered, InquiryFails
    <2>2. held[c].order \in Order
      BY <2>1 DEF IInv, RequestsSound, HasChecked, Carries
    <2>3. PICK f \in Found : held' = [held EXCEPT ![c].found = f]
      BY <1>0, <1>5, <2>2 DEF InquiryAnswered, InquiryFails, Found
    <2>4. QED
      BY <1>0, <2>3 DEF Held
  <1>6. ASSUME NEW c \in Call,
               \/ CreateRefused(c) \/ RetryRefused(c) \/ ReconcileRefused(c)
               \/ NotFound(c) \/ ReadFails(c) \/ WriteFails(c) \/ Respond(c)
               \/ Look(c) \/ NoProvider(c) \/ Send(c)
               \/ AdapterRefuses(c) \/ CreateFails(c)
               \/ CreateWrites(c) \/ RetryWrites(c) \/ ReconcileWrites(c)
        PROVE  held' = held
    BY <1>6 DEF CreateRefused, RetryRefused, ReconcileRefused, NotFound,
                ReadFails, WriteFails, Respond, End, Look, NoProvider, Send,
                AdapterRefuses, CreateFails, CreateWrites, RetryWrites,
                ReconcileWrites
  <1>7. ASSUME NEW c \in Call, ProviderTakes(c) \/ Drop(c)
        PROVE  held' = held
    BY <1>7 DEF ProviderTakes, Drop
  <1>8. CASE \/ \E o \in Order, s \in OrderState : Settle(o, s)
             \/ \E p \in Payment : Escalate(p)
             \/ Tick \/ UNCHANGED vars
    BY <1>0, <1>8 DEF Settle, Escalate, Tick, vars
  <1>9. QED
    BY <1>0, <1>1, <1>2, <1>3, <1>4, <1>5, <1>6, <1>7, <1>8 DEF Next, Serve

LEMMA TablesTyped ==
  ASSUME IInv, [Next]_vars
  PROVE  /\ payments' \in [Payment -> Row \cup {None}]
         /\ attempts' \in [Payment -> Seq(Attempt)]
  <1>0. /\ payments \in [Payment -> Row \cup {None}]
        /\ attempts \in [Payment -> Seq(Attempt)]
    BY DEF IInv, TypeOK
  <1>1. ASSUME NEW c \in Call, CreateWrites(c)
        PROVE  /\ payments' \in [Payment -> Row \cup {None}]
               /\ attempts' \in [Payment -> Seq(Attempt)]
    <2>1. payments' \in [Payment -> Row \cup {None}]
      BY <1>0, <1>1, JobIsJob, NewRowIsRow DEF CreateWrites, Status, Job
    <2>2. pc[c] = "write" /\ Places(c) /\ AddAttempt(c)
      BY <1>1 DEF CreateWrites, At, Places
    <2>3. QED
      BY <1>0, <2>1, <2>2, JobIsJob, Adding, Appended
  <1>2. ASSUME NEW c \in Call, RetryWrites(c)
        PROVE  /\ payments' \in [Payment -> Row \cup {None}]
               /\ attempts' \in [Payment -> Seq(Attempt)]
    <2>1. pc[c] = "write" /\ Places(c) /\ AddAttempt(c)
      BY <1>2 DEF RetryWrites, At, Places
    <2>2. Stored(job[c].payment)
      BY <1>2 DEF IInv, RequestsSound, HasChecked, RetryWrites, At
    <2>3. payments' \in [Payment -> Row \cup {None}]
      BY <1>2, <2>2, JobIsJob, StatusSet DEF RetryWrites, Status
    <2>4. QED
      BY <1>0, <2>1, <2>3, JobIsJob, Adding, Appended
  <1>3. ASSUME NEW c \in Call, ReconcileWrites(c)
        PROVE  /\ payments' \in [Payment -> Row \cup {None}]
               /\ attempts' \in [Payment -> Seq(Attempt)]
    <2>1. Stored(job[c].payment)
      BY <1>3 DEF IInv, RequestsSound, HasChecked, ReconcileWrites, At, Places
    <2>2. \/ \E s \in Status : SetStatus(job[c].payment, s)
          \/ UNCHANGED payments
      BY <1>3 DEF ReconcileWrites, Status
    <2>3. payments' \in [Payment -> Row \cup {None}]
      BY <1>0, <2>1, <2>2, JobIsJob, StatusSet
    <2>4. QED
      BY <1>0, <1>3, <2>3 DEF ReconcileWrites
  <1>4. ASSUME NEW c \in Call, Serve(c), ~CreateWrites(c), ~RetryWrites(c),
               ~ReconcileWrites(c)
        PROVE  UNCHANGED tables
    BY <1>4 DEF Serve, CreateRefused, RetryRefused, ReconcileRefused,
                NotFound, ReadFails, WriteFails, Respond, End, Look, NoProvider, Send,
                AdapterRefuses, CreateFails, CreateAdmitted, RetryAdmitted,
                CreateAnswered, Inquire, InquiryAnswered, InquiryFails
  <1>5. ASSUME NEW c \in Call, ProviderTakes(c) \/ Drop(c)
        PROVE  UNCHANGED tables
    BY <1>5 DEF ProviderTakes, Drop
  <1>6. ASSUME NEW p \in Payment, Escalate(p)
        PROVE  /\ payments' \in [Payment -> Row \cup {None}]
               /\ attempts' \in [Payment -> Seq(Attempt)]
    BY <1>0, <1>6, StatusSet DEF Escalate, Status
  <1>7. CASE \/ \E o \in Order, s \in OrderState : Settle(o, s)
             \/ Tick \/ UNCHANGED vars
    BY <1>0, <1>7 DEF Settle, Tick, vars, tables
  <1>8. QED
    BY <1>0, <1>1, <1>2, <1>3, <1>4, <1>5, <1>6, <1>7 DEF Next, tables

LEMMA MarketTyped ==
  ASSUME IInv, [Next]_vars
  PROVE  /\ orders' \in [Order -> OrderState]
         /\ placedBy' \in [Order -> Call \cup {None}]
         /\ faulty' \subseteq Provider
  <1>0. /\ orders \in [Order -> OrderState]
        /\ placedBy \in [Order -> Call \cup {None}] /\ faulty \subseteq Provider
        /\ TypeOK
    BY DEF IInv, TypeOK
  <1>1. ASSUME NEW c \in Call, CreateFails(c)
        PROVE  UNCHANGED market /\ faulty' \subseteq Provider
    <2>1. call[c].at \in Provider
      BY <1>1 DEF CreateFails, IInv, RequestsSound, InPace
    <2>2. QED
      BY <1>0, <1>1, <2>1 DEF CreateFails
  <1>2. ASSUME NEW c \in Call, InquiryFails(c)
        PROVE  UNCHANGED market /\ faulty' \subseteq Provider
    <2>1. held[c].order \in Order
      BY <1>2 DEF InquiryFails, IInv, RequestsSound, HasChecked, Carries
    <2>2. QED
      BY <1>0, <1>2, <2>1 DEF InquiryFails, Order
  <1>3. ASSUME NEW c \in Call, Serve(c), ~CreateFails(c), ~InquiryFails(c)
        PROVE  UNCHANGED <<market, faulty>>
    BY <1>3 DEF Serve, CreateRefused, RetryRefused, ReconcileRefused,
                NotFound, ReadFails, WriteFails, Respond, End, Look, NoProvider, Send,
                AdapterRefuses, CreateAdmitted, RetryAdmitted, CreateAnswered,
                Inquire, InquiryAnswered, CreateWrites, RetryWrites,
                ReconcileWrites
  <1>4. ASSUME NEW c \in Call, ProviderTakes(c)
        PROVE  /\ orders' \in [Order -> OrderState]
               /\ placedBy' \in [Order -> Call \cup {None}] /\ faulty' = faulty
    BY <1>0, <1>4 DEF ProviderTakes, OrderState, market
  <1>5. ASSUME NEW c \in Call, Drop(c)
        PROVE  UNCHANGED <<market, faulty>>
    BY <1>5 DEF Drop
  <1>6. ASSUME NEW o \in Order, NEW s \in OrderState, Settle(o, s)
        PROVE  /\ orders' \in [Order -> OrderState]
               /\ UNCHANGED <<placedBy, faulty>>
    BY <1>0, <1>6 DEF Settle
  <1>7. CASE (\E p \in Payment : Escalate(p)) \/ Tick \/ UNCHANGED vars
    BY <1>0, <1>7 DEF Escalate, Tick, vars, market
  <1>8. QED
    BY <1>0, <1>1, <1>2, <1>3, <1>4, <1>5, <1>6, <1>7 DEF Next, market

-----------------------------------------------------------------------------
LEMMA InvStep == IInv /\ [Next]_vars => IInv'
  <1> SUFFICES ASSUME IInv, [Next]_vars PROVE IInv'
    OBVIOUS
  <1>1. TypeOK'
    BY BreakersSound, ControlTyped, HeldTyped, TablesTyped, MarketTyped
       DEF IInv, TypeOK
  <1>2. QED
    BY <1>1, BreakersSound, SoundStep DEF IInv, Sound

LEMMA Invariance == Spec => []IInv
  BY InitInv, InvStep, PTL DEF Spec

(* The types, for any providers, payments, references and requests.         *)
THEOREM TypeCorrect == Spec => []TypeOK
  <1>1. IInv => TypeOK
    BY DEF IInv
  <1>2. QED
    BY <1>1, Invariance, PTL

(* However creates, retries and reconciliations of several merchants meet   *)
(* at the providers: SUCCESS means that an order of the payment was paid,   *)
(* and one placed for it, or at a provider that goes by references for a    *)
(* payment with its reference.                                             *)
THEOREM SuccessAlwaysPaidFor == Spec => []SuccessIsPaidFor
  <1>1. IInv => SuccessIsPaidFor
    <2> SUFFICES ASSUME IInv, NEW p \in Payment, Stored(p),
                        payments[p].status = "SUCCESS"
                 PROVE  \E n \in DOMAIN attempts[p] :
                          LET o == attempts[p][n].order IN
                          Paid(o) /\ Fits(o, p)
      BY DEF SuccessIsPaidFor, Fits
    <2>1. PICK n \in DOMAIN attempts[p] : Paid(attempts[p][n].order)
      BY DEF IInv, RowsSound, RowIsSound
    <2>2. QED
      BY <2>1, RecordedOrders
  <1>2. QED
    BY <1>1, Invariance, PTL

(* However calls, answers, transactions and clients fail: an order that no  *)
(* attempt records was placed by a request that is under way, was dropped,  *)
(* or was answered with an error that leaves it open.                      *)
THEOREM OrdersAlwaysTold == Spec => []OrdersAreTold
  <1>1. IInv => OrdersAreTold
    BY NoneAssumption DEF IInv, OrdersSound, IsPlaced, IsTold, OrdersAreTold,
                          LeavesOpen
  <1>2. QED
    BY <1>1, Invariance, PTL

(* A final payment has a completion time, and one that is not final has     *)
(* none unless it was retried.                                             *)
THEOREM CompletedAtAlwaysSound == Spec => []CompletedAtIsSound
  <1>1. IInv => CompletedAtIsSound
    BY DEF IInv, RowsSound, RowIsSound, CompletedAtIsSound
  <1>2. QED
    BY <1>1, Invariance, PTL
-----------------------------------------------------------------------------
(* The breakers keep their specification here too.                         *)

(* Driven by creates, retries and reconciliations, with requests dropped at *)
(* any await, the breakers do what they do on their own: all that is proved *)
(* of CircuitBreaker holds of them here.                                   *)
THEOREM BreakersAreKept == Spec => P!Spec
  <1>1. Init => P!Init
    BY DEF Init, CB!Init, P!Init, CB!Closed, P!Closed, CB!Idle, P!Idle,
           CB!Doing, P!Doing
  <1>2. IInv /\ [Next]_vars => [P!Next]_P!vars
    BY BreakersStep DEF IInv
  <1>3. QED
    BY <1>1, <1>2, Invariance, PTL DEF Spec, P!Spec

(* So here too a provider is out of the selection exactly when its breaker  *)
(* counted the failures in a row that open it, and the time has not passed. *)
THEOREM BreakersStayExact == Spec => []P!OutExactlyWhenFailing
  BY BreakerAssumptions, BreakersAreKept, P!BreakerIsExact, PTL

(* And a selection that is over chose the best of the breakers it saw.      *)
THEOREM SelectionsStayRight == Spec => []P!ScanFindsBest
  BY BreakerAssumptions, BreakersAreKept, P!ScanIsRight, PTL

-----------------------------------------------------------------------------
(* Why a provider is out of the selection.                                 *)

(* A status query is at the provider of the order it carries; only a        *)
(* request that has its answer holds one.                                  *)
QueriesInPlace ==
  \A c \in Call :
    /\ pc[c] = "query" => call[c].at = held[c].order.at
    /\ held[c].found # "NOTHING" =>
         pc[c] \in {"write", "committed", "done", "dropped"}

(* Each failure since the last success of a provider that was never at      *)
(* fault is of a request of its own that sent nothing.                     *)
FailuresAreUnsent ==
  \A v \in Provider \ faulty : streak[v] <= Cardinality(Unsent(v))

Acts(c) == Serve(c) \/ ProviderTakes(c) \/ Drop(c)

LEMMA OthersSame ==
  ASSUME IInv, NEW c \in Call, Acts(c)
  PROVE  Others(c)
  <1>0. /\ pc \in [Call -> Stage] /\ held \in [Call -> Held]
        /\ answer \in [Call -> Reply] /\ CB!TypeOK
    BY DEF IInv, TypeOK
  <1> USE DEF Others, Same, Goto, Finish, End, breakers
  <1>1. CASE \/ CreateRefused(c) \/ RetryRefused(c) \/ ReconcileRefused(c)
             \/ NotFound(c) \/ ReadFails(c) \/ WriteFails(c) \/ Respond(c)
             \/ CreateWrites(c) \/ RetryWrites(c) \/ ReconcileWrites(c)
             \/ ProviderTakes(c)
    BY <1>0, <1>1 DEF CreateRefused, RetryRefused, ReconcileRefused, NotFound,
         ReadFails, WriteFails, Respond, CreateWrites, RetryWrites, ReconcileWrites,
         ProviderTakes
  <1>2. CASE Look(c) \/ NoProvider(c) \/ Send(c)
    <2>1. \A d \in Call \ {c} : call'[d] = call[d]
      BY <1>0, <1>2, Selecting DEF Look, NoProvider, Send, TurnsTo
    <2>2. QED
      BY <1>0, <1>2, <2>1 DEF Look, NoProvider, Send
  <1>3. CASE CreateAdmitted(c) \/ RetryAdmitted(c)
    <2>1. \A d \in Call \ {c} : call'[d] = call[d]
      BY <1>0, <1>3, Selecting DEF CreateAdmitted, RetryAdmitted, TurnsTo
    <2>2. \A d \in Call \ {c} : held'[d] = held[d]
      BY <1>0, <1>3 DEF CreateAdmitted, RetryAdmitted
    <2>3. QED
      BY <1>0, <1>3, <2>1, <2>2 DEF CreateAdmitted, RetryAdmitted
  <1>4. CASE Inquire(c)
    <2>1. PICK n : /\ CB!StatusStarts(c, n.at)
                   /\ held' = [held EXCEPT ![c].order = n]
      BY <1>4 DEF Inquire
    <2>2. \A d \in Call \ {c} : call'[d] = call[d] /\ held'[d] = held[d]
      BY <1>0, <2>1, Selecting DEF TurnsTo
    <2>3. QED
      BY <1>0, <1>4, <2>2 DEF Inquire
  <1>5. CASE \/ AdapterRefuses(c) \/ CreateFails(c) \/ CreateAnswered(c)
             \/ InquiryAnswered(c) \/ InquiryFails(c)
    <2>1. \A d \in Call \ {c} : call'[d] = call[d]
      BY <1>0, <1>5, Ending DEF AdapterRefuses, CreateFails, CreateAnswered,
           InquiryAnswered, InquiryFails, TurnsTo
    <2>2. \A d \in Call \ {c} : held'[d] = held[d]
      BY <1>0, <1>5 DEF AdapterRefuses, CreateFails, CreateAnswered,
           InquiryAnswered, InquiryFails
    <2>3. QED
      BY <1>0, <1>5, <2>1, <2>2 DEF AdapterRefuses, CreateFails,
           CreateAnswered, InquiryAnswered, InquiryFails
  <1>6. CASE Drop(c)
    <2>1. \A d \in Call \ {c} : call'[d] = call[d]
      BY <1>0, <1>6, Ending DEF Drop, TurnsTo
    <2>2. QED
      BY <1>0, <1>6, <2>1 DEF Drop
  <1>7. QED
    BY <1>1, <1>2, <1>3, <1>4, <1>5, <1>6 DEF Acts, Serve

(* Steps of nobody. *)
LEMMA NobodyActs ==
  ASSUME [Next]_vars, ~\E c \in Call : Acts(c)
  PROVE  \A d \in Call : Same(d)
  BY DEF Next, Acts, Settle, Escalate, Tick, CB!Tick, vars, breakers, Same

(* A request that acts late only writes, is answered or is dropped.         *)
LEMMA LateActs ==
  ASSUME IInv, NEW c \in Call, Acts(c),
         pc[c] \in {"write", "committed", "done", "dropped"}
  PROVE  /\ pc[c] \in {"write", "committed"}
         /\ pc'[c] \in {"committed", "done", "dropped"}
         /\ held' = held
  <1>0. pc \in [Call -> Stage] /\ InPace(c) /\ CB!TypeOK
    BY DEF IInv, TypeOK, RequestsSound
  <1>1. call[c].stage = "idle"
    BY NotCalling
  <1>2. ~(Look(c) \/ NoProvider(c) \/ Send(c))
    BY <1>0, <1>1, Selecting DEF Look, NoProvider, Send
  <1>3. QED
    BY <1>0, <1>2 DEF Acts, Serve, CreateRefused, CreateAdmitted,
         RetryAdmitted, RetryRefused, ReconcileRefused, NotFound, ReadFails,
         AdapterRefuses, CreateFails, CreateAnswered, CreateWrites,
         RetryWrites, WriteFails, Respond, Inquire, InquiryAnswered, InquiryFails,
         ReconcileWrites, ProviderTakes, Drop, End, Finish, Goto, At

LEMMA QueriesStep ==
  ASSUME IInv, QueriesInPlace, [Next]_vars
  PROVE  QueriesInPlace'
  <1>0. /\ pc \in [Call -> Stage] /\ held \in [Call -> Held] /\ CB!TypeOK
        /\ TypeOK /\ call \in [Call -> CB!Task]
    BY DEF IInv, TypeOK, CB!TypeOK
  <1> DEFINE InPlace(c) ==
        /\ pc[c] = "query" => call[c].at = held[c].order.at
        /\ held[c].found # "NOTHING" =>
             pc[c] \in {"write", "committed", "done", "dropped"}
  <1>1. ASSUME NEW d \in Call, Same(d) PROVE InPlace(d)'
    BY <1>1 DEF Same, QueriesInPlace
  <1>2. ASSUME NEW c \in Call, Acts(c) PROVE InPlace(c)'
    <2> USE DEF Goto, Finish, End
    <2>1. CASE pc[c] \in {"write", "committed", "done", "dropped"}
      BY <2>1, <1>2, LateActs
    <2>2. CASE held[c].found = "NOTHING"
      <3>1. CASE Inquire(c)
        <4>1. PICK n : /\ CB!StatusStarts(c, n.at)
                       /\ held' = [held EXCEPT ![c].order = n]
          BY <3>1 DEF Inquire
        <4>2. call'[c].at = n.at
          BY <1>0, <4>1 DEF CB!StatusStarts, CB!Begin, CB!Doing
        <4>3. held'[c].order = n /\ held'[c].found = held[c].found
          BY <1>0, <4>1 DEF Held
        <4>4. QED
          BY <2>2, <4>2, <4>3
      <3>2. CASE InquiryAnswered(c) \/ InquiryFails(c)
        BY <1>0, <3>2 DEF InquiryAnswered, InquiryFails
      <3>3. CASE CreateAdmitted(c) \/ RetryAdmitted(c) \/ CreateAnswered(c)
        <4>1. pc'[c] \in {"select", "write"}
          BY <1>0, <3>3 DEF CreateAdmitted, RetryAdmitted, CreateAnswered
        <4>2. held'[c].found = held[c].found
          BY <1>0, <3>3 DEF CreateAdmitted, RetryAdmitted, CreateAnswered, Held
        <4>3. QED
          BY <2>2, <4>1, <4>2
      <3>4. CASE Look(c)
        <4>1. pc' = pc /\ held' = held /\ pc[c] # "query"
          <5>1. InPace(c)
            BY DEF IInv, RequestsSound
          <5>2. QED
            BY <1>0, <3>4, <5>1, Selecting DEF Look, InPace
        <4>2. QED
          BY <2>2, <4>1
      <3>5. CASE \/ CreateRefused(c) \/ RetryRefused(c) \/ ReconcileRefused(c)
                 \/ NotFound(c) \/ ReadFails(c) \/ WriteFails(c) \/ Respond(c)
                 \/ NoProvider(c) \/ Send(c)
                 \/ AdapterRefuses(c) \/ CreateFails(c) \/ CreateWrites(c)
                 \/ RetryWrites(c) \/ ReconcileWrites(c)
                 \/ ProviderTakes(c) \/ Drop(c)
        BY <1>0, <2>2, <3>5 DEF CreateRefused, RetryRefused, ReconcileRefused,
             NotFound, ReadFails, WriteFails, Respond, NoProvider, Send,
             AdapterRefuses, CreateFails, CreateWrites, RetryWrites,
             ReconcileWrites, ProviderTakes, Drop
      <3>6. QED
        BY <1>2, <3>1, <3>2, <3>3, <3>4, <3>5 DEF Acts, Serve
    <2>3. QED
      BY <2>1, <2>2 DEF QueriesInPlace
  <1>3. \A d \in Call : InPlace(d)'
    BY <1>1, <1>2, OthersSame, NobodyActs DEF Others
  <1>4. QED
    BY <1>3 DEF QueriesInPlace

(* What was done without sending anything was.                             *)
LEMMA UnsentStays ==
  ASSUME IInv, QueriesInPlace, [Next]_vars, NEW v \in Provider
  PROVE  Unsent(v) \subseteq Unsent(v)'
  <1> SUFFICES ASSUME NEW c \in Unsent(v) PROVE c \in Unsent(v)'
    OBVIOUS
  <1>1. c \in Call /\ job' = job
    BY DEF Unsent, Next, Serve, vars, tables, market, CreateRefused, CreateAdmitted,
         RetryAdmitted, RetryRefused, ReconcileRefused, NotFound, ReadFails,
         Look, NoProvider, Send, AdapterRefuses, CreateFails, CreateAnswered,
         CreateWrites, RetryWrites, WriteFails, Respond, Inquire, InquiryAnswered,
         InquiryFails, ReconcileWrites, ProviderTakes, Drop, Settle, Escalate,
         Tick, End
  <1>2. answer[c] = "PROVIDER_ERROR" => pc[c] = "done"
    BY <1>1 DEF IInv, RequestsSound, InPace
  <1>3. held[c].found = "ERROR" =>
          pc[c] \in {"write", "committed", "done", "dropped"}
    BY <1>1 DEF QueriesInPlace
  <1>4. CASE Same(c)
    BY <1>1, <1>4 DEF Unsent, Same
  <1>5. CASE Acts(c)
    BY <1>1, <1>2, <1>3, <1>5, LateActs DEF Unsent
  <1>6. QED
    BY <1>1, <1>4, <1>5, OthersSame, NobodyActs DEF Others
(* A streak grows by one, with a call of its provider that fails.           *)
LEMMA StreakGrows ==
  ASSUME IInv, [Next]_vars, NEW v \in Provider, ~(streak'[v] <= streak[v])
  PROVE  /\ streak'[v] = streak[v] + 1
         /\ \E c \in Call : /\ call[c].at = v
                            /\ \/ AdapterRefuses(c) \/ CreateFails(c)
                               \/ InquiryFails(c)
  <1>0. /\ CB!StreakBound \in Nat /\ streak \in [Provider -> 0..CB!StreakBound]
        /\ streak[v] \in Nat
    BY BreakerAssumption DEF IInv, TypeOK, CB!TypeOK, CB!StreakBound
  <1>1. ASSUME streak' = streak PROVE FALSE
    BY <1>0, <1>1
  <1>2. ASSUME NEW c \in Call, CB!CallSucceeds(c) PROVE FALSE
    BY <1>0, <1>2 DEF CB!CallSucceeds
  <1>3. ASSUME NEW c \in Call, CB!CallFails(c)
        PROVE  call[c].at = v /\ streak'[v] = streak[v] + 1
    BY <1>0, <1>3 DEF CB!CallFails
  <1>4. ASSUME NEW c \in Call, Acts(c)
        PROVE  AdapterRefuses(c) \/ CreateFails(c) \/ InquiryFails(c)
    BY <1>1, <1>2, <1>4
       DEF Acts, Serve, breakers, End, CreateRefused, CreateAdmitted,
           RetryAdmitted, RetryRefused, ReconcileRefused, NotFound, ReadFails,
           Look, NoProvider, Send, CreateAnswered, CreateWrites, RetryWrites,
           WriteFails, Respond, Inquire, InquiryAnswered, ReconcileWrites,
           ProviderTakes, Drop, CB!SelectStarts, CB!SelectLooks,
           CB!SelectFails, CB!CreateStarts, CB!StatusStarts, CB!CallDropped
  <1>5. PICK c \in Call : Acts(c)
    BY <1>1 DEF Next, Acts, Settle, Escalate, Tick, CB!Tick, vars, breakers
  <1>6. QED
    BY <1>3, <1>4, <1>5 DEF AdapterRefuses, CreateFails, InquiryFails

(* A failure that is not the provider's fault is of one more request.       *)
LEMMA NewlyUnsent ==
  ASSUME IInv, QueriesInPlace, NEW c \in Call, NEW v, call[c].at = v,
         AdapterRefuses(c) \/ CreateFails(c) \/ InquiryFails(c),
         v \notin faulty'
  PROVE  c \in Unsent(v)' /\ c \notin Unsent(v)
  <1>0. /\ answer \in [Call -> Reply] /\ held \in [Call -> Held]
        /\ job[c] \in Job /\ InPace(c) /\ HasChecked(c)
    BY JobIsJob DEF IInv, TypeOK, RequestsSound
  <1>1. ~CreateFails(c)
    BY DEF CreateFails
  <1>2. CASE AdapterRefuses(c)
    <2>1. /\ pc[c] = "sent" /\ job[c].payment \in Foreign /\ job' = job
          /\ answer' = [answer EXCEPT ![c] = "PROVIDER_ERROR"]
      BY <1>2 DEF AdapterRefuses, Finish
    <2>2. answer[c] = "NONE" /\ job[c].op # "reconcile"
      BY <1>0, <2>1 DEF InPace, HasChecked, Places
    <2>3. QED
      BY <1>0, <2>1, <2>2 DEF Unsent
  <1>3. CASE InquiryFails(c)
    <2>1. /\ pc[c] = "query" /\ job' = job /\ held[c].order.at = v
          /\ held' = [held EXCEPT ![c].found = "ERROR"]
      BY <1>3 DEF InquiryFails, QueriesInPlace
    <2>2. job[c].op = "reconcile" /\ answer[c] = "NONE"
      BY <1>0, <2>1 DEF InPace, HasChecked, Places, Job
    <2>3. v \notin Inquirable
      BY <1>3, <2>1 DEF InquiryFails
    <2>4. held[c].found # "ERROR"
      BY <2>1 DEF QueriesInPlace
    <2>5. held'[c].found = "ERROR" /\ held'[c].order = held[c].order
      BY <1>0, <2>1 DEF Held
    <2>6. QED
      BY <2>1, <2>2, <2>3, <2>4, <2>5 DEF Unsent
  <1>4. QED
    BY <1>1, <1>2, <1>3

LEMMA UnsentIsFinite ==
  ASSUME IsFiniteSet(Call), NEW v
  PROVE  /\ IsFiniteSet(Unsent(v)) /\ Cardinality(Unsent(v)) \in Nat
         /\ IsFiniteSet(Unsent(v)') /\ Cardinality(Unsent(v)') \in Nat
  <1>1. Unsent(v) \subseteq Call /\ Unsent(v)' \subseteq Call
    BY DEF Unsent
  <1>2. QED
    BY <1>1, FS_Subset, FS_CardinalityType
LEMMA FailuresStep ==
  ASSUME IsFiniteSet(Call), IInv, IInv', QueriesInPlace, FailuresAreUnsent,
         [Next]_vars
  PROVE  FailuresAreUnsent'
  <1> SUFFICES ASSUME NEW v \in Provider, v \notin faulty'
               PROVE  streak'[v] <= Cardinality(Unsent(v)')
    BY DEF FailuresAreUnsent
  <1> DEFINE before == Unsent(v)
  <1>1. /\ IsFiniteSet(before) /\ Cardinality(before) \in Nat
        /\ IsFiniteSet(before') /\ Cardinality(before') \in Nat
    BY UnsentIsFinite
  <1>2. before \subseteq before'
    BY UnsentStays
  <1>3. Cardinality(before) <= Cardinality(before')
    BY <1>1, <1>2, FS_Subset
  <1>4. streak[v] \in Nat /\ streak'[v] \in Nat
    BY BreakerAssumption DEF IInv, TypeOK, CB!TypeOK, CB!StreakBound
  <1>5. streak[v] <= Cardinality(before)
    <2>1. faulty \subseteq faulty'
      BY DEF Next, Serve, vars, CreateRefused, CreateAdmitted, RetryAdmitted,
         RetryRefused, ReconcileRefused, NotFound, ReadFails, Look, NoProvider,
         Send, AdapterRefuses, CreateFails, CreateAnswered, CreateWrites,
         RetryWrites, WriteFails, Respond, Inquire, InquiryAnswered, InquiryFails,
         ReconcileWrites, ProviderTakes, Drop, Settle, Escalate, Tick, End
    <2>2. QED
      BY <2>1 DEF FailuresAreUnsent
  <1>6. CASE streak'[v] <= streak[v]
    BY <1>1, <1>3, <1>4, <1>5, <1>6
  <1>7. CASE ~(streak'[v] <= streak[v])
    <2>1. streak'[v] = streak[v] + 1
      BY <1>7, StreakGrows
    <2>2. PICK c \in Call : /\ call[c].at = v
                            /\ \/ AdapterRefuses(c) \/ CreateFails(c)
                               \/ InquiryFails(c)
      BY <1>7, StreakGrows
    <2>3. c \in before' /\ c \notin before
      BY <2>2, NewlyUnsent
    <2>4. Cardinality(before \cup {c}) = Cardinality(before) + 1
      BY <1>1, <2>3, FS_AddElement
    <2>5. Cardinality(before \cup {c}) <= Cardinality(before')
      <3>1. before \cup {c} \subseteq before'
        BY <1>2, <2>3
      <3>2. QED
        BY <1>1, <3>1, FS_Subset
    <2>6. QED
      BY <1>1, <1>4, <1>5, <2>1, <2>4, <2>5
  <1>8. QED
    BY <1>6, <1>7

(* Among finitely many requests: a provider that never failed a request it  *)
(* was sent is out of the selection only after as many requests as open its *)
(* breaker, each a create in a foreign currency or a status query that its  *)
(* adapter cannot make, and each counted once.                              *)
THEOREM HealthyOutAlwaysUnsent ==
  ASSUME IsFiniteSet(Call)
  PROVE  Spec => []HealthyOutIsUnsent
  <1> DEFINE Inv == IInv /\ QueriesInPlace /\ FailuresAreUnsent
  <1>1. Init => Inv
    <2> SUFFICES ASSUME Init PROVE QueriesInPlace /\ FailuresAreUnsent
      BY InitInv
    <2>1. QueriesInPlace
      BY DEF Init, QueriesInPlace
    <2>2. ASSUME NEW v \in Provider PROVE streak[v] <= Cardinality(Unsent(v))
      <3>1. streak[v] = 0
        BY DEF Init, CB!Init
      <3>2. Cardinality(Unsent(v)) \in Nat
        BY UnsentIsFinite
      <3> DEFINE unsent == Cardinality(Unsent(v))
      <3>3. unsent \in Nat
        BY <3>2
      <3> HIDE DEF unsent
      <3>4. 0 <= unsent
        BY <3>3
      <3>5. QED
        BY <3>1, <3>4 DEF unsent
    <2>3. QED
      BY <2>1, <2>2 DEF FailuresAreUnsent
  <1>2. Inv /\ [Next]_vars => Inv'
    BY InvStep, QueriesStep, FailuresStep
  <1>3. Inv => HealthyOutIsUnsent
    <2> SUFFICES ASSUME Inv, NEW v \in Configured \ faulty, ~CB!IsAvailable(v)
                 PROVE  Unsent(v) # {} /\ Cardinality(Unsent(v)) >= Threshold
      BY DEF HealthyOutIsUnsent
    <2>1. /\ v \in Provider /\ streak[v] \in Nat /\ Threshold \in Nat
      BY SelectionAssumption, BreakerAssumption
         DEF IInv, TypeOK, CB!TypeOK, CB!StreakBound
    <2>2. streak[v] > 0 /\ streak[v] >= Threshold
      <3>1. P!Exact(v) /\ P!IsOpen(v)
        BY <2>1, SameBreakers DEF IInv, P!IInv, P!IsAvailable
      <3>2. QED
        BY <3>1 DEF P!Exact
    <2>3. streak[v] <= Cardinality(Unsent(v))
      BY <2>1 DEF FailuresAreUnsent
    <2>4. Cardinality(Unsent(v)) \in Nat
      BY UnsentIsFinite
    <2>5. Cardinality(Unsent(v)) >= Threshold /\ Cardinality(Unsent(v)) > 0
      BY <2>1, <2>2, <2>3, <2>4
    <2>6. Unsent(v) # {}
      BY <2>5, FS_EmptySet
    <2>7. QED
      BY <2>5, <2>6
  <1>4. QED
    BY <1>1, <1>2, <1>3, PTL DEF Spec
=============================================================================
