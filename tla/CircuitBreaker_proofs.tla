-------------------------- MODULE CircuitBreaker_proofs --------------------------
(***************************************************************************)
(* Proofs about CircuitBreaker: the types, that a provider is out of the    *)
(* selection exactly when it has been failing, and that a scan finds the    *)
(* best provider.                                                          *)
(***************************************************************************)
EXTENDS CircuitBreaker, TLAPS

(* What each state of a breaker says of the outcomes recorded for it.       *)
Exact(v) ==
  IF IsOpen(v)
    THEN streak[v] > 0 /\ streak[v] >= Threshold /\ breaker[v].age = quiet[v]
    ELSE breaker[v].failures = streak[v] /\ (streak[v] < Threshold \/ streak[v] = 0)

IInv == TypeOK /\ \A v \in Provider : Exact(v)

-----------------------------------------------------------------------------
(* The two shapes of a breaker.                                            *)

LEMMA ClosedShape ==
  ASSUME NEW n \in 0..Threshold
  PROVE  /\ Closed(n) \in Breaker
         /\ Closed(n).state = "Closed" /\ Closed(n).failures = n
  BY DEF Closed, Breaker

LEMMA OpenShape ==
  ASSUME NEW t \in 0..OpenDuration
  PROVE  /\ Open(t) \in Breaker
         /\ Open(t).state = "Open" /\ Open(t).age = t
  BY DEF Open, Breaker

LEMMA BreakerShape ==
  ASSUME NEW b \in Breaker
  PROVE  \/ /\ b.state = "Closed" /\ b.failures \in 0..Threshold
            /\ b = Closed(b.failures)
         \/ /\ b.state = "Open" /\ b.age \in 0..OpenDuration
            /\ b = Open(b.age)
  BY DEF Closed, Open, Breaker

LEMMA LaterStays ==
  ASSUME NEW t \in 0..OpenDuration
  PROVE  Later(t) \in 0..OpenDuration
  BY DurationAssumption DEF Later

LEMMA DoingTask ==
  ASSUME NEW stage \in {"idle", "scan", "create", "status"},
         NEW v \in Provider \cup {None}
  PROVE  Doing(stage, v) \in Task
  <1>1. Len(Registered) \in Nat
    BY RegisteredAssumption
  <1>2. QED
    BY <1>1 DEF Doing, Task

LEMMA IdleTask == Idle \in Task
  BY DoingTask DEF Idle

-----------------------------------------------------------------------------
LEMMA InitInv == Init => IInv
  <1> SUFFICES ASSUME Init PROVE IInv
    OBVIOUS
  <1>1. \A v \in Provider : /\ breaker[v] \in Breaker
                            /\ ~IsOpen(v) /\ breaker[v].failures = 0
    <2>1. /\ Closed(0) \in Breaker
          /\ Closed(0).state = "Closed" /\ Closed(0).failures = 0
      BY ThresholdAssumption, ClosedShape
    <2>2. QED
      BY <2>1 DEF Init, IsOpen
  <1>2. TypeOK
    BY <1>1, IdleTask, ThresholdAssumption, DurationAssumption
       DEF Init, TypeOK, StreakBound
  <1>3. \A v \in Provider : Exact(v)
    BY <1>1 DEF Init, Exact
  <1>4. QED
    BY <1>2, <1>3 DEF IInv

(* What the tasks do to themselves keeps their types.                       *)
LEMMA TaskStep ==
  ASSUME IInv, [Next]_vars
  PROVE  call' \in [Call -> Task] /\ settled' \subseteq Call
  <1>1. Len(Registered) \in Nat
    BY RegisteredAssumption
  <1>2. call \in [Call -> Task] /\ settled \subseteq Call
    BY DEF IInv, TypeOK
  <1>3. settled' \subseteq Call
    BY <1>2 DEF Next, Select, CallEnds, vars, SelectStarts, SelectLooks,
         SelectFails, CreateStarts, StatusStarts, CallSucceeds, CallFails,
         CallDropped, Tick, Resettle
  <1>4. ASSUME NEW c \in Call, SelectStarts(c)
        PROVE  call' \in [Call -> Task]
    BY <1>2, <1>4, DoingTask DEF SelectStarts
  <1>5. ASSUME NEW c \in Call, SelectLooks(c)
        PROVE  call' \in [Call -> Task]
    <2>1. call[c] \in Task /\ call[c].next \in 1..Len(Registered)
      BY <1>1, <1>2, <1>5 DEF SelectLooks, Task
    <2>2. Registered[call[c].next] \in Provider
      BY <2>1, RegisteredAssumption
    <2>3. /\ call[c].next + 1 \in 1..(Len(Registered) + 1)
          /\ call[c].at \in Provider \cup {None}
      BY <1>1, <2>1 DEF Task
    <2>4. PICK best \in Provider \cup {None} :
            call' = [call EXCEPT ![c] = [stage |-> "scan", at |-> best,
                                         next |-> call[c].next + 1]]
      BY <1>5, <2>2, <2>3 DEF SelectLooks
    <2>5. [stage |-> "scan", at |-> best, next |-> call[c].next + 1]
            \in Task
      BY <2>3 DEF Task
    <2>6. QED
      BY <1>2, <2>4, <2>5
  <1>6. ASSUME NEW c \in Call, NEW v \in Provider,
               NEW stage \in {"create", "status"}, Begin(c, stage, v)
        PROVE  call' \in [Call -> Task]
    BY <1>2, <1>6, DoingTask DEF Begin
  <1>7. ASSUME NEW c \in Call, CreateStarts(c)
        PROVE  call' \in [Call -> Task]
    BY <1>2, <1>6, <1>7 DEF CreateStarts, Task
  <1>8. ASSUME NEW c \in Call, SelectFails(c) \/ CallEnds(c)
        PROVE  call' \in [Call -> Task]
    BY <1>2, <1>8, IdleTask
       DEF SelectFails, CallEnds, CallSucceeds, CallFails, CallDropped
  <1>9. ASSUME NEW c \in Call, NEW v \in Provider, StatusStarts(c, v)
        PROVE  call' \in [Call -> Task]
    BY <1>6, <1>9 DEF StatusStarts
  <1>10. CASE Tick \/ UNCHANGED vars
    BY <1>2, <1>3, <1>10 DEF Tick, vars
  <1>11. QED
    BY <1>3, <1>4, <1>5, <1>7, <1>8, <1>9, <1>10 DEF Next, Select

(* A success closes the breaker of its provider.                            *)
LEMMA SuccessStep ==
  ASSUME IInv, NEW c \in Call, CallSucceeds(c)
  PROVE  /\ breaker' \in [Provider -> Breaker]
         /\ streak' \in [Provider -> 0..StreakBound]
         /\ quiet' \in [Provider -> 0..OpenDuration]
         /\ \A w \in Provider : Exact(w)'
  <1> DEFINE v == call[c].at
  <1>1. v \in Provider
    BY ConfiguredAssumption DEF CallSucceeds
  <1>2. /\ breaker' = [breaker EXCEPT ![v] = Closed(0)]
        /\ streak' = [streak EXCEPT ![v] = 0] /\ quiet' = quiet
    BY DEF CallSucceeds, RecordSuccess
  <1>3. /\ Closed(0) \in Breaker
        /\ Closed(0).state = "Closed" /\ Closed(0).failures = 0
    BY ClosedShape, ThresholdAssumption
  <1>4. /\ breaker \in [Provider -> Breaker]
        /\ streak \in [Provider -> 0..StreakBound]
        /\ quiet \in [Provider -> 0..OpenDuration]
    BY DEF IInv, TypeOK
  <1>5. 0 \in 0..StreakBound
    BY ThresholdAssumption DEF StreakBound
  <1>6. ASSUME NEW w \in Provider
        PROVE  Exact(w)'
    <2>1. CASE w = v
      BY <1>2, <1>3, <1>4, <2>1 DEF Exact, IsOpen
    <2>2. CASE w # v
      BY <1>2, <1>4, <2>2 DEF Exact, IsOpen, IInv
    <2>3. QED
      BY <2>1, <2>2
  <1>7. QED
    BY <1>1, <1>2, <1>3, <1>4, <1>5, <1>6

(* A failure counts, or opens the breaker for a full duration.              *)
LEMMA FailureStep ==
  ASSUME IInv, NEW c \in Call, CallFails(c)
  PROVE  /\ breaker' \in [Provider -> Breaker]
         /\ streak' \in [Provider -> 0..StreakBound]
         /\ quiet' \in [Provider -> 0..OpenDuration]
         /\ \A w \in Provider : Exact(w)'
  <1> DEFINE v == call[c].at
             more == IF streak[v] < StreakBound THEN streak[v] + 1 ELSE streak[v]
             next == IF IsOpen(v) \/ breaker[v].failures + 1 >= Threshold
                       THEN Open(0) ELSE Closed(breaker[v].failures + 1)
  <1>1. v \in Provider \cup {None}
    BY DEF IInv, TypeOK, Task
  <1>2. /\ breaker' = [breaker EXCEPT ![v] = next]
        /\ streak' = [streak EXCEPT ![v] = more]
        /\ quiet' = [quiet EXCEPT ![v] = 0]
    BY DEF CallFails, RecordFailure
  <1>3. /\ breaker \in [Provider -> Breaker]
        /\ streak \in [Provider -> 0..StreakBound]
        /\ quiet \in [Provider -> 0..OpenDuration]
        /\ \A w \in Provider : Exact(w)
    BY DEF IInv, TypeOK
  <1>4. /\ 0 \in 0..OpenDuration /\ Open(0) \in Breaker
        /\ Open(0).state = "Open" /\ Open(0).age = 0
    BY OpenShape, DurationAssumption
  <1>5. ASSUME v \in Provider
        PROVE  /\ next \in Breaker /\ more \in 0..StreakBound
               /\ IF next.state = "Open"
                    THEN more > 0 /\ more >= Threshold /\ next.age = 0
                    ELSE next.failures = more /\ more < Threshold
    <2>1. streak[v] \in 0..(Threshold + 1) /\ Threshold \in Nat /\ Exact(v)
      BY <1>3, <1>5, ThresholdAssumption DEF StreakBound
    <2>2. more \in 0..StreakBound
      BY <2>1 DEF StreakBound
    <2>3. CASE IsOpen(v)
      <3>1. more > 0 /\ more >= Threshold
        BY <2>1, <2>3 DEF StreakBound, Exact
      <3>2. QED
        BY <1>4, <2>2, <2>3, <3>1
    <2>4. CASE ~IsOpen(v) /\ breaker[v].failures + 1 >= Threshold
      <3>1. more > 0 /\ more >= Threshold
        BY <2>1, <2>4 DEF StreakBound, Exact
      <3>2. QED
        BY <1>4, <2>2, <2>4, <3>1
    <2>5. CASE ~IsOpen(v) /\ ~(breaker[v].failures + 1 >= Threshold)
      <3>1. /\ breaker[v].failures = streak[v] /\ more = streak[v] + 1
            /\ more < Threshold
        BY <2>1, <2>5 DEF StreakBound, Exact
      <3>2. /\ Closed(more) \in Breaker
            /\ Closed(more).state = "Closed" /\ Closed(more).failures = more
        BY <2>1, <3>1, ClosedShape
      <3>3. QED
        BY <2>2, <2>5, <3>1, <3>2
    <2>6. QED
      BY <2>3, <2>4, <2>5
  <1> HIDE DEF next, more
  <1>6. ASSUME NEW w \in Provider
        PROVE  Exact(w)'
    <2>1. CASE w = v
      BY <1>2, <1>3, <1>5, <2>1 DEF Exact, IsOpen
    <2>2. CASE w # v
      BY <1>2, <1>3, <2>2 DEF Exact, IsOpen
    <2>3. QED
      BY <2>1, <2>2
  <1>7. CASE v \in Provider
    BY <1>2, <1>3, <1>4, <1>5, <1>6, <1>7
  <1>8. CASE v \notin Provider
    BY <1>2, <1>3, <1>6, <1>8
  <1>9. QED
    BY <1>7, <1>8

(* Time ages the open breakers and the silences alike.                      *)
LEMMA TickStep ==
  ASSUME IInv, Tick
  PROVE  /\ breaker' \in [Provider -> Breaker]
         /\ streak' \in [Provider -> 0..StreakBound]
         /\ quiet' \in [Provider -> 0..OpenDuration]
         /\ \A w \in Provider : Exact(w)'
  <1>1. /\ breaker \in [Provider -> Breaker]
        /\ streak \in [Provider -> 0..StreakBound]
        /\ quiet \in [Provider -> 0..OpenDuration]
        /\ \A w \in Provider : Exact(w)
    BY DEF IInv, TypeOK
  <1>2. streak' = streak
    BY DEF Tick
  <1>3. quiet' \in [Provider -> 0..OpenDuration]
    BY <1>1, LaterStays DEF Tick
  <1>4. ASSUME NEW w \in Provider
        PROVE  breaker'[w] \in Breaker /\ Exact(w)'
    <2>1. CASE IsOpen(w)
      <3>1. breaker[w].age \in 0..OpenDuration /\ breaker[w].age = quiet[w]
        BY <1>1, <2>1, BreakerShape DEF Exact, IsOpen
      <3>2. breaker'[w] = Open(Later(breaker[w].age)) /\ quiet'[w] = Later(quiet[w])
        BY <2>1 DEF Tick
      <3>3. /\ breaker'[w] \in Breaker /\ breaker'[w].state = "Open"
            /\ breaker'[w].age = quiet'[w]
        BY <3>1, <3>2, LaterStays, OpenShape
      <3>4. QED
        BY <1>1, <1>2, <2>1, <3>3 DEF Exact, IsOpen
    <2>2. CASE ~IsOpen(w)
      BY <1>1, <1>2, <2>2 DEF Tick, Exact, IsOpen
    <2>3. QED
      BY <2>1, <2>2
  <1>5. breaker' \in [Provider -> Breaker]
    BY <1>4 DEF Tick
  <1>6. QED
    BY <1>1, <1>2, <1>3, <1>4, <1>5

LEMMA InvStep == IInv /\ [Next]_vars => IInv'
  <1> SUFFICES ASSUME IInv, [Next]_vars PROVE IInv'
    OBVIOUS
  <1>1. /\ breaker' \in [Provider -> Breaker]
        /\ streak' \in [Provider -> 0..StreakBound]
        /\ quiet' \in [Provider -> 0..OpenDuration]
        /\ \A w \in Provider : Exact(w)'
    <2>1. CASE UNCHANGED <<breaker, streak, quiet>>
      BY <2>1 DEF IInv, TypeOK, Exact, IsOpen
    <2>2. CASE \E c \in Call : CallSucceeds(c)
      BY <2>2, SuccessStep
    <2>3. CASE \E c \in Call : CallFails(c)
      BY <2>3, FailureStep
    <2>4. CASE Tick
      BY <2>4, TickStep
    <2>5. QED
      BY <2>1, <2>2, <2>3, <2>4
         DEF Next, vars, Select, CallEnds, SelectStarts, SelectLooks,
             SelectFails, CreateStarts, StatusStarts, CallDropped
  <1>2. QED
    BY <1>1, TaskStep DEF IInv, TypeOK

LEMMA Invariance == Spec => []IInv
  BY InitInv, InvStep, PTL DEF Spec

(* The types, for any providers, tasks, threshold and duration.             *)
THEOREM TypeCorrect == Spec => []TypeOK
  <1>1. IInv => TypeOK
    BY DEF IInv
  <1>2. QED
    BY <1>1, Invariance, PTL

(* The breaker's memory of two variants is enough: whatever the order of    *)
(* calls, drops and ticks, a configured provider is out of the selection    *)
(* exactly when at least Threshold calls in a row failed and the last       *)
(* failure is younger than OpenDuration.                                    *)
THEOREM BreakerIsExact == Spec => []OutExactlyWhenFailing
  <1>1. IInv => OutExactlyWhenFailing
    <2> SUFFICES ASSUME IInv, NEW v \in Configured
                 PROVE  ~IsAvailable(v) <=> /\ streak[v] > 0
                                            /\ streak[v] >= Threshold
                                            /\ quiet[v] < OpenDuration
      BY DEF OutExactlyWhenFailing
    <2>1. /\ v \in Provider /\ Exact(v)
          /\ streak[v] \in Nat /\ quiet[v] \in Nat
      BY ConfiguredAssumption, ThresholdAssumption, DurationAssumption
         DEF IInv, TypeOK, StreakBound
    <2>2. QED
      BY <2>1, ThresholdAssumption, DurationAssumption
         DEF Exact, IsAvailable, HalfOpen
  <1>2. QED
    BY <1>1, Invariance, PTL

-----------------------------------------------------------------------------
(* The scan.                                                               *)

(* The first of the best among the first k registered providers.            *)
FirstBest(n, k) ==
  /\ n \in 1..k /\ IsAvailable(Registered[n])
  /\ \A m \in 1..k : IsAvailable(Registered[m]) =>
       \/ Priority[Registered[n]] < Priority[Registered[m]]
       \/ Priority[Registered[n]] = Priority[Registered[m]] /\ n <= m

(* A settled scan holds the first of the best of those it looked at.        *)
BestSoFar(c) ==
  call[c].stage = "scan" =>
    LET k == call[c].next - 1 IN
    IF call[c].at = None
      THEN \A m \in 1..k : ~IsAvailable(Registered[m])
      ELSE \E n \in 1..k : Registered[n] = call[c].at /\ FirstBest(n, k)

ScansHold == \A c \in settled : BestSoFar(c)

(* The scan of c goes on as it was, or is over, with the same providers     *)
(* available.                                                              *)
LEMMA ScanStays ==
  ASSUME NEW c \in Call, BestSoFar(c),
         \A v \in Provider : IsAvailable(v)' = IsAvailable(v),
         call'[c] = call[c] \/ call'[c].stage # "scan",
         call[c] \in Task
  PROVE  BestSoFar(c)'
  <1>1. CASE call'[c].stage # "scan"
    BY <1>1 DEF BestSoFar
  <1>2. CASE call'[c] = call[c] /\ call[c].stage = "scan"
    <2> DEFINE k == call[c].next - 1
    <2>1. k \in 0..Len(Registered) /\ Len(Registered) \in Nat
      BY RegisteredAssumption DEF Task
    <2>2. \A m \in 1..k : Registered[m] \in Provider
      BY <2>1, RegisteredAssumption
    <2>3. \A m \in 1..k : IsAvailable(Registered[m])' = IsAvailable(Registered[m])
      BY <2>2
    <2>4. CASE call[c].at = None
      BY <1>2, <2>3, <2>4 DEF BestSoFar
    <2>5. CASE call[c].at # None
      <3>1. PICK n \in 1..k : Registered[n] = call[c].at /\ FirstBest(n, k)
        BY <1>2, <2>5 DEF BestSoFar
      <3>2. FirstBest(n, k)'
        BY <1>2, <2>3, <3>1 DEF FirstBest
      <3>3. QED
        BY <1>2, <2>5, <3>1, <3>2 DEF BestSoFar
    <2>6. QED
      BY <2>4, <2>5
  <1>3. QED
    BY <1>1, <1>2

(* One more look keeps the first of the best.                               *)
LEMMA LookHolds ==
  ASSUME IInv, NEW c \in Call, BestSoFar(c), SelectLooks(c)
  PROVE  BestSoFar(c)'
  <1>0. PICK k \in Nat : k = call[c].next
    BY RegisteredAssumption DEF IInv, TypeOK, Task
  <1> DEFINE v == Registered[k]
             best == call[c].at
             found == IF IsAvailable(v) /\ Better(v, best) THEN v ELSE best
  <1>1. /\ call[c] \in Task /\ call[c].stage = "scan"
        /\ Len(Registered) \in Nat /\ k \in 1..Len(Registered)
        /\ best \in Provider \cup {None}
    BY <1>0, RegisteredAssumption DEF IInv, TypeOK, SelectLooks, Task
  <1>2. /\ \A m \in 1..k : Registered[m] \in Provider
        /\ \A w \in Provider : Priority[w] \in Int
    BY <1>1, RegisteredAssumption, PriorityAssumption
  <1>3. /\ call'[c].at = found /\ call'[c].next = k + 1
        /\ call'[c].stage = "scan"
        /\ \A w : IsAvailable(w)' = IsAvailable(w)
    BY <1>0 DEF SelectLooks, IInv, TypeOK, IsAvailable, HalfOpen, IsOpen
  <1>4. 1..k = (1..(k - 1)) \cup {k}
    BY <1>1
  <1>5. CASE found = None
    <2>1. best = None /\ ~IsAvailable(v)
      BY <1>2, <1>4, <1>5, NoneAssumption DEF Better
    <2>2. \A m \in 1..k : ~IsAvailable(Registered[m])
      BY <1>0, <1>1, <1>4, <2>1 DEF BestSoFar
    <2>3. QED
      BY <1>1, <1>3, <1>5, <2>2 DEF BestSoFar
  <1>6. CASE found # None
    <2>1. \E n \in 1..k : Registered[n] = found /\ FirstBest(n, k)
      <3>1. CASE best = None
        <4>1. found = v /\ IsAvailable(v)
          BY <1>6, <3>1
        <4>2. \A m \in 1..(k - 1) : ~IsAvailable(Registered[m])
          BY <1>0, <1>1, <3>1 DEF BestSoFar
        <4>3. FirstBest(k, k)
          BY <1>1, <1>4, <4>1, <4>2 DEF FirstBest
        <4>4. QED
          BY <1>1, <4>1, <4>3
      <3>2. ASSUME best # None, NEW n \in 1..(k - 1),
                   Registered[n] = best, FirstBest(n, k - 1)
            PROVE  \E j \in 1..k : Registered[j] = found /\ FirstBest(j, k)
        <4>1. CASE IsAvailable(v) /\ Priority[v] < Priority[best]
          <5>1. found = v
            BY <4>1 DEF Better
          <5>2. ASSUME NEW m \in 1..k, IsAvailable(Registered[m]), m # k
                PROVE  Priority[v] < Priority[Registered[m]]
            <6>1. /\ m \in 1..(k - 1)
                  /\ Priority[best] <= Priority[Registered[m]]
              BY <1>1, <1>2, <1>4, <3>2, <5>2 DEF FirstBest
            <6>2. /\ Priority[v] \in Int /\ Priority[best] \in Int
                  /\ Priority[Registered[m]] \in Int
              BY <1>1, <1>2, <3>2
            <6>3. QED
              BY <4>1, <6>1, <6>2
          <5>3. FirstBest(k, k)
            BY <1>1, <4>1, <5>2 DEF FirstBest
          <5>4. QED
            BY <1>1, <5>1, <5>3
        <4>2. CASE ~(IsAvailable(v) /\ Priority[v] < Priority[best])
          <5>1. found = best
            BY <3>2, <4>2 DEF Better
          <5>2. FirstBest(n, k)
            <6>1. IsAvailable(v) => \/ Priority[best] < Priority[v]
                                   \/ Priority[best] = Priority[v]
              BY <1>1, <1>2, <3>2, <4>2
            <6>2. n <= k /\ n \in 1..k
              BY <1>1
            <6>3. QED
              BY <1>4, <3>2, <6>1, <6>2 DEF FirstBest
          <5>3. QED
            BY <1>1, <3>2, <5>1, <5>2
        <4>3. QED
          BY <4>1, <4>2
      <3>3. QED
        BY <1>0, <1>1, <3>1, <3>2 DEF BestSoFar
    <2>2. PICK n \in 1..k : Registered[n] = found /\ FirstBest(n, k)
      BY <2>1
    <2>3. FirstBest(n, k)'
      BY <1>3, <2>2 DEF FirstBest
    <2>4. k + 1 - 1 = k
      BY <1>1
    <2>5. QED
      BY <1>3, <1>6, <2>2, <2>3, <2>4 DEF BestSoFar
  <1>7. QED
    BY <1>5, <1>6

LEMMA ScansStep == IInv /\ ScansHold /\ [Next]_vars => ScansHold'
  <1> SUFFICES ASSUME IInv, ScansHold, [Next]_vars, NEW c \in settled'
               PROVE  BestSoFar(c)'
    BY DEF ScansHold
  <1>1. /\ c \in Call /\ call \in [Call -> Task]
        /\ c \in settled => BestSoFar(c)
    BY TaskStep DEF IInv, TypeOK, ScansHold
  <1>2. ASSUME UNCHANGED breaker, c \in settled,
               call'[c] = call[c] \/ call'[c].stage # "scan"
        PROVE  BestSoFar(c)'
    <2>1. \A v \in Provider : IsAvailable(v)' = IsAvailable(v)
      BY <1>2 DEF IsAvailable, HalfOpen, IsOpen
    <2>2. QED
      BY <1>1, <1>2, <2>1, ScanStays
  <1>3. ASSUME Resettle, call'[c] = call[c] \/ call'[c].stage # "scan"
        PROVE  BestSoFar(c)'
    <2>1. /\ \A v \in Provider : IsAvailable(v)' = IsAvailable(v)
          /\ c \in settled
      BY <1>3 DEF Resettle
    <2>2. QED
      BY <1>1, <1>3, <2>1, ScanStays
  <1>4. ASSUME NEW d \in Call, SelectStarts(d) PROVE BestSoFar(c)'
    <2>1. CASE c = d
      <3>1. call'[c] = Doing("scan", None)
        BY <1>1, <1>4, <2>1 DEF SelectStarts
      <3>2. call'[c].at = None /\ call'[c].next = 1
        BY <3>1 DEF Doing
      <3>3. QED
        BY <3>2 DEF BestSoFar
    <2>2. CASE c # d
      BY <1>1, <1>2, <1>4, <2>2 DEF SelectStarts
    <2>3. QED
      BY <2>1, <2>2
  <1>5. ASSUME NEW d \in Call, SelectLooks(d) PROVE BestSoFar(c)'
    <2>1. c \in settled
      BY <1>5 DEF SelectLooks
    <2>2. CASE c = d
      BY <1>1, <1>5, <2>1, <2>2, LookHolds
    <2>3. CASE c # d
      BY <1>1, <1>2, <1>5, <2>1, <2>3 DEF SelectLooks
    <2>4. QED
      BY <2>2, <2>3
  <1>6. ASSUME NEW d \in Call, SelectFails(d) \/ CreateStarts(d)
        PROVE  BestSoFar(c)'
    <2>1. c \in settled /\ c # d /\ UNCHANGED breaker
      BY <1>6 DEF SelectFails, CreateStarts
    <2>2. call'[c] = call[c]
      BY <1>1, <1>6, <2>1 DEF SelectFails, CreateStarts, Begin
    <2>3. QED
      BY <1>2, <2>1, <2>2
  <1>7. ASSUME NEW d \in Call, NEW v \in Provider, StatusStarts(d, v)
        PROVE  BestSoFar(c)'
    <2>1. c \in settled /\ UNCHANGED breaker
      BY <1>7 DEF StatusStarts
    <2>2. call'[c] = call[c] \/ call'[c].stage # "scan"
      BY <1>1, <1>7 DEF StatusStarts, Begin, Doing
    <2>3. QED
      BY <1>2, <2>1, <2>2
  <1>8. ASSUME NEW d \in Call, CallEnds(d) PROVE BestSoFar(c)'
    <2>1. call'[c] = call[c] \/ call'[c].stage # "scan"
      BY <1>1, <1>8
         DEF CallEnds, CallSucceeds, CallFails, CallDropped, Idle, Doing
    <2>2. CASE CallSucceeds(d) \/ CallFails(d)
      BY <1>3, <2>1, <2>2 DEF CallSucceeds, CallFails
    <2>3. CASE CallDropped(d)
      BY <1>2, <2>1, <2>3 DEF CallDropped
    <2>4. QED
      BY <1>8, <2>2, <2>3 DEF CallEnds
  <1>9. CASE Tick
    BY <1>3, <1>9 DEF Tick
  <1>10. CASE UNCHANGED vars
    BY <1>2, <1>10 DEF vars
  <1>11. QED
    BY <1>4, <1>5, <1>6, <1>7, <1>8, <1>9, <1>10 DEF Next, Select

(* However breakers move under the scans of several tasks, a scan under     *)
(* which no provider became available or unavailable ends with the first of *)
(* the available providers that none beats, for any registration order,     *)
(* priorities and ties, and with none only if there is none.                *)
THEOREM ScanIsRight == Spec => []ScanFindsBest
  <1>1. Init => ScansHold
    BY DEF Init, ScansHold
  <1>2. IInv /\ ScansHold => ScanFindsBest
    <2> SUFFICES ASSUME IInv, ScansHold, NEW c \in settled, Scanned(c)
                 PROVE  IF call[c].at = None
                   THEN \A v \in Provider : ~IsAvailable(v)
                   ELSE \E n \in DOMAIN Registered :
                     /\ Registered[n] = call[c].at
                     /\ IsAvailable(call[c].at)
                     /\ \A m \in DOMAIN Registered :
                          IsAvailable(Registered[m]) =>
                            \/ Priority[Registered[n]] < Priority[Registered[m]]
                            \/ /\ Priority[Registered[n]] = Priority[Registered[m]]
                               /\ n <= m
      BY DEF ScanFindsBest
    <2>1. /\ Len(Registered) \in Nat
          /\ DOMAIN Registered = 1..Len(Registered)
          /\ call[c].next = Len(Registered) + 1
          /\ call[c].next - 1 = Len(Registered)
      BY RegisteredAssumption DEF IInv, TypeOK, Task, Scanned
    <2>2. BestSoFar(c) /\ call[c].stage = "scan"
      BY DEF ScansHold, Scanned
    <2>3. CASE call[c].at = None
      BY <2>1, <2>2, <2>3, RegisteredAssumption DEF BestSoFar
    <2>4. CASE call[c].at # None
      <3>1. PICK n \in DOMAIN Registered :
              Registered[n] = call[c].at /\ FirstBest(n, Len(Registered))
        BY <2>1, <2>2, <2>4 DEF BestSoFar
      <3>2. QED
        BY <2>1, <2>4, <3>1 DEF FirstBest
    <2>5. QED
      BY <2>3, <2>4
  <1>3. IInv /\ ScansHold /\ [Next]_vars => (IInv /\ ScansHold)'
    BY InvStep, ScansStep
  <1>4. Init => IInv
    BY InitInv
  <1>5. QED
    BY <1>1, <1>2, <1>3, <1>4, PTL DEF Spec
=============================================================================
