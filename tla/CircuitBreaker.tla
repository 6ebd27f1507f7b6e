----------------------------- MODULE CircuitBreaker -----------------------------
(***************************************************************************)
(* The circuit breakers around the providers                               *)
(* (providers/circuit_breaker.rs), the selection of a provider for a       *)
(* create (select_best_provider in application/payment.rs) and the calls   *)
(* of the payment service that feed the breakers.                          *)
(*                                                                         *)
(* Every breaker has its own mutex. The selection looks at one breaker     *)
(* after the other, so other threads may move the breakers under it; the   *)
(* last look and the start of the call have no await between them, but a    *)
(* thread switch is possible there too. A call is recorded when it ends.    *)
(*                                                                         *)
(* Time is counted in ticks. Only the time since a breaker opened matters,  *)
(* and only up to OpenDuration, where it stops.                            *)
(***************************************************************************)
EXTENDS Integers, Sequences

CONSTANTS
  Provider,      \* the adapters
  Registered,    \* the order build_providers registers them in
  Priority,      \* their configured priorities, lower wins
  Configured,    \* the adapters with credentials: inner.is_available()
  Call,          \* tasks that call providers, one call at a time
  Threshold,     \* failure_threshold
  OpenDuration,  \* open_duration, in ticks
  None

ASSUME RegisteredAssumption == /\ Registered \in Seq(Provider)
                               /\ \A v \in Provider :
                                    \E n \in DOMAIN Registered :
                                      Registered[n] = v
ASSUME PriorityAssumption   == Priority \in [Provider -> Int]
ASSUME ConfiguredAssumption == Configured \subseteq Provider
ASSUME ThresholdAssumption  == Threshold \in Nat
ASSUME DurationAssumption   == OpenDuration \in Nat
ASSUME NoneAssumption       == None \notin Provider

VARIABLES
  breaker,  \* the state behind each breaker's mutex
  call,     \* what each task is doing
  streak,   \* history: failures recorded for a provider since its last
            \* success, counted up to StreakBound
  quiet,    \* history: ticks since its last failure, up to OpenDuration
  settled   \* history: scans since whose start every provider stayed as
            \* available as it was

vars == <<breaker, call, streak, quiet, settled>>

-----------------------------------------------------------------------------
(* The state.                                                              *)

Closed(n) == [state |-> "Closed", failures |-> n, age |-> 0]
Open(age) == [state |-> "Open", failures |-> 0, age |-> age]

Breaker == {Closed(n) : n \in 0..Threshold} \cup {Open(t) : t \in 0..OpenDuration}

(* scan: at is the best provider seen so far, next the one to look at.      *)
(* create, status: at is the provider called.                               *)
Task == [stage : {"idle", "scan", "create", "status"},
         at : Provider \cup {None},
         next : 1..(Len(Registered) + 1)]

Doing(stage, v) == [stage |-> stage, at |-> v, next |-> 1]

Idle == Doing("idle", None)

StreakBound == Threshold + 1

TypeOK ==
  /\ breaker \in [Provider -> Breaker]
  /\ call \in [Call -> Task]
  /\ streak \in [Provider -> 0..StreakBound]
  /\ quiet \in [Provider -> 0..OpenDuration]
  /\ settled \subseteq Call

IsOpen(v) == breaker[v].state = "Open"

HalfOpen(v) == IsOpen(v) /\ breaker[v].age >= OpenDuration

(* Slip: an open breaker waits for a success that no create can bring. *)
IsAvailableNoProbe(v) == v \in Configured /\ ~IsOpen(v)

(* is_available: HALF_OPEN is an open breaker whose duration has elapsed. *)
IsAvailable(v) ==
  /\ v \in Configured
  /\ ~IsOpen(v) \/ HalfOpen(v)

Init ==
  /\ breaker = [v \in Provider |-> Closed(0)]
  /\ call = [c \in Call |-> Idle]
  /\ streak = [v \in Provider |-> 0]
  /\ quiet = [v \in Provider |-> OpenDuration]
  /\ settled = {}

(* The scans a step leaves settled: all, unless it moved a breaker over the *)
(* line between available and not.                                         *)
Resettle ==
  settled' = IF \E v \in Provider : IsAvailable(v)' # IsAvailable(v)
               THEN {} ELSE settled

-----------------------------------------------------------------------------
(* Selection of a provider, for a create and for a retry.                  *)

SelectStarts(c) ==
  /\ call[c].stage = "idle"
  /\ call' = [call EXCEPT ![c] = Doing("scan", None)]
  /\ settled' = settled \cup {c}
  /\ UNCHANGED <<breaker, streak, quiet>>

(* Slip: the last of equals wins. *)
BetterOrEqual(v, best) == best = None \/ Priority[v] <= Priority[best]

(* v replaces the best so far only if it wins by priority: the first of     *)
(* equals stays.                                                           *)
Better(v, best) == best = None \/ Priority[v] < Priority[best]

(* filter(is_available) and min_by_key(priority), one provider at a time. *)
SelectLooks(c) ==
  LET v == Registered[call[c].next] IN
  /\ call[c].stage = "scan" /\ call[c].next <= Len(Registered)
  /\ call' = [call EXCEPT ![c] =
       [stage |-> "scan",
        at    |-> IF IsAvailable(v) /\ Better(v, @.at) THEN v ELSE @.at,
        next  |-> @.next + 1]]
  /\ UNCHANGED <<breaker, streak, quiet, settled>>

Scanned(c) == call[c].stage = "scan" /\ call[c].next > Len(Registered)

(* NoProviderAvailable. *)
SelectFails(c) ==
  /\ Scanned(c) /\ call[c].at = None
  /\ call' = [call EXCEPT ![c] = Idle]
  /\ settled' = settled \ {c}
  /\ UNCHANGED <<breaker, streak, quiet>>

Begin(c, stage, v) ==
  call' = [call EXCEPT ![c] = Doing(stage, v)]

CreateStarts(c) ==
  /\ Scanned(c) /\ call[c].at # None
  /\ Begin(c, "create", call[c].at)
  /\ settled' = settled \ {c}
  /\ UNCHANGED <<breaker, streak, quiet>>

(* A reconciliation asks the provider of the attempt, whatever its breaker. *)
StatusStarts(c, v) ==
  /\ call[c].stage = "idle"
  /\ Begin(c, "status", v)
  /\ UNCHANGED <<breaker, streak, quiet, settled>>

-----------------------------------------------------------------------------
(* The end of a call.                                                      *)

Calling(c) == call[c].stage \in {"create", "status"}

RecordSuccess(v) == breaker' = [breaker EXCEPT ![v] = Closed(0)]

(* Slip: a failed probe does not reopen the breaker. *)
RecordFailureKeepsAge(v) ==
  breaker' = [breaker EXCEPT ![v] =
    IF IsOpen(v) THEN @
    ELSE IF @.failures + 1 >= Threshold THEN Open(0) ELSE Closed(@.failures + 1)]

(* Slip: the threshold is never looked at. *)
RecordFailureOnlyCounts(v) ==
  breaker' = [breaker EXCEPT ![v] = Closed(@.failures + 1)]

(* A failure while open, of a probe or of a call begun before, opens the    *)
(* breaker for another full duration.                                      *)
RecordFailure(v) ==
  breaker' = [breaker EXCEPT ![v] =
    IF IsOpen(v) \/ breaker[v].failures + 1 >= Threshold
      THEN Open(0)
      ELSE Closed(breaker[v].failures + 1)]

CallSucceeds(c) ==
  LET v == call[c].at IN
  /\ Calling(c) /\ v \in Configured
  /\ RecordSuccess(v)
  /\ call' = [call EXCEPT ![c] = Idle]
  /\ streak' = [streak EXCEPT ![v] = 0]
  /\ Resettle
  /\ UNCHANGED quiet

(* Any error of the adapter: a timeout, a refusal, a bad answer, missing    *)
(* credentials.                                                            *)
CallFails(c) ==
  LET v == call[c].at IN
  /\ Calling(c)
  /\ RecordFailure(v)
  /\ call' = [call EXCEPT ![c] = Idle]
  /\ streak' = [streak EXCEPT ![v] =
                  IF @ < StreakBound THEN @ + 1 ELSE @]
  /\ quiet' = [quiet EXCEPT ![v] = 0]
  /\ Resettle

(* Slip: a call whose request is dropped counts as failed. *)
CallDroppedCounts(c) == CallFails(c)

(* The request is dropped with its call under way: nothing is recorded. *)
CallDropped(c) ==
  /\ Calling(c)
  /\ call' = [call EXCEPT ![c] = Idle]
  /\ UNCHANGED <<breaker, streak, quiet, settled>>

-----------------------------------------------------------------------------
(* Time.                                                                   *)

Later(t) == IF t < OpenDuration THEN t + 1 ELSE t

Tick ==
  /\ breaker' = [v \in Provider |->
                   IF IsOpen(v) THEN Open(Later(breaker[v].age)) ELSE breaker[v]]
  /\ quiet' = [v \in Provider |-> Later(quiet[v])]
  /\ Resettle
  /\ UNCHANGED <<call, streak>>

-----------------------------------------------------------------------------
Select(c) == \/ SelectStarts(c) \/ SelectLooks(c)
             \/ SelectFails(c) \/ CreateStarts(c)

CallEnds(c) == CallSucceeds(c) \/ CallFails(c) \/ CallDropped(c)

Next ==
  \/ \E c \in Call : \/ Select(c) \/ CallEnds(c)
                     \/ \E v \in Provider : StatusStarts(c, v)
  \/ Tick

Spec == Init /\ [][Next]_vars

(* Time passes, and every call ends: the HTTP clients have timeouts. Which  *)
(* way it ends, and whether there are calls at all, is open.               *)
FairSpec == Spec /\ WF_vars(Tick) /\ \A c \in Call : WF_vars(CallEnds(c))

-----------------------------------------------------------------------------
(* Safety.                                                                 *)

(* A configured provider is out of the selection exactly when the last      *)
(* Threshold calls recorded for it failed and the last failure is younger   *)
(* than OpenDuration: no order of late, dropped and probing calls takes a   *)
(* healthy provider out, or leaves a failing one in.                        *)
OutExactlyWhenFailing ==
  \A v \in Configured :
    ~IsAvailable(v) <=> /\ streak[v] > 0 /\ streak[v] >= Threshold
                        /\ quiet[v] < OpenDuration

(* A scan under which no provider became available or unavailable ends with *)
(* an available provider that no available provider beats, the first of     *)
(* equals, and with none only if there is none.                            *)
ScanFindsBest ==
  \A c \in settled : Scanned(c) =>
    IF call[c].at = None
      THEN \A v \in Provider : ~IsAvailable(v)
      ELSE \E n \in DOMAIN Registered :
             /\ Registered[n] = call[c].at
             /\ IsAvailable(call[c].at)
             /\ \A m \in DOMAIN Registered : IsAvailable(Registered[m]) =>
                  \/ Priority[Registered[n]] < Priority[Registered[m]]
                  \/ Priority[Registered[n]] = Priority[Registered[m]] /\ n <= m

-----------------------------------------------------------------------------
(* Liveness.                                                               *)

(* Creates alone cannot keep a provider out: a configured provider is       *)
(* available again and again, unless status queries to it fail again and    *)
(* again.                                                                  *)
StatusFails(v) == \E c \in Call :
  call[c].stage = "status" /\ call[c].at = v /\ CallFails(c)

RecoversFromCreates ==
  \A v \in Configured : []<>IsAvailable(v) \/ []<><<StatusFails(v)>>_vars

=============================================================================
