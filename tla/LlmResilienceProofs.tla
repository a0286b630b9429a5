------------------------- MODULE LlmResilienceProofs -------------------------
(***************************************************************************)
(* Theorems of LlmResilience for any number of callers and any limits.     *)
(***************************************************************************)
EXTENDS LlmResilience, FiniteSetTheorems, TLAPS

LEMMA Limits ==
  /\ FailureThreshold \in Nat /\ SuccessThreshold \in Nat /\ MaxConcurrent \in Nat
  /\ MaxRequests \in Nat /\ Window \in Nat /\ Recovery \in Nat
  /\ FailureThreshold > 0 /\ SuccessThreshold > 0 /\ Recovery > 0 /\ Window > 0
BY ThresholdAssumption

\* Dropping the old requests makes the list no longer.
LEMMA WindowShrinks ==
  ASSUME times \in Seq(Nat)
  PROVE  InWindow \in Seq(Nat) /\ Len(InWindow) <= Len(times)
<1> DEFINE old == {i \in DOMAIN times : times[i] >= Window}
           k == Cardinality(old)
<1>1. Len(times) \in Nat /\ DOMAIN times = 1..Len(times)
  OBVIOUS
<1>2. IsFiniteSet(1..Len(times)) /\ Cardinality(1..Len(times)) = Len(times)
  BY <1>1, FS_Interval
<1>3. old \in SUBSET (1..Len(times))
  BY <1>1
<1>4. IsFiniteSet(old) /\ k <= Len(times)
  BY <1>2, <1>3, FS_Subset
<1>5. k \in Nat
  BY <1>4, FS_CardinalityType
<1>6. InWindow = SubSeq(times, 1 + k, Len(times))
  BY DEF InWindow
<1> HIDE DEF k, old
<1> QED BY <1>1, <1>4, <1>5, <1>6

\* The calls that hold a permit.
Holders == {c \in Caller : at[c] = "call"}

LEMMA HoldersFinite == IsFiniteSet(Holders) /\ Cardinality(Holders) \in Nat
<1>1. Holders \in SUBSET Caller
  BY DEF Holders
<1>2. IsFiniteSet(Holders)
  BY <1>1, CallerAssumption, FS_Subset
<1> QED BY <1>2, FS_CardinalityType

\* The list of requests never grows past the limit, old entries included.
ListBounded == Len(times) <= MaxRequests

IInv == TypeOK /\ PermitsConserved /\ ListBounded /\ BreakerSound

-----------------------------------------------------------------------------
(***************************************************************************)
(* The breaker.                                                            *)
(***************************************************************************)
BreakerType ==
  /\ state \in {"closed", "open", "half_open"}
  /\ failures \in Nat /\ successes \in Nat /\ probes \in Nat
  /\ age \in {Never} \cup 0..Recovery

LEMMA SuccessSound ==
  ASSUME BreakerType, BreakerSound, RecordSuccess PROVE BreakerType' /\ BreakerSound'
<1>1. CASE state = "half_open" /\ successes + 1 >= SuccessThreshold
  <2>1. state' = "closed" /\ failures' = 0 /\ successes' = 0 /\ probes' = 0 /\ age' = age
    <3>1. ~(successes + 1 < SuccessThreshold)
      BY <1>1, Limits DEF BreakerType
    <3>2. TransitionTo("closed") /\ age' = age
      BY <1>1, <3>1 DEF RecordSuccess
    <3> QED BY <1>1, <3>2 DEF TransitionTo
  <2> QED BY <2>1, Limits DEF BreakerType, BreakerSound
<1>2. CASE state = "half_open" /\ ~(successes + 1 >= SuccessThreshold)
  <2>1. successes + 1 < SuccessThreshold
    BY <1>2, Limits DEF BreakerType
  <2>2. UNCHANGED <<state, failures, probes, age>> /\ successes' = successes + 1
    BY <1>2, <2>1 DEF RecordSuccess
  <2> QED BY <1>2, <2>1, <2>2, Limits DEF BreakerType, BreakerSound
<1>3. CASE state = "closed"
  BY <1>3, Limits DEF RecordSuccess, BreakerType, BreakerSound
<1>4. CASE state = "open"
  BY <1>4, Limits DEF RecordSuccess, BreakerType, BreakerSound
<1> QED BY <1>1, <1>2, <1>3, <1>4 DEF BreakerType

LEMMA FailureSound ==
  ASSUME BreakerType, BreakerSound, RecordFailure PROVE BreakerType' /\ BreakerSound'
<1>0. age' = 0 /\ 0 # Never
  BY DEF RecordFailure, Never
<1>1. CASE state = "half_open"
  <2>1. state' = "open" /\ failures' = failures /\ successes' = 0 /\ probes' = probes
    BY <1>1 DEF RecordFailure, TransitionTo
  <2> QED BY <1>0, <2>1, Limits DEF BreakerType, BreakerSound
<1>2. CASE state = "closed" /\ failures + 1 >= FailureThreshold
  <2>1. state' = "open" /\ failures' = failures + 1 /\ successes' = 0 /\ probes' = probes
    <3>1. ~(failures + 1 < FailureThreshold)
      BY <1>2, Limits DEF BreakerType
    <3> QED BY <1>2, <3>1 DEF RecordFailure
  <2> QED BY <1>0, <2>1, Limits DEF BreakerType, BreakerSound
<1>3. CASE state = "closed" /\ ~(failures + 1 >= FailureThreshold)
  <2>1. failures + 1 < FailureThreshold
    BY <1>3, Limits DEF BreakerType
  <2>2. UNCHANGED <<state, successes, probes>> /\ failures' = failures + 1
    BY <1>3, <2>1 DEF RecordFailure
  <2> QED BY <1>0, <1>3, <2>1, <2>2, Limits DEF BreakerType, BreakerSound
<1>4. CASE state = "open"
  BY <1>0, <1>4, Limits DEF RecordFailure, BreakerType, BreakerSound
<1> QED BY <1>1, <1>2, <1>3, <1>4 DEF BreakerType

LEMMA ExecuteSound ==
  ASSUME BreakerType, BreakerSound, CanExecute, UNCHANGED age
  PROVE  BreakerType' /\ BreakerSound'
<1>1. CASE state = "open" /\ age = Recovery /\ TransitionTo("half_open")
  <2>1. state' = "half_open" /\ failures' = failures /\ successes' = 0 /\ probes' = 0
    BY <1>1 DEF TransitionTo
  <2> QED BY <1>1, <2>1, Limits DEF BreakerType, BreakerSound, Never
<1>2. CASE UNCHANGED <<state, failures, successes, probes>>
  BY <1>2 DEF BreakerType, BreakerSound
<1> QED BY <1>1, <1>2 DEF CanExecute

-----------------------------------------------------------------------------
(***************************************************************************)
(* The permits.                                                            *)
(***************************************************************************)
LEMMA ReleaseConserves ==
  ASSUME TypeOK, PermitsConserved, NEW c \in Caller, Release(c)
  PROVE  PermitsConserved' /\ permits' \in Nat
<1>1. Holders' = Holders \ {c} /\ c \in Holders
  BY DEF Release, Holders, TypeOK
<1>2. Cardinality(Holders') = Cardinality(Holders) - 1
  BY <1>1, HoldersFinite, FS_RemoveElement
<1>3. permits + Cardinality(Holders) = MaxConcurrent /\ permits' = permits + 1
  BY DEF PermitsConserved, Holders, Release
<1>4. permits' + Cardinality(Holders') = MaxConcurrent /\ permits' \in Nat
  BY <1>2, <1>3, HoldersFinite DEF TypeOK
<1> QED BY <1>4 DEF PermitsConserved, Holders

LEMMA SameHolders ==
  ASSUME PermitsConserved, permits' = permits,
         \A d \in Caller : at'[d] = "call" <=> at[d] = "call"
  PROVE  PermitsConserved'
BY DEF PermitsConserved

LEMMA AcquireKeeps ==
  ASSUME IInv, NEW c \in Caller, Acquire(c) PROVE IInv'
<1> USE DEF IInv
<1>1. /\ InWindow \in Seq(Nat) /\ Len(InWindow) <= Len(times)
      /\ Len(InWindow) \in Nat /\ Len(times) \in Nat
  BY WindowShrinks DEF TypeOK
<1>2. BreakerSound'
  BY DEF Acquire, breaker, BreakerSound
<1>3. CASE Len(InWindow) < MaxRequests
  <2>1. /\ permits > 0 /\ permits' = permits - 1 /\ times' = Append(InWindow, 0)
        /\ at[c] = "wait" /\ at' = [at EXCEPT ![c] = "call"]
        /\ UNCHANGED <<breaker, sick>>
    BY <1>1, <1>3, Limits DEF Acquire
  <2>2. times' \in Seq(Nat) /\ Len(times') = Len(InWindow) + 1
    BY <1>1, <2>1
  <2>3. Holders' = Holders \cup {c} /\ c \notin Holders
    BY <2>1 DEF Holders, TypeOK
  <2>4. Cardinality(Holders') = Cardinality(Holders) + 1
    BY <2>3, HoldersFinite, FS_AddElement
  <2>5. permits + Cardinality(Holders) = MaxConcurrent
    BY DEF PermitsConserved, Holders
  <2>6. permits' + Cardinality(Holders') = MaxConcurrent /\ permits' \in Nat
    BY <2>1, <2>4, <2>5, HoldersFinite DEF TypeOK
  <2>7. PermitsConserved'
    BY <2>6 DEF PermitsConserved, Holders
  <2>8. ListBounded'
    BY <1>1, <1>3, <2>2, Limits DEF ListBounded
  <2>9. TypeOK'
    BY <2>1, <2>2, <2>6 DEF TypeOK, breaker
  <2> QED BY <1>2, <2>7, <2>8, <2>9
<1>4. CASE ~(Len(InWindow) < MaxRequests)
  <2>1. /\ permits' = permits /\ times' = InWindow
        /\ at[c] = "wait" /\ at' = [at EXCEPT ![c] = "sleep"]
        /\ UNCHANGED <<breaker, sick>>
    BY <1>1, <1>4, Limits DEF Acquire
  <2>2. PermitsConserved'
    BY <2>1, SameHolders DEF TypeOK
  <2>3. ListBounded'
    BY <1>1, <2>1, Limits DEF ListBounded
  <2>4. TypeOK'
    BY <1>1, <2>1 DEF TypeOK, breaker
  <2> QED BY <1>2, <2>2, <2>3, <2>4
<1> QED BY <1>3, <1>4

-----------------------------------------------------------------------------
LEMMA IInvNext == IInv /\ [Next]_vars => IInv'
<1> SUFFICES ASSUME IInv, [Next]_vars PROVE IInv'
  OBVIOUS
<1> USE DEF IInv
<1>0. BreakerType
  BY DEF TypeOK, BreakerType
<1>1. ASSUME NEW c \in Caller, Call(c) PROVE IInv'
  <2>1. BreakerType' /\ BreakerSound'
    BY <1>0, <1>1, ExecuteSound DEF Call
  <2>2. PermitsConserved'
    BY <1>1, SameHolders DEF Call, limiter, TypeOK
  <2>3. ListBounded'
    BY <1>1 DEF Call, limiter, ListBounded
  <2>4. TypeOK'
    BY <1>1, <2>1 DEF Call, limiter, BreakerType, TypeOK
  <2> QED BY <2>1, <2>2, <2>3, <2>4
<1>2. ASSUME NEW c \in Caller, Wake(c) PROVE IInv'
  <2>1. PermitsConserved'
    BY <1>2, SameHolders DEF Wake, limiter, TypeOK
  <2>2. ListBounded' /\ BreakerSound' /\ TypeOK'
    BY <1>2 DEF Wake, limiter, breaker, ListBounded, BreakerSound, TypeOK
  <2> QED BY <2>1, <2>2
<1>3. ASSUME NEW c \in Caller, Release(c),
             RecordSuccess \/ RecordFailure \/ UNCHANGED breaker
      PROVE  IInv'
  <2>1. BreakerType' /\ BreakerSound'
    BY <1>0, <1>3, SuccessSound, FailureSound DEF breaker, BreakerType, BreakerSound
  <2>2. PermitsConserved' /\ permits' \in Nat
    BY <1>3, ReleaseConserves
  <2>3. ListBounded' /\ TypeOK'
    BY <1>3, <2>1, <2>2 DEF Release, ListBounded, BreakerType, TypeOK
  <2> QED BY <2>1, <2>2, <2>3
<1>4. ASSUME NEW c \in Caller, at[c] \in {"wait", "sleep"},
             at' = [at EXCEPT ![c] = "idle"],
             UNCHANGED <<limiter, sick, breaker>>
      PROVE  IInv'
  <2>1. PermitsConserved'
    BY <1>4, SameHolders DEF limiter, TypeOK
  <2>2. ListBounded' /\ BreakerSound' /\ TypeOK'
    BY <1>4 DEF limiter, breaker, ListBounded, BreakerSound, TypeOK
  <2> QED BY <2>1, <2>2
<1>5. CASE Tick
  <2>1. PermitsConserved'
    BY <1>5 DEF Tick, PermitsConserved
  <2>2. times' \in Seq(Nat) /\ Len(times') = Len(times)
    BY <1>5, Limits DEF Tick, TypeOK
  <2>3. age' \in {Never} \cup 0..Recovery /\ (age # Never => age' # Never)
    BY <1>5, Limits DEF Tick, TypeOK, Never
  <2>4. ListBounded' /\ BreakerSound' /\ TypeOK'
    BY <1>5, <2>2, <2>3 DEF Tick, ListBounded, BreakerSound, TypeOK
  <2> QED BY <2>1, <2>4
<1>6. CASE Reset
  <2>1. PermitsConserved'
    BY <1>6 DEF Reset, limiter, PermitsConserved
  <2> QED BY <1>6, <2>1, Limits DEF Reset, limiter, ListBounded, BreakerSound, TypeOK
<1>7. CASE ProviderTurns \/ UNCHANGED vars
  <2>1. UNCHANGED <<breaker, limiter, at>> /\ sick' \in BOOLEAN
    BY <1>7 DEF ProviderTurns, vars, breaker, limiter, TypeOK
  <2>2. PermitsConserved'
    BY <2>1 DEF limiter, PermitsConserved
  <2> QED BY <2>1, <2>2 DEF breaker, limiter, ListBounded, BreakerSound, TypeOK
<1> QED
  BY <1>1, <1>2, <1>3, <1>4, <1>5, <1>6, <1>7, AcquireKeeps
  DEF Next, Step, CallSucceeds, CallFails, CallRefused, CallCancelled

LEMMA InitIInv == Init => IInv
<1> SUFFICES ASSUME Init PROVE IInv
  OBVIOUS
<1>1. PermitsConserved
  <2>1. {c \in Caller : at[c] = "call"} = {}
    BY DEF Init
  <2> QED BY <2>1, FS_EmptySet, Limits DEF Init, PermitsConserved
<1>2. TypeOK
  <2>1. times \in Seq(Nat)
    BY DEF Init
  <2>4. sick \in BOOLEAN
    BY DEF Init
  <2>2. /\ state \in {"closed", "open", "half_open"}
        /\ failures \in Nat /\ successes \in Nat /\ probes \in Nat
        /\ permits \in Nat /\ age \in {Never} \cup 0..Recovery
    BY Limits DEF Init
  <2>3. at \in [Caller -> {"idle", "wait", "sleep", "call"}]
    BY DEF Init
  <2> QED BY <2>1, <2>2, <2>3, <2>4 DEF TypeOK
<1>3. Len(times) = 0
  BY DEF Init
<1> QED BY <1>1, <1>2, <1>3, Limits DEF Init, IInv, ListBounded, BreakerSound

LEMMA SpecIInv == Spec => []IInv
BY InitIInv, IInvNext, PTL DEF Spec

-----------------------------------------------------------------------------
(***************************************************************************)
(* Theorems.                                                               *)
(***************************************************************************)

\* The breaker's counters, the semaphore and the list of requests keep their
\* types; the semaphore's value is never negative.
THEOREM ResilienceTypeCorrect == Spec => []TypeOK
<1>1. IInv => TypeOK
  BY DEF IInv
<1> QED BY SpecIInv, <1>1, PTL

\* No permit of the provider's semaphore is lost or doubled, however calls end.
THEOREM PermitsNeverLeak == Spec => []PermitsConserved
<1>1. IInv => PermitsConserved
  BY DEF IInv
<1> QED BY SpecIInv, <1>1, PTL

\* The provider never sees more than rpm + burst_allowance requests in a window.
THEOREM RateNeverExceeded == Spec => []WindowWithinLimit
<1>1. IInv => WindowWithinLimit
  <2> SUFFICES ASSUME IInv PROVE WindowWithinLimit
    OBVIOUS
  <2>1. Len(InWindow) <= Len(times) /\ Len(InWindow) \in Nat /\ Len(times) \in Nat
    BY WindowShrinks DEF IInv, TypeOK
  <2> QED BY <2>1, Limits DEF IInv, ListBounded, WindowWithinLimit
<1> QED BY SpecIInv, <1>1, PTL

\* A closed circuit is below its thresholds, and one that is not closed knows the
\* failure its recovery timeout counts from.
THEOREM BreakerAlwaysSound == Spec => []BreakerSound
<1>1. IInv => BreakerSound
  BY DEF IInv
<1> QED BY SpecIInv, <1>1, PTL
=============================================================================
