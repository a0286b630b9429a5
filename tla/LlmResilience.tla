---------------------------- MODULE LlmResilience ----------------------------
(***************************************************************************)
(* The calls of one process to one LLM provider: LiteLLMClient passes each *)
(* through the provider's CircuitBreaker and then through the              *)
(* ProviderRateLimiter.  All calls run in one event loop; a step below is  *)
(* what happens between two awaits.                                        *)
(*                                                                         *)
(*   state, failures, successes, probes   _state, _failure_count,          *)
(*             _success_count and _half_open_requests of the breaker       *)
(*   age       time since _last_failure_time, counted up to Recovery       *)
(*   permits   value of the provider's semaphore                           *)
(*   times     ages of the entries of _request_times, oldest first         *)
(*   at        where each call stands                                      *)
(*   sick      the provider answers with errors                            *)
(***************************************************************************)
EXTENDS Integers, Sequences, FiniteSets

CONSTANTS
  Caller,            \* tasks that call the provider
  FailureThreshold,  \* failure_threshold
  SuccessThreshold,  \* success_threshold
  Recovery,          \* recovery_timeout
  MaxProbes,         \* half_open_max_requests
  MaxConcurrent,     \* max_concurrent
  MaxRequests,       \* rpm + burst_allowance
  Window             \* window_seconds

ASSUME CallerAssumption == IsFiniteSet(Caller)
ASSUME ThresholdAssumption ==
  {FailureThreshold, SuccessThreshold, MaxProbes, MaxConcurrent, MaxRequests,
   Window, Recovery} \subseteq Nat \ {0}

VARIABLES state, failures, successes, probes, age, permits, times, at, sick

vars == <<state, failures, successes, probes, age, permits, times, at, sick>>
breaker == <<state, failures, successes, probes, age>>
limiter == <<permits, times>>

\* No failure was recorded yet.
Never == -1

TypeOK ==
  /\ state \in {"closed", "open", "half_open"}
  /\ failures \in Nat /\ successes \in Nat /\ probes \in Nat
  /\ age \in {Never} \cup 0..Recovery
  /\ permits \in Nat
  /\ times \in Seq(Nat)
  /\ at \in [Caller -> {"idle", "wait", "sleep", "call"}]
  /\ sick \in BOOLEAN

Init ==
  /\ state = "closed" /\ failures = 0 /\ successes = 0 /\ probes = 0
  /\ age = Never
  /\ permits = MaxConcurrent /\ times = << >>
  /\ at = [c \in Caller |-> "idle"]
  /\ sick = FALSE

-----------------------------------------------------------------------------
(***************************************************************************)
(* The breaker.                                                            *)
(***************************************************************************)

\* _transition_to: the counters each state starts with; nothing happens when
\* the state stays.
TransitionTo(s) ==
  /\ state' = s
  /\ IF s = state THEN UNCHANGED <<failures, successes, probes>>
     ELSE /\ failures' = IF s = "closed" THEN 0 ELSE failures
          /\ successes' = 0
          /\ probes' = IF s = "open" THEN probes ELSE 0

\* Mutant: half-open requests are counted and never given back.
CanExecuteCounting ==
  \/ /\ state = "open" /\ age = Recovery
     /\ TransitionTo("half_open")
  \/ /\ state = "half_open" /\ probes < MaxProbes
     /\ probes' = probes + 1
     /\ UNCHANGED <<state, failures, successes>>
  \/ /\ state = "closed"
     /\ UNCHANGED <<state, failures, successes, probes>>

\* can_execute returning True, with _check_state_transition.
CanExecute ==
  \/ /\ state = "open" /\ age = Recovery
     /\ TransitionTo("half_open")
  \/ /\ state = "closed" \/ (state = "half_open" /\ probes < MaxProbes)
     /\ UNCHANGED <<state, failures, successes, probes>>

\* record_success.
RecordSuccess ==
  /\ CASE state = "half_open" /\ successes + 1 >= SuccessThreshold -> TransitionTo("closed")
       [] state = "half_open" /\ successes + 1 < SuccessThreshold ->
            successes' = successes + 1 /\ UNCHANGED <<state, failures, probes>>
       [] state = "closed" ->
            failures' = 0 /\ UNCHANGED <<state, successes, probes>>
       [] state = "open" -> UNCHANGED <<state, failures, successes, probes>>
  /\ UNCHANGED age

\* record_failure.
RecordFailure ==
  /\ age' = 0
  /\ CASE state = "half_open" -> TransitionTo("open")
       [] state = "closed" /\ failures + 1 >= FailureThreshold ->
            state' = "open" /\ failures' = failures + 1 /\ successes' = 0 /\ UNCHANGED probes
       [] state = "closed" /\ failures + 1 < FailureThreshold ->
            failures' = failures + 1 /\ UNCHANGED <<state, successes, probes>>
       [] state = "open" -> UNCHANGED <<state, failures, successes, probes>>

\* Mutant: the circuit is closed and the counters stay.
ResetStateOnly ==
  /\ state' = "closed"
  /\ UNCHANGED <<failures, successes, probes, age, limiter, at, sick>>

\* reset, from the providers router.
Reset ==
  /\ state' = "closed" /\ failures' = 0 /\ successes' = 0 /\ probes' = 0
  /\ UNCHANGED <<age, limiter, at, sick>>

-----------------------------------------------------------------------------
(***************************************************************************)
(* A call.                                                                 *)
(***************************************************************************)

\* _execute_with_resilience and generate_stream up to the limiter; a call the
\* breaker rejects leaves no trace.
Call(c) ==
  /\ at[c] = "idle"
  /\ CanExecute
  /\ at' = [at EXCEPT ![c] = "wait"]
  /\ UNCHANGED <<age, limiter, sick>>

\* What _check_rpm_limit keeps of _request_times: the requests are recorded in
\* order, so the ones that are too old come first.
InWindow ==
  SubSeq(times, 1 + Cardinality({i \in DOMAIN times : times[i] >= Window}), Len(times))

\* Mutant: the semaphore is taken without waiting for a permit.
AcquireUnpermitted(c) ==
  /\ at[c] = "wait"
  /\ Len(InWindow) < MaxRequests
  /\ permits' = permits - 1
  /\ times' = Append(InWindow, 0)
  /\ at' = [at EXCEPT ![c] = "call"]
  /\ UNCHANGED <<breaker, sick>>

\* Mutant: the window is checked on the way to the semaphore, not behind it.
AcquireUnchecked(c) ==
  /\ at[c] = "wait" /\ permits > 0
  /\ permits' = permits - 1
  /\ times' = Append(InWindow, 0)
  /\ at' = [at EXCEPT ![c] = "call"]
  /\ UNCHANGED <<breaker, sick>>

\* acquire behind the semaphore: the request is recorded when the window has
\* room, else the permit is given back and the call sleeps.
Acquire(c) ==
  /\ at[c] = "wait" /\ permits > 0
  /\ \/ /\ Len(InWindow) < MaxRequests
        /\ permits' = permits - 1
        /\ times' = Append(InWindow, 0)
        /\ at' = [at EXCEPT ![c] = "call"]
     \/ /\ Len(InWindow) >= MaxRequests
        /\ times' = InWindow
        /\ at' = [at EXCEPT ![c] = "sleep"]
        /\ UNCHANGED permits
  /\ UNCHANGED <<breaker, sick>>

\* asyncio.sleep(1.0) is over.
Wake(c) ==
  /\ at[c] = "sleep"
  /\ at' = [at EXCEPT ![c] = "wait"]
  /\ UNCHANGED <<breaker, limiter, sick>>

\* RateLimitContext.__aexit__.
Release(c) ==
  /\ at[c] = "call"
  /\ permits' = permits + 1
  /\ at' = [at EXCEPT ![c] = "idle"]
  /\ UNCHANGED <<times, sick>>

CallSucceeds(c) == Release(c) /\ RecordSuccess

CallFails(c) == sick /\ Release(c) /\ RecordFailure

\* _is_client_error: nothing is recorded.
CallRefused(c) == Release(c) /\ UNCHANGED breaker

\* Mutant: the permit of a cancelled call is lost.
CallCancelledHolding(c) ==
  /\ at[c] # "idle"
  /\ at' = [at EXCEPT ![c] = "idle"]
  /\ UNCHANGED <<breaker, limiter, sick>>

\* The caller's task is cancelled, or its stream closed: CancelledError and
\* GeneratorExit are no Exception, so nothing is recorded.
CallCancelled(c) ==
  /\ \/ Release(c)
     \/ /\ at[c] \in {"wait", "sleep"}
        /\ at' = [at EXCEPT ![c] = "idle"]
        /\ UNCHANGED <<limiter, sick>>
  /\ UNCHANGED breaker

-----------------------------------------------------------------------------
\* Time passes.  What is as old as the limits stays so.
Tick ==
  /\ age' = IF age \in {Never, Recovery} THEN age ELSE age + 1
  /\ times' = [i \in DOMAIN times |-> IF times[i] < Window THEN times[i] + 1 ELSE Window]
  /\ UNCHANGED <<state, failures, successes, probes, permits, at, sick>>

\* The provider (external) starts and stops failing.
ProviderTurns == sick' = ~sick /\ UNCHANGED <<breaker, limiter, at>>

Step(c) ==
  Call(c) \/ Acquire(c) \/ Wake(c) \/ CallSucceeds(c) \/ CallFails(c)
    \/ CallRefused(c) \/ CallCancelled(c)

Next == Tick \/ Reset \/ ProviderTurns \/ \E c \in Caller : Step(c)

Spec == Init /\ [][Next]_vars

\* Calls keep coming, the event loop resumes them, time passes, and not every
\* call is cancelled or refused for its parameters.
FairSpec ==
  /\ Spec
  /\ WF_vars(Tick)
  /\ \A c \in Caller : /\ WF_vars(Call(c)) /\ WF_vars(Wake(c))
                       /\ SF_vars(Acquire(c)) /\ SF_vars(CallSucceeds(c))

-----------------------------------------------------------------------------
(***************************************************************************)
(* Properties.                                                             *)
(***************************************************************************)

\* However calls end (answered, failed, refused, cancelled while they wait,
\* sleep or run), no permit of the provider's semaphore is lost or doubled.
PermitsConserved ==
  permits + Cardinality({c \in Caller : at[c] = "call"}) = MaxConcurrent

\* The provider never sees more than rpm + burst_allowance requests in one
\* window, whichever calls wait at the semaphore or sleep.
WindowWithinLimit == Len(InWindow) <= MaxRequests

\* A closed circuit is below its threshold, so one more failure below it does
\* not open it, and an open circuit knows its last failure: without it,
\* _check_state_transition would keep it open for good.
BreakerSound ==
  /\ state = "closed" => failures < FailureThreshold /\ successes = 0
  /\ state = "half_open" => successes < SuccessThreshold
  /\ state # "closed" => age # Never

\* Once the provider answers again and stays healthy, the circuit closes and
\* stays closed: late failures, cancelled test requests and full windows do not
\* keep it open.
Recovers == <>[](~sick) => <>[](state = "closed")

=============================================================================
