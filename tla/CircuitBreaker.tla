--------------------------- MODULE CircuitBreaker ---------------------------
(***************************************************************************)
(* The CircuitBreaker of core/resilience/circuit_breaker.py and the tasks  *)
(* that call a provider through it: a caller asks allow_request, makes its *)
(* call, and records a success or a failure, or nothing at all when its    *)
(* exception is one of excluded_exceptions or when it is cancelled first.  *)
(*                                                                         *)
(* The methods hold an asyncio.Lock around code without an await, so each  *)
(* is one action.  What the model keeps of time is how long the circuit    *)
(* has been open, up to the recovery timeout; what it keeps of             *)
(* _failure_count is its value up to the threshold it is compared with.    *)
(***************************************************************************)
EXTENDS Integers, FiniteSets

CONSTANTS FailureThreshold,   \* CircuitBreakerConfig.failure_threshold
          RecoveryTimeout,    \* CircuitBreakerConfig.recovery_timeout
          HalfOpenMaxCalls,   \* CircuitBreakerConfig.half_open_max_calls
          SuccessThreshold,   \* CircuitBreakerConfig.success_threshold
          Callers,            \* the tasks that share the breaker
          ProbesRecorded      \* whether every probe ends as a success or a failure

ASSUME BreakerAssumption ==
    /\ FailureThreshold \in Nat \ {0}
    /\ RecoveryTimeout \in Nat \ {0}
    /\ HalfOpenMaxCalls \in Nat \ {0}
    /\ SuccessThreshold \in Nat \ {0}
    /\ IsFiniteSet(Callers)
    /\ ProbesRecorded \in BOOLEAN

VARIABLES state,           \* _state
          failureCount,    \* _failure_count, up to FailureThreshold
          successCount,    \* _success_count
          halfOpenCalls,   \* _half_open_calls
          openFor,         \* time since _opened_at, up to RecoveryTimeout
          call             \* what each caller is doing

vars == <<state, failureCount, successCount, halfOpenCalls, openFor, call>>

\* openFor when _opened_at is None.
NotOpened == -1

\* A caller is idle or has a call in flight.  The kind of call is a history
\* of its admission: while the circuit was closed ("normal"), as a probe of
\* the present half-open period ("probe"), or before the last transition of
\* the circuit ("stale").  The breaker itself does not tell them apart.
CallStates == {"idle", "normal", "probe", "stale"}

InFlight == {c \in Callers : call[c] # "idle"}
Probes   == {c \in Callers : call[c] = "probe"}

\* After a transition every call still in flight in calls is stale.
aged(calls) == [c \in Callers |-> IF calls[c] = "idle" THEN "idle" ELSE "stale"]

-----------------------------------------------------------------------------
Init ==
    /\ state = "closed"
    /\ failureCount = 0
    /\ successCount = 0
    /\ halfOpenCalls = 0
    /\ openFor = NotOpened
    /\ call = [c \in Callers |-> "idle"]

\* Variant: the counters of the half-open period are kept.
ToOpen_keeps(calls) ==
    /\ state' = "open"
    /\ openFor' = 0
    /\ call' = aged(calls)
    /\ UNCHANGED <<successCount, halfOpenCalls>>

\* _transition_to_open, _transition_to_closed: calls is what the callers are
\* doing when the transition happens.
ToOpen(calls) ==
    /\ state' = "open"
    /\ openFor' = 0
    /\ successCount' = 0
    /\ halfOpenCalls' = 0
    /\ call' = aged(calls)

ToClosed(calls) ==
    /\ state' = "closed"
    /\ failureCount' = 0
    /\ successCount' = 0
    /\ halfOpenCalls' = 0
    /\ openFor' = NotOpened
    /\ call' = aged(calls)

\* The state property would move the circuit from OPEN to HALF_OPEN.
Recovering == state = "open" /\ openFor >= RecoveryTimeout

\* allow_request returns True.  When it returns False nothing changes.
AdmitClosed(c) ==
    /\ call[c] = "idle"
    /\ state = "closed"
    /\ call' = [call EXCEPT ![c] = "normal"]
    /\ UNCHANGED <<state, failureCount, successCount, halfOpenCalls, openFor>>

AdmitProbe(c) ==
    /\ call[c] = "idle"
    /\ state = "half_open"
    /\ halfOpenCalls < HalfOpenMaxCalls
    /\ halfOpenCalls' = halfOpenCalls + 1
    /\ call' = [call EXCEPT ![c] = "probe"]
    /\ UNCHANGED <<state, failureCount, successCount, openFor>>

\* Variant: the caller that makes the transition is not counted.
AdmitFirstProbe_uncounted(c) ==
    /\ call[c] = "idle"
    /\ Recovering
    /\ state' = "half_open"
    /\ successCount' = 0
    /\ halfOpenCalls' = 0
    /\ call' = [aged(call) EXCEPT ![c] = "probe"]
    /\ UNCHANGED <<failureCount, openFor>>

\* allow_request finds the timeout elapsed: the transition to HALF_OPEN and
\* the admission of the first probe are one step.
AdmitFirstProbe(c) ==
    /\ call[c] = "idle"
    /\ Recovering
    /\ state' = "half_open"
    /\ successCount' = 0
    /\ halfOpenCalls' = 1
    /\ call' = [aged(call) EXCEPT ![c] = "probe"]
    /\ UNCHANGED <<failureCount, openFor>>

\* snapshot, summary, all_open or the state property itself find the timeout
\* elapsed: a reader makes the transition.
Observe ==
    /\ Recovering
    /\ state' = "half_open"
    /\ successCount' = 0
    /\ halfOpenCalls' = 0
    /\ call' = aged(call)
    /\ UNCHANGED <<failureCount, openFor>>

Finished(c) == [call EXCEPT ![c] = "idle"]

\* Variants: a success closes the circuit from any state; the threshold has
\* to be exceeded.
RecordSuccess_anyState(c) ==
    /\ call[c] # "idle"
    /\ ToClosed(Finished(c))

RecordSuccess_exceed(c) ==
    /\ call[c] # "idle"
    /\ \/ /\ state = "half_open" /\ successCount >= SuccessThreshold
          /\ ToClosed(Finished(c))
       \/ /\ state = "half_open" /\ successCount < SuccessThreshold
          /\ successCount' = successCount + 1
          /\ call' = Finished(c)
          /\ UNCHANGED <<state, failureCount, halfOpenCalls, openFor>>
       \/ /\ state # "half_open"
          /\ failureCount' = 0
          /\ call' = Finished(c)
          /\ UNCHANGED <<state, successCount, halfOpenCalls, openFor>>

\* record_success: it looks at _state, not at the state property, and does
\* not ask when the call was admitted.
RecordSuccess(c) ==
    /\ call[c] # "idle"
    /\ \/ /\ state = "half_open" /\ successCount + 1 >= SuccessThreshold
          /\ ToClosed(Finished(c))
       \/ /\ state = "half_open" /\ successCount + 1 < SuccessThreshold
          /\ successCount' = successCount + 1
          /\ call' = Finished(c)
          /\ UNCHANGED <<state, failureCount, halfOpenCalls, openFor>>
       \/ /\ state # "half_open"
          /\ failureCount' = 0
          /\ call' = Finished(c)
          /\ UNCHANGED <<state, successCount, halfOpenCalls, openFor>>

\* Variant: a failed probe is counted and the circuit stays half-open.
RecordFailure_stays(c) ==
    LET n == failureCount + 1
    IN  /\ call[c] # "idle"
        /\ failureCount' = IF n < FailureThreshold THEN n ELSE FailureThreshold
        /\ \/ /\ state = "closed" /\ n >= FailureThreshold
              /\ ToOpen(Finished(c))
           \/ /\ state # "closed" \/ n < FailureThreshold
              /\ call' = Finished(c)
              /\ UNCHANGED <<state, successCount, halfOpenCalls, openFor>>

\* record_failure with an exception that counts.
RecordFailure(c) ==
    LET n == failureCount + 1
    IN  /\ call[c] # "idle"
        /\ failureCount' = IF n < FailureThreshold THEN n ELSE FailureThreshold
        /\ \/ /\ state = "half_open" \/ (state = "closed" /\ n >= FailureThreshold)
              /\ ToOpen(Finished(c))
           \/ /\ state = "open" \/ (state = "closed" /\ n < FailureThreshold)
              /\ call' = Finished(c)
              /\ UNCHANGED <<state, successCount, halfOpenCalls, openFor>>

\* Variant: whatever ends gives its half-open slot back.
EndUncounted_releases(c) ==
    /\ call[c] # "idle" /\ (ProbesRecorded => call[c] # "probe")
    /\ call' = Finished(c)
    /\ halfOpenCalls' = halfOpenCalls - 1
    /\ UNCHANGED <<state, failureCount, successCount, openFor>>

\* record_failure returns early for an excluded exception; a cancelled caller
\* records nothing.
EndUncounted(c) ==
    /\ call[c] # "idle" /\ (ProbesRecorded => call[c] # "probe")
    /\ call' = Finished(c)
    /\ UNCHANGED <<state, failureCount, successCount, halfOpenCalls, openFor>>

\* reset, and each step of CircuitBreakerRegistry.reset_all.
Reset ==
    /\ state # "closed" \/ failureCount > 0
    /\ ToClosed(call)

Tick ==
    /\ state = "open" /\ openFor < RecoveryTimeout
    /\ openFor' = openFor + 1
    /\ UNCHANGED <<state, failureCount, successCount, halfOpenCalls, call>>

Ask(c) == AdmitClosed(c) \/ AdmitProbe(c) \/ AdmitFirstProbe(c)
End(c) == RecordSuccess(c) \/ RecordFailure(c) \/ EndUncounted(c)

Next == (\E c \in Callers : Ask(c) \/ End(c)) \/ Observe \/ Reset \/ Tick

Spec == Init /\ [][Next]_vars

\* Callers keep asking, calls end, time passes; nobody has to look or reset.
FairSpec ==
    /\ Spec
    /\ \A c \in Callers : WF_vars(Ask(c)) /\ WF_vars(End(c))
    /\ WF_vars(Tick)

-----------------------------------------------------------------------------
\* Type invariant.
TypeOK ==
    /\ state \in {"closed", "open", "half_open"}
    /\ failureCount \in 0..FailureThreshold
    /\ successCount \in Nat
    /\ halfOpenCalls \in Nat
    /\ openFor \in 0..RecoveryTimeout \cup {NotOpened}
    /\ call \in [Callers -> CallStates]

\* The counters and the state agree: no threshold is passed without its
\* transition, whatever late results of earlier periods arrive, and _opened_at
\* is set exactly while the circuit is not closed.
ThresholdsHonoured ==
    /\ state = "closed" => failureCount < FailureThreshold
    /\ state # "half_open" => successCount = 0 /\ halfOpenCalls = 0
    /\ successCount < SuccessThreshold
    /\ openFor = NotOpened <=> state = "closed"

\* In a half-open period at most half_open_max_calls probes are ever admitted,
\* so no more are in flight; outside of one there are none, and while the
\* circuit is open every call in flight was admitted before it opened.
ProbesBounded ==
    /\ Cardinality(Probes) <= halfOpenCalls
    /\ halfOpenCalls <= HalfOpenMaxCalls
    /\ state # "half_open" => Probes = {}
    /\ state # "closed" => \A c \in Callers : call[c] # "normal"

\* An open circuit is left only for half-open after the whole recovery
\* timeout, or by a reset: a late success of a call admitted earlier does not
\* close it.
OpenHoldsForTimeout ==
    [][state = "open" /\ state' # "open" =>
          \/ state' = "half_open" /\ openFor >= RecoveryTimeout
          \/ state' = "closed" /\ Reset]_vars

\* The breaker recovers: as long as callers keep asking, it is never the case
\* that from some point on no caller is let through any more.
AdmitsAgain == []<>(InFlight # {})

\* A half-open period ends, in the closed or in the open state.
HalfOpenEnds == (state = "half_open") ~> (state # "half_open")
=============================================================================
