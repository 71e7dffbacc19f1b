---------------------------- MODULE EngineClient ----------------------------
(***************************************************************************)
(* The engine client of one process and its circuit breaker, shared by all *)
(* concurrent verify calls of that process.                                *)
(*                                                                         *)
(* Between two awaits the code runs alone, so admission and the recording  *)
(* of an outcome are atomic, and everything else interleaves: a call       *)
(* admitted before the circuit opened may report long after.  Time is one  *)
(* bit: whether the cool-down since the last opening has elapsed.          *)
(***************************************************************************)
EXTENDS Naturals

CONSTANTS
    Call,               \* concurrent verify calls; a finished one is reused
    FailureThreshold,   \* consecutive eligible failures that open the circuit
    MaxAttempts         \* initial attempt + retries (MAX_ATTEMPTS)

ASSUME EngineAssumption ==
    /\ FailureThreshold \in Nat \ {0}
    /\ MaxAttempts \in Nat \ {0}

VARIABLES
    state,                  \* CircuitBreaker.state
    consecutiveFailures,
    probeInFlight,
    cooled,                 \* clock() - openedAt >= openDurationMs
    call,                   \* local state of the verify calls
    engine                  \* "up": it answers; "down": every attempt fails

breaker == <<state, consecutiveFailures, probeInFlight, cooled>>
vars == <<breaker, call, engine>>

\* How fetchTransport fails.  A timeout that fires while the response body is
\* read is not recognised as one: "network_error".
TransportFailure == {"timeout", "network_error"}
\* What attemptOnce reports of a failed attempt, and what is tried again.
ServiceFailure == TransportFailure \cup {"http_5xx", "contract_error"}
Retryable == {"network_error", "http_5xx"}

NoCall == [pc |-> "idle", attempts |-> 0, fresh |-> FALSE]
\* fresh (history): the circuit has not opened since the call was admitted.
CallType == [pc : {"idle", "attempt", "delay"}, attempts : 0..MaxAttempts,
             fresh : BOOLEAN]
InFlight(c) == call[c].pc # "idle"
Fresh(c) == InFlight(c) /\ call[c].fresh

Init ==
    /\ state = "closed"
    /\ consecutiveFailures = 0
    /\ probeInFlight = FALSE
    /\ cooled = FALSE
    /\ call = [c \in Call |-> NoCall]
    /\ engine = "up"

-----------------------------------------------------------------------------
(* CircuitBreaker: what a call records when it ends.                       *)

\* The call c ends; when the circuit opens, no other call is fresh any more.
EndCall(c) == call' = [call EXCEPT ![c] = NoCall]
EndCallOpening(c) ==
    call' = [d \in Call |-> IF d = c THEN NoCall ELSE [call[d] EXCEPT !.fresh = FALSE]]

open ==
    /\ state' = "open"
    /\ cooled' = FALSE
    /\ consecutiveFailures' = 0
    /\ probeInFlight' = FALSE

recordSuccess ==
    /\ state' = "closed"
    /\ consecutiveFailures' = 0
    /\ probeInFlight' = FALSE
    /\ UNCHANGED cooled

recordFailure(c) ==
    IF state = "half-open" \/ consecutiveFailures + 1 >= FailureThreshold
    THEN open /\ EndCallOpening(c)
    ELSE /\ consecutiveFailures' = consecutiveFailures + 1
         /\ EndCall(c)
         /\ UNCHANGED <<state, probeInFlight, cooled>>

\* Wrong on purpose: a 4xx answer to the half-open probe is ignored.
recordNeutralIgnored == UNCHANGED breaker

recordNeutral == IF state = "half-open" THEN recordSuccess ELSE UNCHANGED breaker

\* Wrong on purpose: the probe slot is not taken.
acquireUnmarked(c) ==
    /\ call[c].pc = "idle"
    /\ \/ state = "closed" /\ UNCHANGED state
       \/ state = "open" /\ cooled /\ state' = "half-open"
       \/ state = "half-open" /\ ~probeInFlight /\ UNCHANGED state
    /\ call' = [call EXCEPT ![c] = [pc |-> "attempt", attempts |-> 1, fresh |-> TRUE]]
    /\ UNCHANGED <<consecutiveFailures, probeInFlight, cooled, engine>>

\* Wrong on purpose: a failed attempt reports a neutral outcome, so the streak
\* never grows.
AttemptFailsUncounted(c) ==
    /\ call[c].pc = "attempt" /\ engine = "down"
    /\ recordNeutral
    /\ EndCall(c)
    /\ UNCHANGED engine

-----------------------------------------------------------------------------
(* EngineClient.verify.                                                    *)

\* acquire: a call that is refused throws without any effect.
acquire(c) ==
    /\ call[c].pc = "idle"
    /\ \/ state = "closed" /\ UNCHANGED <<state, probeInFlight>>
       \/ /\ \/ state = "open" /\ cooled
             \/ state = "half-open" /\ ~probeInFlight
          /\ state' = "half-open"
          /\ probeInFlight' = TRUE
    /\ call' = [call EXCEPT ![c] = [pc |-> "attempt", attempts |-> 1, fresh |-> TRUE]]
    /\ UNCHANGED <<consecutiveFailures, cooled, engine>>

AttemptSucceeds(c) ==
    /\ call[c].pc = "attempt" /\ engine = "up"
    /\ recordSuccess
    /\ EndCall(c)
    /\ UNCHANGED engine

\* HTTP 4xx: thrown to the caller, not retried, not a health signal.
AttemptRejected(c) ==
    /\ call[c].pc = "attempt" /\ engine = "up"
    /\ recordNeutral
    /\ EndCall(c)
    /\ UNCHANGED engine

\* A retryable failure waits for its delay while attempts remain; any other
\* end of the loop counts as one failure.
AttemptFails(c) ==
    /\ call[c].pc = "attempt" /\ engine = "down"
    /\ \E outcome \in ServiceFailure :
         IF outcome \in Retryable /\ call[c].attempts < MaxAttempts
         THEN call' = [call EXCEPT ![c].pc = "delay"] /\ UNCHANGED breaker
         ELSE recordFailure(c)
    /\ UNCHANGED engine

\* The retry does not ask the breaker again.
Retry(c) ==
    /\ call[c].pc = "delay"
    /\ call' = [call EXCEPT ![c] = [@ EXCEPT !.pc = "attempt",
                                             !.attempts = call[c].attempts + 1]]
    /\ UNCHANGED <<breaker, engine>>

CoolDown ==
    /\ state = "open" /\ ~cooled
    /\ cooled' = TRUE
    /\ UNCHANGED <<state, consecutiveFailures, probeInFlight, call, engine>>

EngineChanges ==
    /\ engine' = IF engine = "up" THEN "down" ELSE "up"
    /\ UNCHANGED <<breaker, call>>

CallStep(c) == AttemptSucceeds(c) \/ AttemptRejected(c) \/ AttemptFails(c) \/ Retry(c)

Next ==
    \/ \E c \in Call : acquire(c) \/ CallStep(c)
    \/ CoolDown
    \/ EngineChanges

Spec == Init /\ [][Next]_vars

(***************************************************************************)
(* Fairness: every attempt and every delay ends (both have timers), time   *)
(* passes, and calls keep coming.                                          *)
(***************************************************************************)
Fairness ==
    /\ \A c \in Call : WF_vars(CallStep(c))
    /\ WF_vars(\E c \in Call : acquire(c))
    /\ WF_vars(CoolDown)

FairSpec == Spec /\ Fairness

-----------------------------------------------------------------------------
\* The breaker's fields and the calls' local variables keep their types; the
\* streak stays below the threshold and no call exceeds its attempts.
TypeOK ==
    /\ state \in {"closed", "open", "half-open"}
    /\ consecutiveFailures \in 0..(FailureThreshold - 1)
    /\ probeInFlight \in BOOLEAN
    /\ cooled \in BOOLEAN
    /\ call \in [Call -> CallType]
    /\ engine \in {"up", "down"}

\* A half-open circuit has exactly one call in flight that was admitted since
\* it opened: never two probes side by side, and never a taken probe slot
\* whose probe is gone, which would refuse every call for ever.
OneProbe ==
    state = "half-open" =>
        \E c \in Call : Fresh(c) /\ \A d \in Call : Fresh(d) => d = c

\* Once the engine answers for good, the circuit closes for good, although
\* calls from before the outage, and 4xx answers, are still coming in.
Recovers == <>[](engine = "up") => <>[](state = "closed")

\* While the engine stays down, the circuit opens again and again: retries
\* and stale calls cannot keep it closed.
Trips == <>[](engine = "down") => []<>(state = "open")

-----------------------------------------------------------------------------
\* The inductive invariant.  A call that waits for its retry has an attempt
\* left; opening leaves no fresh call, so the next admission is the only one.
RetriesInv == \A c \in Call : call[c].pc = "delay" => call[c].attempts < MaxAttempts

ProbeInv ==
    /\ state = "open" => \A c \in Call : ~Fresh(c)
    /\ state = "half-open" => probeInFlight
    /\ OneProbe

IndInv == TypeOK /\ RetriesInv /\ ProbeInv
=============================================================================
