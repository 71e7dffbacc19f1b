------------------------- MODULE EngineClientProofs -------------------------
(***************************************************************************)
(* Proofs about EngineClient, for any number of concurrent calls and any   *)
(* threshold and retry limit.  OneProbe needs ProbeInv: it is because an   *)
(* opening leaves no fresh call behind that the next admission is alone.   *)
(***************************************************************************)
EXTENDS EngineClient, TLAPS

\* What every step keeps: types and the retry limit, then the probe.
THEOREM EngineInductive == Spec => []IndInv
<1> USE EngineAssumption DEF EngineAssumption
<1>1. Init => IndInv
  <2> SUFFICES ASSUME Init PROVE IndInv
    OBVIOUS
  <2>1. NoCall \in CallType
    BY DEF NoCall, CallType
  <2>2. probeInFlight \in BOOLEAN /\ cooled \in BOOLEAN
    BY Zenon DEF Init
  <2>3. TypeOK
    BY <2>1, <2>2 DEF Init, TypeOK
  <2>4. RetriesInv /\ ProbeInv
    BY DEF Init, RetriesInv, ProbeInv, OneProbe, NoCall
  <2>5. QED
    BY <2>3, <2>4 DEF IndInv
<1>2. IndInv /\ [Next]_vars => IndInv'
  <2> SUFFICES ASSUME IndInv, [Next]_vars PROVE IndInv'
    OBVIOUS
  <2> DEFINE Flags == probeInFlight' \in BOOLEAN /\ cooled' \in BOOLEAN
  <2>0. /\ TypeOK /\ RetriesInv /\ ProbeInv
        /\ probeInFlight \in BOOLEAN /\ cooled \in BOOLEAN
    BY DEF IndInv, TypeOK
  <2> USE DEF breaker
  <2>1. ASSUME NEW c \in Call, acquire(c) PROVE IndInv'
    <3>1. Flags
      BY <2>0, <2>1, Zenon DEF acquire
    <3>2. TypeOK'
      BY <2>0, <2>1, <3>1 DEF TypeOK, RetriesInv, CallType, NoCall, acquire
    <3>3. RetriesInv'
      BY <2>0, <2>1 DEF TypeOK, RetriesInv, CallType, NoCall, acquire
    <3>4. ProbeInv'
      BY <2>0, <2>1 DEF TypeOK, ProbeInv, OneProbe, Fresh, InFlight, CallType,
         NoCall, acquire
    <3>5. QED
      BY <3>2, <3>3, <3>4 DEF IndInv
  <2>2. ASSUME NEW c \in Call, AttemptSucceeds(c) PROVE IndInv'
    <3>1. Flags
      BY <2>0, <2>2, Zenon DEF AttemptSucceeds, recordSuccess, EndCall
    <3>2. TypeOK'
      BY <2>0, <2>2, <3>1 DEF TypeOK, RetriesInv, CallType, NoCall,
         AttemptSucceeds, recordSuccess, EndCall
    <3>3. RetriesInv'
      BY <2>0, <2>2 DEF TypeOK, RetriesInv, CallType, NoCall, AttemptSucceeds,
         recordSuccess, EndCall
    <3>4. ProbeInv'
      BY <2>0, <2>2 DEF TypeOK, ProbeInv, OneProbe, Fresh, InFlight, CallType,
         NoCall, AttemptSucceeds, recordSuccess, EndCall
    <3>5. QED
      BY <3>2, <3>3, <3>4 DEF IndInv
  <2>3. ASSUME NEW c \in Call, AttemptRejected(c) PROVE IndInv'
    <3>1. Flags
      BY <2>0, <2>3, Zenon DEF AttemptRejected, recordNeutral, recordSuccess,
         EndCall
    <3>2. TypeOK'
      BY <2>0, <2>3, <3>1 DEF TypeOK, RetriesInv, CallType, NoCall,
         AttemptRejected, recordNeutral, recordSuccess, EndCall
    <3>3. RetriesInv'
      BY <2>0, <2>3 DEF TypeOK, RetriesInv, CallType, NoCall, AttemptRejected,
         recordNeutral, recordSuccess, EndCall
    <3>4. ProbeInv'
      BY <2>0, <2>3 DEF TypeOK, ProbeInv, OneProbe, Fresh, InFlight, CallType,
         NoCall, AttemptRejected, recordNeutral, recordSuccess, EndCall
    <3>5. QED
      BY <3>2, <3>3, <3>4 DEF IndInv
  <2>4. ASSUME NEW c \in Call, AttemptFails(c) PROVE IndInv'
    <3>1. Flags
      BY <2>0, <2>4, Zenon DEF AttemptFails, recordFailure, open, EndCall,
         EndCallOpening
    <3>2. TypeOK'
      <4>1. /\ state' \in {"closed", "open", "half-open"}
            /\ consecutiveFailures' \in 0..(FailureThreshold - 1)
            /\ engine' \in {"up", "down"}
        BY <2>0, <2>4 DEF TypeOK, AttemptFails, recordFailure, open
      <4>2. CASE call' = [call EXCEPT ![c].pc = "delay"] \/ EndCall(c)
        <5>1. call' \in [Call -> CallType]
          <6>1. NoCall \in CallType
            BY DEF CallType, NoCall
          <6>2. [call[c] EXCEPT !.pc = "delay"] \in CallType
            BY <2>0 DEF TypeOK, CallType
          <6>3. QED
            BY <2>0, <4>2, <6>1, <6>2 DEF TypeOK, EndCall
        <5>2. QED
          BY <3>1, <4>1, <5>1 DEF TypeOK
      <4>3. CASE EndCallOpening(c)
        <5>1. ASSUME NEW d \in Call PROVE [call[d] EXCEPT !.fresh = FALSE] \in CallType
          BY <2>0 DEF TypeOK, CallType
        <5>2. call' \in [Call -> CallType]
          BY <4>3, <5>1 DEF CallType, NoCall, EndCallOpening
        <5>3. QED
          BY <3>1, <4>1, <5>2 DEF TypeOK
      <4>4. QED
        BY <2>4, <4>2, <4>3 DEF AttemptFails, recordFailure
    <3>3. RetriesInv'
      BY <2>0, <2>4 DEF TypeOK, RetriesInv, CallType, NoCall, AttemptFails,
         recordFailure, open, EndCall, EndCallOpening
    <3>4. ProbeInv'
      BY <2>0, <2>4 DEF TypeOK, ProbeInv, OneProbe, Fresh, InFlight, CallType,
         NoCall, AttemptFails, recordFailure, open, EndCall, EndCallOpening
    <3>5. QED
      BY <3>2, <3>3, <3>4 DEF IndInv
  <2>5. ASSUME NEW c \in Call, Retry(c) PROVE IndInv'
    <3>1. Flags
      BY <2>0, <2>5, Zenon DEF Retry
    <3>2. TypeOK'
      <4>1. PICK n \in 0..MaxAttempts : n = call[c].attempts + 1
        BY <2>0, <2>5, EngineAssumption DEF TypeOK, CallType, RetriesInv, Retry
      <4>2. [call[c] EXCEPT !.pc = "attempt", !.attempts = n] \in CallType
        BY <2>0 DEF TypeOK, CallType
      <4>3. call' \in [Call -> CallType]
        BY <2>0, <2>5, <4>1, <4>2 DEF TypeOK, Retry
      <4>4. QED
        BY <2>0, <2>5, <3>1, <4>3 DEF TypeOK, Retry, breaker
    <3>3. RetriesInv'
      BY <2>0, <2>5 DEF TypeOK, RetriesInv, CallType, NoCall, Retry
    <3>4. ProbeInv'
      BY <2>0, <2>5 DEF TypeOK, ProbeInv, OneProbe, Fresh, InFlight, CallType,
         NoCall, Retry
    <3>5. QED
      BY <3>2, <3>3, <3>4 DEF IndInv
  <2>6. CASE CoolDown
    <3>1. Flags
      BY <2>0, <2>6, Zenon DEF CoolDown
    <3>2. TypeOK'
      BY <2>0, <2>6, <3>1 DEF TypeOK, CoolDown
    <3>3. RetriesInv' /\ ProbeInv'
      BY <2>0, <2>6 DEF RetriesInv, ProbeInv, OneProbe, Fresh, InFlight,
         CoolDown
    <3>4. QED
      BY <3>2, <3>3 DEF IndInv
  <2>7. CASE EngineChanges
    <3>1. Flags
      BY <2>0, <2>7, Zenon DEF EngineChanges
    <3>2. TypeOK'
      BY <2>0, <2>7, <3>1 DEF TypeOK, EngineChanges
    <3>3. RetriesInv' /\ ProbeInv'
      BY <2>0, <2>7 DEF RetriesInv, ProbeInv, OneProbe, Fresh, InFlight,
         EngineChanges
    <3>4. QED
      BY <3>2, <3>3 DEF IndInv
  <2>8. CASE UNCHANGED vars
    <3>1. Flags
      BY <2>0, <2>8, Zenon DEF vars
    <3>2. TypeOK'
      BY <2>0, <2>8, <3>1 DEF TypeOK, vars
    <3>3. RetriesInv' /\ ProbeInv'
      BY <2>0, <2>8 DEF RetriesInv, ProbeInv, OneProbe, Fresh, InFlight, vars
    <3>4. QED
      BY <3>2, <3>3 DEF IndInv
  <2>9. QED
    BY <2>1, <2>2, <2>3, <2>4, <2>5, <2>6, <2>7, <2>8 DEF Next, CallStep
<1>3. QED
  BY <1>1, <1>2, PTL DEF Spec

\* The breaker's fields and the calls keep their types: in particular the
\* failure streak never reaches the threshold without opening the circuit.
THEOREM EngineTypeCorrect == Spec => []TypeOK
  BY EngineInductive, PTL DEF IndInv

\* A half-open circuit has exactly one probe, for any number of callers.
THEOREM SingleProbe == Spec => []OneProbe
  BY EngineInductive, PTL DEF IndInv, ProbeInv
=============================================================================
