-------------------------- MODULE SmtpProbeProofs ---------------------------
(***************************************************************************)
(* MxThrottle for any number of jobs, any limits and any engine delay.     *)
(*                                                                         *)
(* The lease: a probe younger than the lease's expiry holds it.  LeaseInv  *)
(* ties the key's TTL to the age of the probe that took it: only an        *)
(* owner's release or the passing of LeaseTtl frees the key, and it is     *)
(* granted only when free.                                                 *)
(*                                                                         *)
(* The rolling window: WindowInv ties every start that still counts to an  *)
(* entry of the sorted set, so that the starts are no more than the        *)
(* entries and the entries no more than the limit.                         *)
(***************************************************************************)
EXTENDS SmtpProbe, FiniteSetTheorems, WellFoundedInduction, TLAPS

\* Every step keeps the lease and the ages of the probes together.
LEMMA LeaseStep ==
    ASSUME LeaseInv, Next
    PROVE  LeaseInv'
<1>1. CASE Tick
  <2>1. \A i \in Job : job'[i] = [pc |-> job[i].pc, timer |-> Ticked(job[i])]
    BY <1>1 DEF Tick
  <2>2. ASSUME NEW i \in Job
        PROVE  job'[i].pc = job[i].pc /\ job'[i].timer = Ticked(job[i])
    <3> DEFINE t == Ticked(job[i])
    <3>1. job'[i] = [pc |-> job[i].pc, timer |-> t]
      BY <2>1
    <3> HIDE DEF t
    <3>2. job'[i].pc = job[i].pc /\ job'[i].timer = t
      BY <3>1
    <3>3. QED
      BY <3>2 DEF t
  <2>3. lease' \in [holder : Job \cup {None}, ttl : 0..LeaseTtl]
    BY <1>1, ProbeAssumption DEF Tick, LeaseInv, Free, Down
  <2>4. MaxTimer \in Nat /\ MaxTimer >= LeaseTtl
    BY ProbeAssumption DEF MaxTimer, Bigger
  <2>5. ASSUME NEW i \in Job, job'[i].pc \in {"probing", "finished"}
        PROVE  /\ job'[i].timer \in Nat
               /\ job'[i].timer < LeaseTtl =>
                    lease'.holder = i /\ lease'.ttl = LeaseTtl - job'[i].timer
    <3>1. job[i].pc \in {"probing", "finished"}
      BY <2>2, <2>5
    <3>2. job'[i].timer = Smaller(job[i].timer + 1, MaxTimer)
      BY <2>2, <3>1 DEF Ticked
    <3>3. job[i].timer \in Nat /\ job'[i].timer \in Nat
      BY <3>1, <3>2, <2>4 DEF LeaseInv, LeaseAge, Smaller
    <3>4. ASSUME job'[i].timer < LeaseTtl
          PROVE  lease'.holder = i /\ lease'.ttl = LeaseTtl - job'[i].timer
      <4>1. job'[i].timer = job[i].timer + 1
        BY <3>2, <3>3, <3>4, <2>4, ProbeAssumption DEF Smaller
      <4>2. lease.holder = i /\ lease.ttl = LeaseTtl - job[i].timer
        BY <3>1, <3>3, <3>4, <4>1, ProbeAssumption DEF LeaseInv, LeaseAge
      <4>3. lease.ttl \in Nat /\ lease.ttl # 1 /\ lease.ttl # 0
        BY <4>1, <4>2, <3>3, <3>4, ProbeAssumption
      <4>4. lease' = [lease EXCEPT !.ttl = lease.ttl - 1]
        BY <1>1, <4>3 DEF Tick, Down
      <4>5. QED
        BY <4>1, <4>2, <4>3, <4>4, <3>3, ProbeAssumption DEF LeaseInv
    <3>5. QED
      BY <3>3, <3>4
  <2>6. job' = [i \in Job |-> [pc |-> job'[i].pc, timer |-> job'[i].timer]]
    BY <1>1, <2>2 DEF Tick
  <2>7. QED
    BY <2>3, <2>5, <2>6 DEF LeaseInv, LeaseAge
<1>2. ASSUME NEW j \in Job, isOpen(j) \/ RefusedByLease(j) \/ Wake(j) \/ Crash(j)
                              \/ \E d \in 0..MaxSkew : RefusedByWindow(j, d)
      PROVE  LeaseInv'
  <2>1. lease' = lease
    BY <1>2 DEF isOpen, RefusedByLease, Wake, Crash, RefusedByWindow
  <2>2. CASE isOpen(j)
    <3>1. PICK p \in {"done", "checked"} :
            job' = [job EXCEPT ![j] = [pc |-> p, timer |-> job[j].timer]]
      BY <2>2 DEF isOpen, Goto
    <3>2. QED
      BY <2>1, <3>1 DEF LeaseInv, LeaseAge
  <2>3. CASE Wake(j)
    <3>1. job' = [job EXCEPT ![j] = [pc |-> "waiting", timer |-> job[j].timer]]
      BY <2>3 DEF Wake, Goto
    <3>2. QED
      BY <2>1, <3>1 DEF LeaseInv, LeaseAge
  <2>4. CASE Crash(j)
    <3>1. job' = [job EXCEPT ![j] = [pc |-> "waiting", timer |-> 0]]
      BY <2>4 DEF Crash
    <3>2. QED
      BY <2>1, <3>1 DEF LeaseInv, LeaseAge
  <2>5. ASSUME NEW s, Delay(j, s)
        PROVE  LeaseInv'
    <3>1. job' = [job EXCEPT ![j] = [pc |-> "delayed", timer |-> retryDelay(s)]]
      BY <2>5 DEF Delay
    <3>2. QED
      BY <2>1, <3>1 DEF LeaseInv, LeaseAge
  <2>6. QED
    BY <1>2, <2>2, <2>3, <2>4, <2>5 DEF RefusedByLease, RefusedByWindow
<1>3. ASSUME NEW j \in Job, NEW d \in 0..MaxSkew, Acquired(j, d)
      PROVE  LeaseInv'
  <2>1. lease.holder = None /\ lease' = [holder |-> j, ttl |-> LeaseTtl]
        /\ job' = [job EXCEPT ![j] = [pc |-> "probing", timer |-> 0]]
    BY <1>3 DEF Acquired, Grant
  <2>2. \A i \in Job : i # j => job'[i] = job[i]
    BY <2>1 DEF LeaseInv
  <2>3. \A i \in Job : job[i].pc \in {"probing", "finished"} => ~(job[i].timer < LeaseTtl)
    BY <2>1, ProbeAssumption DEF LeaseInv, LeaseAge
  <2>4. LeaseAge'
    BY <2>1, <2>2, <2>3, ProbeAssumption DEF LeaseInv, LeaseAge
  <2>5. QED
    BY <2>1, <2>4, ProbeAssumption DEF LeaseInv
<1>4. ASSUME NEW j \in Job, recordFailure(j) \/ recordSuccess(j) \/ Rejected(j)
      PROVE  LeaseInv'
  <2>1. lease' = lease /\ job[j].pc = "probing"
        /\ job' = [job EXCEPT ![j] = [pc |-> "finished", timer |-> job[j].timer]]
    BY <1>4 DEF recordFailure, recordSuccess, Rejected, At, Goto
  <2>2. QED
    BY <2>1 DEF LeaseInv, LeaseAge
<1>5. ASSUME NEW j \in Job, release(j)
      PROVE  LeaseInv'
  <2>1. job' = [job EXCEPT ![j] = [pc |-> "done", timer |-> 0]]
        /\ lease' = IF lease.holder = j THEN Free ELSE lease
    BY <1>5 DEF release
  <2>2. lease' \in [holder : Job \cup {None}, ttl : 0..LeaseTtl]
    BY <2>1, ProbeAssumption DEF LeaseInv, Free
  <2>3. \A i \in Job : i # j => job'[i] = job[i]
    BY <2>1 DEF LeaseInv
  <2>4. LeaseAge'
    BY <2>1, <2>3 DEF LeaseInv, LeaseAge
  <2>5. QED
    BY <2>1, <2>2, <2>4 DEF LeaseInv
<1>6. QED
  BY <1>1, <1>2, <1>3, <1>4, <1>5 DEF Next, JobStep

\* A probe younger than the lease's expiry holds the lease; two such probes of
\* one host never overlap, whatever crashes, delays and late releases happen.
THEOREM YoungProbesDoNotOverlap == Spec => []HoldsLease
<1>1. Init => LeaseInv
  BY ProbeAssumption DEF Init, LeaseInv, LeaseAge, Free
<1>2. LeaseInv /\ [Next]_vars => LeaseInv'
  <2> SUFFICES ASSUME LeaseInv, [Next]_vars PROVE LeaseInv'
    OBVIOUS
  <2>1. CASE UNCHANGED vars
    BY <2>1 DEF vars, LeaseInv, LeaseAge
  <2>2. QED
    BY <2>1, LeaseStep
<1>3. LeaseInv => HoldsLease
  BY DEF LeaseInv, LeaseAge, HoldsLease
<1>4. QED
  BY <1>1, <1>2, <1>3, PTL DEF Spec

-----------------------------------------------------------------------------
(* The rolling window.                                                     *)

\* The ranges of the limits.
LEMMA Numbers ==
    /\ Window \in Nat \ {0} /\ MaxSkew \in Nat /\ MaxSkew < Window /\ WindowLimit \in Nat \ {0}
    /\ Age \subseteq Nat /\ MaxTimer \in Nat /\ Window <= MaxTimer
  BY ProbeAssumption DEF Age, MaxTimer, Bigger

\* Ages are bounded, so the oldest entry of a window that has one exists.
LEMMA OldestIsAnAge ==
    ASSUME NEW w, w \in [DOMAIN w -> Age], DOMAIN w # {}
    PROVE  Oldest(w) \in Age
<1> DEFINE Top == Window + MaxSkew
           Left == {Top - a : a \in Range(w)}
<1>1. Range(w) \subseteq 0..Top /\ Range(w) # {} /\ Top \in Nat
  BY ProbeAssumption DEF Range, Age
<1>2. Left \subseteq Nat /\ Left # {}
  BY <1>1
<1>3. \E n \in Left : \A k \in Left : ~(<<k, n>> \in OpToRel(<, Nat))
  BY <1>2, NatLessThanWellFounded, WFMin, Zenon
<1>4. PICK n \in Left : \A k \in Left : ~(k < n)
  BY <1>2, <1>3 DEF OpToRel
<1>5. PICK a \in Range(w) : n = Top - a
  BY <1>4
<1>6. ASSUME NEW b \in Range(w)
      PROVE  a >= b
  <2>1. ~(Top - b < n)
    BY <1>4
  <2>2. QED
    BY <2>1, <1>1, <1>5
<1>7. QED
  BY <1>6, <1>1 DEF Oldest, Max, Age

\* What is left after a purge.
LEMMA PurgedWindow ==
    ASSUME WindowInv, NEW d \in 0..MaxSkew
    PROVE  /\ DOMAIN Purged(d) = {t \in DOMAIN window : window[t] < Window + d}
           /\ \A t \in DOMAIN Purged(d) : Purged(d)[t] = window[t]
           /\ Purged(d) \in [DOMAIN Purged(d) -> Age]
           /\ IsFiniteSet(DOMAIN Purged(d))
           /\ Cardinality(DOMAIN Purged(d)) \in Nat
           /\ Cardinality(DOMAIN Purged(d)) <= Cardinality(DOMAIN window)
<1>1. /\ DOMAIN Purged(d) = {t \in DOMAIN window : window[t] < Window + d}
      /\ \A t \in DOMAIN Purged(d) : Purged(d)[t] = window[t]
      /\ Purged(d) = [t \in DOMAIN Purged(d) |-> window[t]]
  BY DEF Purged, Restrict
<1>2. DOMAIN Purged(d) \subseteq DOMAIN window
  BY <1>1
<1>3. Purged(d) \in [DOMAIN Purged(d) -> Age]
  BY <1>1, <1>2 DEF WindowInv, TypeOK
<1>4. QED
  BY <1>1, <1>2, <1>3, FS_Subset, FS_CardinalityType DEF WindowInv, WindowHolds

\* The lag of a clock never purges a start that is counted.
LEMMA PurgeKeepsYoung ==
    ASSUME WindowInv, NEW d \in 0..MaxSkew, NEW t \in DOMAIN started,
           started[t] < Window - MaxSkew
    PROVE  t \in DOMAIN Purged(d) /\ Purged(d)[t] <= started[t] + MaxSkew
<1>1. t \in DOMAIN window /\ window[t] <= started[t] + MaxSkew
  BY DEF WindowInv, WindowHolds
<1>2. started[t] \in Nat /\ window[t] \in Nat
  BY <1>1, Numbers DEF WindowInv, TypeOK
<1>3. window[t] < Window + d
  BY <1>1, <1>2, Numbers
<1>4. QED
  BY <1>1, <1>3, PurgedWindow

Pcs == {"waiting", "checked", "probing", "finished", "delayed", "done"}
HasAcquired == {"probing", "finished", "done"}

JobTyped ==
    /\ job \in [Job -> [pc : Pcs, timer : Timer]]
    /\ \A j \in Job : At(j, "delayed") => job[j].timer <= Window

KeysTyped ==
    /\ lease \in [holder : Job \cup {None}, ttl : 0..LeaseTtl]
    /\ fails \in [count : 0..(Threshold - 1), ttl : 0..OpenFor] /\ openTtl \in 0..OpenFor

WindowTyped ==
    /\ window \in [DOMAIN window -> Age] /\ DOMAIN window \subseteq Job \X (0..crashes)
    /\ started \in [DOMAIN started -> Age] /\ DOMAIN started \subseteq Job \X (0..crashes)
    /\ windowTtl \in 0..Window
    /\ crashes \in 0..MaxCrashes

\* The type invariant, by what an action may touch.
LEMMA TypeParts == TypeOK <=> JobTyped /\ KeysTyped /\ WindowTyped
  BY DEF TypeOK, JobTyped, KeysTyped, WindowTyped, Pcs

\* One job moves; a job that has acquired does not forget it.
LEMMA JobMoves ==
    ASSUME WindowInv, NEW j \in Job, NEW p \in Pcs, NEW n \in Timer,
           job' = [job EXCEPT ![j] = [pc |-> p, timer |-> n]],
           p = "delayed" => n <= Window
    PROVE  /\ JobTyped'
           /\ \A i \in Job : i # j => job'[i] = job[i]
           /\ job'[j].pc = p
<1>1. JobTyped
  BY TypeParts DEF WindowInv
<1>2. /\ job' \in [Job -> [pc : Pcs, timer : Timer]]
      /\ \A i \in Job : i # j => job'[i] = job[i]
      /\ job'[j] = [pc |-> p, timer |-> n]
  BY <1>1 DEF JobTyped
<1>3. QED
  BY <1>1, <1>2 DEF JobTyped, At

\* A step of a job that leaves the window alone.
LEMMA WindowFrame ==
    ASSUME WindowInv, UNCHANGED windowVars, JobTyped', KeysTyped',
           NEW j \in Job, \A i \in Job : i # j => job'[i] = job[i],
           \/ crashes' = crashes /\ (job[j].pc \in HasAcquired => job'[j].pc \in HasAcquired)
           \/ crashes' = crashes + 1 /\ crashes < MaxCrashes
    PROVE  WindowInv'
<1>0. WindowTyped /\ WindowHolds /\ TokensAreUsed
  BY TypeParts DEF WindowInv
<1>1. window' = window /\ started' = started /\ windowTtl' = windowTtl
  BY DEF windowVars
<1>2. crashes' \in 0..MaxCrashes /\ crashes \in Nat /\ crashes <= crashes'
  BY <1>0, ProbeAssumption DEF WindowTyped
<1>3. 0..crashes \subseteq 0..crashes'
  BY <1>2
<1>4. WindowTyped'
  <2>1. Job \X (0..crashes) \subseteq Job \X (0..crashes')
    BY <1>3
  <2>2. DOMAIN window \subseteq Job \X (0..crashes') /\ DOMAIN started \subseteq Job \X (0..crashes')
    BY <1>0, <2>1 DEF WindowTyped
  <2>3. QED
    BY <1>0, <1>1, <1>2, <2>2 DEF WindowTyped
<1>5. WindowHolds'
  BY <1>0, <1>1 DEF WindowHolds
<1>6. TokensAreUsed'
  <2> SUFFICES ASSUME NEW t \in DOMAIN window \cup DOMAIN started, t[2] = crashes'
               PROVE  job'[t[1]].pc \in HasAcquired
    BY <1>1 DEF TokensAreUsed, HasAcquired
  <2>1. t[1] \in Job /\ t[2] \in 0..crashes
    BY <1>0 DEF WindowTyped
  <2>2. crashes' = crashes
    BY <2>1, <1>2
  <2>3. job[t[1]].pc \in HasAcquired
    BY <1>0, <2>2 DEF TokensAreUsed, HasAcquired
  <2>4. CASE t[1] = j
    BY <2>2, <2>3, <2>4, <1>2
  <2>5. CASE t[1] # j
    BY <2>1, <2>3, <2>5
  <2>6. QED
    BY <2>4, <2>5
<1>7. QED
  BY <1>4, <1>5, <1>6, TypeParts DEF WindowInv, TypeOK, JobTyped, KeysTyped, WindowTyped, Pcs

\* A refusal's delay is at least MinRetry and at most the window.
LEMMA RetryDelayBounds ==
    ASSUME NEW s \in Int
    PROVE  retryDelay(s) \in MinRetry..Window /\ retryDelay(s) \in Timer
  BY ProbeAssumption, Numbers DEF retryDelay, Smaller, Bigger, Timer

LEMMA Delays ==
    ASSUME WindowInv, NEW j \in Job, NEW s \in Int, Delay(j, s), job[j].pc = "checked"
    PROVE  /\ JobTyped'
           /\ \A i \in Job : i # j => job'[i] = job[i]
<1>1. PICK n : n = retryDelay(s)
  OBVIOUS
<1>2. n \in Timer /\ n <= Window
  BY <1>1, RetryDelayBounds, ProbeAssumption
<1>3. job' = [job EXCEPT ![j] = [pc |-> "delayed", timer |-> n]]
  BY <1>1 DEF Delay
<1>4. QED
  BY <1>2, <1>3, JobMoves DEF Pcs

\* The steps that leave the window alone.
LEMMA QuietSteps ==
    ASSUME WindowInv, NEW j \in Job,
           isOpen(j) \/ RefusedByLease(j) \/ recordFailure(j) \/ recordSuccess(j)
             \/ Rejected(j) \/ release(j) \/ Wake(j) \/ Crash(j)
    PROVE  WindowInv'
<1>0. JobTyped /\ KeysTyped /\ WindowTyped
  BY TypeParts DEF WindowInv
<1>1. PICK n \in Timer, p \in Pcs : job[j].timer = n /\ job[j].pc = p
  BY <1>0 DEF JobTyped
<1>2. 0 \in Timer
  BY Numbers DEF Timer
<1>3. CASE isOpen(j)
  <2>1. PICK q \in {"done", "checked"} : job' = [job EXCEPT ![j] = [pc |-> q, timer |-> n]]
    BY <1>3, <1>1 DEF isOpen, Goto
  <2>2. p = "waiting" /\ UNCHANGED <<lease, windowVars, circuitVars, crashes>>
    BY <1>3, <1>1 DEF isOpen, At
  <2>3. JobTyped' /\ \A i \in Job : i # j => job'[i] = job[i]
    BY <2>1, JobMoves DEF Pcs
  <2>4. KeysTyped'
    BY <1>0, <2>2 DEF KeysTyped, circuitVars
  <2>5. QED
    BY <1>1, <2>2, <2>3, <2>4, WindowFrame DEF HasAcquired
<1>4. CASE RefusedByLease(j)
  <2>1. PICK s : /\ s = Smaller(LeaseRetry, IF lease.ttl = 0 THEN LeaseTtl ELSE lease.ttl)
                 /\ Delay(j, s)
    BY <1>4 DEF RefusedByLease
  <2>2. lease.ttl \in Int
    BY <1>0, ProbeAssumption DEF KeysTyped
  <2>3. s \in Int
    BY <2>1, <2>2, ProbeAssumption DEF Smaller
  <2>4. job[j].pc = "checked" /\ UNCHANGED <<lease, windowVars, circuitVars, crashes>>
    BY <1>4 DEF RefusedByLease, At
  <2>5. KeysTyped'
    BY <1>0, <2>4 DEF KeysTyped, circuitVars
  <2>6. QED
    BY <2>1, <2>3, <2>4, <2>5, Delays, WindowFrame DEF HasAcquired
<1>5. CASE recordFailure(j) \/ recordSuccess(j) \/ Rejected(j)
  <2>1. job' = [job EXCEPT ![j] = [pc |-> "finished", timer |-> n]]
    BY <1>5, <1>1 DEF recordFailure, recordSuccess, Rejected, Goto
  <2>2. UNCHANGED <<lease, windowVars, crashes>>
    BY <1>5 DEF recordFailure, recordSuccess, Rejected, circuitVars
  <2>3. JobTyped' /\ (\A i \in Job : i # j => job'[i] = job[i]) /\ job'[j].pc = "finished"
    BY <2>1, JobMoves DEF Pcs
  <2>4. fails.count \in Nat /\ fails \in [count : 0..(Threshold - 1), ttl : 0..OpenFor] /\ openTtl \in 0..OpenFor
    BY <1>0, ProbeAssumption DEF KeysTyped
  <2>5. NoFails \in [count : 0..(Threshold - 1), ttl : 0..OpenFor] /\ OpenFor \in 0..OpenFor
    BY ProbeAssumption DEF NoFails
  <2>6. fails' \in [count : 0..(Threshold - 1), ttl : 0..OpenFor] /\ openTtl' \in 0..OpenFor
    <3>1. CASE recordFailure(j)
      <4>1. CASE fails.count + 1 >= Threshold
        BY <3>1, <4>1, <2>5 DEF recordFailure
      <4>2. CASE ~(fails.count + 1 >= Threshold)
        <5>1. fails' = [count |-> fails.count + 1, ttl |-> OpenFor] /\ openTtl' = openTtl
          BY <3>1, <4>2 DEF recordFailure
        <5>2. fails.count + 1 \in 0..(Threshold - 1)
          BY <4>2, <2>4, ProbeAssumption
        <5>3. QED
          BY <5>1, <5>2, <2>4, <2>5
      <4>3. QED
        BY <4>1, <4>2
    <3>2. CASE recordSuccess(j) \/ Rejected(j)
      BY <3>2, <2>4, <2>5 DEF recordSuccess, Rejected, circuitVars
    <3>3. QED
      BY <1>5, <3>1, <3>2
  <2>7. KeysTyped'
    BY <1>0, <2>2, <2>6 DEF KeysTyped
  <2>8. QED
    BY <2>2, <2>3, <2>7, WindowFrame DEF HasAcquired
<1>6. CASE release(j)
  <2>1. job' = [job EXCEPT ![j] = [pc |-> "done", timer |-> 0]]
        /\ UNCHANGED <<windowVars, circuitVars, crashes>>
        /\ lease' = IF lease.holder = j THEN Free ELSE lease
    BY <1>6 DEF release
  <2>2. JobTyped' /\ (\A i \in Job : i # j => job'[i] = job[i]) /\ job'[j].pc = "done"
    BY <1>2, <2>1, JobMoves DEF Pcs
  <2>3. KeysTyped'
    BY <1>0, <2>1, ProbeAssumption DEF KeysTyped, circuitVars, Free
  <2>4. QED
    BY <2>1, <2>2, <2>3, WindowFrame DEF HasAcquired
<1>7. CASE Wake(j)
  <2>1. job' = [job EXCEPT ![j] = [pc |-> "waiting", timer |-> n]]
        /\ UNCHANGED <<lease, windowVars, circuitVars, crashes>> /\ p = "delayed"
    BY <1>1, <1>7 DEF Wake, Goto, At
  <2>2. JobTyped' /\ \A i \in Job : i # j => job'[i] = job[i]
    BY <2>1, JobMoves DEF Pcs
  <2>3. KeysTyped'
    BY <1>0, <2>1 DEF KeysTyped, circuitVars
  <2>4. QED
    BY <1>1, <2>1, <2>2, <2>3, WindowFrame DEF HasAcquired
<1>8. CASE Crash(j)
  <2>1. job' = [job EXCEPT ![j] = [pc |-> "waiting", timer |-> 0]]
        /\ UNCHANGED <<lease, windowVars, circuitVars>>
        /\ crashes' = crashes + 1 /\ crashes < MaxCrashes
    BY <1>8 DEF Crash
  <2>2. JobTyped' /\ \A i \in Job : i # j => job'[i] = job[i]
    BY <1>2, <2>1, JobMoves DEF Pcs
  <2>3. KeysTyped'
    BY <1>0, <2>1 DEF KeysTyped, circuitVars
  <2>4. QED
    BY <2>1, <2>2, <2>3, WindowFrame
<1>9. QED
  BY <1>3, <1>4, <1>5, <1>6, <1>7, <1>8

\* A refusal purges and counts; what it leaves still covers the young starts.
LEMMA RefusalKeepsWindow ==
    ASSUME WindowInv, NEW j \in Job, NEW d \in 0..MaxSkew, RefusedByWindow(j, d)
    PROVE  WindowInv'
<1>0. JobTyped /\ KeysTyped /\ WindowTyped /\ WindowHolds /\ TokensAreUsed
  BY TypeParts DEF WindowInv
<1>1. PICK w : w = Purged(d)
  OBVIOUS
<1>2. /\ DOMAIN w = {t \in DOMAIN window : window[t] < Window + d}
      /\ w \in [DOMAIN w -> Age] /\ IsFiniteSet(DOMAIN w)
      /\ Cardinality(DOMAIN w) \in Nat /\ Cardinality(DOMAIN w) <= Cardinality(DOMAIN window)
      /\ \A t \in DOMAIN started : started[t] < Window - MaxSkew =>
             t \in DOMAIN w /\ w[t] <= started[t] + MaxSkew
  BY <1>1, PurgedWindow, PurgeKeepsYoung
<1>3. /\ job[j].pc = "checked" /\ Cardinality(DOMAIN w) >= WindowLimit
      /\ window' = w /\ UNCHANGED <<lease, windowTtl, started, circuitVars, crashes>>
      /\ Delay(j, Bigger(Window + d - Oldest(w), 1))
  BY <1>1 DEF RefusedByWindow, At, WindowFull
<1>4. DOMAIN w # {}
  BY <1>2, <1>3, FS_EmptySet, Numbers
<1>5. Oldest(w) \in Nat
  BY <1>2, <1>4, OldestIsAnAge, Numbers
<1>6. PICK s \in Int : Delay(j, s)
  BY <1>3, <1>5, Numbers DEF Bigger
<1>7. JobTyped' /\ \A i \in Job : i # j => job'[i] = job[i]
  BY <1>3, <1>6, Delays
<1>8. KeysTyped'
  BY <1>0, <1>3 DEF KeysTyped, circuitVars
<1>9. WindowTyped'
  BY <1>0, <1>2, <1>3 DEF WindowTyped
<1>10. WindowHolds'
  <2>1. Cardinality(DOMAIN window) \in Nat /\ Cardinality(DOMAIN window) <= WindowLimit
    BY <1>0, FS_CardinalityType DEF WindowHolds
  <2>2. Cardinality(DOMAIN w) <= WindowLimit
    BY <1>2, <2>1, Numbers
  <2>3. QED
    BY <1>0, <1>2, <1>3, <2>2 DEF WindowHolds
<1>11. TokensAreUsed'
  <2> SUFFICES ASSUME NEW t \in DOMAIN w \cup DOMAIN started, t[2] = crashes
               PROVE  job'[t[1]].pc \in HasAcquired
    BY <1>3 DEF TokensAreUsed, HasAcquired
  <2>1. t \in DOMAIN window \cup DOMAIN started
    BY <1>2
  <2>2. t[1] \in Job
    BY <1>0, <2>1 DEF WindowTyped
  <2>3. job[t[1]].pc \in HasAcquired
    BY <1>0, <2>1 DEF TokensAreUsed, HasAcquired
  <2>4. t[1] # j
    BY <1>3, <2>3 DEF HasAcquired
  <2>5. QED
    BY <1>7, <2>2, <2>3, <2>4
<1>12. QED
  BY <1>7, <1>8, <1>9, <1>10, <1>11 DEF WindowInv, TypeOK, JobTyped, KeysTyped, WindowTyped, Pcs

\* A grant: the token is new, and the window has room for it.
LEMMA GrantKeepsWindow ==
    ASSUME WindowInv, NEW j \in Job, NEW d \in 0..MaxSkew, Acquired(j, d)
    PROVE  WindowInv' /\ Token(j) \notin DOMAIN window /\ Token(j) \notin DOMAIN started
<1>0. JobTyped /\ KeysTyped /\ WindowTyped /\ WindowHolds /\ TokensAreUsed
  BY TypeParts DEF WindowInv
<1>1. PICK w, tok : w = Purged(d) /\ tok = <<j, crashes>>
  OBVIOUS
<1>2. /\ DOMAIN w = {t \in DOMAIN window : window[t] < Window + d}
      /\ w \in [DOMAIN w -> Age] /\ IsFiniteSet(DOMAIN w)
      /\ Cardinality(DOMAIN w) \in Nat
      /\ \A t \in DOMAIN started : started[t] < Window - MaxSkew =>
             t \in DOMAIN w /\ w[t] <= started[t] + MaxSkew
  BY <1>1, PurgedWindow, PurgeKeepsYoung
<1>3. /\ job[j].pc = "checked" /\ ~(Cardinality(DOMAIN w) >= WindowLimit)
      /\ window' = Added(w, tok, d) /\ started' = Added(started, tok, 0) /\ windowTtl' = Window
      /\ lease' = [holder |-> j, ttl |-> LeaseTtl]
      /\ job' = [job EXCEPT ![j] = [pc |-> "probing", timer |-> 0]]
      /\ UNCHANGED <<circuitVars, crashes>>
  BY <1>1 DEF Acquired, At, WindowFull, Grant, Token
<1>4. tok \notin DOMAIN window /\ tok \notin DOMAIN started
  <2> SUFFICES ASSUME tok \in DOMAIN window \cup DOMAIN started PROVE FALSE
    OBVIOUS
  <2>1. tok[1] = j /\ tok[2] = crashes
    BY <1>1
  <2>2. QED
    BY <1>0, <1>3, <2>1 DEF TokensAreUsed
<1>5. d \in Age /\ 0 \in Age /\ d \in Nat
  BY ProbeAssumption DEF Age
<1>6. /\ DOMAIN window' = DOMAIN w \cup {tok}
      /\ \A t \in DOMAIN window' : window'[t] = IF t = tok THEN d ELSE w[t]
      /\ window' \in [DOMAIN window' -> Age]
  BY <1>2, <1>3, <1>5 DEF Added
<1>7. /\ DOMAIN started' = DOMAIN started \cup {tok}
      /\ \A t \in DOMAIN started' : started'[t] = IF t = tok THEN 0 ELSE started[t]
      /\ started' \in [DOMAIN started' -> Age]
  BY <1>0, <1>3, <1>5 DEF Added, WindowTyped
<1>8. JobTyped' /\ (\A i \in Job : i # j => job'[i] = job[i]) /\ job'[j].pc = "probing"
  <2>1. 0 \in Timer
    BY Numbers DEF Timer
  <2>2. QED
    BY <1>3, <2>1, JobMoves DEF Pcs
<1>9. KeysTyped'
  BY <1>0, <1>3, ProbeAssumption DEF KeysTyped, circuitVars
<1>10. WindowTyped'
  <2>1. crashes \in 0..MaxCrashes /\ crashes \in 0..crashes /\ Window \in 0..Window
    BY <1>0, ProbeAssumption DEF WindowTyped
  <2>2. tok \in Job \X (0..crashes)
    BY <1>1, <2>1
  <2>3. DOMAIN window' \subseteq Job \X (0..crashes) /\ DOMAIN started' \subseteq Job \X (0..crashes)
    BY <1>0, <1>2, <1>6, <1>7, <2>2 DEF WindowTyped
  <2>4. QED
    BY <1>3, <1>6, <1>7, <2>1, <2>3 DEF WindowTyped
<1>11. WindowHolds'
  <2>1. IsFiniteSet(DOMAIN window') /\ Cardinality(DOMAIN window') = Cardinality(DOMAIN w) + 1
    BY <1>2, <1>4, <1>6, FS_AddElement
  <2>2. Cardinality(DOMAIN window') <= WindowLimit
    BY <1>2, <1>3, <2>1, Numbers
  <2>3. ASSUME NEW t \in DOMAIN started'
        PROVE  /\ windowTtl' >= Window - started'[t]
               /\ started'[t] < Window - MaxSkew =>
                    t \in DOMAIN window' /\ window'[t] <= started'[t] + MaxSkew
    <3>1. CASE t = tok
      BY <1>3, <1>5, <1>6, <1>7, <3>1, Numbers
    <3>2. CASE t # tok
      <4>1. t \in DOMAIN started /\ started'[t] = started[t]
        BY <1>7, <2>3, <3>2
      <4>2. started[t] \in Nat
        BY <4>1, <1>0, Numbers DEF WindowTyped
      <4>3. windowTtl' >= Window - started'[t]
        BY <4>1, <4>2, <1>3, Numbers
      <4>4. QED
        BY <1>2, <1>6, <3>2, <4>1, <4>3
    <3>3. QED
      BY <3>1, <3>2
  <2>4. QED
    BY <2>1, <2>2, <2>3 DEF WindowHolds
<1>12. TokensAreUsed'
  <2> SUFFICES ASSUME NEW t \in DOMAIN window' \cup DOMAIN started', t[2] = crashes
               PROVE  job'[t[1]].pc \in HasAcquired
    BY <1>3 DEF TokensAreUsed, HasAcquired
  <2>1. CASE t = tok
    BY <1>1, <1>8, <2>1 DEF HasAcquired
  <2>2. CASE t # tok
    <3>1. t \in DOMAIN window \cup DOMAIN started
      BY <1>2, <1>6, <1>7, <2>2
    <3>2. t[1] \in Job
      BY <1>0, <3>1 DEF WindowTyped
    <3>3. job[t[1]].pc \in HasAcquired
      BY <1>0, <3>1 DEF TokensAreUsed, HasAcquired
    <3>4. t[1] # j
      BY <1>3, <3>3 DEF HasAcquired
    <3>5. QED
      BY <1>8, <3>2, <3>3, <3>4
  <2>3. QED
    BY <2>1, <2>2
<1>13. QED
  BY <1>1, <1>4, <1>8, <1>9, <1>10, <1>11, <1>12
     DEF Token, WindowInv, TypeOK, JobTyped, KeysTyped, WindowTyped, Pcs

\* Time passes: a start and its entry age together, and the key expires only
\* when every start it counted is a window old.
LEMMA TickKeepsWindow ==
    ASSUME WindowInv, Tick
    PROVE  WindowInv'
<1>0. JobTyped /\ KeysTyped /\ WindowTyped /\ WindowHolds /\ TokensAreUsed
  BY TypeParts DEF WindowInv
<1>1. /\ lease' = IF lease.ttl = 1 THEN Free ELSE [lease EXCEPT !.ttl = Down(lease.ttl)]
      /\ windowTtl' = Down(windowTtl)
      /\ window' = IF windowTtl = 1 THEN Empty ELSE Older(window)
      /\ started' = Older(Restrict(started, {t \in DOMAIN started : started[t] + 1 < Window}))
      /\ fails' = IF fails.ttl = 1 THEN NoFails ELSE [fails EXCEPT !.ttl = Down(fails.ttl)]
      /\ openTtl' = Down(openTtl)
      /\ job' = [i \in Job |-> [pc |-> job[i].pc, timer |-> Ticked(job[i])]]
      /\ crashes' = crashes
  BY DEF Tick
<1>2. ASSUME NEW n \in Nat, NEW k \in 0..n PROVE Down(k) \in 0..n
  BY DEF Down
<1>3. KeysTyped'
  <2>1. Down(lease.ttl) \in 0..LeaseTtl /\ Down(fails.ttl) \in 0..OpenFor /\ Down(openTtl) \in 0..OpenFor
    BY <1>0, <1>2, ProbeAssumption DEF KeysTyped
  <2>2. Free \in [holder : Job \cup {None}, ttl : 0..LeaseTtl]
        /\ NoFails \in [count : 0..(Threshold - 1), ttl : 0..OpenFor]
    BY ProbeAssumption DEF Free, NoFails
  <2>3. lease' \in [holder : Job \cup {None}, ttl : 0..LeaseTtl]
    BY <1>0, <1>1, <2>1, <2>2 DEF KeysTyped
  <2>4. fails' \in [count : 0..(Threshold - 1), ttl : 0..OpenFor]
    BY <1>0, <1>1, <2>1, <2>2 DEF KeysTyped
  <2>5. QED
    BY <1>1, <2>1, <2>3, <2>4 DEF KeysTyped
<1>4. ASSUME NEW i \in Job
      PROVE  job'[i].pc = job[i].pc /\ job'[i].timer = Ticked(job[i])
  <2>1. PICK p, n : p = job[i].pc /\ n = Ticked(job[i])
    OBVIOUS
  <2>2. job'[i] = [pc |-> p, timer |-> n]
    BY <1>1, <2>1
  <2>3. QED
    BY <2>1, <2>2
<1>5. ASSUME NEW i \in Job
      PROVE  Ticked(job[i]) \in Timer /\ (job[i].pc = "delayed" => Ticked(job[i]) <= Window)
  <2>1. job[i].timer \in 0..MaxTimer /\ job[i].pc \in Pcs
        /\ (job[i].pc = "delayed" => job[i].timer <= Window)
    BY <1>0 DEF JobTyped, Timer, At
  <2>2. CASE job[i].pc = "delayed"
    BY <2>1, <2>2, Numbers DEF Ticked, Down, Timer
  <2>3. CASE job[i].pc # "delayed"
    BY <2>1, <2>3, Numbers DEF Ticked, Smaller, Timer
  <2>4. QED
    BY <2>2, <2>3
<1>6. JobTyped'
  <2>1. job' = [i \in Job |-> job'[i]] /\ \A i \in Job : job'[i] \in [pc : Pcs, timer : Timer]
    BY <1>0, <1>1, <1>5 DEF JobTyped
  <2>2. QED
    BY <2>1, <1>4, <1>5 DEF JobTyped, At
<1>7. /\ DOMAIN started' = {t \in DOMAIN started : started[t] + 1 < Window}
      /\ \A t \in DOMAIN started' : started'[t] = started[t] + 1
      /\ started' = [t \in DOMAIN started' |-> started'[t]]
  <2>1. \A t \in DOMAIN started : started[t] \in Nat
    BY <1>0, Numbers DEF WindowTyped
  <2>2. PICK y : y = Restrict(started, {t \in DOMAIN started : started[t] + 1 < Window})
    OBVIOUS
  <2>3. DOMAIN y = {t \in DOMAIN started : started[t] + 1 < Window}
        /\ \A t \in DOMAIN y : y[t] = started[t]
    BY <2>2 DEF Restrict
  <2>4. DOMAIN started' = DOMAIN y /\ started' = [t \in DOMAIN started' |-> started'[t]]
        /\ \A t \in DOMAIN started' : started'[t] = Smaller(y[t] + 1, Window + MaxSkew)
    BY <1>1, <2>2 DEF Older
  <2>5. QED
    BY <2>1, <2>3, <2>4, Numbers DEF Smaller
<1>8. \A t \in DOMAIN started : started[t] \in Nat
  BY <1>0, Numbers DEF WindowTyped
<1>9. started' \in [DOMAIN started' -> Age]
  <2>1. \A t \in DOMAIN started' : started'[t] \in Age
    BY <1>7, <1>8, Numbers DEF Age
  <2>2. QED
    BY <2>1, <1>7
<1>10. CASE windowTtl = 1
  <2>1. DOMAIN window' = {} /\ window' \in [DOMAIN window' -> Age]
    BY <1>1, <1>10 DEF Empty
  <2>2. DOMAIN started' = {}
    <3>1. ASSUME NEW t \in DOMAIN started' PROVE FALSE
      <4>1. windowTtl >= Window - started[t] /\ started[t] + 1 < Window /\ started[t] \in Nat
        BY <1>0, <1>7, <1>8 DEF WindowHolds
      <4>2. QED
        BY <4>1, <1>10, Numbers
    <3>2. QED
      BY <3>1
  <2>3. windowTtl' \in 0..Window
    BY <1>1, <1>0, <1>2, Numbers DEF WindowTyped
  <2>4. WindowTyped'
    BY <1>0, <1>1, <1>9, <2>1, <2>2, <2>3 DEF WindowTyped
  <2>5. WindowHolds' /\ TokensAreUsed'
    BY <2>1, <2>2, FS_EmptySet, Numbers DEF WindowHolds, TokensAreUsed
  <2>6. QED
    BY <1>3, <1>6, <2>4, <2>5 DEF WindowInv, TypeOK, JobTyped, KeysTyped, WindowTyped, Pcs
<1>11. CASE windowTtl # 1
  <2>1. /\ DOMAIN window' = DOMAIN window
        /\ \A t \in DOMAIN window : window'[t] = Smaller(window[t] + 1, Window + MaxSkew)
        /\ window' = [t \in DOMAIN window' |-> window'[t]]
    BY <1>1, <1>11 DEF Older
  <2>2. \A t \in DOMAIN window : window[t] \in Nat
    BY <1>0, Numbers DEF WindowTyped
  <2>3. \A t \in DOMAIN window : window'[t] \in Age /\ window'[t] <= window[t] + 1
    BY <2>1, <2>2, Numbers DEF Age, Smaller
  <2>4. windowTtl' \in 0..Window
    BY <1>1, <1>0, <1>2, Numbers DEF WindowTyped
  <2>5. WindowTyped'
    BY <1>0, <1>1, <1>7, <1>9, <2>1, <2>3, <2>4 DEF WindowTyped
  <2>6. ASSUME NEW t \in DOMAIN started'
        PROVE  /\ windowTtl' >= Window - started'[t]
               /\ started'[t] < Window - MaxSkew =>
                    t \in DOMAIN window' /\ window'[t] <= started'[t] + MaxSkew
    <3>1. t \in DOMAIN started /\ started'[t] = started[t] + 1 /\ started[t] \in Nat
          /\ started[t] + 1 < Window
      BY <1>7, <1>8
    <3>2. /\ windowTtl >= Window - started[t]
          /\ started[t] < Window - MaxSkew =>
               t \in DOMAIN window /\ window[t] <= started[t] + MaxSkew
      BY <1>0, <3>1 DEF WindowHolds
    <3>3. windowTtl \in Nat
      BY <1>0, Numbers DEF WindowTyped
    <3>4. windowTtl' >= Window - started'[t]
      BY <1>1, <3>1, <3>2, <3>3, Numbers DEF Down
    <3>5. ASSUME started'[t] < Window - MaxSkew
          PROVE  t \in DOMAIN window' /\ window'[t] <= started'[t] + MaxSkew
      <4>1. t \in DOMAIN window /\ window[t] <= started[t] + MaxSkew
        BY <3>1, <3>2, <3>5, Numbers
      <4>2. window'[t] \in Nat /\ window'[t] <= window[t] + 1 /\ window[t] \in Nat
        BY <4>1, <2>2, <2>3, Numbers
      <4>3. QED
        BY <4>1, <4>2, <2>1, <3>1, Numbers
    <3>6. QED
      BY <3>4, <3>5
  <2>7. WindowHolds'
    BY <1>0, <2>1, <2>6 DEF WindowHolds
  <2>8. TokensAreUsed'
    <3> SUFFICES ASSUME NEW t \in DOMAIN window \cup DOMAIN started, t[2] = crashes
                 PROVE  job'[t[1]].pc \in HasAcquired
      BY <1>1, <1>7, <2>1 DEF TokensAreUsed, HasAcquired
    <3>1. t[1] \in Job
      BY <1>0 DEF WindowTyped
    <3>2. QED
      BY <1>0, <1>4, <3>1 DEF TokensAreUsed, HasAcquired
  <2>9. QED
    BY <1>3, <1>6, <2>5, <2>7, <2>8 DEF WindowInv, TypeOK, JobTyped, KeysTyped, WindowTyped, Pcs
<1>12. QED
  BY <1>10, <1>11

\* The window's invariant holds from the first state on.
LEMMA WindowInductive == Spec => []WindowInv
<1>1. Init => WindowInv
  <2> SUFFICES ASSUME Init PROVE WindowInv
    OBVIOUS
  <2>1. DOMAIN window = {} /\ DOMAIN started = {} /\ window \in [{} -> Age] /\ started \in [{} -> Age]
    BY DEF Init, Empty
  <2>2. 0 \in Timer
    BY Numbers DEF Timer
  <2>3. JobTyped
    BY <2>2 DEF Init, JobTyped, Pcs, At
  <2>4. KeysTyped
    BY ProbeAssumption DEF Init, KeysTyped, Free, NoFails
  <2>5. WindowTyped
    BY <2>1, ProbeAssumption DEF Init, WindowTyped
  <2>6. WindowHolds /\ TokensAreUsed
    BY <2>1, FS_EmptySet, Numbers DEF WindowHolds, TokensAreUsed
  <2>7. QED
    BY <2>3, <2>4, <2>5, <2>6, TypeParts DEF WindowInv
<1>2. WindowInv /\ [Next]_vars => WindowInv'
  <2> SUFFICES ASSUME WindowInv, [Next]_vars PROVE WindowInv'
    OBVIOUS
  <2>1. CASE UNCHANGED vars
    BY <2>1 DEF vars, WindowInv, TypeOK, WindowHolds, TokensAreUsed, At
  <2>2. CASE Tick
    BY <2>2, TickKeepsWindow
  <2>3. CASE \E j \in Job : JobStep(j) \/ Crash(j)
    <3>1. PICK j \in Job : JobStep(j) \/ Crash(j)
      BY <2>3
    <3>2. QED
      BY <3>1, QuietSteps, RefusalKeepsWindow, GrantKeepsWindow DEF JobStep
  <2>4. QED
    BY <2>1, <2>2, <2>3 DEF Next
<1>3. QED
  BY <1>1, <1>2, PTL DEF Spec

\* The keys of MxThrottle and DomainCircuit and the jobs keep their types, and
\* no retry delay exceeds the window.
THEOREM ProbeTypeCorrect == Spec => []TypeOK
  BY WindowInductive, PTL DEF WindowInv

\* The sorted set's limit is the host's: for any number of workers whose clocks
\* lag by at most MaxSkew, any crashes and any engine delay, no stretch of
\* Window - MaxSkew sees more than WindowLimit probes start.
THEOREM WindowLimitsHost == Spec => []HostWindow
<1>1. WindowInv => HostWindow
  <2> SUFFICES ASSUME WindowInv PROVE HostWindow
    OBVIOUS
  <2>1. PICK Y : Y = {t \in DOMAIN started : started[t] < Window - MaxSkew}
    OBVIOUS
  <2>2. Y \subseteq DOMAIN window /\ IsFiniteSet(DOMAIN window)
        /\ Cardinality(DOMAIN window) <= WindowLimit
    BY <2>1 DEF WindowInv, WindowHolds
  <2>3. Cardinality(Y) <= Cardinality(DOMAIN window)
        /\ Cardinality(Y) \in Nat /\ Cardinality(DOMAIN window) \in Nat
    BY <2>2, FS_Subset, FS_CardinalityType
  <2>4. QED
    BY <2>1, <2>2, <2>3, Numbers DEF HostWindow
<1>2. QED
  BY <1>1, WindowInductive, PTL

\* Every acquisition draws a token that neither the sorted set nor the history
\* holds, so the cardinalities the other theorems speak of count probes.
THEOREM TokensAreFresh ==
    Spec => [][\A j \in Job : (\E d \in 0..MaxSkew : Acquired(j, d)) =>
                   Token(j) \notin DOMAIN window \cup DOMAIN started]_vars
<1>1. WindowInv /\ [Next]_vars =>
        [\A j \in Job : (\E d \in 0..MaxSkew : Acquired(j, d)) =>
             Token(j) \notin DOMAIN window \cup DOMAIN started]_vars
  BY GrantKeepsWindow
<1>2. QED
  BY <1>1, WindowInductive, PTL DEF Spec

=============================================================================
