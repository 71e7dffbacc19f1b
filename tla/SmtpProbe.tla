----------------------------- MODULE SmtpProbe ------------------------------
(***************************************************************************)
(* The probe jobs of one MX host and one domain: DomainCircuit's check,    *)
(* MxThrottle's lease and rolling window (two Lua scripts that Redis runs  *)
(* atomically), the engine call, the recorded outcome and the release.     *)
(*                                                                         *)
(* Time is a Tick that ages everything: Redis keys by their remaining TTL, *)
(* window entries and starts by their age, jobs by a timer.  So time is    *)
(* not bounded.  A worker's clock, which scores the window, may lag        *)
(* Redis's by up to MaxSkew (its own drift, and the way to Redis).         *)
(***************************************************************************)
EXTENDS Integers, Functions, FiniteSetsExt

CONSTANTS
    Job,            \* probe jobs for addresses of this host and domain
    None,           \* no holder
    WindowLimit,    \* probes per rolling window (5)
    Window,         \* length of the window (60 s)
    LeaseTtl,       \* expiry of the concurrency lease (30 s)
    LeaseRetry,     \* retry delay after a held lease (1 s)
    MinRetry,       \* shortest retry delay (0.5 s)
    VerifyMax,      \* longest engine call, retries included (91 s)
    Threshold,      \* consecutive failures that open the circuit (3)
    OpenFor,        \* how long it stays open, and how long a streak lives (1 h)
    MaxSkew,        \* bound: lag of a worker's clock
    MaxCrashes      \* bound: worker crashes

ASSUME ProbeAssumption ==
    /\ None \notin Job
    /\ WindowLimit \in Nat \ {0} /\ Window \in Nat \ {0} /\ LeaseTtl \in Nat \ {0}
    /\ LeaseRetry \in Nat \ {0} /\ MinRetry \in 1..Window
    /\ VerifyMax \in Nat /\ Threshold \in Nat \ {0} /\ OpenFor \in Nat \ {0}
    /\ MaxSkew \in 0..(Window - 1) /\ MaxCrashes \in Nat

VARIABLES
    lease,      \* the lease key: who holds it and its TTL (0: no expiry)
    window,     \* the sorted set: the age of each token in it
    windowTtl,  \* the TTL of that key
    fails,      \* the failure counter and its TTL
    openTtl,    \* the TTL of the open key, 0 when the circuit is closed
    job,        \* local state of the jobs
    crashes,
    started     \* history: how long ago the probes of the last window started

vars == <<lease, window, windowTtl, fails, openTtl, job, crashes, started>>
circuitVars == <<fails, openTtl>>
windowVars == <<window, windowTtl, started>>

Age == 0..(Window + MaxSkew)
Free == [holder |-> None, ttl |-> 0]
Empty == [t \in {} |-> 0]
NoFails == [count |-> 0, ttl |-> 0]
Bigger(a, b) == IF a >= b THEN a ELSE b
Smaller(a, b) == IF a <= b THEN a ELSE b
MaxTimer == Bigger(Window, Bigger(VerifyMax, LeaseTtl))
Timer == 0..MaxTimer

Init ==
    /\ lease = Free
    /\ window = Empty /\ windowTtl = 0 /\ started = Empty
    /\ fails = NoFails /\ openTtl = 0
    /\ job = [j \in Job |-> [pc |-> "waiting", timer |-> 0]]
    /\ crashes = 0

\* The token of an acquisition, used once: only a crash makes a job acquire
\* again.
Token(j) == <<j, crashes>>

At(j, pc) == job[j].pc = pc
Goto(j, pc) == job' = [job EXCEPT ![j] = [pc |-> pc, timer |-> @.timer]]

-----------------------------------------------------------------------------
(* Wrong on purpose: plausible bugs the properties must notice.            *)

\* The limit is compared with > instead of >=.
WindowFullLate(w) == Cardinality(DOMAIN w) > WindowLimit

\* The lease key is set without an expiry.
GrantForever(j) == lease' = [holder |-> j, ttl |-> 0]

\* The release deletes the key without comparing its token.
releaseAny(j) ==
    /\ At(j, "finished")
    /\ lease' = Free
    /\ job' = [job EXCEPT ![j] = [pc |-> "done", timer |-> 0]]
    /\ UNCHANGED <<windowVars, circuitVars, crashes>>

-----------------------------------------------------------------------------
(* MxThrottle.                                                             *)

\* ZREMRANGEBYSCORE window 0 (now - windowMs), by a clock that lags by d.
Purged(d) == Restrict(window, {t \in DOMAIN window : window[t] < Window + d})
WindowFull(w) == Cardinality(DOMAIN w) >= WindowLimit
Oldest(w) == Max(Range(w))

\* ZADD: the token joins with the age its score has.
Added(w, token, age) ==
    [t \in DOMAIN w \cup {token} |-> IF t = token THEN age ELSE w[t]]

\* The retry delay, clamped from both sides.
retryDelay(suggested) == Smaller(Bigger(suggested, MinRetry), Window)

\* SET lease token PX leaseTtlMs.
Grant(j) == lease' = [holder |-> j, ttl |-> LeaseTtl]

Delay(j, suggested) ==
    job' = [job EXCEPT ![j] = [pc |-> "delayed", timer |-> retryDelay(suggested)]]

\* A held lease refuses at once, without touching the window.
RefusedByLease(j) ==
    /\ At(j, "checked")
    /\ lease.holder # None
    /\ Delay(j, Smaller(LeaseRetry, IF lease.ttl = 0 THEN LeaseTtl ELSE lease.ttl))
    /\ UNCHANGED <<lease, windowVars, circuitVars, crashes>>

\* A full window refuses until its oldest entry is out of it.
RefusedByWindow(j, d) ==
    /\ At(j, "checked")
    /\ lease.holder = None
    /\ WindowFull(Purged(d))
    /\ window' = Purged(d)
    /\ Delay(j, Bigger(Window + d - Oldest(Purged(d)), 1))
    /\ UNCHANGED <<lease, windowTtl, started, circuitVars, crashes>>

Acquired(j, d) ==
    /\ At(j, "checked")
    /\ lease.holder = None
    /\ ~WindowFull(Purged(d))
    /\ Grant(j)
    /\ window' = Added(Purged(d), Token(j), d)
    /\ windowTtl' = Window
    /\ started' = Added(started, Token(j), 0)
    /\ job' = [job EXCEPT ![j] = [pc |-> "probing", timer |-> 0]]
    /\ UNCHANGED <<circuitVars, crashes>>

\* The lease is deleted only if this caller still owns it.
release(j) ==
    /\ At(j, "finished")
    /\ lease' = IF lease.holder = j THEN Free ELSE lease
    /\ job' = [job EXCEPT ![j] = [pc |-> "done", timer |-> 0]]
    /\ UNCHANGED <<windowVars, circuitVars, crashes>>

-----------------------------------------------------------------------------
(* DomainCircuit and the job around it.                                    *)

\* isOpen: a job of an open domain ends without a probe.
isOpen(j) ==
    /\ At(j, "waiting")
    /\ Goto(j, IF openTtl > 0 THEN "done" ELSE "checked")
    /\ UNCHANGED <<lease, windowVars, circuitVars, crashes>>

\* The failure that reaches the threshold opens the circuit and resets the
\* streak.
recordFailure(j) ==
    /\ At(j, "probing")
    /\ IF fails.count + 1 >= Threshold
       THEN openTtl' = OpenFor /\ fails' = NoFails
       ELSE fails' = [count |-> fails.count + 1, ttl |-> OpenFor] /\ UNCHANGED openTtl
    /\ Goto(j, "finished")
    /\ UNCHANGED <<lease, windowVars, crashes>>

\* A success clears the streak and not the open key.
recordSuccess(j) ==
    /\ At(j, "probing")
    /\ fails' = NoFails
    /\ Goto(j, "finished")
    /\ UNCHANGED <<lease, windowVars, openTtl, crashes>>

\* The engine answers 4xx: the domain is not blamed.
Rejected(j) ==
    /\ At(j, "probing")
    /\ Goto(j, "finished")
    /\ UNCHANGED <<lease, windowVars, circuitVars, crashes>>

\* A delayed job comes back from its start.
Wake(j) ==
    /\ At(j, "delayed") /\ job[j].timer = 0
    /\ Goto(j, "waiting")
    /\ UNCHANGED <<lease, windowVars, circuitVars, crashes>>

\* The worker dies; its lease stays, and BullMQ delivers the job again.
Crash(j) ==
    /\ crashes < MaxCrashes
    /\ job[j].pc \in {"checked", "probing", "finished"}
    /\ crashes' = crashes + 1
    /\ job' = [job EXCEPT ![j] = [pc |-> "waiting", timer |-> 0]]
    /\ UNCHANGED <<lease, windowVars, circuitVars>>

\* One unit of time, no more than the client's timeouts let a call take.
Older(f) == [t \in DOMAIN f |-> Smaller(f[t] + 1, Window + MaxSkew)]
Down(n) == IF n = 0 THEN 0 ELSE n - 1
Ticked(q) ==
    CASE q.pc = "delayed" -> Down(q.timer)
      [] q.pc \in {"probing", "finished"} -> Smaller(q.timer + 1, MaxTimer)
      [] OTHER -> q.timer
Tick ==
    /\ \A j \in Job : At(j, "probing") => job[j].timer < VerifyMax
    /\ lease' = IF lease.ttl = 1 THEN Free ELSE [lease EXCEPT !.ttl = Down(@)]
    /\ windowTtl' = Down(windowTtl)
    /\ window' = IF windowTtl = 1 THEN Empty ELSE Older(window)
    /\ started' = Older(Restrict(started, {t \in DOMAIN started : started[t] + 1 < Window}))
    /\ fails' = IF fails.ttl = 1 THEN NoFails ELSE [fails EXCEPT !.ttl = Down(@)]
    /\ openTtl' = Down(openTtl)
    /\ job' = [j \in Job |-> [pc |-> job[j].pc, timer |-> Ticked(job[j])]]
    /\ UNCHANGED crashes

JobStep(j) ==
    \/ isOpen(j) \/ RefusedByLease(j)
    \/ \E d \in 0..MaxSkew : RefusedByWindow(j, d) \/ Acquired(j, d)
    \/ recordFailure(j) \/ recordSuccess(j) \/ Rejected(j) \/ release(j) \/ Wake(j)

Next == Tick \/ \E j \in Job : JobStep(j) \/ Crash(j)

Spec == Init /\ [][Next]_vars

\* Fairness: time passes and every job that can take a step takes it.
Fairness == WF_vars(Tick) /\ \A j \in Job : WF_vars(JobStep(j))
FairSpec == Spec /\ Fairness

-----------------------------------------------------------------------------
\* The keys and the jobs keep their types; a retry delay is at most a window.
TypeOK ==
    /\ lease \in [holder : Job \cup {None}, ttl : 0..LeaseTtl]
    /\ window \in [DOMAIN window -> Age] /\ DOMAIN window \subseteq Job \X (0..crashes)
    /\ started \in [DOMAIN started -> Age] /\ DOMAIN started \subseteq Job \X (0..crashes)
    /\ windowTtl \in 0..Window
    /\ fails \in [count : 0..(Threshold - 1), ttl : 0..OpenFor] /\ openTtl \in 0..OpenFor
    /\ job \in [Job -> [pc : {"waiting", "checked", "probing", "finished", "delayed", "done"},
                        timer : Timer]]
    /\ \A j \in Job : At(j, "delayed") => job[j].timer <= Window
    /\ crashes \in 0..MaxCrashes

\* "At most 5 probes per rolling 60s window": however the worker's clocks lag,
\* no stretch of the window's length less that lag sees more starts.
HostWindow ==
    Cardinality({t \in DOMAIN started : started[t] < Window - MaxSkew}) <= WindowLimit

\* A probe younger than the lease's expiry holds the lease, so two such probes
\* never overlap: nobody else's late release can take the lease away.
HoldsLease ==
    \A j \in Job :
        job[j].pc \in {"probing", "finished"} /\ job[j].timer < LeaseTtl
            => lease.holder = j

\* No crash and no refusal blocks the host for ever: every job ends.
EveryJobEnds == \A j \in Job : <>(job[j].pc = "done")

-----------------------------------------------------------------------------
(* What makes HoldsLease and HostWindow inductive.                         *)

\* While a probe is younger than the lease's expiry, the key's remaining TTL
\* is exactly what the probe's age leaves of it.
LeaseAge ==
    \A j \in Job :
        job[j].pc \in {"probing", "finished"} =>
            /\ job[j].timer \in Nat
            /\ job[j].timer < LeaseTtl =>
                 lease.holder = j /\ lease.ttl = LeaseTtl - job[j].timer

\* What makes HostWindow inductive: the limit holds of the sorted set, a start
\* too young to be counted out still has its entry, no older than the lag
\* allows, and the key outlives every start it counts.
WindowHolds ==
    /\ IsFiniteSet(DOMAIN window) /\ Cardinality(DOMAIN window) <= WindowLimit
    /\ \A t \in DOMAIN started :
         /\ windowTtl >= Window - started[t]
         /\ started[t] < Window - MaxSkew =>
              t \in DOMAIN window /\ window[t] <= started[t] + MaxSkew

\* A token was drawn by a job that has acquired and not crashed since, or
\* before the last crash.
TokensAreUsed ==
    \A t \in DOMAIN window \cup DOMAIN started :
        t[2] = crashes => job[t[1]].pc \in {"probing", "finished", "done"}

WindowInv == TypeOK /\ WindowHolds /\ TokensAreUsed

LeaseInv ==
    /\ lease \in [holder : Job \cup {None}, ttl : 0..LeaseTtl]
    /\ job = [j \in Job |-> [pc |-> job[j].pc, timer |-> job[j].timer]]
    /\ LeaseAge

=============================================================================
