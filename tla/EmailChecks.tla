---------------------------- MODULE EmailChecks -----------------------------
(***************************************************************************)
(* Single checks of one organisation: concurrent performEmailCheck and     *)
(* performPhoneCheck requests, the result cache they share, the debit that *)
(* pays for a fresh result, and the SMTP probe job that later completes    *)
(* the same row.                                                           *)
(*                                                                         *)
(* A request awaits the balance hint, the cache lookup, the engine, the    *)
(* locked debit, the snapshot update and the enqueue one after the other;  *)
(* what it read before an await may be stale after it.  A row carries its  *)
(* verdict columns and its snapshot (checks_json) separately, because the  *)
(* code writes them in different statements.                               *)
(***************************************************************************)
EXTENDS Integers, FiniteSets

CONSTANTS
    Request,    \* check requests; the row a request creates carries its id
    Email,      \* normalised addresses
    Worker,     \* slots of the smtp-probe worker
    Granted,    \* credits granted before the run
    None,       \* no row, no cached balance
    MaxBuys,    \* bound: credits bought during the run
    Faults      \* subset of {"crash", "ack"}: processes may die between two awaits,
                \* an enqueue may throw although Redis accepted the job

ASSUME ChecksAssumption ==
    /\ Granted \in Nat /\ MaxBuys \in Nat
    /\ None \notin Request /\ None \notin Email
    /\ Faults \subseteq {"crash", "ack"}

VARIABLES
    org,        \* "active" or "deleted"
    bought,     \* credits granted during the run
    spent,      \* ledger: single_check entries, as the set of request ids
    hint,       \* the cached balance (BalanceCache), None when absent
    row,        \* email_checks rows, by the request that created them
    jobs,       \* smtp-probe jobs waiting or delayed, per row
    req,        \* local state of the requests
    probe,      \* local state of the probe workers
    crashed     \* history: rows whose request or job died

vars == <<org, bought, spent, hint, row, jobs, req, probe, crashed>>
storeVars == <<org, bought, spent, row>>

\* A snapshot: which engine result it holds, and its smtp_status.
Engine == {"offline", "probed"}
Snapshot == [engine : Engine, smtp : {"skipped", "pending", "complete"}]
Offline == [engine |-> "offline", smtp |-> "skipped"]

\* "live": inside the 7-day cache window; "old": past it; "expired": past the
\* organisation's retention; "none": no such row.  The verdict column names what
\* it was aggregated from.
Row == [age : {"none", "live", "old", "expired"}, email : Email \cup {None},
        verdict : Engine \cup {"unavailable"}, snapshot : Snapshot]
NoRow == [age |-> "none", email |-> None, verdict |-> "offline", snapshot |-> Offline]
NewRow(e) == [age |-> "live", email |-> e, verdict |-> "offline", snapshot |-> Offline]
Stored(i) == row[i].age # "none"
Visible(i) == row[i].age \in {"live", "old"}
\* The rows findRecentEmailCheck may return for an address.
Recent(e) == {i \in Request : row[i].age = "live" /\ row[i].email = e}

Balance == Granted + bought - Cardinality(spent)

\* The row of an active organisation is found and locked: debits queue up here.
lockOrganization == org = "active"

\* What a request asks for: an offline result, or a mailbox probe too.
Mode == {"offline", "smtp"}
RequestPc == {"idle", "balance", "fill", "lookup", "verify", "debit", "settle",
              "pending", "enqueue", "restore", "phone", "done"}
NoRequest == [pc |-> "idle", email |-> None, mode |-> "offline", balance |-> 0,
              hit |-> None, snapshot |-> Offline]
RequestRecord == [pc : RequestPc, email : Email \cup {None}, mode : Mode,
                  balance : Int, hit : Request \cup {None}, snapshot : Snapshot]
ProbeRecord == [pc : {"idle", "loaded"}, row : Request \cup {None}, engine : Engine]
NoProbe == [pc |-> "idle", row |-> None, engine |-> "offline"]

Init ==
    /\ org = "active"
    /\ bought = 0
    /\ spent = {}
    /\ hint = None
    /\ row = [i \in Request |-> NoRow]
    /\ jobs = [i \in Request |-> 0]
    /\ req = [r \in Request |-> NoRequest]
    /\ probe = [w \in Worker |-> NoProbe]
    /\ crashed = {}

At(r, pc) == req[r].pc = pc
Goto(r, pc) == req' = [req EXCEPT ![r].pc = pc]
Finish(r) == req' = [req EXCEPT ![r] = [NoRequest EXCEPT !.pc = "done"]]

\* UPDATE ... WHERE id: no effect when the row is gone.
SetSnapshot(i, s) ==
    row' = IF Stored(i) THEN [row EXCEPT ![i].snapshot = s] ELSE row

-----------------------------------------------------------------------------
(* Wrong on purpose: plausible bugs the properties must notice.            *)

\* The debit does not look for a row a concurrent request just wrote.
debitWithoutRecheck(r) ==
    /\ At(r, "debit")
    /\ IF org = "active" /\ Balance >= 1
       THEN /\ row' = [row EXCEPT ![r] = NewRow(req[r].email)]
            /\ spent' = spent \cup {r}
            /\ req' = [req EXCEPT ![r] = [@ EXCEPT !.pc = "settle",
                                                   !.balance = Balance - 1, !.hit = r]]
       ELSE Finish(r) /\ UNCHANGED <<row, spent>>
    /\ UNCHANGED <<org, bought, hint, jobs, probe, crashed>>

\* The debit trusts the balance the request read at its start.
debitOnHint(r) ==
    /\ At(r, "debit")
    /\ IF org = "active" /\ Recent(req[r].email) = {} /\ req[r].balance >= 1
       THEN /\ row' = [row EXCEPT ![r] = NewRow(req[r].email)]
            /\ spent' = spent \cup {r}
            /\ req' = [req EXCEPT ![r] = [@ EXCEPT !.pc = "settle", !.hit = r,
                                                   !.balance = req[r].balance - 1]]
       ELSE Finish(r) /\ UNCHANGED <<row, spent>>
    /\ UNCHANGED <<org, bought, hint, jobs, probe, crashed>>

\* A failed enqueue leaves the row pending.
enqueueForgets(r) ==
    /\ At(r, "enqueue")
    /\ Finish(r)
    /\ \/ jobs' = [jobs EXCEPT ![req[r].hit] = @ + 1]
       \/ UNCHANGED jobs
    /\ UNCHANGED <<storeVars, hint, probe, crashed>>

\* A throttled job is not put back.
throttleDrops(w) ==
    /\ probe[w].pc = "loaded"
    /\ probe' = [probe EXCEPT ![w] = NoProbe]
    /\ UNCHANGED <<storeVars, hint, jobs, req, crashed>>

-----------------------------------------------------------------------------
(* performEmailCheck and performPhoneCheck.                                *)

StartEmailCheck(r) ==
    /\ At(r, "idle") /\ org = "active"
    /\ \E e \in Email, m \in Mode :
         req' = [req EXCEPT ![r] = [NoRequest EXCEPT !.pc = "balance", !.email = e,
                                                     !.mode = m]]
    /\ UNCHANGED <<storeVars, hint, jobs, probe, crashed>>

\* currentBalance: the hint, or the ledger's sum when there is none or Redis
\* fails.  Below 1 the request is refused.
currentBalance(r) ==
    /\ At(r, "balance")
    /\ \/ /\ hint # None
          /\ IF hint < 1
             THEN Finish(r)
             ELSE req' = [req EXCEPT ![r] = [@ EXCEPT !.balance = hint,
                                                      !.pc = "lookup"]]
       \/ req' = [req EXCEPT ![r] = [@ EXCEPT !.balance = Balance, !.pc = "fill"]]
    /\ UNCHANGED <<storeVars, hint, jobs, probe, crashed>>

\* The sum is cached one await after it was read; a failed write is ignored.
FillHint(r) ==
    /\ At(r, "fill")
    /\ hint' \in {hint, req[r].balance}
    /\ IF req[r].balance < 1 THEN Finish(r) ELSE Goto(r, "lookup")
    /\ UNCHANGED <<storeVars, jobs, probe, crashed>>

\* A reusable row is returned; if it was never probed and every switch allows
\* it (the organisation's may be on or off), the probe is attached to it.
findRecentEmailCheck(r) ==
    /\ At(r, "lookup")
    /\ \/ Recent(req[r].email) = {} /\ Goto(r, "verify")
       \/ \E i \in Recent(req[r].email) :
            \/ Finish(r)
            \/ /\ req[r].mode = "smtp" /\ row[i].snapshot.smtp = "skipped"
               /\ req' = [req EXCEPT ![r] = [@ EXCEPT !.pc = "pending", !.hit = i,
                                                      !.snapshot = row[i].snapshot]]
    /\ UNCHANGED <<storeVars, hint, jobs, probe, crashed>>

Verify(r) ==
    /\ At(r, "verify")
    /\ Goto(r, "debit") \/ Finish(r)
    /\ UNCHANGED <<storeVars, hint, jobs, probe, crashed>>

\* One transaction under the organisation's lock.  A row written meanwhile is
\* returned free of charge.
createEmailCheckWithDebit(r) ==
    /\ At(r, "debit")
    /\ \/ /\ lockOrganization /\ Recent(req[r].email) = {} /\ Balance >= 1
          /\ row' = [row EXCEPT ![r] = NewRow(req[r].email)]
          /\ spent' = spent \cup {r}
          /\ req' = [req EXCEPT ![r] = [@ EXCEPT !.pc = "settle",
                                                 !.balance = Balance - 1, !.hit = r]]
       \/ /\ lockOrganization /\ Recent(req[r].email) = {} /\ Balance < 1
          /\ req' = [req EXCEPT ![r] = [@ EXCEPT !.pc = "settle", !.balance = Balance]]
          /\ UNCHANGED <<row, spent>>
       \/ /\ ~lockOrganization \/ Recent(req[r].email) # {}
          /\ Finish(r)
          /\ UNCHANGED <<row, spent>>
    /\ UNCHANGED <<org, bought, hint, jobs, probe, crashed>>

\* The balance the transaction computed is cached after it commits.  A new row
\* is probed when the request asked for it and both switches are on.
SettleBalance(r) ==
    /\ At(r, "settle")
    /\ hint' \in {hint, req[r].balance}
    /\ \/ Finish(r)
       \/ req[r].hit # None /\ req[r].mode = "smtp" /\ Goto(r, "pending")
    /\ UNCHANGED <<storeVars, jobs, probe, crashed>>

\* The snapshot as the request read it, marked pending, replaces the stored.
MarkPending(r) ==
    /\ At(r, "pending")
    /\ SetSnapshot(req[r].hit, [req[r].snapshot EXCEPT !.smtp = "pending"])
    /\ Goto(r, "enqueue")
    /\ UNCHANGED <<org, bought, spent, hint, jobs, probe, crashed>>

\* The enqueue may throw, and may throw although Redis accepted the job.
EnqueueProbe(r) ==
    /\ At(r, "enqueue")
    /\ \/ jobs' = [jobs EXCEPT ![req[r].hit] = @ + 1] /\ Finish(r)
       \/ Goto(r, "restore") /\ UNCHANGED jobs
       \/ /\ "ack" \in Faults
          /\ jobs' = [jobs EXCEPT ![req[r].hit] = @ + 1]
          /\ Goto(r, "restore")
    /\ UNCHANGED <<storeVars, hint, probe, crashed>>

RestoreSnapshot(r) ==
    /\ At(r, "restore")
    /\ SetSnapshot(req[r].hit, req[r].snapshot)
    /\ Finish(r)
    /\ UNCHANGED <<org, bought, spent, hint, jobs, probe, crashed>>

\* POST /v1/phone/check: the key named an active organisation.
postPhoneCheck(r) ==
    /\ At(r, "idle") /\ org = "active"
    /\ Goto(r, "phone")
    /\ UNCHANGED <<storeVars, hint, jobs, probe, crashed>>

\* One transaction: the debit, or the balance that refuses it.
createPhoneCheckWithDebit(r) ==
    /\ lockOrganization
    /\ spent' = IF Balance >= 1 THEN spent \cup {r} ELSE spent
    /\ req' = [req EXCEPT ![r] = [@ EXCEPT !.pc = "settle",
                    !.balance = IF Balance >= 1 THEN Balance - 1 ELSE Balance]]

\* A phone check has no cache and asks no engine; an organisation deleted since
\* is refused like an empty balance, which alone is cached.
performPhoneCheck(r) ==
    /\ At(r, "phone")
    /\ \/ createPhoneCheckWithDebit(r)
       \/ ~lockOrganization /\ Finish(r) /\ UNCHANGED spent
    /\ UNCHANGED <<org, bought, row, hint, jobs, probe, crashed>>

RequestDies(r) ==
    /\ "crash" \in Faults /\ req[r].pc \notin {"idle", "done"}
    /\ Finish(r)
    /\ crashed' = crashed \cup ({req[r].hit} \ {None})
    /\ UNCHANGED <<storeVars, hint, jobs, probe>>

-----------------------------------------------------------------------------
(* processSmtpProbe.                                                       *)

\* A row that is missing, expired or of a deleted organisation ends the job.
TakeProbe(w, i) ==
    /\ probe[w].pc = "idle" /\ jobs[i] > 0
    /\ jobs' = [jobs EXCEPT ![i] = @ - 1]
    /\ probe' = IF Visible(i) /\ org = "active"
                THEN [probe EXCEPT ![w] = [pc |-> "loaded", row |-> i,
                                           engine |-> row[i].snapshot.engine]]
                ELSE probe
    /\ UNCHANGED <<storeVars, hint, req, crashed>>

\* The host's slot is taken: moveToDelayed, nothing written.
Throttled(w) ==
    /\ probe[w].pc = "loaded"
    /\ jobs' = [jobs EXCEPT ![probe[w].row] = @ + 1]
    /\ probe' = [probe EXCEPT ![w] = NoProbe]
    /\ UNCHANGED <<storeVars, hint, req, crashed>>

\* Switched off, circuit open or no MX host: the loaded engine result is
\* aggregated again.  Otherwise the probe's result, or "unavailable" over the
\* loaded one when the engine rejects or fails.
updateEmailCheckResult(w) ==
    /\ probe[w].pc = "loaded"
    /\ \E v \in {probe[w].engine, "probed", "unavailable"} :
         LET i == probe[w].row
             e == IF v = "probed" THEN v ELSE probe[w].engine
         IN  row' = IF Stored(i)
                    THEN [row EXCEPT ![i] = [@ EXCEPT !.verdict = v,
                            !.snapshot = [engine |-> e, smtp |-> "complete"]]]
                    ELSE row
    /\ probe' = [probe EXCEPT ![w] = NoProbe]
    /\ UNCHANGED <<org, bought, spent, hint, jobs, req, crashed>>

\* Redis or Postgres fails under the job, which has a single attempt; or the
\* process dies and BullMQ delivers the stalled job again.
ProbeDies(w) ==
    /\ "crash" \in Faults /\ probe[w].pc = "loaded"
    /\ \/ crashed' = crashed \cup {probe[w].row} /\ UNCHANGED jobs
       \/ jobs' = [jobs EXCEPT ![probe[w].row] = @ + 1] /\ UNCHANGED crashed
    /\ probe' = [probe EXCEPT ![w] = NoProbe]
    /\ UNCHANGED <<storeVars, hint, req>>

-----------------------------------------------------------------------------
(* The rest of the system, as far as it touches this state.                *)

\* Time passes for a row: out of the cache window, then past its retention
\* (at once when the retention is 7 days).
AgeRow(i) ==
    /\ Visible(i)
    /\ \E a \in {"old", "expired"} : row' = [row EXCEPT ![i].age = a]
    /\ UNCHANGED <<org, bought, spent, hint, jobs, req, probe, crashed>>

\* DELETE /v1/email/check/:id sees what GET sees.
deleteEmailCheckForOrg(i) ==
    /\ org = "active" /\ Visible(i)
    /\ row' = [row EXCEPT ![i] = NoRow]
    /\ UNCHANGED <<org, bought, spent, hint, jobs, req, probe, crashed>>

\* The retention sweep deletes every expired row in one statement.
purgeExpiredChecks ==
    /\ \E i \in Request : row[i].age = "expired"
    /\ row' = [i \in Request |-> IF row[i].age = "expired"
                                 THEN NoRow ELSE row[i]]
    /\ UNCHANGED <<org, bought, spent, hint, jobs, req, probe, crashed>>

HintExpires ==
    /\ hint # None
    /\ hint' = None
    /\ UNCHANGED <<storeVars, jobs, req, probe, crashed>>

\* grantCreditsWithAudit does not touch the hint.
BuyCredit ==
    /\ bought < MaxBuys
    /\ bought' = bought + 1
    /\ UNCHANGED <<org, spent, hint, row, jobs, req, probe, crashed>>

DeleteOrganization ==
    /\ org = "active"
    /\ org' = "deleted"
    /\ UNCHANGED <<bought, spent, hint, row, jobs, req, probe, crashed>>

RequestStep(r) ==
    \/ currentBalance(r) \/ FillHint(r) \/ findRecentEmailCheck(r) \/ Verify(r)
    \/ createEmailCheckWithDebit(r) \/ SettleBalance(r) \/ MarkPending(r) \/ EnqueueProbe(r)
    \/ RestoreSnapshot(r) \/ performPhoneCheck(r)

Next ==
    \/ \E r \in Request :
         \/ StartEmailCheck(r) \/ postPhoneCheck(r)
         \/ RequestStep(r) \/ RequestDies(r)
         \/ AgeRow(r) \/ deleteEmailCheckForOrg(r)
    \/ \E w \in Worker :
         \/ \E i \in Request : TakeProbe(w, i)
         \/ Throttled(w) \/ updateEmailCheckResult(w) \/ ProbeDies(w)
    \/ purgeExpiredChecks \/ HintExpires \/ BuyCredit \/ DeleteOrganization

Spec == Init /\ [][Next]_vars

(***************************************************************************)
(* Fairness: requests and jobs run to their end, and a host's slot comes   *)
(* free again and again, so a job is not throttled for ever.               *)
(***************************************************************************)
Fairness ==
    /\ \A r \in Request : WF_vars(RequestStep(r))
    /\ \A w \in Worker : \A i \in Request : SF_vars(TakeProbe(w, i))
    /\ \A w \in Worker : SF_vars(updateEmailCheckResult(w))

FairSpec == Spec /\ Fairness

-----------------------------------------------------------------------------
\* Rows, requests, jobs and workers keep their types.
TypeOK ==
    /\ org \in {"active", "deleted"}
    /\ bought \in 0..MaxBuys
    /\ spent \subseteq Request
    /\ hint \in {None} \cup Int
    /\ row \in [Request -> Row]
    /\ jobs \in [Request -> Nat]
    /\ req \in [Request -> RequestRecord]
    /\ probe \in [Worker -> ProbeRecord]
    /\ crashed \subseteq Request

\* Concurrent requests for one address pay once: within the cache window an
\* address has one reusable row (the locked re-check in the debit).
PaidOnce ==
    \A i, j \in Request :
        row[i].age = "live" /\ row[j].age = "live" /\ row[i].email = row[j].email
            => i = j

\* The cached balance may refuse work and never authorises it: however stale
\* the hint or the balance a request read, the ledger's sum stays non-negative.
NotOverspent == Balance >= 0

\* A check the customer sees as pending is being taken care of: a job is
\* queued or running, or a request is about to enqueue or restore it.
Served(i) ==
    \/ jobs[i] > 0
    \/ \E w \in Worker : probe[w].row = i
    \/ \E r \in Request : req[r].hit = i /\ req[r].pc \in {"enqueue", "restore"}
PendingIsServed ==
    \A i \in Request :
        Visible(i) /\ row[i].snapshot.smtp = "pending" /\ i \notin crashed /\ org = "active"
            => Served(i)

\* A pending check reaches a final status or disappears, whoever races.
PendingEnds ==
    \A i \in Request :
        row[i].snapshot.smtp = "pending"
            ~> \/ row[i].snapshot.smtp # "pending" \/ ~Visible(i)
               \/ i \in crashed \/ org = "deleted"

\* "A probe already pending or complete is returned as-is": a row that carries
\* a probe's verdict keeps that probe's snapshot and its complete status.
CompleteIsKept ==
    \A i \in Request :
        Stored(i) /\ row[i].verdict = "probed"
            => row[i].snapshot = [engine |-> "probed", smtp |-> "complete"]

-----------------------------------------------------------------------------
(* What makes the safety properties inductive.                             *)

\* A request restores only a snapshot it read as never probed, and knows the
\* row it marks; a worker names a row exactly while it holds a job.
LocalInv ==
    /\ \A r \in Request :
         /\ req[r].snapshot.smtp = "skipped"
         /\ req[r].pc \in {"pending", "enqueue", "restore"} => req[r].hit \in Request
    /\ \A w \in Worker :
         IF probe[w].pc = "loaded" THEN probe[w].row \in Request ELSE probe[w].row = None

IndInv ==
    /\ TypeOK
    /\ IsFiniteSet(spent)
    /\ LocalInv
    /\ PaidOnce
    /\ NotOverspent
    /\ PendingIsServed

=============================================================================
