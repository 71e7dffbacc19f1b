------------------------------ MODULE Batches -------------------------------
(***************************************************************************)
(* The life of CSV batches of one organisation: the API request that       *)
(* uploads, reserves and enqueues, the BullMQ queue, the workers that      *)
(* claim, process, settle and emit, and the three ways a batch row         *)
(* disappears (the owner's DELETE, "delete all check data", the retention  *)
(* sweep).  They share the batches table, the credit ledger and the object *)
(* store, and no lock spans two of them.                                   *)
(*                                                                         *)
(* One action is one committed transaction, one object-store call or one   *)
(* queue operation; a handler that awaits several of them is several       *)
(* actions with a program counter in between.  The address-level work of a *)
(* chunk is abstracted to how many of its rows are charged.                *)
(***************************************************************************)
EXTENDS Integers, FiniteSets

CONSTANTS
    Batch,      \* batch ids (random UUIDs in the code)
    Worker,     \* slots that run a job: BATCH_WORKER_CONCURRENCY per process
    NoBatch,    \* what an idle worker holds
    MaxRows,    \* bound: rows in the largest upload (MAX_BATCH_ROWS)
    Granted,    \* credits granted to the organisation before the run
    MaxStalls,  \* times BullMQ re-runs one stalled job (its default is 1)
    Faults      \* faults a run includes, of FaultKinds

(***************************************************************************)
(* "crash": a process dies between two awaits.  "stall": BullMQ hands a    *)
(* job to a second worker because the first did not renew its lock in      *)
(* time.  "lost_reply": a commit or enqueue takes effect and the caller    *)
(* sees an error.  "storage": a DeleteObjects call fails.                  *)
(***************************************************************************)
FaultKinds == {"crash", "stall", "lost_reply", "storage"}

ASSUME ConstantsAssumption ==
    /\ NoBatch \notin Batch
    /\ MaxRows \in Nat \ {0}
    /\ Granted \in Nat
    /\ MaxStalls \in Nat
    /\ Faults \subseteq FaultKinds

VARIABLES
    \* Postgres
    org,        \* organizations.deleted_at: "active" or "deleted"
    row,        \* status of the batch row; "none" before, "gone" after it exists
    total,      \* total_rows, known since the CSV inspection
    charged,    \* stats.charged as completeBatch stored it
    resultKey,  \* the rows whose result_object_key is set
    debit,      \* credit_ledger entry "b" (0: none)
    refund,     \* credit_ledger entry "b:refund" (0: none)
    checks,     \* batches that have email_checks rows in the table
    wiping,     \* wipeCheckDataForOrg holds the organisation row's lock
    \* object storage and queue
    objects,    \* keys that exist, as <<batch, "input" | "result">>
    jobs,       \* jobs[b]: jobs of b waiting in the queue
    stalls,     \* stalls[b]: times a job of b was re-run
    \* processes
    api,        \* where the POST /v1/batches request for b stands
    deleting,   \* batches whose DELETE request has the row gone, objects not yet
    sweeping,   \* batches whose objects the sweep deleted, row not yet
    worker,     \* the workers' local state
    emitted,    \* webhook events created, as <<batch, "completed" | "failed">>
    \* history
    struck      \* struck[b]: what happened to b behind its worker's back

rowVars     == <<row, total, charged, resultKey>>
ledgerVars  == <<debit, refund>>
queueVars   == <<jobs, stalls>>
removalVars == <<deleting, sweeping, wiping>>
vars == <<org, rowVars, ledgerVars, checks, objects, queueVars, api,
          removalVars, worker, emitted, struck>>

Status == {"none", "pending", "processing", "done", "failed", "gone"}
Stored == {"pending", "processing", "done", "failed"}
\* "late_upload": answered with an error while the upload is still in flight.
ApiPc == {"idle", "late_upload", "uploaded", "created", "enqueue_failed",
          "rejected", "answered"}
\* Past the claim: the worker acts on the batch without asking again.
OwnerPc == {"org_unavailable", "claimed", "processing", "uploaded", "failing"}
BusyPc == {"taken", "emit_completed", "emit_failed"} \cup OwnerPc
Strikes == FaultKinds \cup {"late_upload", "wipe", "sweep"}
Keys == Batch \X {"input", "result"}

KeysOf(b) == {<<b, "input">>, <<b, "result">>}
\* The keys the row points at: the input, and the result once recorded.
TrackedKeys(b) == {<<b, "input">>} \cup {k \in {<<b, "result">>} : b \in resultKey}
Rows == {b \in Batch : row[b] \in Stored}
Owns(w, b) == worker[w].batch = b /\ worker[w].pc \in OwnerPc

\* The refinement mapping: a batch's debit and refund entries are the ledger's.
Ledger == INSTANCE CreditLedger
            WITH Batch <- Batch, MaxRows <- MaxRows, Granted <- Granted,
                 debit <- debit, refund <- refund

Idle == [pc |-> "idle", batch |-> NoBatch, left |-> 0, charged |-> 0]
Busy == [pc : BusyPc, batch : Batch, left : Nat, charged : Nat]

Init ==
    /\ org = "active"
    /\ row = [b \in Batch |-> "none"]
    /\ total = [b \in Batch |-> 0]
    /\ charged = [b \in Batch |-> 0]
    /\ resultKey = {}
    /\ debit = [b \in Batch |-> 0]
    /\ refund = [b \in Batch |-> 0]
    /\ checks = {}
    /\ wiping = FALSE
    /\ objects = {}
    /\ jobs = [b \in Batch |-> 0]
    /\ stalls = [b \in Batch |-> 0]
    /\ api = [b \in Batch |-> "idle"]
    /\ deleting = {}
    /\ sweeping = {}
    /\ worker = [w \in Worker |-> Idle]
    /\ emitted = {}
    /\ struck = [b \in Batch |-> {}]

-----------------------------------------------------------------------------
(* Helpers: what several transactions have in common.                      *)

\* Inserting a ledger entry or a check row takes a KEY SHARE lock on the
\* organisation row, which waits for the FOR UPDATE lock of a running wipe.
OrgUnlocked == ~wiping

\* INSERT ... ON CONFLICT (org_id, reference_id) DO NOTHING.
InsertRefundOnce(b, n) ==
    refund' = IF refund[b] = 0 THEN [refund EXCEPT ![b] = n] ELSE refund

\* The UPDATE touches no row when the batch row is gone.
SetStatus(b, s) ==
    row' = IF row[b] \in Stored THEN [row EXCEPT ![b] = s] ELSE row

\* Wrong on purpose: the status changes and the refund is forgotten.
failBatchKeepingCredits(b) ==
    /\ OrgUnlocked
    /\ SetStatus(b, "failed")
    /\ UNCHANGED refund

\* failBatch: status failed and the whole reservation back, in one transaction.
failBatch(b) ==
    /\ OrgUnlocked
    /\ SetStatus(b, "failed")
    /\ InsertRefundOnce(b, total[b])

Strike(b, kind) == struck' = [struck EXCEPT ![b] = @ \cup {kind}]

Goto(w, pc) == worker' = [worker EXCEPT ![w].pc = pc]
Finish(w) == worker' = [worker EXCEPT ![w] = Idle]

-----------------------------------------------------------------------------
(***************************************************************************)
(* Wrong on purpose: variants of the actions below with a plausible bug,   *)
(* used to show that the properties notice it.  No specification uses them.*)
(***************************************************************************)

\* The reservation is made without comparing it with the balance.
createBatchUnchecked(b) ==
    /\ api[b] = "uploaded" /\ OrgUnlocked /\ org = "active"
    /\ row' = [row EXCEPT ![b] = "pending"]
    /\ debit' = [debit EXCEPT ![b] = total[b]]
    /\ api' = [api EXCEPT ![b] = "created"]
    /\ UNCHANGED <<org, total, charged, resultKey, refund, checks, objects,
                   queueVars, removalVars, worker, emitted, struck>>

\* A batch that is already being processed can be claimed again.
claimAgain(w) ==
    /\ worker[w].pc = "taken"
    /\ LET b == worker[w].batch IN
       IF row[b] \notin {"pending", "processing"}
       THEN Finish(w) /\ UNCHANGED row
       ELSE /\ row' = [row EXCEPT ![b] = "processing"]
            /\ worker' = [worker EXCEPT ![w] = [@ EXCEPT !.pc = "claimed",
                                                         !.left = total[b]]]
    /\ UNCHANGED <<org, total, charged, resultKey, ledgerVars, checks, objects,
                   queueVars, api, removalVars, emitted, struck>>

\* The job of a deleted organisation ends after the claim, without failBatch.
claimAndForget(w) ==
    /\ worker[w].pc = "taken"
    /\ LET b == worker[w].batch IN
       IF row[b] # "pending"
       THEN Finish(w) /\ UNCHANGED row
       ELSE /\ row' = [row EXCEPT ![b] = "processing"]
            /\ IF org = "active"
               THEN worker' = [worker EXCEPT ![w] = [@ EXCEPT !.pc = "claimed",
                                                              !.left = total[b]]]
               ELSE Finish(w)
    /\ UNCHANGED <<org, total, charged, resultKey, ledgerVars, checks, objects,
                   queueVars, api, removalVars, emitted, struck>>

\* The batch is completed without waiting for the upload.
FinishUnawaited(w) ==
    /\ worker[w].pc = "processing" /\ worker[w].left = 0
    /\ Goto(w, "uploaded")
    /\ UNCHANGED <<org, rowVars, ledgerVars, checks, objects, queueVars, api,
                   removalVars, emitted, struck>>

\* The failure is announced instead of being settled.
AnnounceError(w) ==
    /\ worker[w].pc \in {"claimed", "processing", "uploaded"}
    /\ Goto(w, "emit_failed")
    /\ UNCHANGED <<org, rowVars, ledgerVars, checks, objects, queueVars, api,
                   removalVars, emitted, struck>>

\* DELETE does not refuse a batch that is being processed.
deleteAnyBatch(b) ==
    /\ row[b] \in Stored
    /\ IF row[b] = "pending"
       THEN OrgUnlocked /\ InsertRefundOnce(b, total[b])
       ELSE UNCHANGED refund
    /\ row' = [row EXCEPT ![b] = "gone"]
    /\ resultKey' = resultKey \ {b}
    /\ deleting' = deleting \cup {b}
    /\ UNCHANGED <<org, total, charged, debit, checks, objects, queueVars, api,
                   sweeping, wiping, worker, emitted, struck>>

\* DELETE removes the input and forgets the result.
DeleteInputOnly(b) ==
    /\ b \in deleting
    /\ objects' = objects \ {<<b, "input">>}
    /\ deleting' = deleting \ {b}
    /\ UNCHANGED <<org, rowVars, ledgerVars, checks, queueVars, api, sweeping,
                   wiping, worker, emitted, struck>>

-----------------------------------------------------------------------------
(* POST /v1/batches and POST /internal/batches.                            *)

\* inspectCsv: the data rows of a file it accepts, 1 to MAX_BATCH_ROWS of them;
\* an empty or over-long file and one without an e-mail column is refused.
Inspected == 1..MaxRows

\* The upload and the CSV inspection run side by side.  Both done: the batch
\* can be created, or a truncated, row-less or column-less file is rejected,
\* its object still to be deleted.  When the parser throws first, the input
\* is deleted at once, before the upload has stored it.
Upload(b) ==
    /\ api[b] = "idle" /\ org = "active"
    /\ \/ /\ objects' = objects \cup {<<b, "input">>}
          /\ \/ \E n \in Inspected : /\ total' = [total EXCEPT ![b] = n]
                                     /\ api' = [api EXCEPT ![b] = "uploaded"]
             \/ /\ api' = [api EXCEPT ![b] = "rejected"]
                /\ UNCHANGED total
       \/ /\ api' = [api EXCEPT ![b] = "late_upload"]
          /\ UNCHANGED <<objects, total>>
    /\ UNCHANGED <<org, row, charged, resultKey, ledgerVars, checks, queueVars,
                   removalVars, worker, emitted, struck>>

\* Nobody waits for this upload any more; what it stores has no owner.
LateUpload(b) ==
    /\ api[b] = "late_upload"
    /\ \/ objects' = objects \cup {<<b, "input">>} /\ Strike(b, "late_upload")
       \/ UNCHANGED <<objects, struck>>
    /\ api' = [api EXCEPT ![b] = "answered"]
    /\ UNCHANGED <<org, rowVars, ledgerVars, checks, queueVars, removalVars,
                   worker, emitted>>

\* One transaction under the organisation lock: active, enough credits, row
\* and debit together; otherwise nothing but the answer.
createBatchWithReservation(b) ==
    /\ api[b] = "uploaded" /\ OrgUnlocked
    /\ IF org = "active" /\ Ledger!Balance >= total[b]
       THEN /\ row' = [row EXCEPT ![b] = "pending"]
            /\ debit' = [debit EXCEPT ![b] = total[b]]
            /\ api' = [api EXCEPT ![b] = "created"]
       ELSE /\ api' = [api EXCEPT ![b] = "rejected"]
            /\ UNCHANGED <<row, debit>>
    /\ UNCHANGED <<org, total, charged, resultKey, refund, checks, objects,
                   queueVars, removalVars, worker, emitted, struck>>

Enqueue(b) ==
    /\ api[b] = "created"
    /\ jobs' = [jobs EXCEPT ![b] = @ + 1]
    /\ api' = [api EXCEPT ![b] = "answered"]
    /\ UNCHANGED <<org, rowVars, ledgerVars, checks, objects, stalls,
                   removalVars, worker, emitted, struck>>

\* queue.add rejects; with a lost reply the job is in the queue all the same.
EnqueueFails(b) ==
    /\ api[b] = "created"
    /\ api' = [api EXCEPT ![b] = "enqueue_failed"]
    /\ \/ UNCHANGED <<jobs, struck>>
       \/ /\ "lost_reply" \in Faults
          /\ jobs' = [jobs EXCEPT ![b] = @ + 1]
          /\ Strike(b, "lost_reply")
    /\ UNCHANGED <<org, rowVars, ledgerVars, checks, objects, stalls,
                   removalVars, worker, emitted>>

\* "The reservation must not survive a batch that can never run."
FailUnqueued(b) ==
    /\ api[b] = "enqueue_failed"
    /\ failBatch(b)
    /\ api' = [api EXCEPT ![b] = "rejected"]
    /\ UNCHANGED <<org, total, charged, resultKey, debit, checks, objects,
                   queueVars, removalVars, worker, emitted, struck>>

CleanUpInput(b) ==
    /\ api[b] = "rejected"
    /\ \/ objects' = objects \ {<<b, "input">>} /\ UNCHANGED struck
       \/ "storage" \in Faults /\ Strike(b, "storage") /\ UNCHANGED objects
    /\ api' = [api EXCEPT ![b] = "answered"]
    /\ UNCHANGED <<org, rowVars, ledgerVars, checks, queueVars, removalVars,
                   worker, emitted>>

\* The API process dies mid-request, or the request ends in an error nobody
\* handles (failBatch itself throws, createBatchWithReservation commits and
\* reports an error); nothing resumes the request.
ApiCrash(b) ==
    /\ "crash" \in Faults
    /\ api[b] \notin {"idle", "answered"}
    /\ api' = [api EXCEPT ![b] = "answered"]
    /\ Strike(b, "crash")
    /\ UNCHANGED <<org, rowVars, ledgerVars, checks, objects, queueVars,
                   removalVars, worker, emitted>>

-----------------------------------------------------------------------------
(* The batch worker: processBatch.                                         *)

TakeJob(w, b) ==
    /\ worker[w].pc = "idle" /\ jobs[b] > 0
    /\ jobs' = [jobs EXCEPT ![b] = @ - 1]
    /\ worker' = [worker EXCEPT ![w] =
                    [pc |-> "taken", batch |-> b, left |-> 0, charged |-> 0]]
    /\ UNCHANGED <<org, rowVars, ledgerVars, checks, objects, stalls, api,
                   removalVars, emitted, struck>>

\* UPDATE ... WHERE status IN (pending, validating); no writer ever stores
\* `validating`.  The organisation is read in the same transaction, after the
\* status is already processing.
claimBatchForProcessing(w) ==
    /\ worker[w].pc = "taken"
    /\ LET b == worker[w].batch IN
       IF row[b] # "pending"
       THEN Finish(w) /\ UNCHANGED row
       ELSE /\ row' = [row EXCEPT ![b] = "processing"]
            /\ worker' = [worker EXCEPT ![w] =
                   [pc |-> IF org = "active" THEN "claimed" ELSE "org_unavailable",
                    batch |-> b, left |-> total[b], charged |-> 0]]
    /\ UNCHANGED <<org, total, charged, resultKey, ledgerVars, checks, objects,
                   queueVars, api, removalVars, emitted, struck>>

FailOrgUnavailable(w) ==
    /\ worker[w].pc = "org_unavailable"
    /\ failBatch(worker[w].batch)
    /\ Finish(w)
    /\ UNCHANGED <<org, total, charged, resultKey, debit, checks, objects,
                   queueVars, api, removalVars, emitted, struck>>

\* storage.getStream: an absent input only leaves ProcessingError.
OpenInput(w) ==
    /\ worker[w].pc = "claimed"
    /\ <<worker[w].batch, "input">> \in objects
    /\ Goto(w, "processing")
    /\ UNCHANGED <<org, rowVars, ledgerVars, checks, objects, queueVars, api,
                   removalVars, emitted, struck>>

\* One row: charged when unique, uncached, well-formed and assessed, and then
\* its check row is inserted for reuse; free otherwise.
resolveChunk(w) ==
    /\ worker[w].pc = "processing" /\ worker[w].left > 0
    /\ \/ /\ OrgUnlocked
          /\ worker' = [worker EXCEPT ![w] = [@ EXCEPT !.left = worker[w].left - 1,
                                                       !.charged = worker[w].charged + 1]]
          /\ checks' = checks \cup {worker[w].batch}
       \/ /\ worker' = [worker EXCEPT ![w].left = @ - 1]
          /\ UNCHANGED checks
    /\ UNCHANGED <<org, rowVars, ledgerVars, objects, queueVars, api,
                   removalVars, emitted, struck>>

FinishUpload(w) ==
    /\ worker[w].pc = "processing" /\ worker[w].left = 0
    /\ objects' = objects \cup {<<worker[w].batch, "result">>}
    /\ Goto(w, "uploaded")
    /\ UNCHANGED <<org, rowVars, ledgerVars, checks, queueVars, api,
                   removalVars, emitted, struck>>

\* completeBatch: result pointer, stats, status and the one reconciliation
\* refund, in one transaction.  The refund INSERT has no ON CONFLICT, so a
\* second refund entry makes the transaction fail and roll back.
completeBatch(w) ==
    LET b == worker[w].batch
        unspent == total[b] - worker[w].charged
    IN  /\ worker[w].pc = "uploaded"
        /\ unspent > 0 => OrgUnlocked /\ refund[b] = 0
        /\ SetStatus(b, "done")
        /\ IF row[b] \in Stored
           THEN /\ charged' = [charged EXCEPT ![b] = worker[w].charged]
                /\ resultKey' = resultKey \cup {b}
           ELSE UNCHANGED <<charged, resultKey>>
        /\ refund' = IF unspent > 0 THEN [refund EXCEPT ![b] = unspent] ELSE refund
        /\ \/ Goto(w, "emit_completed") /\ UNCHANGED struck
           \/ "lost_reply" \in Faults /\ Goto(w, "failing") /\ Strike(b, "lost_reply")
        /\ UNCHANGED <<org, total, debit, checks, objects, queueVars, api,
                       removalVars, emitted>>

\* Anything inside the try block throws: the input is gone, the upload or a
\* transaction fails (rolled back).  A result already uploaded stays.
ProcessingError(w) ==
    /\ worker[w].pc \in {"claimed", "processing", "uploaded"}
    /\ Goto(w, "failing")
    /\ UNCHANGED <<org, rowVars, ledgerVars, checks, objects, queueVars, api,
                   removalVars, emitted, struck>>

FailBatch(w) ==
    /\ worker[w].pc = "failing"
    /\ failBatch(worker[w].batch)
    /\ Goto(w, "emit_failed")
    /\ UNCHANGED <<org, total, charged, resultKey, debit, checks, objects,
                   queueVars, api, removalVars, emitted, struck>>

\* emitBatchWebhookEvent; an error is logged and swallowed.
EmitEvent(w) ==
    /\ worker[w].pc \in {"emit_completed", "emit_failed"}
    /\ \/ emitted' = emitted \cup {<<worker[w].batch,
              IF worker[w].pc = "emit_completed" THEN "completed" ELSE "failed">>}
       \/ UNCHANGED emitted
    /\ Finish(w)
    /\ UNCHANGED <<org, rowVars, ledgerVars, checks, objects, queueVars, api,
                   removalVars, struck>>

\* BullMQ finds the lock of an active job expired and re-runs the job, up to
\* maxStalledCount times; after that the job is failed for good.
Requeue(b) ==
    IF stalls[b] < MaxStalls
    THEN /\ jobs' = [jobs EXCEPT ![b] = @ + 1]
         /\ stalls' = [stalls EXCEPT ![b] = @ + 1]
    ELSE UNCHANGED queueVars

\* The process dies, or the job ends in an error nobody handles (failBatch in
\* the catch block throws, the result upload rejects before it is awaited).
Crash(w) ==
    /\ "crash" \in Faults /\ worker[w].pc # "idle"
    /\ Requeue(worker[w].batch)
    /\ Finish(w)
    /\ Strike(worker[w].batch, "crash")
    /\ UNCHANGED <<org, rowVars, ledgerVars, checks, objects, api, removalVars,
                   emitted>>

\* The worker is alive, its job is handed to another one as well.
Stall(w) ==
    /\ "stall" \in Faults /\ worker[w].pc # "idle"
    /\ stalls[worker[w].batch] < MaxStalls
    /\ Requeue(worker[w].batch)
    /\ UNCHANGED <<org, rowVars, ledgerVars, checks, objects, api, removalVars,
                   worker, emitted, struck>>

-----------------------------------------------------------------------------
(* GET and DELETE /v1/batches/:id and the dashboard's batch delete.        *)

\* Every miss looks the same: no such row, or the organisation is deleted.
getBatchForOrg(b) == row[b] \in Stored /\ org = "active"

\* The key behind the download_url of GET /v1/batches/:id, if there is one.
downloadUrl(b) ==
    {k \in {<<b, "result">>} : getBatchForOrg(b) /\ row[b] = "done" /\ b \in resultKey}

\* A processing batch is refused.  A pending one is refunded in full.  The
\* organisation is not read again: a request authenticated before its
\* deletion still runs.
deleteBatchForOrg(b) ==
    /\ row[b] \in Stored \ {"processing"}
    /\ IF row[b] = "pending"
       THEN OrgUnlocked /\ InsertRefundOnce(b, total[b])
       ELSE UNCHANGED refund
    /\ row' = [row EXCEPT ![b] = "gone"]
    /\ resultKey' = resultKey \ {b}
    /\ deleting' = deleting \cup {b}
    /\ UNCHANGED <<org, total, charged, debit, checks, objects, queueVars, api,
                   sweeping, wiping, worker, emitted, struck>>

\* Row first, then both deterministic keys; a storage error is swallowed.
DeleteObjects(b) ==
    /\ b \in deleting
    /\ \/ objects' = objects \ KeysOf(b) /\ UNCHANGED struck
       \/ "storage" \in Faults /\ Strike(b, "storage") /\ UNCHANGED objects
       \/ "crash" \in Faults /\ Strike(b, "crash") /\ UNCHANGED objects
    /\ deleting' = deleting \ {b}
    /\ UNCHANGED <<org, rowVars, ledgerVars, checks, queueVars, api, sweeping,
                   wiping, worker, emitted>>

-----------------------------------------------------------------------------
(* POST /internal/checks/delete-all: wipeCheckDataForOrg.                  *)

\* Lock the organisation, list the keys of every row, delete the objects.
WipeObjects ==
    /\ org = "active" /\ ~wiping /\ Rows \cup checks # {}
    /\ wiping' = TRUE
    /\ objects' = objects \ UNION {TrackedKeys(b) : b \in Rows}
    /\ UNCHANGED <<org, rowVars, ledgerVars, checks, queueVars, api, deleting,
                   sweeping, worker, emitted, struck>>

\* Delete every check and batch row, whatever its status; the ledger is not
\* touched.
WipeRows ==
    /\ wiping
    /\ wiping' = FALSE
    /\ row' = [b \in Batch |-> IF b \in Rows THEN "gone" ELSE row[b]]
    /\ resultKey' = {}
    /\ checks' = {}
    /\ struck' = [b \in Batch |-> IF b \in Rows THEN struck[b] \cup {"wipe"}
                                                ELSE struck[b]]
    /\ UNCHANGED <<org, total, charged, ledgerVars, objects, queueVars, api,
                   deleting, sweeping, worker, emitted>>

\* The storage call throws part-way (or Postgres breaks a deadlock with a
\* settling worker): the transaction rolls back, deleted objects stay deleted.
WipeRollback ==
    /\ wiping
    /\ wiping' = FALSE
    /\ struck' = [b \in Batch |-> IF b \in Rows THEN struck[b] \cup {"wipe"}
                                                ELSE struck[b]]
    /\ UNCHANGED <<org, rowVars, ledgerVars, checks, objects, queueVars, api,
                   deleting, sweeping, worker, emitted>>

-----------------------------------------------------------------------------
(* The hourly retention sweep, step 2, and the organisation's deletion.    *)

\* The row has expired: at least 7 days passed since its creation or its
\* completion (RETENTION_CHOICES), which no running job survives.  Its status
\* is not looked at.
SweepObjects(b) ==
    /\ row[b] \in Stored /\ b \notin sweeping
    /\ \A w \in Worker : worker[w].batch # b
    /\ api[b] = "answered"
    /\ objects' = objects \ TrackedKeys(b)
    /\ sweeping' = sweeping \cup {b}
    /\ UNCHANGED <<org, rowVars, ledgerVars, checks, queueVars, api, deleting,
                   wiping, worker, emitted, struck>>

deleteBatchesByIds(b) ==
    /\ b \in sweeping
    /\ sweeping' = sweeping \ {b}
    /\ row' = IF row[b] \in Stored THEN [row EXCEPT ![b] = "gone"] ELSE row
    /\ resultKey' = resultKey \ {b}
    /\ Strike(b, "sweep")
    /\ UNCHANGED <<org, total, charged, ledgerVars, checks, objects, queueVars,
                   api, deleting, wiping, worker, emitted>>

softDeleteOrganization ==
    /\ org = "active" /\ OrgUnlocked
    /\ org' = "deleted"
    /\ UNCHANGED <<rowVars, ledgerVars, checks, objects, queueVars, api,
                   removalVars, worker, emitted, struck>>

-----------------------------------------------------------------------------
ApiStep(b) ==
    \/ createBatchWithReservation(b) \/ Enqueue(b) \/ EnqueueFails(b)
    \/ FailUnqueued(b) \/ CleanUpInput(b) \/ LateUpload(b)

WorkerStep(w) ==
    \/ \E b \in Batch : TakeJob(w, b)
    \/ claimBatchForProcessing(w) \/ FailOrgUnavailable(w)
    \/ OpenInput(w) \/ resolveChunk(w) \/ FinishUpload(w)
    \/ completeBatch(w) \/ FailBatch(w) \/ EmitEvent(w)

Next ==
    \/ \E b \in Batch :
         \/ Upload(b) \/ ApiStep(b) \/ ApiCrash(b)
         \/ deleteBatchForOrg(b) \/ DeleteObjects(b)
         \/ SweepObjects(b) \/ deleteBatchesByIds(b)
    \/ \E w \in Worker :
         \/ WorkerStep(w) \/ ProcessingError(w) \/ Crash(w) \/ Stall(w)
    \/ WipeObjects \/ WipeRows \/ WipeRollback
    \/ softDeleteOrganization

Spec == Init /\ [][Next]_vars

(***************************************************************************)
(* Fairness: a running process takes its next step.  Steps that wait for   *)
(* the organisation row's lock need strong fairness, which Postgres gives  *)
(* by queueing lock requests.  Customers, errors, crashes and stalls owe   *)
(* nothing.                                                                *)
(***************************************************************************)
Fairness ==
    /\ \A b \in Batch : SF_vars(ApiStep(b)) /\ WF_vars(DeleteObjects(b))
                        /\ WF_vars(deleteBatchesByIds(b))
    /\ \A w \in Worker : SF_vars(WorkerStep(w) \/ ProcessingError(w))
    /\ WF_vars(WipeRows \/ WipeRollback)

FairSpec == Spec /\ Fairness

-----------------------------------------------------------------------------
\* Every variable holds a value of its column, queue or process.
TypeOK ==
    /\ org \in {"active", "deleted"}
    /\ row \in [Batch -> Status]
    /\ total \in [Batch -> 0..MaxRows]
    /\ charged \in [Batch -> Nat]
    /\ resultKey \subseteq Batch
    /\ debit \in [Batch -> 0..MaxRows]
    /\ refund \in [Batch -> 0..MaxRows]
    /\ checks \subseteq Batch
    /\ wiping \in BOOLEAN
    /\ objects \subseteq Keys
    /\ jobs \in [Batch -> Nat]
    /\ stalls \in [Batch -> 0..MaxStalls]
    /\ api \in [Batch -> ApiPc]
    /\ deleting \subseteq Batch
    /\ sweeping \subseteq Batch
    /\ worker \in [Worker -> {Idle} \cup Busy]
    /\ emitted \subseteq Batch \X {"completed", "failed"}
    /\ struck \in [Batch -> SUBSET Strikes]

\* The ledger's promise survives every interleaving and fault: one debit per
\* batch within the balance, at most one refund, never more than the debit.
RefinesLedger == Ledger!LedgerSpec

\* A claimed batch has one worker, however often its job is delivered
\* (claimBatchForProcessing: the UPDATE admits one claim).
SingleOwner ==
    \A b \in Batch : \A v, w \in Worker : Owns(v, b) /\ Owns(w, b) => v = w

\* Once the owner's DELETE took the row, no worker acts on the batch: no
\* probe, result, cache insert or settlement (comment on deleteBatchForOrg).
\* Removals that do not ask the status, and a job enqueued by a call that
\* reported failure, are the exceptions.
DeletedBatchIsQuiet ==
    \A b \in Batch :
        row[b] = "gone" /\ struck[b] \cap {"wipe", "sweep", "lost_reply"} = {}
            => \A w \in Worker : ~Owns(w, b)

\* A done batch has paid for exactly the charged rows and a failed one for
\* none, unless a commit or enqueue was misreported.
SettledExactly ==
    \A b \in Batch : "lost_reply" \notin struck[b] =>
        /\ row[b] = "done" => refund[b] = total[b] - charged[b]
        /\ row[b] = "failed" => refund[b] = total[b]

\* A done batch offers its result while the organisation is active, and the
\* result is there, except while a removal has taken the objects and not yet
\* the row (completeBatch, GET /v1/batches/:id).
ResultDownloadable ==
    \A b \in Batch :
        row[b] = "done" /\ b \notin sweeping /\ ~wiping /\ "wipe" \notin struck[b] =>
            /\ <<b, "result">> \in objects
            /\ org = "active" => downloadUrl(b) = {<<b, "result">>}

\* When nothing struck the batch, a stored object always has a row or a
\* request that will still delete it.
NoOrphans ==
    \A b \in Batch : struck[b] = {} /\ KeysOf(b) \cap objects # {} =>
        \/ row[b] \in Stored
        \/ b \in deleting
        \/ api[b] \notin {"idle", "answered"}

\* A batch never announces both outcomes, and "batch.failed" means the whole
\* reservation came back (docs/webhooks.md), lost replies aside.
EventMatchesLedger ==
    \A b \in Batch :
        /\ ~ {<<b, "completed">>, <<b, "failed">>} \subseteq emitted
        /\ <<b, "failed">> \in emitted /\ "lost_reply" \notin struck[b]
               => refund[b] = total[b]

\* A batch with a job, claimed or not, leaves the pending and processing
\* states, unless the process that held it died.
Settles ==
    \A b \in Batch :
        (row[b] = "processing" \/ (row[b] = "pending" /\ jobs[b] > 0))
            ~> (row[b] \notin {"pending", "processing"} \/ "crash" \in struck[b])

\* A row removed before its claim had its reservation refunded by the removal
\* (comment in processBatch on batches deleted before the claim).
RemovalRefunds ==
    [][\A b \in Batch : row[b] = "pending" /\ row'[b] = "gone"
                            => refund'[b] = debit[b]]_vars

-----------------------------------------------------------------------------
(* The inductive invariant behind SingleOwner, SettledExactly,             *)
(* DeletedBatchIsQuiet and RefinesLedger.                                  *)

Lost(b) == "lost_reply" \in struck[b]
\* The row was taken by a removal that does not look at its status.
Removed(b) == struck[b] \cap {"wipe", "sweep"} # {}

\* A batch has its debit exactly when its row was created, for its row count,
\* and the request and the queue know the batch only in that order.
RequestOK(b) ==
    /\ api[b] \in {"idle", "late_upload", "uploaded"} => row[b] = "none"
    /\ api[b] = "uploaded" => total[b] > 0
    /\ row[b] = "none" => debit[b] = 0 /\ refund[b] = 0 /\ jobs[b] = 0
    /\ row[b] # "none" => debit[b] = total[b] /\ total[b] > 0
    /\ refund[b] <= debit[b]
    /\ api[b] \in {"created", "enqueue_failed"} => row[b] # "none"

\* A busy worker holds a created batch; past the claim the batch is no longer
\* pending, and what it charges stays within the reservation.
WorkerOK(w) ==
    /\ worker[w].pc # "idle" => row[worker[w].batch] # "none"
    /\ worker[w].pc \in OwnerPc =>
          /\ row[worker[w].batch] # "pending"
          /\ worker[w].charged + worker[w].left <= total[worker[w].batch]
    /\ worker[w].pc = "taken" => worker[w].charged = 0 /\ worker[w].left = 0

\* Without a misreported call, a batch that is not yet settled has no refund,
\* a failing request has no job, and an owner's row is processing until a
\* removal that does not look at the status takes it.
SettlementOK(b) ==
    /\ row[b] \in {"pending", "processing"} => refund[b] = 0
    /\ row[b] = "done" => refund[b] = total[b] - charged[b]
    /\ row[b] = "failed" => refund[b] = total[b]
    /\ api[b] \in {"created", "enqueue_failed"} =>
          /\ row[b] \in {"pending", "gone"}
          /\ jobs[b] = 0
          /\ \A w \in Worker : worker[w].batch # b
    /\ \A w \in Worker : Owns(w, b) =>
          /\ refund[b] = 0
          /\ row[b] = "processing" \/ (row[b] = "gone" /\ Removed(b))

RequestInv == \A b \in Batch : RequestOK(b)
WorkerInv == \A w \in Worker : WorkerOK(w)
SettlementInv == \A b \in Batch : ~Lost(b) => SettlementOK(b)

IndInv == TypeOK /\ RequestInv /\ WorkerInv /\ SingleOwner /\ SettlementInv

-----------------------------------------------------------------------------
(* What ResultDownloadable, NoOrphans and EventMatchesLedger rest on.      *)

\* Where the files of a batch stand: the result is stored and recorded only
\* for a batch that was claimed, DELETE takes files only after the row, and
\* what an undisturbed batch has stored is waited for by its row, its request
\* or its DELETE.
FilesOK(b) ==
    /\ row[b] \in {"none", "pending"} => b \notin resultKey
    /\ row[b] = "none" => <<b, "result">> \notin objects
    /\ row[b] = "done" => b \in resultKey
    /\ b \in deleting => row[b] = "gone"
    /\ struck[b] = {} /\ (<<b, "input">> \in objects \/ <<b, "result">> \in objects) =>
          /\ row[b] = "none" => api[b] \in {"uploaded", "rejected"}
          /\ row[b] = "gone" => b \in deleting

\* A worker's own result is there until its row records it: removals take
\* the result only of rows that name it.
ResultOK(w) ==
    LET b == worker[w].batch
    IN  /\ worker[w].pc \in {"claimed", "processing", "uploaded"} => b \notin resultKey
        /\ worker[w].pc = "uploaded" /\ row[b] \in Stored => <<b, "result">> \in objects

\* A completed batch keeps its result until a removal comes for the row.
ReadyOK(b) ==
    row[b] = "done" /\ b \notin sweeping /\ ~wiping /\ "wipe" \notin struck[b]
        => <<b, "result">> \in objects

\* Between its claim and its announcement.
Running(w, b) ==
    worker[w].batch = b /\ worker[w].pc \in OwnerPc \cup {"emit_completed", "emit_failed"}
Announced(b) == \E event \in {"completed", "failed"} : <<b, event>> \in emitted

\* A batch is claimed once in its life, so one worker at most ever gets to
\* announce it, and none is left when it did.
OneRun == \A b \in Batch : \A v, w \in Worker : Running(v, b) /\ Running(w, b) => v = w
EventsOK(b) ==
    /\ Announced(b) \/ (\E w \in Worker : Running(w, b)) => row[b] \notin {"none", "pending"}
    /\ Announced(b) => \A w \in Worker : ~Running(w, b)
    /\ ~ {<<b, "completed">>, <<b, "failed">>} \subseteq emitted
    /\ ~Lost(b) =>
          /\ <<b, "failed">> \in emitted => refund[b] = total[b]
          /\ \A w \in Worker : worker[w].batch = b /\ worker[w].pc = "emit_failed"
                                  => refund[b] = total[b]

FilesInv ==
    /\ \A b \in Batch : FilesOK(b) /\ ReadyOK(b)
    /\ \A w \in Worker : ResultOK(w)
EventsInv == OneRun /\ \A b \in Batch : EventsOK(b)
=============================================================================
