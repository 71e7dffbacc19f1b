------------------------------ MODULE Webhooks ------------------------------
(***************************************************************************)
(* Webhook delivery for one organisation: registration of endpoints, the   *)
(* fan-out of a batch event into delivery rows and jobs, and the worker    *)
(* that resolves the host, posts, records the attempt and puts the job     *)
(* back until the schedule is used up.                                     *)
(*                                                                         *)
(* The row (webhook_deliveries) and the job (BullMQ) are separate state    *)
(* written by separate calls, so either can be ahead of the other.  BullMQ *)
(* runs a job at most once at a time unless its lock lapses under a worker *)
(* that is still running (fault "stall"); a job whose worker died is run   *)
(* again by the stalled check.                                             *)
(***************************************************************************)
EXTENDS Integers, Sequences, FiniteSets

CONSTANTS
    Batch,          \* batches that end; each emits one event
    Endpoint,       \* webhook_endpoints ids
    Worker,         \* slots of the webhook-deliver worker
    Address,        \* what a resolver may answer: tuples of 4 octets, of 8 groups, or others
    MaxAttempts,    \* WEBHOOK_MAX_ATTEMPTS
    MaxStalls,      \* BullMQ maxStalledCount
    None,           \* no worker, no address, no delivery
    Faults          \* subset of {"queue", "db", "crash", "stall"}

Octet == {n \in Nat : n < 256}
Group == {n \in Nat : n < 65536}

ASSUME WebhooksAssumption ==
    /\ MaxAttempts \in Nat \ {0} /\ MaxStalls \in Nat
    /\ None \notin Worker /\ None \notin Address /\ None \notin Batch \X Endpoint
    /\ None \notin Endpoint
    /\ IsFiniteSet(Worker)
    /\ \A a \in Address : /\ Len(a) = 4 => a \in Seq(Octet)
                          /\ Len(a) = 8 => a \in Seq(Group)
    /\ Faults \subseteq {"queue", "db", "crash", "stall"}

VARIABLES
    org,        \* organisation: "active", "deleted" (grace period) or "purged"
    endpoint,   \* webhook_endpoints rows
    delivery,   \* webhook_deliveries rows; the id is the batch and the endpoint
    job,        \* webhook-deliver jobs, one per enqueued delivery
    emit,       \* local state of emitBatchWebhookEvent, per batch
    worker,     \* local state of processDelivery, per slot
    contacted,  \* history: addresses a POST was sent to
    lost,       \* history: deliveries whose job a fault took away
    lapsed      \* history: deliveries whose lock lapsed under a running worker

vars == <<org, endpoint, delivery, job, emit, worker, contacted, lost, lapsed>>
rowVars == <<org, endpoint, delivery>>
history == <<contacted, lost, lapsed>>

Delivery == Batch \X Endpoint
Event == {"batch.completed", "batch.failed"}
EndpointOf(d) == d[2]

EndpointRow == [state : {"none", "active", "deleted"}, events : SUBSET Event]
NoEndpoint == [state |-> "none", events |-> {}]

\* One entry of attempt_log: the number the attempt carried and whether the
\* customer answered 2xx.
AttemptRecord == [attempt : Nat, ok : BOOLEAN]
DeliveryRow == [status : {"none", "pending", "delivered", "failed"},
                attempts : Nat, log : Seq(AttemptRecord)]
NoDelivery == [status |-> "none", attempts |-> 0, log |-> <<>>]

\* "active": a worker holds the job's lock (owner), or died holding it (None).
Job == [state : {"none", "waiting", "delayed", "active"}, owner : Worker \cup {None},
        stalls : Nat]
NoJob == [state |-> "none", owner |-> None, stalls |-> 0]

EmitRecord == [pc : {"idle", "insert", "enqueue", "done"}, todo : SUBSET Endpoint,
               current : Endpoint \cup {None}]
WorkerRecord == [pc : {"idle", "resolve", "post", "record", "delay"},
                 delivery : Delivery \cup {None}, attempt : Nat,
                 address : Address \cup {None}, ok : BOOLEAN]
NoWork == [pc |-> "idle", delivery |-> None, attempt |-> 0, address |-> None, ok |-> FALSE]

-----------------------------------------------------------------------------
(* checkWebhookHost: which addresses a webhook may reach.                  *)

isPrivateIpv4(a) ==
    \/ a[1] = 10
    \/ a[1] = 172 /\ a[2] \in 16..31
    \/ a[1] = 192 /\ a[2] = 168
    \/ a[1] = 127
    \/ a[1] = 169 /\ a[2] = 254
    \/ a[1] = 0

\* An IPv4-mapped address is unwrapped; the masks 0xfe00 and 0xffc0 keep the
\* upper 7 and 10 bits of the first group.
isPrivateIpv6Canonical(g) ==
    \/ /\ \A i \in 1..7 : g[i] = 0
       /\ g[8] = 1
    \/ /\ \A i \in 1..5 : g[i] = 0
       /\ g[6] = 65535
       /\ isPrivateIpv4(<<g[7] \div 256, g[7] % 256, g[8] \div 256, g[8] % 256>>)
    \/ g[1] \div 512 = 126
    \/ g[1] \div 64 = 1018

\* Anything that is neither an IPv4 nor a canonical IPv6 address fails closed.
isPrivateAddress(a) ==
    \/ Len(a) = 4 /\ isPrivateIpv4(a)
    \/ Len(a) = 8 /\ isPrivateIpv6Canonical(a)
    \/ Len(a) \notin {4, 8}

\* Wrong on purpose: one public address is enough.
checkAnyAddress(answer) == \E a \in answer : ~isPrivateAddress(a)

\* One private address poisons the answer; no answer is a refusal too.
checkWebhookHost(answer) ==
    answer # {} /\ \A a \in answer : ~isPrivateAddress(a)

-----------------------------------------------------------------------------
Init ==
    /\ org = "active"
    /\ endpoint = [e \in Endpoint |-> NoEndpoint]
    /\ delivery = [d \in Delivery |-> NoDelivery]
    /\ job = [d \in Delivery |-> NoJob]
    /\ emit = [b \in Batch |-> [pc |-> "idle", todo |-> {}, current |-> None]]
    /\ worker = [w \in Worker |-> NoWork]
    /\ contacted = {}
    /\ lost = {}
    /\ lapsed = {}

Stored(d) == delivery[d].status # "none"
Pending(d) == delivery[d].status = "pending"
\* getDeliveryForProcessing returns the row.
Deliverable(d) ==
    Pending(d) /\ endpoint[EndpointOf(d)].state = "active" /\ org = "active"
\* A worker may touch its job only while it holds the lock.
Owns(w, d) == job[d].state = "active" /\ job[d].owner = w

\* The worker returns: BullMQ removes the job if the lock is still held.
CompleteJob(w) ==
    LET d == worker[w].delivery IN
    /\ job' = IF Owns(w, d) THEN [job EXCEPT ![d] = [@ EXCEPT !.state = "none",
                                                              !.owner = None]]
              ELSE job
    /\ worker' = [worker EXCEPT ![w] = NoWork]

\* Wrong on purpose: the schedule is read one attempt too late.
statusOneMore(attempt, ok) ==
    IF ok THEN "delivered" ELSE IF attempt > MaxAttempts THEN "failed" ELSE "pending"

\* Wrong on purpose: the schedule is read one attempt too early.
statusOneLess(attempt, ok) ==
    IF ok THEN "delivered" ELSE IF attempt + 1 >= MaxAttempts THEN "failed" ELSE "pending"

\* Status after an attempt: 2xx is delivered, the last attempt fails.
StatusAfter(attempt, ok) ==
    IF ok THEN "delivered" ELSE IF attempt >= MaxAttempts THEN "failed" ELSE "pending"

-----------------------------------------------------------------------------
(* Wrong on purpose: plausible bugs the properties must notice.            *)

\* A retry is recorded and the job completed instead of delayed.
delayForgotten(w) ==
    /\ worker[w].pc = "delay"
    /\ CompleteJob(w)
    /\ UNCHANGED <<rowVars, emit, history>>

\* A job is taken whether or not another worker holds its lock.
takeUnlocked(w, d) ==
    /\ worker[w].pc = "idle" /\ job[d].state \in {"waiting", "active"}
    /\ Deliverable(d)
    /\ job' = [job EXCEPT ![d] = [@ EXCEPT !.state = "active", !.owner = w]]
    /\ worker' = [worker EXCEPT ![w] = [NoWork EXCEPT !.pc = "resolve", !.delivery = d,
                                                     !.attempt = delivery[d].attempts + 1]]
    /\ UNCHANGED <<rowVars, emit, history>>

-----------------------------------------------------------------------------
(* Registration: POST and DELETE /v1/webhooks.                             *)

\* The key was checked before the host was resolved, so the insert may follow
\* the organisation's deletion.  URL syntax, https and credentials are
\* conditions on the text of the URL and leave no trace in the state.
createWebhook(e) ==
    /\ org # "purged" /\ endpoint[e].state = "none"
    /\ \E answer \in SUBSET Address : checkWebhookHost(answer)
    /\ \E S \in SUBSET Event \ {{}} :
         endpoint' = [endpoint EXCEPT ![e] = [state |-> "active", events |-> S]]
    /\ UNCHANGED <<org, delivery, job, emit, worker, history>>

softDeleteWebhookEndpoint(e) ==
    /\ endpoint[e].state = "active"
    /\ endpoint' = [endpoint EXCEPT ![e].state = "deleted"]
    /\ UNCHANGED <<org, delivery, job, emit, worker, history>>

softDeleteOrganization ==
    /\ org = "active"
    /\ org' = "deleted"
    /\ UNCHANGED <<endpoint, delivery, job, emit, worker, history>>

\* hardDeleteOrganizationData removes the endpoints; the deliveries cascade.
\* The grace period outlasts a running emission.
hardDeleteOrganizationData ==
    /\ org = "deleted"
    /\ \A b \in Batch : emit[b].pc \in {"idle", "done"}
    /\ org' = "purged"
    /\ endpoint' = [e \in Endpoint |-> NoEndpoint]
    /\ delivery' = [d \in Delivery |-> NoDelivery]
    /\ UNCHANGED <<job, emit, worker, history>>

-----------------------------------------------------------------------------
(* emitBatchWebhookEvent: one row and one job per subscribed endpoint.     *)

findEndpointsForEvent(event) ==
    {e \in Endpoint : org = "active" /\ endpoint[e].state = "active"
                      /\ event \in endpoint[e].events}

emitBatchWebhookEvent(b) ==
    /\ emit[b].pc = "idle"
    /\ \E event \in Event :
         LET found == findEndpointsForEvent(event) IN
         emit' = [emit EXCEPT ![b] = [@ EXCEPT !.todo = found,
                                               !.pc = IF found = {} THEN "done" ELSE "insert"]]
    /\ UNCHANGED <<rowVars, job, worker, history>>

createWebhookDelivery(b, e) ==
    /\ emit[b].pc = "insert" /\ e \in emit[b].todo
    /\ endpoint[e].state # "none"
    /\ delivery' = [delivery EXCEPT ![<<b, e>>] = [NoDelivery EXCEPT !.status = "pending"]]
    /\ emit' = [emit EXCEPT ![b] = [@ EXCEPT !.pc = "enqueue", !.current = e]]
    /\ UNCHANGED <<org, endpoint, job, worker, history>>

\* A failing insert throws: the endpoints not yet reached get no delivery.
insertFails(b) ==
    /\ "db" \in Faults /\ emit[b].pc = "insert"
    /\ emit' = [emit EXCEPT ![b] = [@ EXCEPT !.pc = "done", !.todo = {}]]
    /\ UNCHANGED <<rowVars, job, worker, history>>

\* The next endpoint of the loop, or the end of it.
NextEndpoint(b) ==
    LET left == emit[b].todo \ {emit[b].current} IN
    emit' = [emit EXCEPT ![b] = [pc |-> IF left = {} THEN "done" ELSE "insert",
                                 todo |-> left, current |-> None]]

enqueue(b) ==
    LET d == <<b, emit[b].current>> IN
    /\ emit[b].pc = "enqueue"
    /\ job' = [job EXCEPT ![d].state = "waiting"]
    /\ NextEndpoint(b)
    /\ UNCHANGED <<rowVars, worker, history>>

\* The error is logged and the loop goes on; the row stays pending.
enqueueFails(b) ==
    /\ "queue" \in Faults /\ emit[b].pc = "enqueue"
    /\ lost' = lost \cup {<<b, emit[b].current>>}
    /\ NextEndpoint(b)
    /\ UNCHANGED <<rowVars, job, worker, contacted, lapsed>>

EmitterDies(b) ==
    /\ "crash" \in Faults /\ emit[b].pc \in {"insert", "enqueue"}
    /\ lost' = IF emit[b].pc = "enqueue" THEN lost \cup {<<b, emit[b].current>>} ELSE lost
    /\ emit' = [emit EXCEPT ![b] = [pc |-> "done", todo |-> {}, current |-> None]]
    /\ UNCHANGED <<rowVars, job, worker, contacted, lapsed>>

-----------------------------------------------------------------------------
(* processDelivery.                                                        *)

getDeliveryForProcessing(w, d) ==
    /\ worker[w].pc = "idle" /\ job[d].state = "waiting"
    /\ IF Deliverable(d)
       THEN /\ job' = [job EXCEPT ![d] = [@ EXCEPT !.state = "active", !.owner = w]]
            /\ worker' = [worker EXCEPT ![w] =
                 [NoWork EXCEPT !.pc = "resolve", !.delivery = d,
                                !.attempt = delivery[d].attempts + 1]]
       ELSE /\ job' = [job EXCEPT ![d].state = "none"]
            /\ UNCHANGED worker
    /\ UNCHANGED <<rowVars, emit, history>>

\* The resolver may answer differently at every lookup.
resolveHost(w) ==
    /\ worker[w].pc = "resolve"
    /\ \E answer \in SUBSET Address :
         IF checkWebhookHost(answer)
         THEN \E a \in answer :
                worker' = [worker EXCEPT ![w] = [@ EXCEPT !.pc = "post", !.address = a]]
         ELSE worker' = [worker EXCEPT ![w] = [@ EXCEPT !.pc = "record", !.ok = FALSE]]
    /\ UNCHANGED <<rowVars, job, emit, history>>

\* fetchWebhookTransport: the socket is pinned to the approved address, a
\* redirect is not followed, and only 2xx counts.
TransportResult == {"2xx", "http_error", "redirect", "timeout", "network_error"}
fetchWebhookTransport(w) ==
    /\ worker[w].pc = "post"
    /\ contacted' = contacted \cup {worker[w].address}
    /\ \E result \in TransportResult :
         worker' = [worker EXCEPT ![w] = [@ EXCEPT !.pc = "record", !.address = None,
                                                   !.ok = (result = "2xx")]]
    /\ UNCHANGED <<rowVars, job, emit, lost, lapsed>>

\* The UPDATE names the row by id only; attempts is incremented in SQL.
recordDeliveryAttempt(w) ==
    LET d == worker[w].delivery
        after == StatusAfter(worker[w].attempt, worker[w].ok)
    IN
    /\ worker[w].pc = "record"
    /\ delivery' = IF Stored(d)
         THEN [delivery EXCEPT ![d] =
                 [status |-> after, attempts |-> @.attempts + 1,
                  log |-> Append(@.log, [attempt |-> worker[w].attempt,
                                         ok |-> worker[w].ok])]]
         ELSE delivery
    /\ IF after = "pending"
       THEN /\ worker' = [worker EXCEPT ![w].pc = "delay"]
            /\ UNCHANGED job
       ELSE CompleteJob(w)
    /\ UNCHANGED <<org, endpoint, emit, history>>

\* Postgres fails: the job fails too, and one attempt is all BullMQ gives it.
recordFails(w) ==
    /\ "db" \in Faults /\ worker[w].pc = "record"
    /\ lost' = lost \cup {worker[w].delivery}
    /\ CompleteJob(w)
    /\ UNCHANGED <<rowVars, emit, contacted, lapsed>>

\* moveToDelayed needs the lock; without it the worker only gets an error.
moveToDelayed(w) ==
    LET d == worker[w].delivery IN
    /\ worker[w].pc = "delay"
    /\ job' = IF Owns(w, d) THEN [job EXCEPT ![d] = [@ EXCEPT !.state = "delayed",
                                                              !.owner = None]]
              ELSE job
    /\ worker' = [worker EXCEPT ![w] = NoWork]
    /\ UNCHANGED <<rowVars, emit, history>>

-----------------------------------------------------------------------------
(* BullMQ: delays elapse, workers die, locks lapse.                        *)

DelayElapses(d) ==
    /\ job[d].state = "delayed"
    /\ job' = [job EXCEPT ![d].state = "waiting"]
    /\ UNCHANGED <<rowVars, emit, worker, history>>

WorkerDies(w) ==
    LET d == worker[w].delivery IN
    /\ "crash" \in Faults /\ worker[w].pc # "idle"
    /\ job' = IF Owns(w, d) THEN [job EXCEPT ![d].owner = None] ELSE job
    /\ worker' = [worker EXCEPT ![w] = NoWork]
    /\ UNCHANGED <<rowVars, emit, history>>

\* The stalled check: a job without a live lock is run again, MaxStalls times.
Stalled(d) ==
    /\ job[d].state = "active"
    /\ job[d].owner = None \/ "stall" \in Faults
    /\ lapsed' = IF job[d].owner = None THEN lapsed ELSE lapsed \cup {d}
    /\ IF job[d].stalls < MaxStalls
       THEN /\ job' = [job EXCEPT ![d] = [state |-> "waiting", owner |-> None,
                                          stalls |-> @.stalls + 1]]
            /\ UNCHANGED lost
       ELSE /\ job' = [job EXCEPT ![d] = [@ EXCEPT !.state = "none", !.owner = None]]
            /\ lost' = lost \cup {d}
    /\ UNCHANGED <<rowVars, emit, worker, contacted>>

-----------------------------------------------------------------------------
EmitStep(b) ==
    \/ \E e \in Endpoint : createWebhookDelivery(b, e)
    \/ insertFails(b)
    \/ enqueue(b)
    \/ enqueueFails(b)
    \/ EmitterDies(b)

AttemptStep(w) ==
    \/ resolveHost(w)
    \/ fetchWebhookTransport(w)
    \/ recordDeliveryAttempt(w)
    \/ recordFails(w)
    \/ moveToDelayed(w)

Next ==
    \/ \E e \in Endpoint : createWebhook(e) \/ softDeleteWebhookEndpoint(e)
    \/ softDeleteOrganization
    \/ hardDeleteOrganizationData
    \/ \E b \in Batch : emitBatchWebhookEvent(b) \/ EmitStep(b)
    \/ \E w \in Worker : AttemptStep(w) \/ WorkerDies(w)
    \/ \E w \in Worker, d \in Delivery : getDeliveryForProcessing(w, d)
    \/ \E d \in Delivery : DelayElapses(d) \/ Stalled(d)

Spec == Init /\ [][Next]_vars

\* An emission and an attempt that began go on; the queue is first in first
\* out, so a waiting job gets one of the slots that become free; a delay
\* elapses and the stalled check runs.
Fairness ==
    /\ \A b \in Batch : WF_vars(EmitStep(b))
    /\ \A w \in Worker : WF_vars(AttemptStep(w))
    /\ \A d \in Delivery :
         /\ SF_vars(\E w \in Worker : getDeliveryForProcessing(w, d))
         /\ WF_vars(DelayElapses(d))
         /\ WF_vars(job[d].owner = None /\ Stalled(d))

FairSpec == Spec /\ Fairness

-----------------------------------------------------------------------------
(* Properties.                                                             *)

\* Rows, jobs, emissions and workers keep their types, and a worker that posts
\* has a delivery, an attempt number and an approved address.
TypeOK ==
    /\ org \in {"active", "deleted", "purged"}
    /\ endpoint \in [Endpoint -> EndpointRow]
    /\ delivery \in [Delivery -> DeliveryRow]
    /\ job \in [Delivery -> Job]
    /\ emit \in [Batch -> EmitRecord]
    /\ worker \in [Worker -> WorkerRecord]
    /\ contacted \subseteq Address
    /\ lost \subseteq Delivery /\ lapsed \subseteq Delivery
    /\ \A b \in Batch : emit[b].pc = "enqueue" => emit[b].current \in emit[b].todo
    /\ \A w \in Worker : worker[w].pc # "idle" => worker[w].delivery # None
    /\ \A w \in Worker : worker[w].pc = "post" => worker[w].address # None

\* The reserved blocks by the first 16 bits of their addresses: first and size.
Block == {<<10 * 256, 256>>, <<172 * 256 + 16, 16>>, <<192 * 256 + 168, 1>>,
          <<127 * 256, 256>>, <<169 * 256 + 254, 1>>, <<0, 256>>}
InBlock(prefix, block) == block[1] <= prefix /\ prefix < block[1] + block[2]
\* Which 16 bits decide: the first two octets, or the embedded ones.
Reserved(a) ==
    IF Len(a) = 4 THEN \E k \in Block : InBlock(a[1] * 256 + a[2], k)
    ELSE \/ a[6] = 65535 /\ (\A i \in 1..5 : a[i] = 0) /\ \E k \in Block : InBlock(a[7], k)
         \/ a[1] >= 64512 /\ a[1] < 65024
         \/ a[1] >= 65152 /\ a[1] < 65216
         \/ a = <<0, 0, 0, 0, 0, 0, 0, 1>>

\* However the customer's DNS changes between registration, the check of an
\* attempt and its POST, no POST leaves for a reserved address, in whichever
\* of its forms the resolver gave it (ssrf.ts, processor.ts, transport.ts).
OnlyPublic == \A a \in contacted : ~Reserved(a)

\* An honest row.
LogOK(row) ==
    /\ row.attempts = Len(row.log) /\ row.attempts <= MaxAttempts
    /\ \A i \in 1..Len(row.log) :
         /\ row.log[i].attempt = i
         /\ row.log[i].ok <=> (i = Len(row.log) /\ row.status = "delivered")
    /\ row.status = "delivered" => row.attempts > 0
    /\ row.status = "failed" <=> (row.attempts = MaxAttempts /\ row.status # "delivered")

\* The attempt log is the ordered history recordDeliveryAttempt claims: the
\* i-th entry carries number i, only the last can be a success, the counter
\* agrees with it, and a delivery is given up exactly after MaxAttempts
\* failures.  Crashes, re-runs and failed writes do not disturb it; only a
\* lock that lapses under a running worker does.
HonestLog == \A d \in Delivery \ lapsed : LogOK(delivery[d])

\* However often its job is run twice, a delivery is attempted at most once
\* more per lapse than the schedule allows (processDelivery counts from the
\* row, the UPDATE increments it).
AttemptsBounded ==
    \A d \in Delivery : delivery[d].attempts <= MaxAttempts + job[d].stalls

\* A pending delivery that is still wanted is delivered or given up: only a
\* fault (the enqueue or the record failed, its process died first, it stalled
\* too often) leaves a row that nothing will ever pick up.
PendingEnds ==
    \A d \in Delivery :
      Pending(d) ~> ~Deliverable(d) \/ d \in lost \cup lapsed

\* processDelivery implements AtLeastOnce for the deliveries whose lock never
\* lapsed: settled means settled, and attempts are counted one by one.
Promise == INSTANCE AtLeastOnce WITH
    Deliveries <- Delivery,
    Limit <- MaxAttempts,
    status <- [d \in Delivery |-> IF d \in lapsed THEN "void" ELSE delivery[d].status],
    tries <- [d \in Delivery |-> IF d \in lapsed THEN 0 ELSE delivery[d].attempts]
AtLeastOnceHolds == Promise!Spec

-----------------------------------------------------------------------------
(* What makes the safety properties inductive.                             *)

\* A worker whose attempt is not recorded yet.
Attempting(w, d) ==
    worker[w].delivery = d /\ worker[w].pc \in {"resolve", "post", "record"}
\* The workers that run a delivery without its lock.
Astray(d) == {w \in Worker : Attempting(w, d) /\ ~Owns(w, d)}

WorkerOK(w) ==
    /\ worker[w].pc = "idle" => worker[w].delivery = None
    /\ worker[w].pc # "idle" => worker[w].attempt > 0
    /\ worker[w].pc = "post" => worker[w].address \in Address
                                /\ ~isPrivateAddress(worker[w].address)

\* Only an active job is locked, by a worker that runs it.
LockOK(d) ==
    /\ job[d].state # "active" => job[d].owner = None
    /\ job[d].owner # None => worker[job[d].owner].delivery = d

\* Without a lapse the worker that runs a delivery holds its lock, and its
\* attempt is the next one of the row.
RunOK(d) ==
    \A w \in Worker : worker[w].delivery = d =>
      /\ Owns(w, d)
      /\ Attempting(w, d) /\ Stored(d) =>
           Pending(d) /\ worker[w].attempt = delivery[d].attempts + 1

\* Every attempt beyond the schedule was paid for by a stall: what is recorded
\* and what is still under way together stay within the budget, with one attempt
\* to spare as long as the job can be taken again.
BudgetOK(d) ==
    LET used == delivery[d].attempts + Cardinality(Astray(d))
        allowed == MaxAttempts + job[d].stalls
    IN  /\ used <= allowed
        /\ job[d].state # "none" => used < allowed /\ Cardinality(Astray(d)) <= job[d].stalls
        /\ \A w \in Worker : Attempting(w, d) /\ Owns(w, d) =>
             used < worker[w].attempt + job[d].stalls

\* A delivery whose row, or whose job, is not made yet.
Untouched(d) == job[d] = NoJob /\ d \notin lapsed /\ \A w \in Worker : worker[w].delivery # d
Fresh(d) == Untouched(d) /\ delivery[d] = NoDelivery

EmitOK(b) ==
    /\ emit[b].pc = "idle" => \A e \in Endpoint : Fresh(<<b, e>>)
    /\ emit[b].pc = "insert" => \A e \in emit[b].todo : Fresh(<<b, e>>)
    /\ emit[b].pc = "enqueue" =>
         /\ \A e \in emit[b].todo \ {emit[b].current} : Fresh(<<b, e>>)
         /\ Untouched(<<b, emit[b].current>>) /\ delivery[<<b, emit[b].current>>].attempts = 0

IndInv ==
    /\ TypeOK
    /\ \A w \in Worker : WorkerOK(w)
    /\ \A a \in contacted : ~isPrivateAddress(a)
    /\ \A d \in Delivery : LockOK(d) /\ BudgetOK(d)
    /\ \A d \in Delivery \ lapsed : RunOK(d)
    /\ HonestLog
    /\ \A b \in Batch : EmitOK(b)
=============================================================================
