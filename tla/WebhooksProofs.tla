--------------------------- MODULE WebhooksProofs ---------------------------
(***************************************************************************)
(* Webhook delivery for any number of batches, endpoints, workers,         *)
(* attempts and stalls: no POST leaves for a reserved address, the log of  *)
(* a delivery whose lock never lapsed is honest, the attempts stay within  *)
(* the schedule and the stalls, and AtLeastOnce is implemented.            *)
(*                                                                         *)
(* The argument goes delivery by delivery: a step touches the row, the job *)
(* and the workers of one delivery and leaves those of the others alone    *)
(* (Kept), and for the one it touches the budget of attempts is balanced.  *)
(***************************************************************************)
EXTENDS Webhooks, TLAPS, FiniteSetTheorems

-----------------------------------------------------------------------------
(* The address check.                                                      *)

\* The cases of isPrivateIpv4 are the reserved blocks.
LEMMA Ipv4Blocks ==
    ASSUME NEW x \in Octet, NEW y \in Octet, NEW u, NEW v,
           NEW k \in Block, InBlock(x * 256 + y, k)
    PROVE  isPrivateIpv4(<<x, y, u, v>>)
  BY DEF Block, InBlock, isPrivateIpv4, Octet

\* What the check lets pass is not reserved, in either form.
LEMMA PublicIsNotReserved ==
    ASSUME NEW a \in Address, ~isPrivateAddress(a)
    PROVE  ~Reserved(a)
  <1>1. CASE Len(a) = 4
    <2>1. a \in Seq(Octet) /\ ~isPrivateIpv4(a)
      BY <1>1, WebhooksAssumption DEF isPrivateAddress
    <2>2. a[1] \in Octet /\ a[2] \in Octet
      BY <1>1, <2>1
    <2>3. ASSUME NEW k \in Block, InBlock(a[1] * 256 + a[2], k)
          PROVE  FALSE
      <3>1. isPrivateIpv4(<<a[1], a[2], 0, 0>>)
        BY <2>2, <2>3, Ipv4Blocks
      <3>2. QED
        BY <2>1, <3>1 DEF isPrivateIpv4
    <2>4. QED
      BY <1>1, <2>3 DEF Reserved
  <1>2. CASE Len(a) = 8
    <2>1. a \in Seq(Group) /\ ~isPrivateIpv6Canonical(a)
      BY <1>2, WebhooksAssumption DEF isPrivateAddress
    <2>2. a[1] \in Group /\ a[7] \in Group
      <3>1. \A i \in 1..Len(a) : a[i] \in Group
        BY <2>1
      <3>2. 1 \in 1..Len(a) /\ 7 \in 1..Len(a)
        BY <1>2
      <3>3. QED
        BY <3>1, <3>2
    <2>3. ~(a[1] >= 64512 /\ a[1] < 65024) /\ ~(a[1] >= 65152 /\ a[1] < 65216)
      <3>1. a[1] \in Group /\ a[1] \div 512 # 126 /\ a[1] \div 64 # 1018
        BY <2>1, <2>2 DEF isPrivateIpv6Canonical
      <3>2. QED
        BY <3>1 DEF Group
    <2>4. a # <<0, 0, 0, 0, 0, 0, 0, 1>>
      <3>1. SUFFICES ASSUME a = <<0, 0, 0, 0, 0, 0, 0, 1>>
                     PROVE  FALSE
        OBVIOUS
      <3>2. /\ a[1] = 0 /\ a[2] = 0 /\ a[3] = 0 /\ a[4] = 0 /\ a[5] = 0 /\ a[6] = 0 /\ a[7] = 0
            /\ a[8] = 1
        BY <3>1
      <3>3. \A i \in 1..7 : a[i] = 0
        BY <3>2
      <3>4. QED
        BY <2>1, <3>2, <3>3 DEF isPrivateIpv6Canonical
    <2>5. ASSUME NEW k \in Block, a[6] = 65535, \A i \in 1..5 : a[i] = 0, InBlock(a[7], k)
          PROVE  FALSE
      <3>1. PICK x, y : x = a[7] \div 256 /\ y = a[7] % 256
        OBVIOUS
      <3>2. x \in Octet /\ y \in Octet /\ a[7] = x * 256 + y
        <4>1. a[7] \in Group
          BY <2>2
        <4>2. QED
          BY <3>1, <4>1 DEF Octet, Group
      <3>3. isPrivateIpv4(<<x, y, a[8] \div 256, a[8] % 256>>)
        BY <2>5, <3>2, Ipv4Blocks
      <3>4. QED
        BY <2>1, <2>5, <3>1, <3>3 DEF isPrivateIpv6Canonical
    <2>6. QED
      BY <1>2, <2>3, <2>4, <2>5 DEF Reserved
  <1>3. QED
    BY <1>1, <1>2 DEF isPrivateAddress

-----------------------------------------------------------------------------
(* Types, and the addresses workers post to.                               *)

RunRecordOK(r) ==
    /\ r \in WorkerRecord
    /\ r.pc = "idle" => r.delivery = None
    /\ r.pc # "idle" => r.delivery # None /\ r.attempt > 0
    /\ r.pc = "post" => r.address # None /\ r.address \in Address /\ ~isPrivateAddress(r.address)
RunsOK == worker \in [Worker -> WorkerRecord] /\ \A w \in Worker : RunRecordOK(worker[w])
EmitsOK ==
    /\ emit \in [Batch -> EmitRecord]
    /\ \A b \in Batch : emit[b].pc = "enqueue" => emit[b].current \in emit[b].todo
RowsOK ==
    /\ org \in {"active", "deleted", "purged"}
    /\ endpoint \in [Endpoint -> EndpointRow]
    /\ delivery \in [Delivery -> DeliveryRow]
JobsOK == job \in [Delivery -> Job] /\ lost \subseteq Delivery /\ lapsed \subseteq Delivery
PostsOK == contacted \subseteq Address /\ \A a \in contacted : ~isPrivateAddress(a)
Typed == RunsOK /\ EmitsOK /\ RowsOK /\ JobsOK /\ PostsOK

LEMMA TypedParts ==
    /\ IndInv => Typed
    /\ Typed => TypeOK /\ (\A w \in Worker : WorkerOK(w)) /\ \A a \in contacted : ~isPrivateAddress(a)
  <1>1. IndInv => Typed
    BY WebhooksAssumption
       DEF IndInv, TypeOK, WorkerOK, Typed, RunsOK, RunRecordOK, EmitsOK, RowsOK, JobsOK, PostsOK
  <1>2. Typed => TypeOK /\ (\A w \in Worker : WorkerOK(w)) /\ \A a \in contacted : ~isPrivateAddress(a)
    BY DEF TypeOK, WorkerOK, Typed, RunsOK, RunRecordOK, EmitsOK, RowsOK, JobsOK, PostsOK
  <1>3. QED
    BY <1>1, <1>2

LEMMA RunWritten ==
    ASSUME RunsOK, NEW w \in Worker, NEW r, RunRecordOK(r), worker' = [worker EXCEPT ![w] = r]
    PROVE  RunsOK'
  BY DEF RunsOK, RunRecordOK

LEMMA NoWorkOK == RunRecordOK(NoWork)
  BY DEF RunRecordOK, NoWork, WorkerRecord

LEMMA NoDeliveryTyped == NoDelivery \in DeliveryRow
  <1>1. <<>> \in Seq(AttemptRecord)
    OBVIOUS
  <1>2. QED
    BY <1>1 DEF NoDelivery, DeliveryRow

LEMMA EmitWritten ==
    ASSUME EmitsOK, NEW b \in Batch, NEW r \in EmitRecord,
           r.pc = "enqueue" => r.current \in r.todo, emit' = [emit EXCEPT ![b] = r]
    PROVE  EmitsOK'
  BY DEF EmitsOK

\* A delivery a worker runs.
LEMMA RunOf ==
    ASSUME Typed, NEW w \in Worker, worker[w].pc # "idle"
    PROVE  /\ worker[w].delivery \in Delivery /\ worker[w] \in WorkerRecord /\ RunRecordOK(worker[w])
           /\ worker[w].attempt \in Nat /\ worker[w].attempt > 0 /\ worker[w].ok \in BOOLEAN
  BY DEF Typed, RunsOK, RunRecordOK, WorkerRecord

\* The worker of a completed job is idle; the job is gone or was never its own.
LEMMA CompleteTyped ==
    ASSUME Typed, NEW w \in Worker, worker[w].pc # "idle", CompleteJob(w)
    PROVE  RunsOK' /\ job' \in [Delivery -> Job]
  <1>1. RunsOK'
    BY RunWritten, NoWorkOK DEF Typed, CompleteJob
  <1>2. worker[w].delivery \in Delivery
    BY RunOf
  <1>3. job' \in [Delivery -> Job]
    BY <1>2 DEF CompleteJob, Typed, JobsOK, Job
  <1>4. QED
    BY <1>1, <1>3

LEMMA EmitTyped ==
    ASSUME Typed, NEW b \in Batch, emitBatchWebhookEvent(b) \/ EmitStep(b)
    PROVE  Typed'
  <1>0. emit[b] \in EmitRecord /\ (emit[b].pc = "enqueue" => emit[b].current \in emit[b].todo)
    BY DEF Typed, EmitsOK
  <1>w. worker' = worker => RunsOK'
    BY DEF Typed, RunsOK, RunRecordOK
  <1>c. contacted' = contacted => PostsOK'
    BY DEF Typed, PostsOK
  <1>1. CASE emitBatchWebhookEvent(b)
    <2>1. PICK event \in Event :
            emit' = [emit EXCEPT ![b] = [@ EXCEPT !.todo = findEndpointsForEvent(event),
                       !.pc = IF findEndpointsForEvent(event) = {} THEN "done" ELSE "insert"]]
      BY <1>1 DEF emitBatchWebhookEvent
    <2>2. PICK r : r = [emit[b] EXCEPT !.todo = findEndpointsForEvent(event),
                          !.pc = IF findEndpointsForEvent(event) = {} THEN "done" ELSE "insert"]
      OBVIOUS
    <2>3. r \in EmitRecord /\ r.pc # "enqueue"
      BY <1>0, <2>2 DEF EmitRecord, findEndpointsForEvent
    <2>4. EmitsOK'
      BY <2>1, <2>2, <2>3, EmitWritten DEF Typed
    <2>5. QED
      BY <1>1, <1>w, <1>c, <2>4 DEF emitBatchWebhookEvent, Typed, RowsOK, JobsOK, rowVars, history
  <1>2. ASSUME NEW e \in Endpoint, createWebhookDelivery(b, e)
        PROVE  Typed'
    <2>1. PICK r : r = [emit[b] EXCEPT !.pc = "enqueue", !.current = e]
      OBVIOUS
    <2>2. r \in EmitRecord /\ r.current = e /\ e \in r.todo
      BY <1>0, <1>2, <2>1 DEF EmitRecord, createWebhookDelivery
    <2>3. EmitsOK'
      <3>1. emit' = [emit EXCEPT ![b] = r]
        BY <1>2, <2>1 DEF createWebhookDelivery
      <3>2. QED
        BY <2>2, <3>1, EmitWritten DEF Typed
    <2>4. PICK row : row = [NoDelivery EXCEPT !.status = "pending"]
      OBVIOUS
    <2>5. row \in DeliveryRow
      BY <2>4, NoDeliveryTyped DEF DeliveryRow
    <2>6. RowsOK'
      BY <1>2, <2>4, <2>5 DEF createWebhookDelivery, Typed, RowsOK, Delivery
    <2>7. QED
      BY <1>2, <1>w, <1>c, <2>3, <2>6 DEF createWebhookDelivery, Typed, JobsOK, history
  <1>3. CASE insertFails(b)
    <2>1. PICK r : r = [emit[b] EXCEPT !.pc = "done", !.todo = {}]
      OBVIOUS
    <2>2. r \in EmitRecord /\ r.pc # "enqueue"
      BY <1>0, <2>1 DEF EmitRecord
    <2>3. EmitsOK'
      BY <1>3, <2>1, <2>2, EmitWritten DEF Typed, insertFails
    <2>4. QED
      BY <1>3, <1>w, <1>c, <2>3 DEF insertFails, Typed, RowsOK, JobsOK, rowVars, history
  <1>n. ASSUME NextEndpoint(b)
        PROVE  EmitsOK'
    <2>1. PICK r : r = [pc |-> IF emit[b].todo \ {emit[b].current} = {} THEN "done" ELSE "insert",
                        todo |-> emit[b].todo \ {emit[b].current}, current |-> None]
      OBVIOUS
    <2>2. r \in EmitRecord /\ r.pc # "enqueue"
      BY <1>0, <2>1 DEF EmitRecord
    <2>3. QED
      BY <1>n, <2>1, <2>2, EmitWritten DEF Typed, NextEndpoint
  <1>d. emit[b].pc = "enqueue" => <<b, emit[b].current>> \in Delivery
    BY <1>0 DEF EmitRecord, Delivery
  <1>4. CASE enqueue(b)
    <2>1. job' \in [Delivery -> Job]
      BY <1>4, <1>d DEF enqueue, Typed, JobsOK, Job
    <2>2. QED
      BY <1>4, <1>n, <1>w, <1>c, <2>1 DEF enqueue, Typed, RowsOK, JobsOK, rowVars, history
  <1>5. CASE enqueueFails(b)
    BY <1>5, <1>n, <1>w, <1>c, <1>d DEF enqueueFails, Typed, RowsOK, JobsOK, rowVars
  <1>6. CASE EmitterDies(b)
    <2>1. PICK r : r = [pc |-> "done", todo |-> {}, current |-> None]
      OBVIOUS
    <2>2. r \in EmitRecord /\ r.pc # "enqueue"
      BY <2>1 DEF EmitRecord
    <2>3. EmitsOK'
      BY <1>6, <2>1, <2>2, EmitWritten DEF Typed, EmitterDies
    <2>4. QED
      BY <1>6, <1>w, <1>c, <1>d, <2>3 DEF EmitterDies, Typed, RowsOK, JobsOK, rowVars
  <1>7. QED
    BY <1>1, <1>2, <1>3, <1>4, <1>5, <1>6 DEF EmitStep

LEMMA AttemptTyped ==
    ASSUME Typed, NEW w \in Worker, AttemptStep(w) \/ WorkerDies(w)
    PROVE  Typed'
  <1>0. /\ worker[w].pc # "idle"
        /\ worker[w].delivery \in Delivery /\ worker[w] \in WorkerRecord /\ RunRecordOK(worker[w])
        /\ worker[w].attempt \in Nat /\ worker[w].attempt > 0 /\ worker[w].ok \in BOOLEAN
    <2>1. worker[w].pc # "idle"
      BY DEF AttemptStep, resolveHost, fetchWebhookTransport, recordDeliveryAttempt, recordFails,
             moveToDelayed, WorkerDies
    <2>2. QED
      BY <2>1, RunOf
  <1>e. emit' = emit => EmitsOK'
    BY DEF Typed, EmitsOK
  <1>c. contacted' = contacted => PostsOK'
    BY DEF Typed, PostsOK
  <1>1. CASE resolveHost(w)
    <2>1. PICK answer \in SUBSET Address :
            IF checkWebhookHost(answer)
            THEN \E a \in answer :
                   worker' = [worker EXCEPT ![w] = [@ EXCEPT !.pc = "post", !.address = a]]
            ELSE worker' = [worker EXCEPT ![w] = [@ EXCEPT !.pc = "record", !.ok = FALSE]]
      BY <1>1 DEF resolveHost
    <2>2. CASE checkWebhookHost(answer)
      <3>1. PICK a \in answer :
              worker' = [worker EXCEPT ![w] = [@ EXCEPT !.pc = "post", !.address = a]]
        BY <2>1, <2>2
      <3>2. a \in Address /\ ~isPrivateAddress(a) /\ a # None
        BY <2>2, WebhooksAssumption DEF checkWebhookHost
      <3>3. PICK r : r = [worker[w] EXCEPT !.pc = "post", !.address = a]
        OBVIOUS
      <3>4. RunRecordOK(r)
        BY <1>0, <3>2, <3>3 DEF RunRecordOK, WorkerRecord
      <3>5. RunsOK'
        BY <3>1, <3>3, <3>4, RunWritten DEF Typed
      <3>6. QED
        BY <1>1, <1>e, <1>c, <3>5 DEF resolveHost, Typed, RowsOK, JobsOK, rowVars, history
    <2>3. CASE ~checkWebhookHost(answer)
      <3>1. worker' = [worker EXCEPT ![w] = [@ EXCEPT !.pc = "record", !.ok = FALSE]]
        BY <2>1, <2>3
      <3>2. PICK r : r = [worker[w] EXCEPT !.pc = "record", !.ok = FALSE]
        OBVIOUS
      <3>3. RunRecordOK(r)
        BY <1>0, <3>2 DEF RunRecordOK, WorkerRecord
      <3>4. RunsOK'
        BY <3>1, <3>2, <3>3, RunWritten DEF Typed
      <3>5. QED
        BY <1>1, <1>e, <1>c, <3>4 DEF resolveHost, Typed, RowsOK, JobsOK, rowVars, history
    <2>4. QED
      BY <2>2, <2>3
  <1>2. CASE fetchWebhookTransport(w)
    <2>1. PICK result \in TransportResult :
            worker' = [worker EXCEPT ![w] = [@ EXCEPT !.pc = "record", !.address = None,
                                                      !.ok = (result = "2xx")]]
      BY <1>2 DEF fetchWebhookTransport
    <2>2. PICK ok \in BOOLEAN : ok = (result = "2xx")
      OBVIOUS
    <2>3. PICK r : r = [worker[w] EXCEPT !.pc = "record", !.address = None, !.ok = ok]
      OBVIOUS
    <2>4. RunRecordOK(r)
      BY <1>0, <2>3 DEF RunRecordOK, WorkerRecord
    <2>5. worker' = [worker EXCEPT ![w] = r]
      BY <2>1, <2>2, <2>3
    <2>6. RunsOK'
      BY <2>4, <2>5, RunWritten DEF Typed
    <2>7. PostsOK'
      BY <1>0, <1>2 DEF fetchWebhookTransport, Typed, PostsOK, RunRecordOK
    <2>8. QED
      BY <1>2, <1>e, <2>6, <2>7 DEF fetchWebhookTransport, Typed, RowsOK, JobsOK, rowVars
  <1>3. CASE recordDeliveryAttempt(w)
    <2>1. PICK d, n, ok, after :
            /\ d = worker[w].delivery /\ n = worker[w].attempt /\ ok = worker[w].ok
            /\ after = StatusAfter(n, ok)
      OBVIOUS
    <2>2. RowsOK'
      <3>1. delivery[d] \in DeliveryRow
        BY <1>0, <2>1 DEF Typed, RowsOK
      <3>2. [attempt |-> n, ok |-> ok] \in AttemptRecord
        BY <1>0, <2>1 DEF AttemptRecord
      <3>3. PICK log : log = Append(delivery[d].log, [attempt |-> n, ok |-> ok])
        OBVIOUS
      <3>4. log \in Seq(AttemptRecord) /\ delivery[d].attempts + 1 \in Nat
        <4>1. delivery[d].log \in Seq(AttemptRecord) /\ delivery[d].attempts \in Nat
          BY <3>1 DEF DeliveryRow
        <4>2. QED
          BY <3>2, <3>3, <4>1
      <3>5. after \in {"none", "pending", "delivered", "failed"}
        BY <2>1 DEF StatusAfter
      <3>6. PICK row : row = [status |-> after, attempts |-> delivery[d].attempts + 1, log |-> log]
        OBVIOUS
      <3>7. row \in DeliveryRow
        BY <3>4, <3>5, <3>6 DEF DeliveryRow
      <3>8. delivery' = IF Stored(d) THEN [delivery EXCEPT ![d] = row] ELSE delivery
        BY <1>3, <2>1, <3>3, <3>6 DEF recordDeliveryAttempt
      <3>9. QED
        BY <1>3, <3>7, <3>8 DEF recordDeliveryAttempt, Typed, RowsOK
    <2>3. RunsOK' /\ job' \in [Delivery -> Job]
      <3>1. CASE after = "pending"
        <4>1. PICK r : r = [worker[w] EXCEPT !.pc = "delay"]
          OBVIOUS
        <4>2. RunRecordOK(r)
          BY <1>0, <4>1 DEF RunRecordOK, WorkerRecord
        <4>3. worker' = [worker EXCEPT ![w] = r] /\ job' = job
          BY <1>3, <2>1, <3>1, <4>1 DEF recordDeliveryAttempt
        <4>4. QED
          BY <4>2, <4>3, RunWritten DEF Typed, JobsOK
      <3>2. CASE after # "pending"
        <4>1. CompleteJob(w)
          BY <1>3, <2>1, <3>2 DEF recordDeliveryAttempt
        <4>2. QED
          BY <1>0, <4>1, CompleteTyped
      <3>3. QED
        BY <3>1, <3>2
    <2>4. QED
      BY <1>3, <1>e, <1>c, <2>2, <2>3 DEF recordDeliveryAttempt, Typed, JobsOK, history
  <1>4. CASE recordFails(w)
    <2>1. RunsOK' /\ job' \in [Delivery -> Job]
      BY <1>0, <1>4, CompleteTyped DEF recordFails
    <2>2. QED
      BY <1>0, <1>4, <1>e, <1>c, <2>1 DEF recordFails, Typed, RowsOK, JobsOK, rowVars
  <1>n. worker' = [worker EXCEPT ![w] = NoWork] => RunsOK'
    BY RunWritten, NoWorkOK DEF Typed
  <1>5. CASE moveToDelayed(w)
    <2>1. job' \in [Delivery -> Job]
      BY <1>0, <1>5 DEF moveToDelayed, Typed, JobsOK, Job
    <2>2. QED
      BY <1>5, <1>e, <1>c, <1>n, <2>1 DEF moveToDelayed, Typed, RowsOK, JobsOK, rowVars, history
  <1>6. CASE WorkerDies(w)
    <2>1. job' \in [Delivery -> Job]
      BY <1>0, <1>6 DEF WorkerDies, Typed, JobsOK, Job
    <2>2. QED
      BY <1>6, <1>e, <1>c, <1>n, <2>1 DEF WorkerDies, Typed, RowsOK, JobsOK, rowVars, history
  <1>7. QED
    BY <1>1, <1>2, <1>3, <1>4, <1>5, <1>6 DEF AttemptStep

\* Every step keeps the types and posts to checked addresses only.
LEMMA TypedStep ==
    ASSUME Typed, Next
    PROVE  Typed'
  <1>e. emit' = emit => EmitsOK'
    BY DEF Typed, EmitsOK
  <1>w. worker' = worker => RunsOK'
    BY DEF Typed, RunsOK, RunRecordOK
  <1>c. contacted' = contacted => PostsOK'
    BY DEF Typed, PostsOK
  <1>1. ASSUME NEW e \in Endpoint, createWebhook(e)
        PROVE  Typed'
    <2>1. endpoint' \in [Endpoint -> EndpointRow]
      BY <1>1 DEF createWebhook, Typed, RowsOK, EndpointRow
    <2>2. QED
      BY <1>1, <1>e, <1>w, <1>c, <2>1 DEF createWebhook, Typed, RowsOK, JobsOK, history
  <1>2. ASSUME NEW e \in Endpoint, softDeleteWebhookEndpoint(e)
        PROVE  Typed'
    <2>1. endpoint' \in [Endpoint -> EndpointRow]
      BY <1>2 DEF softDeleteWebhookEndpoint, Typed, RowsOK, EndpointRow
    <2>2. QED
      BY <1>2, <1>e, <1>w, <1>c, <2>1 DEF softDeleteWebhookEndpoint, Typed, RowsOK, JobsOK, history
  <1>3. CASE softDeleteOrganization
    BY <1>3, <1>e, <1>w, <1>c DEF softDeleteOrganization, Typed, RowsOK, JobsOK, history
  <1>4. CASE hardDeleteOrganizationData
    <2>1. NoEndpoint \in EndpointRow
      BY DEF NoEndpoint, EndpointRow
    <2>2. RowsOK'
      BY <1>4, <2>1, NoDeliveryTyped DEF hardDeleteOrganizationData, RowsOK
    <2>3. QED
      BY <1>4, <1>e, <1>w, <1>c, <2>2 DEF hardDeleteOrganizationData, Typed, JobsOK, history
  <1>5. ASSUME NEW w \in Worker, NEW d \in Delivery, getDeliveryForProcessing(w, d)
        PROVE  Typed'
    <2>1. CASE Deliverable(d)
      <3>1. delivery[d].attempts \in Nat
        BY DEF Typed, RowsOK, DeliveryRow
      <3>2. PICK n \in Nat : n = delivery[d].attempts + 1 /\ n > 0
        BY <3>1
      <3>3. PICK r : r = [NoWork EXCEPT !.pc = "resolve", !.delivery = d, !.attempt = n]
        OBVIOUS
      <3>4. RunRecordOK(r)
        BY <3>2, <3>3, WebhooksAssumption DEF RunRecordOK, NoWork, WorkerRecord, Delivery
      <3>5. worker' = [worker EXCEPT ![w] = r]
        BY <1>5, <2>1, <3>2, <3>3 DEF getDeliveryForProcessing
      <3>6. RunsOK'
        BY <3>4, <3>5, RunWritten DEF Typed
      <3>7. job' \in [Delivery -> Job]
        BY <1>5, <2>1 DEF getDeliveryForProcessing, Typed, JobsOK, Job
      <3>8. QED
        BY <1>5, <1>e, <1>c, <3>6, <3>7 DEF getDeliveryForProcessing, Typed, RowsOK, JobsOK,
                                            rowVars, history
    <2>2. CASE ~Deliverable(d)
      <3>1. job' \in [Delivery -> Job]
        BY <1>5, <2>2 DEF getDeliveryForProcessing, Typed, JobsOK, Job
      <3>2. QED
        BY <1>5, <1>e, <1>w, <1>c, <2>2, <3>1
           DEF getDeliveryForProcessing, Typed, RowsOK, JobsOK, rowVars, history
    <2>3. QED
      BY <2>1, <2>2
  <1>6. ASSUME NEW d \in Delivery, DelayElapses(d)
        PROVE  Typed'
    <2>1. job' \in [Delivery -> Job]
      BY <1>6 DEF DelayElapses, Typed, JobsOK, Job
    <2>2. QED
      BY <1>6, <1>e, <1>w, <1>c, <2>1 DEF DelayElapses, Typed, RowsOK, JobsOK, rowVars, history
  <1>7. ASSUME NEW d \in Delivery, Stalled(d)
        PROVE  Typed'
    <2>1. job[d] \in Job /\ job[d].stalls \in Nat
      BY DEF Typed, JobsOK, Job
    <2>2. job' \in [Delivery -> Job]
      <3>1. CASE job[d].stalls < MaxStalls
        <4>1. PICK r : r = [state |-> "waiting", owner |-> None, stalls |-> job[d].stalls + 1]
          OBVIOUS
        <4>2. r \in Job /\ job' = [job EXCEPT ![d] = r]
          BY <1>7, <2>1, <3>1, <4>1 DEF Stalled, Job
        <4>3. QED
          BY <4>2 DEF Typed, JobsOK
      <3>2. CASE ~(job[d].stalls < MaxStalls)
        <4>1. PICK r : r = [job[d] EXCEPT !.state = "none", !.owner = None]
          OBVIOUS
        <4>2. r \in Job /\ job' = [job EXCEPT ![d] = r]
          BY <1>7, <2>1, <3>2, <4>1 DEF Stalled, Job
        <4>3. QED
          BY <4>2 DEF Typed, JobsOK
      <3>3. QED
        BY <3>1, <3>2
    <2>3. JobsOK'
      BY <1>7, <2>2 DEF Stalled, Typed, JobsOK
    <2>4. QED
      BY <1>7, <1>e, <1>w, <1>c, <2>3 DEF Stalled, Typed, RowsOK, rowVars
  <1>8. QED
    BY <1>1, <1>2, <1>3, <1>4, <1>5, <1>6, <1>7, EmitTyped, AttemptTyped DEF Next

-----------------------------------------------------------------------------
(* Delivery by delivery.                                                   *)

PerDelivery(d) ==
    /\ LockOK(d) /\ BudgetOK(d)
    /\ d \notin lapsed => RunOK(d) /\ LogOK(delivery[d])

LEMMA AstrayFinite ==
    ASSUME NEW d
    PROVE  /\ IsFiniteSet(Astray(d)) /\ Cardinality(Astray(d)) \in Nat
           /\ IsFiniteSet(Astray(d)') /\ Cardinality(Astray(d)') \in Nat
  <1>1. Astray(d) \subseteq Worker /\ Astray(d)' \subseteq Worker
    BY DEF Astray
  <1>2. IsFiniteSet(Worker)
    BY WebhooksAssumption
  <1>3. IsFiniteSet(Astray(d)) /\ IsFiniteSet(Astray(d)')
    BY <1>1, <1>2, FS_Subset
  <1>4. QED
    BY <1>3, FS_CardinalityType

\* Fewer workers are astray, or one more at most.
LEMMA AstrayGrows ==
    ASSUME NEW d, NEW v, Astray(d)' \subseteq Astray(d) \cup {v}
    PROVE  Cardinality(Astray(d)') <= Cardinality(Astray(d)) + 1
  <1>1. PICK A, B : A = Astray(d) /\ B = Astray(d)'
    OBVIOUS
  <1>2. IsFiniteSet(A) /\ Cardinality(A) \in Nat /\ Cardinality(B) \in Nat
    BY <1>1, AstrayFinite
  <1>3. IsFiniteSet(A \cup {v}) /\ Cardinality(A \cup {v}) <= Cardinality(A) + 1
    BY <1>2, FS_AddElement
  <1>4. Cardinality(B) <= Cardinality(A \cup {v}) /\ Cardinality(A \cup {v}) \in Nat
    BY <1>1, <1>3, FS_Subset, FS_CardinalityType
  <1>5. QED
    BY <1>1, <1>2, <1>3, <1>4

LEMMA AstrayShrinks ==
    ASSUME NEW d, Astray(d)' \subseteq Astray(d)
    PROVE  /\ Cardinality(Astray(d)') <= Cardinality(Astray(d))
           /\ \A w \in Astray(d) \ Astray(d)' : Cardinality(Astray(d)') + 1 <= Cardinality(Astray(d))
  <1>1. PICK A, B : A = Astray(d) /\ B = Astray(d)'
    OBVIOUS
  <1>2. IsFiniteSet(A) /\ Cardinality(A) \in Nat /\ Cardinality(B) \in Nat /\ B \subseteq A
    BY <1>1, AstrayFinite
  <1>3. Cardinality(B) <= Cardinality(A)
    BY <1>2, FS_Subset
  <1>4. ASSUME NEW w \in A \ B
        PROVE  Cardinality(B) + 1 <= Cardinality(A)
    <2>1. IsFiniteSet(A \ {w}) /\ Cardinality(A \ {w}) = Cardinality(A) - 1
      BY <1>2, <1>4, FS_RemoveElement
    <2>2. B \subseteq A \ {w}
      BY <1>2, <1>4
    <2>3. Cardinality(B) <= Cardinality(A \ {w})
      BY <2>1, <2>2, FS_Subset
    <2>4. QED
      BY <1>2, <2>1, <2>3
  <1>5. QED
    BY <1>1, <1>3, <1>4

LEMMA NobodyAstray ==
    ASSUME NEW d, \A w \in Worker : worker'[w].delivery # d
    PROVE  Cardinality(Astray(d)') = 0
  <1>1. Astray(d)' = {}
    BY DEF Astray, Attempting
  <1>2. QED
    BY <1>1, FS_EmptySet

\* What a step does not touch stays in order.
LEMMA Kept ==
    ASSUME Typed, NEW d \in Delivery, PerDelivery(d),
           delivery'[d] = delivery[d], job'[d] = job[d], d \in lapsed <=> d \in lapsed',
           \A w \in Worker : worker[w].delivery = d \/ worker'[w].delivery = d =>
             /\ worker'[w].delivery = worker[w].delivery
             /\ worker'[w].attempt = worker[w].attempt
             /\ worker'[w].pc \in {"resolve", "post", "record"}
                  <=> worker[w].pc \in {"resolve", "post", "record"}
    PROVE  PerDelivery(d)'
  <1>1. \A w \in Worker : /\ Attempting(w, d)' <=> Attempting(w, d)
                          /\ Owns(w, d)' <=> Owns(w, d)
    BY DEF Attempting, Owns
  <1>2. Astray(d)' = Astray(d)
    BY <1>1 DEF Astray
  <1>3. LockOK(d)'
    BY DEF PerDelivery, LockOK, Typed, JobsOK, Job
  <1>4. BudgetOK(d)'
    <2>1. \A w \in Worker : Attempting(w, d) => worker'[w].attempt = worker[w].attempt
      BY DEF Attempting
    <2>2. QED
      BY <1>1, <1>2, <2>1 DEF PerDelivery, BudgetOK
  <1>5. RunOK(d) => RunOK(d)'
    BY <1>1 DEF RunOK, Stored, Pending
  <1>6. LogOK(delivery[d]) => LogOK(delivery[d])'
    BY DEF LogOK
  <1>7. QED
    BY <1>3, <1>4, <1>5, <1>6 DEF PerDelivery

\* A worker goes away: its job, if it still held the lock, is put down.
LEMMA Leaves ==
    ASSUME Typed, NEW w \in Worker, NEW d \in Delivery, worker[w].delivery = d, PerDelivery(d),
           worker' = [worker EXCEPT ![w] = NoWork],
           IF Owns(w, d)
           THEN \E state \in {"none", "delayed", "active"} :
                  job' = [job EXCEPT ![d] = [state |-> state, owner |-> None, stalls |-> job[d].stalls]]
           ELSE job' = job,
           delivery'[d] = delivery[d], lapsed' = lapsed
    PROVE  PerDelivery(d)'
  <1>0. /\ worker'[w].delivery # d /\ worker'[w].pc = "idle"
        /\ \A v \in Worker \ {w} : worker'[v] = worker[v]
    <2>1. None # d
      BY WebhooksAssumption DEF Delivery
    <2>2. QED
      BY <2>1 DEF Typed, RunsOK, NoWork
  <1>1. job \in [Delivery -> Job] /\ job[d] \in Job /\ job[d].stalls \in Nat
    BY DEF Typed, JobsOK, Job
  <1>2. /\ job'[d].stalls = job[d].stalls
        /\ Owns(w, d) => job'[d].owner = None
        /\ ~Owns(w, d) => job'[d] = job[d]
    BY <1>1
  <1>3. None \notin Worker
    BY WebhooksAssumption
  <1>4. \A v \in Worker : Owns(v, d)' => Owns(v, d) /\ v # w
    BY <1>2, <1>3 DEF Owns
  <1>5. \A v \in Worker \ {w} : Owns(v, d) => Owns(v, d)'
    BY <1>2 DEF Owns
  <1>6. \A v \in Worker : Attempting(v, d)' <=> Attempting(v, d) /\ v # w
    BY <1>0 DEF Attempting
  <1>7. Astray(d)' \subseteq Astray(d)
    BY <1>5, <1>6 DEF Astray
  <1>8. LockOK(d)'
    <2>1. CASE Owns(w, d)
      BY <1>2, <2>1 DEF LockOK
    <2>2. CASE ~Owns(w, d)
      <3>1. job[d].owner # None => job[d].owner \in Worker
        BY <1>1 DEF Job
      <3>2. job[d].owner # w
        BY <2>2, <1>3 DEF Owns, PerDelivery, LockOK
      <3>3. QED
        BY <1>0, <1>2, <2>2, <3>1, <3>2 DEF PerDelivery, LockOK
    <2>3. QED
      BY <2>1, <2>2
  <1>9. BudgetOK(d)'
    <2>1. /\ Cardinality(Astray(d)') <= Cardinality(Astray(d))
          /\ Cardinality(Astray(d)') \in Nat /\ Cardinality(Astray(d)) \in Nat
      BY <1>7, AstrayShrinks, AstrayFinite
    <2>2. job'[d].state # "none" => job[d].state # "none"
      <3>1. Owns(w, d) => job[d].state = "active"
        BY DEF Owns
      <3>2. QED
        BY <1>2, <3>1
    <2>3. delivery'[d].attempts \in Nat /\ MaxAttempts \in Nat
      BY WebhooksAssumption DEF Typed, RowsOK, DeliveryRow
    <2>4. \A v \in Worker : Attempting(v, d)' /\ Owns(v, d)' =>
            Attempting(v, d) /\ Owns(v, d) /\ worker'[v].attempt = worker[v].attempt
      BY <1>0, <1>4, <1>6
    <2>5. \A v \in Worker : worker[v].attempt \in Nat
      BY DEF Typed, RunsOK, WorkerRecord
    <2>6. QED
      BY <1>1, <1>2, <2>1, <2>2, <2>3, <2>4, <2>5 DEF PerDelivery, BudgetOK
  <1>10. d \notin lapsed => RunOK(d)'
    <2>1. SUFFICES ASSUME d \notin lapsed
                   PROVE  RunOK(d)'
      OBVIOUS
    <2>2. RunOK(d)
      BY <2>1 DEF PerDelivery
    <2>3. \A v \in Worker : worker'[v].delivery # d
      <3>1. SUFFICES ASSUME NEW v \in Worker, v # w, worker[v].delivery = d
                     PROVE  FALSE
        BY <1>0
      <3>2. Owns(v, d) /\ Owns(w, d)
        BY <2>2, <3>1 DEF RunOK
      <3>3. QED
        BY <3>1, <3>2 DEF Owns
    <2>4. QED
      BY <2>3 DEF RunOK
  <1>11. LogOK(delivery[d]) => LogOK(delivery[d])'
    BY DEF LogOK
  <1>12. QED
    BY <1>8, <1>9, <1>10, <1>11 DEF PerDelivery

\* A worker takes a waiting job: the attempt it begins is the spare one.
LEMMA Takes ==
    ASSUME Typed, NEW w \in Worker, NEW d \in Delivery, PerDelivery(d),
           getDeliveryForProcessing(w, d)
    PROVE  PerDelivery(d)'
  <1>0. /\ worker[w].delivery = None /\ None # d /\ None \notin Worker
        /\ job[d].state = "waiting" /\ job[d].owner = None /\ job[d] \in Job
        /\ job[d].stalls \in Nat /\ delivery[d].attempts \in Nat /\ MaxAttempts \in Nat
    BY WebhooksAssumption DEF getDeliveryForProcessing, Typed, RunsOK, RunRecordOK, Delivery,
       PerDelivery, LockOK, JobsOK, Job, RowsOK, DeliveryRow
  <1>1. UNCHANGED <<delivery, lapsed>>
    BY DEF getDeliveryForProcessing, rowVars, history
  <1>2. \A v \in Worker : ~Owns(v, d)
    BY <1>0 DEF Owns
  <1>3. d \notin lapsed => \A v \in Worker : worker[v].delivery # d
    BY <1>2 DEF PerDelivery, RunOK
  <1>4. LogOK(delivery[d]) => LogOK(delivery[d])'
    BY <1>1 DEF LogOK
  <1>5. CASE Deliverable(d)
    <2>1. PICK n \in Nat : n = delivery[d].attempts + 1
      BY <1>0
    <2>2. PICK r : r = [NoWork EXCEPT !.pc = "resolve", !.delivery = d, !.attempt = n]
      OBVIOUS
    <2>3. r.pc = "resolve" /\ r.delivery = d /\ r.attempt = n
      BY <2>2 DEF NoWork
    <2>4. worker' = [worker EXCEPT ![w] = r]
      BY <1>5, <2>1, <2>2 DEF getDeliveryForProcessing
    <2>5. worker'[w] = r /\ \A v \in Worker \ {w} : worker'[v] = worker[v]
      BY <2>4 DEF Typed, RunsOK
    <2>6. job'[d].state = "active" /\ job'[d].owner = w /\ job'[d].stalls = job[d].stalls
      <3>1. PICK j : j = [job[d] EXCEPT !.state = "active", !.owner = w]
        OBVIOUS
      <3>2. j.state = "active" /\ j.owner = w /\ j.stalls = job[d].stalls
        BY <1>0, <3>1 DEF Job
      <3>3. job' = [job EXCEPT ![d] = j]
        BY <1>5, <3>1 DEF getDeliveryForProcessing
      <3>4. QED
        BY <3>2, <3>3 DEF Typed, JobsOK
    <2>7. \A v \in Worker : Owns(v, d)' <=> v = w
      BY <2>6 DEF Owns
    <2>8. \A v \in Worker \ {w} : Attempting(v, d)' <=> Attempting(v, d)
      BY <2>5 DEF Attempting
    <2>9. ~Attempting(w, d)
      BY <1>0 DEF Attempting
    <2>10. Astray(d)' = Astray(d)
      BY <1>2, <2>7, <2>8, <2>9 DEF Astray
    <2>11. LockOK(d)'
      BY <2>3, <2>5, <2>6 DEF LockOK
    <2>12. BudgetOK(d)'
      <3>1. Cardinality(Astray(d)) \in Nat
        BY AstrayFinite
      <3>2. /\ delivery[d].attempts + Cardinality(Astray(d)) < MaxAttempts + job[d].stalls
            /\ Cardinality(Astray(d)) <= job[d].stalls
        BY <1>0 DEF PerDelivery, BudgetOK
      <3>3. delivery[d].attempts + Cardinality(Astray(d)) < n + job[d].stalls
        BY <1>0, <2>1, <3>1, <3>2
      <3>4. QED
        BY <1>0, <1>1, <2>3, <2>5, <2>6, <2>7, <2>10, <3>1, <3>2, <3>3 DEF BudgetOK
    <2>13. d \notin lapsed => RunOK(d)'
      BY <1>1, <1>3, <1>5, <2>1, <2>3, <2>5, <2>7 DEF RunOK, Stored, Pending, Deliverable
    <2>14. QED
      BY <1>1, <1>4, <2>11, <2>12, <2>13 DEF PerDelivery
  <1>6. CASE ~Deliverable(d)
    <2>1. /\ worker' = worker /\ job'[d].state = "none" /\ job'[d].owner = None
          /\ job'[d].stalls = job[d].stalls
      BY <1>0, <1>6 DEF getDeliveryForProcessing, Typed, JobsOK, Job
    <2>2. \A v \in Worker : ~Owns(v, d)' /\ (Attempting(v, d)' <=> Attempting(v, d))
      BY <2>1 DEF Owns, Attempting
    <2>3. Astray(d)' = Astray(d)
      BY <1>2, <2>2 DEF Astray
    <2>4. LockOK(d)'
      BY <2>1 DEF LockOK
    <2>5. BudgetOK(d)'
      BY <1>1, <2>1, <2>2, <2>3 DEF PerDelivery, BudgetOK
    <2>6. d \notin lapsed => RunOK(d)'
      BY <1>3, <2>1 DEF RunOK
    <2>7. QED
      BY <1>1, <1>4, <2>4, <2>5, <2>6 DEF PerDelivery
  <1>7. QED
    BY <1>5, <1>6

\* The next attempt of a pending row keeps its log honest.
LEMMA LogGrows ==
    ASSUME NEW row \in DeliveryRow, LogOK(row), row.status = "pending", NEW ok \in BOOLEAN,
           NEW new, new.status = StatusAfter(row.attempts + 1, ok),
           new.attempts = row.attempts + 1,
           new.log = Append(row.log, [attempt |-> row.attempts + 1, ok |-> ok])
    PROVE  LogOK(new) /\ row.attempts < MaxAttempts
  <1>1. /\ row.log \in Seq(AttemptRecord) /\ row.attempts \in Nat /\ MaxAttempts \in Nat
        /\ row.attempts = Len(row.log)
    BY WebhooksAssumption DEF DeliveryRow, LogOK
  <1>2. row.attempts < MaxAttempts
    BY <1>1 DEF LogOK
  <1>3. PICK n : n = row.attempts + 1
    OBVIOUS
  <1>4. n \in Nat /\ n > 0 /\ n <= MaxAttempts /\ new.attempts = n
    BY <1>1, <1>2, <1>3
  <1>5. PICK entry : entry = [attempt |-> n, ok |-> ok]
    OBVIOUS
  <1>6. entry.attempt = n /\ entry.ok = ok /\ entry \in AttemptRecord
    BY <1>4, <1>5 DEF AttemptRecord
  <1>7. /\ Len(new.log) = n /\ new.log[n] = entry
        /\ \A i \in 1..Len(row.log) : new.log[i] = row.log[i]
    BY <1>1, <1>3, <1>5, <1>6
  <1>8. new.status = IF ok THEN "delivered" ELSE IF n >= MaxAttempts THEN "failed" ELSE "pending"
    BY <1>3 DEF StatusAfter
  <1>9. ASSUME NEW i \in 1..n
        PROVE  /\ new.log[i].attempt = i
               /\ new.log[i].ok <=> (i = n /\ new.status = "delivered")
    <2>1. CASE i = n
      BY <1>6, <1>7, <1>8, <2>1
    <2>2. CASE i # n
      <3>1. i \in 1..Len(row.log)
        BY <1>1, <1>3, <1>9, <2>2
      <3>2. row.log[i].attempt = i /\ ~row.log[i].ok
        BY <3>1 DEF LogOK
      <3>3. QED
        BY <1>7, <2>2, <3>1, <3>2
    <2>3. QED
      BY <2>1, <2>2
  <1>10. new.status = "failed" <=> (n = MaxAttempts /\ new.status # "delivered")
    BY <1>1, <1>4, <1>8
  <1>11. LogOK(new)
    BY <1>4, <1>7, <1>9, <1>10 DEF LogOK
  <1>12. QED
    BY <1>2, <1>11

\* A worker records: without the lock it uses up a stall, with it the spare
\* attempt, and the job goes on only if the schedule leaves another.
LEMMA Records ==
    ASSUME Typed, NEW w \in Worker, NEW d \in Delivery, PerDelivery(d),
           worker[w].delivery = d, recordDeliveryAttempt(w)
    PROVE  PerDelivery(d)'
  <1>0. /\ worker[w].pc = "record" /\ None # d /\ None \notin Worker
        /\ job[d] \in Job /\ job[d].stalls \in Nat /\ (job[d].owner # None => job[d].owner \in Worker)
        /\ delivery[d] \in DeliveryRow /\ delivery[d].attempts \in Nat /\ MaxAttempts \in Nat
        /\ \A v \in Worker : worker[v].attempt \in Nat
    BY WebhooksAssumption DEF recordDeliveryAttempt, Typed, RunsOK, WorkerRecord, Delivery,
       JobsOK, Job, RowsOK, DeliveryRow
  <1>1. PICK n, ok : n = worker[w].attempt /\ ok = worker[w].ok
    OBVIOUS
  <1>2. n \in Nat /\ ok \in BOOLEAN
    BY <1>1 DEF Typed, RunsOK, WorkerRecord
  <1>3. PICK after : after = StatusAfter(n, ok)
    OBVIOUS
  <1>4. PICK row : row = [status |-> after, attempts |-> delivery[d].attempts + 1,
                          log |-> Append(delivery[d].log, [attempt |-> n, ok |-> ok])]
    OBVIOUS
  <1>5. delivery'[d] = IF Stored(d) THEN row ELSE delivery[d]
    <2>1. delivery' = IF Stored(d) THEN [delivery EXCEPT ![d] = row] ELSE delivery
      BY <1>1, <1>3, <1>4 DEF recordDeliveryAttempt
    <2>2. QED
      BY <2>1 DEF Typed, RowsOK
  <1>6. delivery'[d].attempts \in Nat /\ delivery'[d].attempts <= delivery[d].attempts + 1
    BY <1>0, <1>4, <1>5
  <1>7. lapsed' = lapsed
    BY DEF recordDeliveryAttempt, history
  <1>8. /\ worker'[w].pc \in {"idle", "delay"} /\ \A v \in Worker \ {w} : worker'[v] = worker[v]
        /\ after = "pending" => worker'[w].delivery = d /\ worker'[w].pc = "delay" /\ job' = job
        /\ after # "pending" =>
             /\ worker'[w].delivery # d
             /\ job' = IF Owns(w, d) THEN [job EXCEPT ![d] = [@ EXCEPT !.state = "none", !.owner = None]]
                       ELSE job
    <2>1. CASE after = "pending"
      <3>1. PICK r : r = [worker[w] EXCEPT !.pc = "delay"]
        OBVIOUS
      <3>2. r.pc = "delay" /\ r.delivery = d
        BY <3>1 DEF Typed, RunsOK, WorkerRecord
      <3>3. worker' = [worker EXCEPT ![w] = r] /\ job' = job
        BY <1>1, <1>3, <2>1, <3>1 DEF recordDeliveryAttempt
      <3>4. QED
        BY <2>1, <3>2, <3>3 DEF Typed, RunsOK
    <2>2. CASE after # "pending"
      <3>1. CompleteJob(w)
        BY <1>1, <1>3, <2>2 DEF recordDeliveryAttempt
      <3>2. worker' = [worker EXCEPT ![w] = NoWork] /\ NoWork.pc = "idle" /\ NoWork.delivery # d
        BY <1>0, <3>1 DEF CompleteJob, NoWork
      <3>3. QED
        BY <2>2, <3>1, <3>2 DEF CompleteJob, Typed, RunsOK
    <2>3. QED
      BY <2>1, <2>2
  <1>9. /\ job'[d].stalls = job[d].stalls
        /\ ~Owns(w, d) \/ after = "pending" => job'[d] = job[d]
        /\ Owns(w, d) /\ after # "pending" => job'[d].state = "none" /\ job'[d].owner = None
    <2>1. PICK j : j = [job[d] EXCEPT !.state = "none", !.owner = None]
      OBVIOUS
    <2>2. j.state = "none" /\ j.owner = None /\ j.stalls = job[d].stalls
      BY <1>0, <2>1 DEF Job
    <2>3. Owns(w, d) /\ after # "pending" => job' = [job EXCEPT ![d] = j]
      BY <1>8, <2>1
    <2>4. QED
      BY <1>8, <2>2, <2>3 DEF Typed, JobsOK
  <1>10. /\ \A v \in Worker \ {w} : Attempting(v, d)' <=> Attempting(v, d)
         /\ Attempting(w, d) /\ ~Attempting(w, d)'
    BY <1>0, <1>8 DEF Attempting
  <1>11. /\ \A v \in Worker : Owns(v, d)' => Owns(v, d)
         /\ \A v \in Worker \ {w} : Owns(v, d) => Owns(v, d)'
    BY <1>9, <1>0 DEF Owns
  <1>12. Astray(d)' \subseteq Astray(d)
    BY <1>10, <1>11 DEF Astray
  <1>13. /\ Cardinality(Astray(d)') <= Cardinality(Astray(d))
         /\ Cardinality(Astray(d)') \in Nat /\ Cardinality(Astray(d)) \in Nat
         /\ ~Owns(w, d) => Cardinality(Astray(d)') + 1 <= Cardinality(Astray(d))
    <2>1. ~Owns(w, d) => w \in Astray(d) \ Astray(d)'
      BY <1>10 DEF Astray
    <2>2. QED
      BY <1>12, <2>1, AstrayShrinks, AstrayFinite
  <1>14. LockOK(d)'
    <2>1. job[d].owner = w => Owns(w, d)
      BY <1>0 DEF PerDelivery, LockOK, Owns
    <2>2. job'[d].owner # None => worker'[job'[d].owner].delivery = d
      <3>1. SUFFICES ASSUME job'[d].owner # None
                     PROVE  worker'[job'[d].owner].delivery = d
        OBVIOUS
      <3>2. job'[d] = job[d] /\ job[d].owner \in Worker
        BY <1>0, <1>9, <3>1
      <3>3. CASE job[d].owner = w
        BY <1>8, <1>9, <2>1, <3>1, <3>2, <3>3
      <3>4. CASE job[d].owner # w
        BY <1>8, <3>1, <3>2, <3>4 DEF PerDelivery, LockOK
      <3>5. QED
        BY <3>3, <3>4
    <2>3. job'[d].state # "active" => job'[d].owner = None
      BY <1>9 DEF PerDelivery, LockOK
    <2>4. QED
      BY <2>2, <2>3 DEF LockOK
  <1>15. BudgetOK(d)'
    <2> DEFINE used == delivery[d].attempts + Cardinality(Astray(d))
               now == delivery'[d].attempts + Cardinality(Astray(d)')
    <2>1. \A v \in Worker : Attempting(v, d)' /\ Owns(v, d)' =>
            /\ v # w /\ Attempting(v, d) /\ Owns(v, d) /\ worker'[v].attempt = worker[v].attempt
      BY <1>8, <1>10, <1>11
    <2>2. CASE ~Owns(w, d)
      <3>1. now <= used /\ now \in Nat /\ used \in Nat
        BY <1>0, <1>6, <1>13, <2>2
      <3>2. job'[d] = job[d]
        BY <1>9, <2>2
      <3> HIDE DEF now
      <3>3. now <= MaxAttempts + job[d].stalls
        BY <1>0, <3>1 DEF PerDelivery, BudgetOK
      <3>4. job[d].state # "none" => /\ now < MaxAttempts + job[d].stalls
                                     /\ Cardinality(Astray(d)') <= job[d].stalls
        BY <1>0, <1>13, <3>1 DEF PerDelivery, BudgetOK
      <3>5. \A v \in Worker : Attempting(v, d) /\ Owns(v, d) => now < worker[v].attempt + job[d].stalls
        BY <1>0, <3>1 DEF PerDelivery, BudgetOK
      <3>6. QED
        BY <2>1, <3>2, <3>3, <3>4, <3>5 DEF BudgetOK, now
    <2>3. CASE Owns(w, d)
      <3>1. now <= used + 1 /\ now \in Nat /\ used \in Nat
        BY <1>0, <1>6, <1>13
      <3>2. /\ used < MaxAttempts + job[d].stalls /\ used < n + job[d].stalls
            /\ Cardinality(Astray(d)) <= job[d].stalls
        <4>1. job[d].state # "none"
          BY <2>3 DEF Owns
        <4>2. QED
          BY <1>1, <1>10, <2>3, <4>1 DEF PerDelivery, BudgetOK
      <3>3. \A v \in Worker : ~(Attempting(v, d)' /\ Owns(v, d)')
        BY <2>1, <2>3 DEF Owns
      <3> HIDE DEF now, used
      <3>4. now <= MaxAttempts + job[d].stalls
        BY <1>0, <3>1, <3>2
      <3>5. after = "pending" => now < MaxAttempts + job[d].stalls
        <4>1. after = "pending" => n < MaxAttempts
          BY <1>0, <1>2, <1>3 DEF StatusAfter
        <4>2. QED
          BY <1>0, <1>2, <3>1, <3>2, <4>1
      <3>6. Cardinality(Astray(d)') <= job[d].stalls
        BY <1>0, <1>13, <3>2
      <3>7. QED
        BY <1>9, <2>3, <3>3, <3>4, <3>5, <3>6 DEF BudgetOK, now
    <2>4. QED
      BY <2>2, <2>3
  <1>16. ASSUME d \notin lapsed
         PROVE  RunOK(d)' /\ LogOK(delivery[d])'
    <2>1. RunOK(d) /\ LogOK(delivery[d])
      BY <1>16 DEF PerDelivery
    <2>2. Owns(w, d)
      BY <2>1 DEF RunOK
    <2>3. \A v \in Worker \ {w} : worker[v].delivery # d
      BY <2>1, <2>2 DEF RunOK, Owns
    <2>4. RunOK(d)'
      <3>1. SUFFICES ASSUME NEW v \in Worker, worker'[v].delivery = d
                     PROVE  Owns(v, d)' /\ ~Attempting(v, d)'
        BY DEF RunOK
      <3>2. v = w /\ after = "pending"
        BY <1>8, <2>3, <3>1
      <3>3. QED
        BY <1>9, <1>10, <2>2, <3>2 DEF Owns
    <2>5. LogOK(delivery[d])'
      <3>1. CASE ~Stored(d)
        BY <1>5, <2>1, <3>1 DEF LogOK
      <3>2. CASE Stored(d)
        <4>1. delivery[d].status = "pending" /\ n = delivery[d].attempts + 1
          BY <1>1, <1>10, <2>1, <3>2 DEF RunOK, Pending
        <4>2. LogOK(row)
          <5>1. PICK z : z = delivery[d]
            OBVIOUS
          <5>2. z \in DeliveryRow /\ LogOK(z) /\ z.status = "pending" /\ n = z.attempts + 1
            BY <1>0, <2>1, <4>1, <5>1
          <5>3. /\ row.status = StatusAfter(z.attempts + 1, ok) /\ row.attempts = z.attempts + 1
                /\ row.log = Append(z.log, [attempt |-> z.attempts + 1, ok |-> ok])
            BY <1>3, <1>4, <5>1, <5>2
          <5>4. QED
            BY <1>2, <5>2, <5>3, LogGrows
        <4>3. delivery'[d] = row
          BY <1>5, <3>2
        <4>4. QED
          BY <4>2, <4>3 DEF LogOK
      <3>3. QED
        BY <3>1, <3>2
    <2>6. QED
      BY <2>4, <2>5
  <1>17. QED
    BY <1>7, <1>14, <1>15, <1>16 DEF PerDelivery

\* The stalled check: the worker it takes the lock from is astray from now on,
\* and the stall it counts, or the end of the job, makes up for it.
LEMMA Stalls ==
    ASSUME Typed, NEW d \in Delivery, PerDelivery(d), Stalled(d)
    PROVE  PerDelivery(d)'
  <1>0. /\ job[d] \in Job /\ job[d].stalls \in Nat /\ (job[d].owner # None => job[d].owner \in Worker)
        /\ delivery[d].attempts \in Nat /\ MaxAttempts \in Nat /\ None \notin Worker
        /\ job[d].state = "active" /\ UNCHANGED <<delivery, worker>>
        /\ lapsed' = IF job[d].owner = None THEN lapsed ELSE lapsed \cup {d}
    BY WebhooksAssumption DEF Stalled, Typed, JobsOK, Job, RowsOK, DeliveryRow, rowVars
  <1>1. /\ job'[d].owner = None
        /\ \/ job'[d].state = "waiting" /\ job'[d].stalls = job[d].stalls + 1
           \/ job'[d].state = "none" /\ job'[d].stalls = job[d].stalls
    <2>1. CASE job[d].stalls < MaxStalls
      BY <2>1 DEF Stalled, Typed, JobsOK
    <2>2. CASE ~(job[d].stalls < MaxStalls)
      <3>1. PICK j : j = [job[d] EXCEPT !.state = "none", !.owner = None]
        OBVIOUS
      <3>2. j.state = "none" /\ j.owner = None /\ j.stalls = job[d].stalls
        BY <1>0, <3>1 DEF Job
      <3>3. job' = [job EXCEPT ![d] = j]
        BY <2>2, <3>1 DEF Stalled
      <3>4. QED
        BY <3>2, <3>3 DEF Typed, JobsOK
    <2>3. QED
      BY <2>1, <2>2
  <1>2. \A v \in Worker : ~Owns(v, d)' /\ (Attempting(v, d)' <=> Attempting(v, d))
    BY <1>0, <1>1 DEF Owns, Attempting
  <1>3. Astray(d)' \subseteq Astray(d) \cup {job[d].owner}
    BY <1>0, <1>2 DEF Astray, Owns
  <1>4. /\ Cardinality(Astray(d)') <= Cardinality(Astray(d)) + 1
        /\ Cardinality(Astray(d)') \in Nat /\ Cardinality(Astray(d)) \in Nat
    <2>1. PICK v : v = job[d].owner
      OBVIOUS
    <2>2. QED
      BY <1>3, <2>1, AstrayGrows, AstrayFinite
  <1>5. LockOK(d)'
    BY <1>1 DEF LockOK
  <1>6. BudgetOK(d)'
    <2>1. /\ delivery[d].attempts + Cardinality(Astray(d)) < MaxAttempts + job[d].stalls
          /\ Cardinality(Astray(d)) <= job[d].stalls
      BY <1>0 DEF PerDelivery, BudgetOK
    <2>2. delivery'[d].attempts + Cardinality(Astray(d)') <= MaxAttempts + job[d].stalls
      BY <1>0, <1>4, <2>1
    <2>3. Cardinality(Astray(d)') <= job[d].stalls + 1
      BY <1>0, <1>4, <2>1
    <2>4. delivery'[d].attempts \in Nat
      BY <1>0
    <2>5. CASE job'[d].state = "waiting" /\ job'[d].stalls = job[d].stalls + 1
      <3>1. /\ delivery'[d].attempts + Cardinality(Astray(d)') < MaxAttempts + job'[d].stalls
            /\ Cardinality(Astray(d)') <= job'[d].stalls
        BY <1>0, <1>4, <2>2, <2>3, <2>4, <2>5
      <3>2. QED
        BY <1>0, <1>2, <1>4, <2>4, <2>5, <3>1 DEF BudgetOK
    <2>6. CASE job'[d].state = "none" /\ job'[d].stalls = job[d].stalls
      BY <1>2, <2>2, <2>6 DEF BudgetOK
    <2>7. QED
      BY <1>1, <2>5, <2>6
  <1>7. ASSUME d \notin lapsed'
        PROVE  RunOK(d)' /\ LogOK(delivery[d])'
    <2>1. job[d].owner = None /\ d \notin lapsed
      BY <1>0, <1>7
    <2>2. \A v \in Worker : worker[v].delivery # d
      BY <1>0, <2>1 DEF PerDelivery, RunOK, Owns
    <2>3. QED
      BY <1>0, <2>1, <2>2 DEF PerDelivery, RunOK, LogOK
  <1>8. QED
    BY <1>5, <1>6, <1>7 DEF PerDelivery

\* A delay elapses.
LEMMA Elapses ==
    ASSUME Typed, NEW d \in Delivery, PerDelivery(d), DelayElapses(d)
    PROVE  PerDelivery(d)'
  <1>0. /\ job[d].state = "delayed" /\ UNCHANGED <<delivery, worker, lapsed>>
        /\ job'[d].state = "waiting" /\ job'[d].owner = job[d].owner
        /\ job'[d].stalls = job[d].stalls /\ job[d].owner = None
    BY DEF DelayElapses, Typed, JobsOK, Job, PerDelivery, LockOK, rowVars, history
  <1>1. \A v \in Worker : /\ ~Owns(v, d)' /\ ~Owns(v, d) /\ (Attempting(v, d)' <=> Attempting(v, d))
    BY <1>0 DEF Owns, Attempting
  <1>2. Astray(d)' = Astray(d)
    BY <1>1 DEF Astray
  <1>3. BudgetOK(d)'
    BY <1>0, <1>1, <1>2 DEF PerDelivery, BudgetOK
  <1>4. LockOK(d)'
    BY <1>0 DEF LockOK
  <1>5. d \notin lapsed => RunOK(d)' /\ LogOK(delivery[d])'
    BY <1>0, <1>1 DEF PerDelivery, RunOK, LogOK
  <1>6. QED
    BY <1>0, <1>3, <1>4, <1>5 DEF PerDelivery

\* A row without attempts is honest.
LEMMA EmptyLog ==
    ASSUME NEW status \in {"none", "pending"}, NEW row,
           row = [status |-> status, attempts |-> 0, log |-> <<>>]
    PROVE  LogOK(row)
  BY WebhooksAssumption DEF LogOK

\* A purge removes the row and leaves the job and its workers to find out.
LEMMA Purges ==
    ASSUME Typed, NEW d \in Delivery, PerDelivery(d), hardDeleteOrganizationData
    PROVE  PerDelivery(d)'
  <1>0. /\ delivery'[d] = NoDelivery /\ UNCHANGED <<job, worker, lapsed>>
        /\ delivery[d].attempts \in Nat /\ MaxAttempts \in Nat \ {0} /\ job[d].stalls \in Nat
    BY WebhooksAssumption DEF hardDeleteOrganizationData, history, Typed, RowsOK, DeliveryRow, JobsOK, Job
  <1>1. \A v \in Worker : /\ Owns(v, d)' <=> Owns(v, d)
                          /\ Attempting(v, d)' <=> Attempting(v, d)
    BY <1>0 DEF Owns, Attempting
  <1>2. Astray(d)' = Astray(d) /\ Cardinality(Astray(d)) \in Nat
    BY <1>1, AstrayFinite DEF Astray
  <1>3. delivery'[d].attempts = 0 /\ delivery'[d].status = "none"
    BY <1>0 DEF NoDelivery
  <1>4. BudgetOK(d)'
    <2>1. PICK c \in Nat : c = Cardinality(Astray(d))
      BY <1>2
    <2>2. /\ c <= MaxAttempts + job[d].stalls
          /\ job[d].state # "none" => c < MaxAttempts + job[d].stalls /\ c <= job[d].stalls
      BY <1>0, <2>1 DEF PerDelivery, BudgetOK
    <2>3. ASSUME NEW v \in Worker, Attempting(v, d), Owns(v, d)
          PROVE  c < worker[v].attempt + job[d].stalls
      <3>1. worker[v].attempt \in Nat /\ worker[v].attempt > 0
        BY <2>3, RunOf DEF Attempting
      <3>2. c <= job[d].stalls
        BY <2>2, <2>3 DEF Owns
      <3>3. QED
        BY <1>0, <3>1, <3>2
    <2>4. QED
      BY <1>0, <1>1, <1>2, <1>3, <2>1, <2>2, <2>3 DEF BudgetOK
  <1>5. LockOK(d)'
    BY <1>0 DEF PerDelivery, LockOK
  <1>6. d \notin lapsed => RunOK(d)'
    BY <1>0, <1>1, <1>3 DEF PerDelivery, RunOK, Stored
  <1>7. LogOK(delivery[d])'
    <2>1. LogOK(NoDelivery)
      BY EmptyLog DEF NoDelivery
    <2>2. QED
      BY <1>0, <2>1 DEF LogOK
  <1>8. QED
    BY <1>0, <1>4, <1>5, <1>6, <1>7 DEF PerDelivery

\* The row of an event is inserted, and its job added.
LEMMA Creates ==
    ASSUME Typed, NEW b \in Batch, NEW e \in Endpoint, Fresh(<<b, e>>), createWebhookDelivery(b, e)
    PROVE  PerDelivery(<<b, e>>)'
  <1>1. PICK d \in Delivery : d = <<b, e>>
    BY DEF Delivery
  <1>2. PICK row : row = [status |-> "pending", attempts |-> 0, log |-> <<>>]
    OBVIOUS
  <1>3. /\ delivery'[d] = row /\ UNCHANGED <<job, worker, lapsed>> /\ job[d] = NoJob
        /\ \A v \in Worker : worker[v].delivery # d
    <2>1. delivery' = [delivery EXCEPT ![d] = row]
      <3>1. row = [NoDelivery EXCEPT !.status = "pending"]
        BY <1>2 DEF NoDelivery
      <3>2. QED
        BY <1>1, <3>1 DEF createWebhookDelivery
    <2>2. QED
      <3>1. delivery'[d] = row
        BY <2>1 DEF Typed, RowsOK
      <3>2. UNCHANGED <<job, worker, lapsed>>
        BY DEF createWebhookDelivery, history
      <3>3. job[d] = NoJob /\ \A v \in Worker : worker[v].delivery # d
        BY <1>1 DEF Fresh, Untouched
      <3>4. QED
        BY <3>1, <3>2, <3>3
  <1>4. Cardinality(Astray(d)') = 0 /\ \A v \in Worker : ~Attempting(v, d)'
    BY <1>3, NobodyAstray DEF Attempting
  <1>5. BudgetOK(d)'
    BY <1>2, <1>3, <1>4, WebhooksAssumption DEF BudgetOK, NoJob
  <1>6. LockOK(d)' /\ RunOK(d)'
    BY <1>3 DEF LockOK, RunOK, NoJob
  <1>7. LogOK(delivery[d])'
    <2>1. LogOK(row)
      BY <1>2, EmptyLog
    <2>2. QED
      BY <1>3, <2>1 DEF LogOK
  <1>8. PerDelivery(d)'
    BY <1>5, <1>6, <1>7 DEF PerDelivery
  <1>9. QED
    BY <1>1, <1>8

LEMMA Enqueues ==
    ASSUME Typed, NEW b \in Batch, enqueue(b), NEW d \in Delivery, d = <<b, emit[b].current>>,
           Untouched(d), delivery[d].attempts = 0, PerDelivery(d)
    PROVE  PerDelivery(d)'
  <1>1. /\ UNCHANGED <<delivery, worker, lapsed>> /\ \A v \in Worker : worker[v].delivery # d
        /\ job'[d].state = "waiting" /\ job'[d].owner = None /\ job'[d].stalls = 0
    <2>1. PICK j : j = [job[d] EXCEPT !.state = "waiting"]
      OBVIOUS
    <2>2. j.state = "waiting" /\ j.owner = None /\ j.stalls = 0
      BY <2>1 DEF Untouched, NoJob
    <2>3. job' = [job EXCEPT ![d] = j]
      BY <2>1 DEF enqueue
    <2>4. QED
      BY <2>2, <2>3 DEF enqueue, rowVars, history, Untouched, Typed, JobsOK
  <1>2. Cardinality(Astray(d)') = 0 /\ \A v \in Worker : ~Attempting(v, d)'
    BY <1>1, NobodyAstray DEF Attempting
  <1>3. BudgetOK(d)'
    BY <1>1, <1>2, WebhooksAssumption DEF BudgetOK
  <1>4. LockOK(d)' /\ RunOK(d)'
    BY <1>1 DEF LockOK, RunOK
  <1>5. LogOK(delivery[d])'
    BY <1>1 DEF Untouched, PerDelivery, LogOK
  <1>6. QED
    BY <1>3, <1>4, <1>5 DEF PerDelivery

\* A worker that ends its run leaves every delivery in order.
LEMMA EndOfRun ==
    ASSUME Typed, NEW w \in Worker, worker[w].pc # "idle", NEW d \in Delivery, PerDelivery(d),
           worker' = [worker EXCEPT ![w] = NoWork], UNCHANGED <<delivery, lapsed>>,
           NEW x \in Delivery, x = worker[w].delivery, NEW state \in {"none", "delayed", "active"},
           Owns(w, x) =>
             job' = [job EXCEPT ![x] = [state |-> state, owner |-> None, stalls |-> job[x].stalls]],
           ~Owns(w, x) => job' = job
    PROVE  PerDelivery(d)'
  <1>1. CASE d = x
    BY <1>1, Leaves
  <1>2. CASE d # x
    <2>1. job'[d] = job[d]
      BY <1>2 DEF Typed, JobsOK
    <2>2. /\ worker'[w].delivery # d /\ worker[w].delivery # d
          /\ \A v \in Worker \ {w} : worker'[v] = worker[v]
      BY <1>2, WebhooksAssumption DEF Typed, RunsOK, NoWork, Delivery
    <2>3. QED
      BY <2>1, <2>2, Kept
  <1>3. QED
    BY <1>1, <1>2

\* Every step leaves every delivery in order.
LEMMA DeliveriesStep ==
    ASSUME IndInv, Next, NEW d \in Delivery
    PROVE  PerDelivery(d)'
  <1>0. Typed /\ PerDelivery(d) /\ \A b \in Batch : EmitOK(b)
    BY TypedParts DEF IndInv, PerDelivery, HonestLog
  <1>k. ASSUME UNCHANGED <<worker, lapsed>>, delivery'[d] = delivery[d], job'[d] = job[d]
        PROVE  PerDelivery(d)'
    BY <1>0, <1>k, Kept
  <1>1. ASSUME NEW e \in Endpoint, createWebhook(e) \/ softDeleteWebhookEndpoint(e)
        PROVE  PerDelivery(d)'
    BY <1>1, <1>k DEF createWebhook, softDeleteWebhookEndpoint, history
  <1>2. CASE softDeleteOrganization
    BY <1>2, <1>k DEF softDeleteOrganization, history
  <1>3. CASE hardDeleteOrganizationData
    BY <1>0, <1>3, Purges
  <1>4. ASSUME NEW b \in Batch, emitBatchWebhookEvent(b) \/ EmitStep(b)
        PROVE  PerDelivery(d)'
    <2>1. CASE emitBatchWebhookEvent(b) \/ insertFails(b) \/ enqueueFails(b) \/ EmitterDies(b)
      BY <1>k, <2>1 DEF emitBatchWebhookEvent, insertFails, enqueueFails, EmitterDies, rowVars, history
    <2>2. ASSUME NEW e \in Endpoint, createWebhookDelivery(b, e)
          PROVE  PerDelivery(d)'
      <3>1. UNCHANGED <<job, worker, lapsed>>
        BY <2>2 DEF createWebhookDelivery, history
      <3>2. CASE d = <<b, e>>
        <4>1. Fresh(<<b, e>>)
          BY <1>0, <2>2 DEF EmitOK, createWebhookDelivery
        <4>2. QED
          BY <1>0, <2>2, <3>2, <4>1, Creates
      <3>3. CASE d # <<b, e>>
        <4>1. delivery'[d] = delivery[d]
          BY <1>0, <2>2, <3>3 DEF createWebhookDelivery, Typed, RowsOK
        <4>2. QED
          BY <1>k, <3>1, <4>1
      <3>4. QED
        BY <3>2, <3>3
    <2>3. CASE enqueue(b)
      <3>1. UNCHANGED <<delivery, worker, lapsed>>
        BY <2>3 DEF enqueue, rowVars, history
      <3>2. CASE d = <<b, emit[b].current>>
        <4>1. Untouched(d) /\ delivery[d].attempts = 0
          BY <1>0, <2>3, <3>2 DEF EmitOK, enqueue
        <4>2. QED
          BY <1>0, <2>3, <3>2, <4>1, Enqueues
      <3>3. CASE d # <<b, emit[b].current>>
        <4>1. job'[d] = job[d]
          BY <1>0, <2>3, <3>3 DEF enqueue, Typed, JobsOK
        <4>2. QED
          BY <1>k, <3>1, <4>1
      <3>4. QED
        BY <3>2, <3>3
    <2>4. QED
      BY <1>4, <2>1, <2>2, <2>3 DEF EmitStep
  <1>5. ASSUME NEW w \in Worker, AttemptStep(w) \/ WorkerDies(w)
        PROVE  PerDelivery(d)'
    <2>0. worker[w].pc # "idle"
      BY <1>5 DEF AttemptStep, resolveHost, fetchWebhookTransport, recordDeliveryAttempt, recordFails,
                  moveToDelayed, WorkerDies
    <2>1. PICK x \in Delivery : x = worker[w].delivery
      BY <1>0, <2>0, RunOf
    <2>2. job[x] \in Job
      BY <1>0 DEF Typed, JobsOK
    <2>a. /\ [job[x] EXCEPT !.state = "none", !.owner = None]
               = [state |-> "none", owner |-> None, stalls |-> job[x].stalls]
          /\ [job[x] EXCEPT !.state = "delayed", !.owner = None]
               = [state |-> "delayed", owner |-> None, stalls |-> job[x].stalls]
      <3>1. PICK r : r = [job[x] EXCEPT !.state = "none", !.owner = None]
        OBVIOUS
      <3>2. r \in Job /\ r.state = "none" /\ r.owner = None /\ r.stalls = job[x].stalls
        BY <2>2, <3>1 DEF Job
      <3>3. PICK q : q = [job[x] EXCEPT !.state = "delayed", !.owner = None]
        OBVIOUS
      <3>4. q \in Job /\ q.state = "delayed" /\ q.owner = None /\ q.stalls = job[x].stalls
        BY <2>2, <3>3 DEF Job
      <3>5. \A j \in Job : j = [state |-> j.state, owner |-> j.owner, stalls |-> j.stalls]
        BY DEF Job
      <3>6. QED
        BY <3>1, <3>2, <3>3, <3>4, <3>5
    <2>b. [job[x] EXCEPT !.owner = None]
            = [state |-> job[x].state, owner |-> None, stalls |-> job[x].stalls]
      BY <2>2 DEF Job
    <2>3. CASE resolveHost(w) \/ fetchWebhookTransport(w)
      <3>1. /\ worker'[w].delivery = worker[w].delivery /\ worker'[w].attempt = worker[w].attempt
            /\ worker'[w].pc \in {"post", "record"} /\ worker[w].pc \in {"resolve", "post"}
            /\ \A v \in Worker \ {w} : worker'[v] = worker[v]
        <4>1. worker \in [Worker -> WorkerRecord]
          BY <1>0 DEF Typed, RunsOK
        <4>2. CASE resolveHost(w)
          <5>1. PICK r : /\ r.delivery = worker[w].delivery /\ r.attempt = worker[w].attempt
                         /\ r.pc \in {"post", "record"} /\ worker' = [worker EXCEPT ![w] = r]
            BY <4>1, <4>2 DEF resolveHost, WorkerRecord
          <5>2. QED
            BY <4>1, <4>2, <5>1 DEF resolveHost
        <4>3. CASE fetchWebhookTransport(w)
          <5>1. PICK r : /\ r.delivery = worker[w].delivery /\ r.attempt = worker[w].attempt
                         /\ r.pc \in {"post", "record"} /\ worker' = [worker EXCEPT ![w] = r]
            BY <4>1, <4>3 DEF fetchWebhookTransport, WorkerRecord
          <5>2. QED
            BY <4>1, <4>3, <5>1 DEF fetchWebhookTransport
        <4>4. QED
          BY <2>3, <4>2, <4>3
      <3>2. UNCHANGED <<delivery, job, lapsed>>
        BY <2>3 DEF resolveHost, fetchWebhookTransport, rowVars, history
      <3>3. QED
        BY <1>0, <3>1, <3>2, Kept
    <2>4. CASE recordDeliveryAttempt(w)
      <3>1. CASE d = x
        BY <1>0, <2>1, <2>4, <3>1, Records
      <3>2. CASE d # x
        <4>1. delivery'[d] = delivery[d] /\ lapsed' = lapsed
          BY <1>0, <2>1, <2>4, <3>2 DEF recordDeliveryAttempt, Typed, RowsOK, history
        <4>2. job'[d] = job[d]
          BY <1>0, <2>1, <2>4, <3>2 DEF recordDeliveryAttempt, CompleteJob, Typed, JobsOK
        <4>3. worker'[w].delivery # d /\ \A v \in Worker \ {w} : worker'[v] = worker[v]
          <5>1. worker \in [Worker -> WorkerRecord] /\ NoWork.delivery # d
            BY <1>0, WebhooksAssumption DEF Typed, RunsOK, NoWork, Delivery
          <5>2. \/ worker' = [worker EXCEPT ![w] = NoWork]
                \/ worker' = [worker EXCEPT ![w].pc = "delay"]
            BY <2>4 DEF recordDeliveryAttempt, CompleteJob
          <5>3. QED
            BY <2>1, <3>2, <5>1, <5>2 DEF WorkerRecord
        <4>4. QED
          BY <1>0, <2>1, <3>2, <4>1, <4>2, <4>3, Kept
      <3>3. QED
        BY <3>1, <3>2
    <2>5. CASE recordFails(w)
      <3>1. Owns(w, x) => job' = [job EXCEPT ![x] = [state |-> "none", owner |-> None,
                                                     stalls |-> job[x].stalls]]
        BY <2>1, <2>a, <2>5 DEF recordFails, CompleteJob
      <3>2. ~Owns(w, x) => job' = job
        BY <2>1, <2>5 DEF recordFails, CompleteJob
      <3>3. worker' = [worker EXCEPT ![w] = NoWork] /\ UNCHANGED <<delivery, lapsed>>
        BY <2>5 DEF recordFails, CompleteJob, rowVars
      <3>4. QED
        BY <1>0, <2>0, <2>1, <3>1, <3>2, <3>3, EndOfRun
    <2>6. CASE moveToDelayed(w)
      <3>1. Owns(w, x) => job' = [job EXCEPT ![x] = [state |-> "delayed", owner |-> None,
                                                     stalls |-> job[x].stalls]]
        BY <2>1, <2>a, <2>6 DEF moveToDelayed
      <3>2. ~Owns(w, x) => job' = job
        BY <2>1, <2>6 DEF moveToDelayed
      <3>3. worker' = [worker EXCEPT ![w] = NoWork] /\ UNCHANGED <<delivery, lapsed>>
        BY <2>6 DEF moveToDelayed, rowVars, history
      <3>4. QED
        BY <1>0, <2>0, <2>1, <3>1, <3>2, <3>3, EndOfRun
    <2>7. CASE WorkerDies(w)
      <3>1. Owns(w, x) => job' = [job EXCEPT ![x] = [state |-> "active", owner |-> None,
                                                     stalls |-> job[x].stalls]]
        BY <2>1, <2>b, <2>7 DEF WorkerDies, Owns
      <3>2. ~Owns(w, x) => job' = job
        BY <2>1, <2>7 DEF WorkerDies
      <3>3. worker' = [worker EXCEPT ![w] = NoWork] /\ UNCHANGED <<delivery, lapsed>>
        BY <2>7 DEF WorkerDies, rowVars, history
      <3>4. QED
        BY <1>0, <2>0, <2>1, <3>1, <3>2, <3>3, EndOfRun
    <2>8. QED
      BY <1>5, <2>3, <2>4, <2>5, <2>6, <2>7 DEF AttemptStep
  <1>6. ASSUME NEW w \in Worker, NEW x \in Delivery, getDeliveryForProcessing(w, x)
        PROVE  PerDelivery(d)'
    <2>1. CASE d = x
      BY <1>0, <1>6, <2>1, Takes
    <2>2. CASE d # x
      <3>1. job'[d] = job[d] /\ UNCHANGED <<delivery, lapsed>>
        BY <1>0, <1>6, <2>2 DEF getDeliveryForProcessing, Typed, JobsOK, rowVars, history
      <3>2. /\ worker[w].delivery # d /\ worker'[w].delivery # d
            /\ \A v \in Worker \ {w} : worker'[v] = worker[v]
        <4>1. worker \in [Worker -> WorkerRecord] /\ worker[w].delivery # d
          BY <1>0, <1>6, WebhooksAssumption
             DEF Typed, RunsOK, RunRecordOK, getDeliveryForProcessing, Delivery
        <4>2. CASE worker' = worker
          BY <4>1, <4>2
        <4>3. CASE Deliverable(x)
          <5>1. PICK r : r.delivery = x /\ worker' = [worker EXCEPT ![w] = r]
            BY <1>6, <4>3 DEF getDeliveryForProcessing, NoWork
          <5>2. QED
            BY <2>2, <4>1, <5>1
        <4>4. QED
          BY <1>6, <4>2, <4>3 DEF getDeliveryForProcessing
      <3>3. QED
        BY <1>0, <3>1, <3>2, Kept
    <2>3. QED
      BY <2>1, <2>2
  <1>7. ASSUME NEW x \in Delivery, DelayElapses(x) \/ Stalled(x)
        PROVE  PerDelivery(d)'
    <2>1. CASE d = x
      BY <1>0, <1>7, <2>1, Elapses, Stalls
    <2>2. CASE d # x
      <3>1. /\ job'[d] = job[d] /\ UNCHANGED <<delivery, worker>>
            /\ d \in lapsed <=> d \in lapsed'
        BY <1>0, <1>7, <2>2 DEF DelayElapses, Stalled, Typed, JobsOK, rowVars, history
      <3>2. QED
        BY <1>0, <3>1, Kept
    <2>3. QED
      BY <2>1, <2>2
  <1>8. QED
    BY <1>1, <1>2, <1>3, <1>4, <1>5, <1>6, <1>7 DEF Next

-----------------------------------------------------------------------------
(* The emission.                                                           *)

Enqueued(d) == \E b \in Batch : enqueue(b) /\ d = <<b, emit[b].current>>
Created(d) == \E b \in Batch, e \in Endpoint : createWebhookDelivery(b, e) /\ d = <<b, e>>

\* Only its emission touches a delivery that has no job yet.
LEMMA UntouchedKept ==
    ASSUME IndInv, Next, NEW d \in Delivery, Untouched(d)
    PROVE  /\ Untouched(d)' \/ Enqueued(d)
           /\ delivery'[d] \in {delivery[d], NoDelivery} \/ Created(d)
  <1> DEFINE Goal == /\ Untouched(d)' \/ Enqueued(d)
                     /\ delivery'[d] \in {delivery[d], NoDelivery} \/ Created(d)
  <1>s. SUFFICES Goal
    OBVIOUS
  <1>0. Typed /\ job[d] = NoJob /\ d \notin lapsed /\ \A v \in Worker : worker[v].delivery # d
    BY TypedParts DEF Untouched
  <1>k. ASSUME job'[d] = job[d], d \notin lapsed', \A v \in Worker : worker'[v].delivery # d,
               delivery'[d] \in {delivery[d], NoDelivery}
        PROVE  Goal
    BY <1>0, <1>k DEF Untouched
  <1>1. ASSUME NEW e \in Endpoint, createWebhook(e) \/ softDeleteWebhookEndpoint(e)
        PROVE  Goal
    BY <1>0, <1>1, <1>k DEF createWebhook, softDeleteWebhookEndpoint, history
  <1>2. CASE softDeleteOrganization
    BY <1>0, <1>2, <1>k DEF softDeleteOrganization, history
  <1>3. CASE hardDeleteOrganizationData
    BY <1>0, <1>3, <1>k DEF hardDeleteOrganizationData, history
  <1>4. ASSUME NEW b \in Batch, emitBatchWebhookEvent(b) \/ EmitStep(b)
        PROVE  Goal
    <2>1. CASE emitBatchWebhookEvent(b) \/ insertFails(b) \/ enqueueFails(b) \/ EmitterDies(b)
      BY <1>0, <1>k, <2>1
         DEF emitBatchWebhookEvent, insertFails, enqueueFails, EmitterDies, rowVars, history
    <2>2. ASSUME NEW e \in Endpoint, createWebhookDelivery(b, e)
          PROVE  Goal
      <3>1. Untouched(d)'
        BY <1>0, <2>2 DEF createWebhookDelivery, history, Untouched
      <3>2. d # <<b, e>> => delivery'[d] = delivery[d]
        BY <1>0, <2>2 DEF createWebhookDelivery, Typed, RowsOK
      <3>3. QED
        BY <2>2, <3>1, <3>2 DEF Created
    <2>3. CASE enqueue(b)
      <3>1. UNCHANGED <<delivery, worker, lapsed>>
        BY <2>3 DEF enqueue, rowVars, history
      <3>2. d # <<b, emit[b].current>> => job'[d] = job[d]
        BY <1>0, <2>3 DEF enqueue, Typed, JobsOK
      <3>3. CASE d # <<b, emit[b].current>>
        BY <1>0, <1>k, <3>1, <3>2, <3>3
      <3>4. QED
        BY <2>3, <3>1, <3>3 DEF Enqueued
    <2> HIDE DEF Goal
    <2>4. QED
      BY <1>4, <2>1, <2>2, <2>3 DEF EmitStep
  <1>5. ASSUME NEW w \in Worker, AttemptStep(w) \/ WorkerDies(w)
        PROVE  Goal
    <2>0. worker[w].pc # "idle" /\ lapsed' = lapsed
      BY <1>5 DEF AttemptStep, resolveHost, fetchWebhookTransport, recordDeliveryAttempt, recordFails,
                  moveToDelayed, WorkerDies, history
    <2>1. PICK x \in Delivery : x = worker[w].delivery /\ x # d
      BY <1>0, <2>0, RunOf
    <2>2. job'[d] = job[d] /\ delivery'[d] = delivery[d]
      BY <1>0, <1>5, <2>1
         DEF AttemptStep, resolveHost, fetchWebhookTransport, recordDeliveryAttempt, recordFails,
             moveToDelayed, WorkerDies, CompleteJob, rowVars, Typed, JobsOK, RowsOK
    <2>3. \A v \in Worker : worker'[v].delivery # d
      <3>1. worker \in [Worker -> WorkerRecord] /\ NoWork.delivery # d
        BY <1>0, WebhooksAssumption DEF Typed, RunsOK, NoWork, Delivery
      <3>2. \E r : worker' = [worker EXCEPT ![w] = r] /\ r.delivery # d
        <4>1. CASE resolveHost(w)
          BY <2>1, <3>1, <4>1 DEF resolveHost, WorkerRecord
        <4>2. CASE fetchWebhookTransport(w)
          <5>1. PICK ok : worker' = [worker EXCEPT ![w] = [@ EXCEPT !.pc = "record",
                                                                    !.address = None, !.ok = ok]]
            BY <4>2 DEF fetchWebhookTransport
          <5>2. PICK r : r = [worker[w] EXCEPT !.pc = "record", !.address = None, !.ok = ok]
            OBVIOUS
          <5>3. r.delivery = x
            BY <2>1, <3>1, <5>2 DEF WorkerRecord
          <5>4. worker' = [worker EXCEPT ![w] = r]
            BY <5>1, <5>2
          <5>5. QED
            BY <2>1, <5>3, <5>4
        <4>3. CASE recordDeliveryAttempt(w)
          BY <2>1, <3>1, <4>3 DEF recordDeliveryAttempt, CompleteJob, WorkerRecord
        <4>4. CASE recordFails(w) \/ moveToDelayed(w) \/ WorkerDies(w)
          BY <3>1, <4>4 DEF recordFails, moveToDelayed, WorkerDies, CompleteJob
        <4>5. QED
          BY <1>5, <4>1, <4>2, <4>3, <4>4 DEF AttemptStep
      <3>3. QED
        BY <1>0, <3>1, <3>2
    <2>4. QED
      BY <1>0, <1>k, <2>0, <2>2, <2>3
  <1>6. ASSUME NEW w \in Worker, NEW x \in Delivery, getDeliveryForProcessing(w, x)
        PROVE  Goal
    <2>1. x # d
      BY <1>0, <1>6 DEF getDeliveryForProcessing, NoJob
    <2>2. job'[d] = job[d] /\ UNCHANGED <<delivery, lapsed>>
      BY <1>0, <1>6, <2>1 DEF getDeliveryForProcessing, Typed, JobsOK, rowVars, history
    <2>3. worker' = worker \/ \E r : worker' = [worker EXCEPT ![w] = r] /\ r.delivery = x
      <3>1. CASE Deliverable(x)
        <4>1. PICK r : r = [NoWork EXCEPT !.pc = "resolve", !.delivery = x,
                                          !.attempt = delivery[x].attempts + 1]
          OBVIOUS
        <4>2. r.delivery = x
          BY <4>1 DEF NoWork
        <4>3. QED
          BY <1>6, <3>1, <4>1, <4>2 DEF getDeliveryForProcessing
      <3>2. QED
        BY <1>6, <3>1 DEF getDeliveryForProcessing
    <2>4. \A v \in Worker : worker'[v].delivery # d
      BY <1>0, <2>1, <2>3 DEF Typed, RunsOK
    <2>5. QED
      BY <1>0, <1>k, <2>2, <2>4
  <1>7. ASSUME NEW x \in Delivery, DelayElapses(x) \/ Stalled(x)
        PROVE  Goal
    <2>1. x # d
      BY <1>0, <1>7 DEF DelayElapses, Stalled, NoJob
    <2>2. job'[d] = job[d] /\ d \notin lapsed' /\ UNCHANGED <<delivery, worker>>
      BY <1>0, <1>7, <2>1 DEF DelayElapses, Stalled, Typed, JobsOK, rowVars, history
    <2>3. QED
      BY <1>0, <1>k, <2>2
  <1>8. QED
    <2> HIDE DEF Goal
    <2>1. QED
      BY <1>1, <1>2, <1>3, <1>4, <1>5, <1>6, <1>7 DEF Next

LEMMA FreshKept ==
    ASSUME IndInv, Next, NEW d \in Delivery, Fresh(d), ~Enqueued(d), ~Created(d)
    PROVE  Fresh(d)'
  <1>1. Untouched(d) /\ delivery[d] = NoDelivery
    BY DEF Fresh
  <1>2. Untouched(d)' /\ delivery'[d] = NoDelivery
    BY <1>1, UntouchedKept
  <1>3. QED
    BY <1>2 DEF Fresh

\* What an emission has not reached is fresh.
LEMMA EmissionStep ==
    ASSUME IndInv, Next, NEW b \in Batch
    PROVE  EmitOK(b)'
  <1>0. /\ EmitOK(b) /\ emit \in [Batch -> EmitRecord] /\ emit[b] \in EmitRecord
        /\ emit[b].pc = "enqueue" => emit[b].current \in emit[b].todo
        /\ emit[b].todo \subseteq Endpoint
    BY TypedParts DEF IndInv, Typed, EmitsOK, EmitRecord
  <1>d. \A e \in Endpoint : <<b, e>> \in Delivery
    BY DEF Delivery
  <1>f. ASSUME NEW e \in Endpoint, Fresh(<<b, e>>),
               enqueue(b) => e # emit[b].current,
               ~createWebhookDelivery(b, e)
        PROVE  Fresh(<<b, e>>)'
    <2>1. PICK d \in Delivery : d = <<b, e>>
      BY <1>d
    <2>2. ~Enqueued(d)
      BY <1>f, <2>1 DEF Enqueued
    <2>3. ~Created(d)
      BY <1>f, <2>1 DEF Created
    <2>4. Fresh(d)'
      BY <1>f, <2>1, <2>2, <2>3, FreshKept
    <2>5. QED
      BY <2>1, <2>4
  <1>1. CASE emitBatchWebhookEvent(b)
    <2>1. emit[b].pc = "idle" /\ emit'[b].pc \in {"done", "insert"} /\ emit'[b].todo \subseteq Endpoint
      BY <1>0, <1>1 DEF emitBatchWebhookEvent, EmitRecord, findEndpointsForEvent
    <2>2. \A e \in Endpoint : Fresh(<<b, e>>)'
      BY <1>0, <1>1, <1>f, <2>1 DEF EmitOK, enqueue, createWebhookDelivery
    <2>3. QED
      BY <2>1, <2>2 DEF EmitOK
  <1>2. ASSUME NEW e \in Endpoint, createWebhookDelivery(b, e)
        PROVE  EmitOK(b)'
    <2>1. /\ emit[b].pc = "insert" /\ e \in emit[b].todo
          /\ emit'[b].pc = "enqueue" /\ emit'[b].current = e /\ emit'[b].todo = emit[b].todo
      BY <1>0, <1>2 DEF createWebhookDelivery, EmitRecord
    <2>2. PICK d \in Delivery : d = <<b, e>>
      BY <1>d
    <2>3. Untouched(d)'
      <3>1. Untouched(d)
        BY <1>0, <2>1, <2>2 DEF EmitOK, Fresh
      <3>2. QED
        BY <1>2, <3>1 DEF createWebhookDelivery, history, Untouched
    <2>4. delivery'[d].attempts = 0
      <3>1. PICK row : row = [NoDelivery EXCEPT !.status = "pending"]
        OBVIOUS
      <3>2. row.attempts = 0
        BY <3>1 DEF NoDelivery
      <3>3. delivery' = [delivery EXCEPT ![d] = row] /\ delivery \in [Delivery -> DeliveryRow]
        BY <1>2, <2>2, <3>1, TypedParts DEF createWebhookDelivery, Typed, RowsOK
      <3>4. QED
        BY <3>2, <3>3
    <2>5. ASSUME NEW f \in emit[b].todo \ {e}
          PROVE  Fresh(<<b, f>>)'
      <3>1. f \in Endpoint /\ Fresh(<<b, f>>) /\ ~enqueue(b)
        BY <1>0, <2>1, <2>5 DEF EmitOK, enqueue
      <3>2. ~createWebhookDelivery(b, f)
        <4>1. SUFFICES ASSUME createWebhookDelivery(b, f)
                       PROVE  FALSE
          OBVIOUS
        <4>2. emit'[b].current = f
          BY <1>0, <4>1 DEF createWebhookDelivery, EmitRecord
        <4>3. QED
          BY <2>1, <2>5, <4>2
      <3>3. QED
        BY <1>f, <3>1, <3>2
    <2>6. QED
      BY <2>1, <2>2, <2>3, <2>4, <2>5 DEF EmitOK
  <1>3. CASE insertFails(b) \/ EmitterDies(b)
    <2>1. emit'[b].pc = "done"
      <3>1. CASE insertFails(b)
        BY <1>0, <3>1 DEF insertFails, EmitRecord
      <3>2. CASE EmitterDies(b)
        BY <1>0, <3>2 DEF EmitterDies
      <3>3. QED
        BY <1>3, <3>1, <3>2
    <2>2. QED
      BY <2>1 DEF EmitOK
  <1>4. CASE enqueue(b) \/ enqueueFails(b)
    <2>1. /\ emit[b].pc = "enqueue" /\ emit'[b].pc \in {"done", "insert"}
          /\ emit'[b].todo = emit[b].todo \ {emit[b].current}
      BY <1>0, <1>4 DEF enqueue, enqueueFails, NextEndpoint
    <2>2. ASSUME NEW e \in emit'[b].todo
          PROVE  Fresh(<<b, e>>)'
      <3>1. e \in Endpoint /\ e # emit[b].current /\ Fresh(<<b, e>>)
        BY <1>0, <2>1, <2>2 DEF EmitOK
      <3>2. ~createWebhookDelivery(b, e)
        BY <2>1 DEF createWebhookDelivery
      <3>3. QED
        BY <1>f, <3>1, <3>2
    <2>3. QED
      BY <2>1, <2>2 DEF EmitOK
  <1>5. CASE emit'[b] = emit[b]
    <2>1. ~enqueue(b) /\ \A e \in Endpoint : ~createWebhookDelivery(b, e)
      <3>1. enqueue(b) => emit[b].pc = "enqueue" /\ emit'[b].pc \in {"done", "insert"}
        BY <1>0 DEF enqueue, NextEndpoint
      <3>2. \A e \in Endpoint : createWebhookDelivery(b, e) =>
              emit[b].pc = "insert" /\ emit'[b].pc = "enqueue"
        BY <1>0 DEF createWebhookDelivery, EmitRecord
      <3>3. QED
        BY <1>5, <3>1, <3>2
    <2>2. \A e \in Endpoint : Fresh(<<b, e>>) => Fresh(<<b, e>>)'
      BY <1>f, <2>1
    <2>3. ASSUME emit[b].pc = "enqueue"
          PROVE  /\ Untouched(<<b, emit[b].current>>)'
                 /\ delivery'[<<b, emit[b].current>>].attempts = 0
      <3>1. PICK c \in Endpoint : c = emit[b].current
        BY <1>0, <2>3
      <3>2. PICK d \in Delivery : d = <<b, c>>
        BY <1>d
      <3>3. Untouched(d) /\ delivery[d].attempts = 0
        BY <1>0, <2>3, <3>1, <3>2 DEF EmitOK
      <3>4. ~Enqueued(d) /\ ~Created(d)
        BY <2>1, <3>1, <3>2 DEF Enqueued, Created
      <3>5. Untouched(d)' /\ delivery'[d] \in {delivery[d], NoDelivery}
        BY <3>3, <3>4, UntouchedKept
      <3>6. delivery'[d].attempts = 0
        BY <3>3, <3>5 DEF NoDelivery
      <3>7. QED
        BY <1>5, <3>1, <3>2, <3>5, <3>6
    <2>4. QED
      BY <1>0, <1>5, <2>2, <2>3 DEF EmitOK
  <1>6. \/ emitBatchWebhookEvent(b) \/ EmitStep(b) \/ emit'[b] = emit[b]
    <2>1. ASSUME NEW c \in Batch \ {b}, emitBatchWebhookEvent(c) \/ EmitStep(c)
          PROVE  emit'[b] = emit[b]
      BY <1>0, <2>1 DEF emitBatchWebhookEvent, EmitStep, createWebhookDelivery, insertFails, enqueue,
         enqueueFails, EmitterDies, NextEndpoint
    <2>2. QED
      BY <2>1 DEF Next, createWebhook, softDeleteWebhookEndpoint, softDeleteOrganization,
         hardDeleteOrganizationData, AttemptStep, resolveHost, fetchWebhookTransport,
         recordDeliveryAttempt, recordFails, moveToDelayed, WorkerDies, getDeliveryForProcessing,
         DelayElapses, Stalled
  <1>7. QED
    BY <1>1, <1>2, <1>3, <1>4, <1>5, <1>6 DEF EmitStep

-----------------------------------------------------------------------------
(* The theorems.                                                           *)

\* The invariant that carries the others is kept by every step: registration,
\* emission, attempts, crashes and the stalled check, in any interleaving.
THEOREM WebhooksInductive == Spec => []IndInv
  <1>p. (Typed /\ (\A d \in Delivery : PerDelivery(d)) /\ \A b \in Batch : EmitOK(b)) => IndInv
    BY TypedParts DEF IndInv, PerDelivery, HonestLog
  <1>1. Init => IndInv
    <2> SUFFICES ASSUME Init
                 PROVE  IndInv
      OBVIOUS
    <2>1. Typed
      <3>1. RunsOK
        BY NoWorkOK DEF Init, RunsOK, RunRecordOK
      <3>2. EmitsOK
        BY DEF Init, EmitsOK, EmitRecord
      <3>3. RowsOK
        <4>1. NoEndpoint \in EndpointRow
          BY DEF NoEndpoint, EndpointRow
        <4>2. QED
          BY <4>1, NoDeliveryTyped DEF Init, RowsOK
      <3>4. JobsOK /\ PostsOK
        BY DEF Init, JobsOK, PostsOK, NoJob, Job
      <3>5. QED
        BY <3>1, <3>2, <3>3, <3>4 DEF Typed
    <2>2. ASSUME NEW d \in Delivery
          PROVE  Fresh(d) /\ PerDelivery(d)
      <3>1. Fresh(d)
        BY WebhooksAssumption DEF Init, Fresh, Untouched, NoWork, Delivery
      <3>2. Astray(d) = {} /\ \A w \in Worker : ~Attempting(w, d)
        BY <3>1 DEF Fresh, Untouched, Astray, Attempting
      <3>3. Cardinality(Astray(d)) = 0
        BY <3>2, FS_EmptySet
      <3>4. BudgetOK(d)
        BY <3>1, <3>2, <3>3, WebhooksAssumption DEF BudgetOK, Fresh, Untouched, NoJob, NoDelivery
      <3>5. LockOK(d) /\ RunOK(d)
        BY <3>1 DEF LockOK, RunOK, Fresh, Untouched, NoJob
      <3>6. LogOK(delivery[d])
        BY <3>1, EmptyLog DEF Fresh, NoDelivery
      <3>7. QED
        BY <3>1, <3>4, <3>5, <3>6 DEF PerDelivery
    <2>3. \A b \in Batch : EmitOK(b)
      <3>1. \A b \in Batch, e \in Endpoint : Fresh(<<b, e>>)
        BY <2>2 DEF Delivery
      <3>2. \A b \in Batch : emit[b].pc = "idle"
        BY DEF Init
      <3>3. QED
        BY <3>1, <3>2 DEF EmitOK
    <2>4. QED
      BY <1>p, <2>1, <2>2, <2>3
  <1>2. IndInv /\ [Next]_vars => IndInv'
    <2> SUFFICES ASSUME IndInv, [Next]_vars
                 PROVE  IndInv'
      OBVIOUS
    <2>1. CASE Next
      <3>1. Typed' /\ \A b \in Batch : EmitOK(b)'
        BY <2>1, TypedParts, TypedStep, EmissionStep
      <3>2. \A d \in Delivery : PerDelivery(d)'
        BY <2>1, DeliveriesStep
      <3>3. /\ TypeOK' /\ (\A w \in Worker : WorkerOK(w)')
            /\ \A a \in contacted' : ~isPrivateAddress(a)
        BY <3>1 DEF TypeOK, WorkerOK, Typed, RunsOK, RunRecordOK, EmitsOK, RowsOK, JobsOK, PostsOK
      <3>4. QED
        BY <3>1, <3>2, <3>3 DEF IndInv, PerDelivery, HonestLog
    <2>2. CASE UNCHANGED vars
      <3>0. UNCHANGED <<org, endpoint, delivery, job, emit, worker, contacted, lost, lapsed>>
        BY <2>2 DEF vars
      <3>1. TypeOK' /\ \A w \in Worker : WorkerOK(w)'
        BY <3>0 DEF IndInv, TypeOK, WorkerOK
      <3>2. \A a \in contacted' : ~isPrivateAddress(a)
        BY <3>0 DEF IndInv
      <3>3. ASSUME NEW d \in Delivery
            PROVE  PerDelivery(d)'
        <4>1. Typed /\ PerDelivery(d)
          BY TypedParts DEF IndInv, PerDelivery, HonestLog
        <4>2. QED
          BY <3>0, <4>1, Kept
      <3>4. \A b \in Batch : EmitOK(b)'
        BY <3>0 DEF IndInv, EmitOK, Fresh, Untouched
      <3>5. QED
        BY <3>1, <3>2, <3>3, <3>4 DEF IndInv, PerDelivery, HonestLog
    <2>3. QED
      BY <2>1, <2>2
  <1>3. QED
    BY <1>1, <1>2, PTL DEF Spec

\* Rows, jobs, emissions and workers keep their types.
THEOREM WebhooksTypeCorrect == Spec => []TypeOK
  <1>1. IndInv => TypeOK
    BY DEF IndInv
  <1>2. QED
    BY <1>1, WebhooksInductive, PTL

\* No POST leaves for a reserved address, whatever the resolver answers when and
\* in which form (checkWebhookHost, processDelivery, fetchWebhookTransport).
THEOREM PostsArePublic == Spec => []OnlyPublic
  <1>1. IndInv => OnlyPublic
    BY PublicIsNotReserved DEF IndInv, TypeOK, OnlyPublic
  <1>2. QED
    BY <1>1, WebhooksInductive, PTL

\* The attempt log of a delivery whose lock never lapsed is its ordered history,
\* through crashes, re-runs and failed writes (recordDeliveryAttempt).
THEOREM LogsAreHonest == Spec => []HonestLog
  <1>1. IndInv => HonestLog
    BY DEF IndInv
  <1>2. QED
    BY <1>1, WebhooksInductive, PTL

\* A delivery is attempted at most once more per stall than the schedule allows,
\* however many workers run it at once (processDelivery).
THEOREM AttemptsAreBounded == Spec => []AttemptsBounded
  <1>1. IndInv => AttemptsBounded
    <2> SUFFICES ASSUME IndInv, NEW d \in Delivery
                 PROVE  delivery[d].attempts <= MaxAttempts + job[d].stalls
      BY DEF AttemptsBounded
    <2>1. delivery[d].attempts + Cardinality(Astray(d)) <= MaxAttempts + job[d].stalls
      BY DEF IndInv, BudgetOK
    <2>2. /\ Cardinality(Astray(d)) \in Nat /\ delivery[d].attempts \in Nat
          /\ job[d].stalls \in Nat /\ MaxAttempts \in Nat
      BY AstrayFinite, WebhooksAssumption DEF IndInv, TypeOK, DeliveryRow, Job
    <2>3. QED
      BY <2>1, <2>2
  <1>2. QED
    BY <1>1, WebhooksInductive, PTL

\* processDelivery implements AtLeastOnce for the deliveries whose lock never
\* lapsed: settled is settled, and attempts are counted one by one.
THEOREM DeliversAtLeastOnce == Spec => AtLeastOnceHolds
  <1>1. Init => Promise!Init
    <2> SUFFICES ASSUME Init
                 PROVE  Promise!Init
      OBVIOUS
    <2>1. \A d \in Delivery : d \notin lapsed /\ delivery[d].status = "none" /\ delivery[d].attempts = 0
      BY DEF Init, NoDelivery
    <2>2. QED
      BY <2>1 DEF Promise!Init
  <1>2. IndInv /\ [Next]_vars => [Promise!Next]_(Promise!abstractVars)
    <2> SUFFICES ASSUME IndInv, [Next]_vars
                 PROVE  [Promise!Next]_(Promise!abstractVars)
      OBVIOUS
    <2>0. Typed /\ delivery \in [Delivery -> DeliveryRow]
      BY TypedParts DEF Typed, RowsOK
    <2>a. PICK S, T : /\ S = [d \in Delivery |-> IF d \in lapsed THEN "void" ELSE delivery[d].status]
                      /\ T = [d \in Delivery |-> IF d \in lapsed THEN 0 ELSE delivery[d].attempts]
      OBVIOUS
    <2>b. PICK Sn, Tn :
            /\ Sn = [d \in Delivery |-> IF d \in lapsed' THEN "void" ELSE delivery'[d].status]
            /\ Tn = [d \in Delivery |-> IF d \in lapsed' THEN 0 ELSE delivery'[d].attempts]
      OBVIOUS
    <2>1. CASE UNCHANGED <<delivery, lapsed>>
      BY <2>1 DEF Promise!abstractVars
    <2>2. CASE hardDeleteOrganizationData
      <3>1. /\ lapsed' = lapsed
            /\ \A d \in Delivery : delivery'[d].status = "none" /\ delivery'[d].attempts = 0
        BY <2>2 DEF hardDeleteOrganizationData, history, NoDelivery
      <3>2. \A d \in Delivery : d \notin lapsed => delivery[d].status # "void"
        BY <2>0 DEF DeliveryRow
      <3>3. Promise!Purge
        BY <3>1, <3>2 DEF Promise!Purge
      <3>4. QED
        BY <3>3 DEF Promise!Next
    <2>3. ASSUME NEW b \in Batch, NEW e \in Endpoint, createWebhookDelivery(b, e)
          PROVE  [Promise!Next]_(Promise!abstractVars)
      <3>1. PICK d \in Delivery : d = <<b, e>>
        BY DEF Delivery
      <3>2. Fresh(d)
        BY <2>3, <3>1 DEF IndInv, EmitOK, createWebhookDelivery
      <3>3. PICK row : row = [NoDelivery EXCEPT !.status = "pending"]
        OBVIOUS
      <3>4. row.status = "pending" /\ row.attempts = 0
        BY <3>3 DEF NoDelivery
      <3>5. delivery' = [delivery EXCEPT ![d] = row] /\ lapsed' = lapsed
        BY <2>3, <3>1, <3>3 DEF createWebhookDelivery, history
      <3>6. delivery'[d] = row /\ \A x \in Delivery \ {d} : delivery'[x] = delivery[x]
        BY <2>0, <3>5
      <3>7. d \notin lapsed /\ delivery[d].status = "none" /\ delivery[d].attempts = 0
        BY <3>2 DEF Fresh, Untouched, NoDelivery
      <3>8. Promise!Create(d)
        <4>1. S[d] = "none" /\ Sn = [S EXCEPT ![d] = "pending"] /\ Tn = T
          BY <2>a, <2>b, <3>4, <3>5, <3>6, <3>7
        <4>2. QED
          BY <2>a, <2>b, <4>1 DEF Promise!Create
      <3>9. QED
        BY <3>8 DEF Promise!Next
    <2>4. ASSUME NEW w \in Worker, recordDeliveryAttempt(w)
          PROVE  [Promise!Next]_(Promise!abstractVars)
      <3>0. worker[w].delivery \in Delivery /\ worker[w].ok \in BOOLEAN
        BY <2>0, <2>4, RunOf DEF recordDeliveryAttempt
      <3>a. PICK d \in Delivery : d = worker[w].delivery
        BY <3>0
      <3>b. PICK n : n = worker[w].attempt
        OBVIOUS
      <3>c. PICK ok \in BOOLEAN : ok = worker[w].ok
        BY <3>0
      <3>1. d = worker[w].delivery /\ n = worker[w].attempt /\ ok = worker[w].ok
        BY <3>a, <3>b, <3>c
      <3>2. PICK row : row = [status |-> StatusAfter(n, ok), attempts |-> delivery[d].attempts + 1,
                              log |-> Append(delivery[d].log, [attempt |-> n, ok |-> ok])]
        OBVIOUS
      <3>3. /\ delivery' = IF Stored(d) THEN [delivery EXCEPT ![d] = row] ELSE delivery
            /\ lapsed' = lapsed
        BY <2>4, <3>1, <3>2 DEF recordDeliveryAttempt, history
      <3>4. \A x \in Delivery \ {d} : delivery'[x] = delivery[x]
        BY <2>0, <3>3
      <3>5. CASE d \in lapsed
        BY <3>3, <3>4, <3>5 DEF Promise!abstractVars
      <3>6. CASE ~Stored(d)
        BY <2>1, <3>3, <3>6
      <3>7. CASE d \notin lapsed /\ Stored(d)
        <4>1. delivery[d].status = "pending" /\ n = delivery[d].attempts + 1
          BY <2>4, <3>1, <3>7 DEF IndInv, RunOK, Attempting, Pending, recordDeliveryAttempt
        <4>2. delivery'[d].status = StatusAfter(n, ok) /\ delivery'[d].attempts = n
          BY <2>0, <3>2, <3>3, <3>7, <4>1
        <4>3. LogOK(delivery[d]) /\ delivery[d] \in DeliveryRow
          BY <2>0, <3>7 DEF IndInv, HonestLog
        <4>4. delivery[d].attempts \in Nat /\ delivery[d].attempts < MaxAttempts /\ MaxAttempts \in Nat
          BY <4>1, <4>3, WebhooksAssumption DEF LogOK, DeliveryRow
        <4>5. \/ delivery'[d].status = "delivered"
              \/ n < MaxAttempts /\ delivery'[d].status = "pending"
              \/ n = MaxAttempts /\ delivery'[d].status = "failed"
          BY <4>1, <4>2, <4>4 DEF StatusAfter
        <4>6. Promise!Attempt(d)
          <5>1. S[d] = "pending" /\ T[d] = delivery[d].attempts /\ T[d] + 1 = n
            BY <2>a, <3>7, <4>1
          <5>2. Tn = [T EXCEPT ![d] = n]
            BY <2>a, <2>b, <3>3, <3>4, <3>7, <4>2
          <5>3. Sn = [S EXCEPT ![d] = delivery'[d].status]
            BY <2>a, <2>b, <3>3, <3>4, <3>7
          <5>4. \/ Sn = [S EXCEPT ![d] = "delivered"]
                \/ n < MaxAttempts /\ Sn = S
                \/ n = MaxAttempts /\ Sn = [S EXCEPT ![d] = "failed"]
            BY <2>a, <4>5, <5>1, <5>3
          <5>5. QED
            BY <2>a, <2>b, <4>4, <5>1, <5>2, <5>4 DEF Promise!Attempt
        <4>7. QED
          BY <4>6 DEF Promise!Next
      <3>8. QED
        BY <3>5, <3>6, <3>7
    <2>5. ASSUME NEW d \in Delivery, Stalled(d)
          PROVE  [Promise!Next]_(Promise!abstractVars)
      <3>1. delivery' = delivery /\ (lapsed' = lapsed \/ lapsed' = lapsed \cup {d})
        BY <2>5 DEF Stalled, rowVars
      <3>2. CASE lapsed' = lapsed
        BY <2>1, <3>1, <3>2
      <3>3. CASE lapsed' = lapsed \cup {d}
        <4>1. Promise!Void(d)
          BY <3>1, <3>3 DEF Promise!Void
        <4>2. QED
          BY <4>1 DEF Promise!Next
      <3>4. QED
        BY <3>1, <3>2, <3>3
    <2>6. \/ UNCHANGED <<delivery, lapsed>> \/ hardDeleteOrganizationData
          \/ \E b \in Batch, e \in Endpoint : createWebhookDelivery(b, e)
          \/ \E w \in Worker : recordDeliveryAttempt(w)
          \/ \E d \in Delivery : Stalled(d)
      BY DEF vars, Next, createWebhook, softDeleteWebhookEndpoint, softDeleteOrganization,
         emitBatchWebhookEvent, EmitStep, insertFails, enqueue, enqueueFails, EmitterDies,
         AttemptStep, resolveHost, fetchWebhookTransport, recordFails, moveToDelayed, WorkerDies,
         getDeliveryForProcessing, DelayElapses, rowVars, history
    <2>7. QED
      BY <2>1, <2>2, <2>3, <2>4, <2>5, <2>6
  <1>3. QED
    BY <1>1, <1>2, WebhooksInductive, PTL DEF Spec, AtLeastOnceHolds, Promise!Spec
=============================================================================
