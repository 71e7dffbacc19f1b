--------------------------- MODULE BatchesProofs ----------------------------
(***************************************************************************)
(* Proofs about Batches, for any sets of batches and workers, any upload   *)
(* size, any number of granted credits and any set of faults.              *)
(*                                                                         *)
(* Neither SingleOwner nor SettledExactly is inductive by itself: a second *)
(* claim is impossible because an owned batch is never pending again, and  *)
(* a settlement is exact because an unsettled batch has no refund entry    *)
(* and because nobody but its owner settles it.  IndInv says this; its     *)
(* parts are RequestInv, WorkerInv, SingleOwner and SettlementInv.  On it   *)
(* rest FilesInv (where the objects of a batch stand) and EventsInv (a     *)
(* batch is run and announced once), which give the other properties.      *)
(***************************************************************************)
EXTENDS Batches, TLAPS

\* Every action keeps every variable within its type.
LEMMA TypeCorrect == Spec => []TypeOK
<1>1. Init => TypeOK
  <2> SUFFICES ASSUME Init PROVE TypeOK
    OBVIOUS
  <2>1. 0 \in 0..MaxRows /\ 0 \in 0..MaxStalls
    BY ConstantsAssumption
  <2>2. /\ row \in [Batch -> Status]
        /\ api \in [Batch -> ApiPc]
        /\ worker \in [Worker -> {Idle} \cup Busy]
        /\ struck \in [Batch -> SUBSET Strikes]
    BY DEF Init, Status, ApiPc
  <2>3. QED
    BY <2>1, <2>2 DEF Init, TypeOK
<1>2. TypeOK /\ [Next]_vars => TypeOK'
  <2> SUFFICES ASSUME TypeOK, [Next]_vars PROVE TypeOK'
    OBVIOUS
  <2> USE ConstantsAssumption DEF ConstantsAssumption, TypeOK, Status, Stored,
          ApiPc, OwnerPc, BusyPc, Busy, Strikes, FaultKinds, Keys
  <2> USE DEF rowVars, ledgerVars, queueVars, removalVars
  <2>1. ASSUME NEW b \in Batch, Upload(b) PROVE TypeOK'
    BY <2>1 DEF Upload, Inspected
  <2>2. ASSUME NEW b \in Batch, createBatchWithReservation(b) PROVE TypeOK'
    BY <2>2 DEF createBatchWithReservation
  <2>3. ASSUME NEW b \in Batch, Enqueue(b) PROVE TypeOK'
    BY <2>3 DEF Enqueue
  <2>4. ASSUME NEW b \in Batch, EnqueueFails(b) PROVE TypeOK'
    BY <2>4 DEF EnqueueFails, Strike
  <2>5. ASSUME NEW b \in Batch, FailUnqueued(b) PROVE TypeOK'
    BY <2>5 DEF FailUnqueued, failBatch, SetStatus, InsertRefundOnce
  <2>6. ASSUME NEW b \in Batch, CleanUpInput(b) PROVE TypeOK'
    BY <2>6 DEF CleanUpInput, Strike
  <2>7. ASSUME NEW b \in Batch, ApiCrash(b) PROVE TypeOK'
    BY <2>7 DEF ApiCrash, Strike
  <2>8. ASSUME NEW b \in Batch, deleteBatchForOrg(b) PROVE TypeOK'
    BY <2>8 DEF deleteBatchForOrg, InsertRefundOnce
  <2>9. ASSUME NEW b \in Batch, DeleteObjects(b) PROVE TypeOK'
    BY <2>9 DEF DeleteObjects, Strike
  <2>10. ASSUME NEW b \in Batch, SweepObjects(b) PROVE TypeOK'
    BY <2>10 DEF SweepObjects
  <2>11. ASSUME NEW b \in Batch, deleteBatchesByIds(b) PROVE TypeOK'
    BY <2>11 DEF deleteBatchesByIds, Strike
  <2>12. ASSUME NEW w \in Worker, NEW b \in Batch, TakeJob(w, b) PROVE TypeOK'
    BY <2>12 DEF TakeJob, Idle
  <2>13. ASSUME NEW w \in Worker, claimBatchForProcessing(w) PROVE TypeOK'
    BY <2>13 DEF claimBatchForProcessing, Finish, Idle
  <2>14. ASSUME NEW w \in Worker, FailOrgUnavailable(w) PROVE TypeOK'
    BY <2>14 DEF FailOrgUnavailable, failBatch, SetStatus,
       InsertRefundOnce, Finish, Idle
  <2>15. ASSUME NEW w \in Worker, OpenInput(w) PROVE TypeOK'
    BY <2>15 DEF OpenInput, Goto, Idle
  <2>16. ASSUME NEW w \in Worker, resolveChunk(w) PROVE TypeOK'
    <3>1. worker[w] \in Busy
      BY <2>16 DEF resolveChunk, Idle
    <3>2. PICK n \in Nat, k \in Nat : n = worker[w].left - 1 /\ k = worker[w].charged + 1
      BY <2>16, <3>1 DEF resolveChunk
    <3>3. /\ [worker[w] EXCEPT !.left = n, !.charged = k] \in Busy
          /\ [worker[w] EXCEPT !.left = n] \in Busy
      BY <3>1
    <3>4. worker' \in [Worker -> {Idle} \cup Busy]
      <4> HIDE DEF Busy
      <4> QED BY <2>16, <3>2, <3>3 DEF resolveChunk
    <3>5. QED
      BY <2>16, <3>1, <3>4 DEF resolveChunk
  <2>17. ASSUME NEW w \in Worker, FinishUpload(w) PROVE TypeOK'
    BY <2>17 DEF FinishUpload, Goto, Idle
  <2>18. ASSUME NEW w \in Worker, completeBatch(w) PROVE TypeOK'
    BY <2>18 DEF completeBatch, SetStatus, Goto, Strike, Idle
  <2>19. ASSUME NEW w \in Worker, ProcessingError(w) PROVE TypeOK'
    BY <2>19 DEF ProcessingError, Goto, Idle
  <2>20. ASSUME NEW w \in Worker, FailBatch(w) PROVE TypeOK'
    BY <2>20 DEF FailBatch, failBatch, SetStatus, InsertRefundOnce, Goto, Idle
  <2>21. ASSUME NEW w \in Worker, EmitEvent(w) PROVE TypeOK'
    BY <2>21 DEF EmitEvent, Finish, Idle
  <2>22. ASSUME NEW w \in Worker, Crash(w) PROVE TypeOK'
    BY <2>22 DEF Crash, Requeue, Finish, Strike, Idle
  <2>23. ASSUME NEW w \in Worker, Stall(w) PROVE TypeOK'
    BY <2>23 DEF Stall, Requeue
  <2>24. CASE WipeObjects
    BY <2>24 DEF WipeObjects, Rows
  <2>25. CASE WipeRows
    BY <2>25 DEF WipeRows, Rows
  <2>26. CASE WipeRollback
    BY <2>26 DEF WipeRollback, Rows
  <2>27. CASE softDeleteOrganization
    BY <2>27 DEF softDeleteOrganization, Rows
  <2>28. CASE UNCHANGED vars
    BY <2>28 DEF vars
  <2>29. ASSUME NEW b \in Batch, LateUpload(b) PROVE TypeOK'
    BY <2>29 DEF LateUpload, Strike
  <2>30. QED
    BY <2>1, <2>2, <2>3, <2>4, <2>5, <2>6, <2>7, <2>8, <2>9, <2>10,
       <2>11, <2>12, <2>13, <2>14, <2>15, <2>16, <2>17, <2>18, <2>19, <2>20,
       <2>21, <2>22, <2>23, <2>24, <2>25, <2>26, <2>27, <2>28, <2>29 DEF Next,
       ApiStep, WorkerStep
<1>3. QED
  BY <1>1, <1>2, PTL DEF Spec

\* A claim that finds its batch pending moves the row to processing, keeps the
\* batch and loads its row count; the other workers do not move.
LEMMA ClaimEffect ==
    ASSUME TypeOK, NEW w \in Worker, claimBatchForProcessing(w),
           row[worker[w].batch] = "pending"
    PROVE  /\ worker[w].batch \in Batch
           /\ row' = [row EXCEPT ![worker[w].batch] = "processing"]
           /\ worker'[w].batch = worker[w].batch
           /\ worker'[w].left = total[worker[w].batch]
           /\ worker'[w].charged = 0
           /\ worker'[w].pc \in {"claimed", "org_unavailable"}
           /\ \A v \in Worker : v # w => worker'[v] = worker[v]
<1>1. worker[w].batch \in Batch
  BY DEF claimBatchForProcessing, TypeOK, Busy, Idle
<1>2. QED
  BY <1>1 DEF claimBatchForProcessing, TypeOK

\* Workers that only give batches up keep every batch with one owner.
LEMMA OwnersOnlyLeave ==
    ASSUME SingleOwner, \A v \in Worker, c \in Batch : Owns(v, c)' => Owns(v, c)
    PROVE  SingleOwner'
  BY DEF SingleOwner

\* The inductive invariant: one step per action, one sub-step per part.
THEOREM Inductive == Spec => []IndInv
<1>1. Init => RequestInv /\ WorkerInv /\ SingleOwner /\ SettlementInv
  BY ConstantsAssumption DEF Init, RequestInv, WorkerInv, RequestOK,
     WorkerOK, SettlementOK, SingleOwner, SettlementInv, Owns, OwnerPc,
     Idle, Lost
<1>2. IndInv /\ TypeOK' /\ [Next]_vars => IndInv'
  <2> DEFINE Parts ==
        RequestInv' /\ WorkerInv' /\ SingleOwner' /\ SettlementInv'
  <2> SUFFICES ASSUME IndInv, TypeOK', [Next]_vars PROVE Parts
    BY DEF IndInv
  <2> USE ConstantsAssumption
      DEF ConstantsAssumption, IndInv, TypeOK, RequestInv, RequestOK, WorkerInv,
          WorkerOK, SingleOwner, SettlementInv, SettlementOK, Lost, Removed, Owns,
          Stored, Status, ApiPc, OwnerPc, BusyPc, Busy, Idle
  <2> USE DEF rowVars, ledgerVars, queueVars, removalVars
  <2>1. ASSUME NEW b \in Batch, Upload(b) PROVE Parts
    <3>1. RequestInv'
      BY <2>1 DEF Upload, Inspected
    <3>2. WorkerInv'
      BY <2>1 DEF Upload, Inspected
    <3>3. SingleOwner'
      BY <2>1 DEF Upload, Inspected
    <3>4. SettlementInv'
      BY <2>1 DEF Upload, Inspected
    <3>5. QED
      BY <3>1, <3>2, <3>3, <3>4
  <2>2. ASSUME NEW b \in Batch, createBatchWithReservation(b) PROVE Parts
    <3>1. RequestInv'
      BY <2>2 DEF createBatchWithReservation
    <3>2. WorkerInv'
      BY <2>2 DEF createBatchWithReservation
    <3>3. SingleOwner'
      BY <2>2 DEF createBatchWithReservation
    <3>4. SettlementInv'
      <4>1. \A w \in Worker : worker[w].batch # b
        BY <2>2 DEF createBatchWithReservation
      <4>2. QED
        BY <2>2, <4>1 DEF createBatchWithReservation
    <3>5. QED
      BY <3>1, <3>2, <3>3, <3>4
  <2>3. ASSUME NEW b \in Batch, Enqueue(b) PROVE Parts
    <3>1. RequestInv'
      BY <2>3 DEF Enqueue
    <3>2. WorkerInv'
      BY <2>3 DEF Enqueue
    <3>3. SingleOwner'
      BY <2>3 DEF Enqueue
    <3>4. SettlementInv'
      BY <2>3 DEF Enqueue
    <3>5. QED
      BY <3>1, <3>2, <3>3, <3>4
  <2>4. ASSUME NEW b \in Batch, EnqueueFails(b) PROVE Parts
    <3>1. RequestInv'
      BY <2>4 DEF EnqueueFails, Strike
    <3>2. WorkerInv'
      BY <2>4 DEF EnqueueFails, Strike
    <3>3. SingleOwner'
      BY <2>4 DEF EnqueueFails, Strike
    <3>4. SettlementInv'
      BY <2>4 DEF EnqueueFails, Strike
    <3>5. QED
      BY <3>1, <3>2, <3>3, <3>4
  <2>5. ASSUME NEW b \in Batch, FailUnqueued(b) PROVE Parts
    <3>1. RequestInv'
      BY <2>5 DEF FailUnqueued, failBatch, SetStatus, InsertRefundOnce
    <3>2. WorkerInv'
      BY <2>5 DEF FailUnqueued, failBatch, SetStatus, InsertRefundOnce
    <3>3. SingleOwner'
      BY <2>5 DEF FailUnqueued, failBatch, SetStatus, InsertRefundOnce
    <3>4. SettlementInv'
      BY <2>5 DEF FailUnqueued, failBatch, SetStatus, InsertRefundOnce
    <3>5. QED
      BY <3>1, <3>2, <3>3, <3>4
  <2>6. ASSUME NEW b \in Batch, CleanUpInput(b) PROVE Parts
    <3>1. RequestInv'
      BY <2>6 DEF CleanUpInput, Strike
    <3>2. WorkerInv'
      BY <2>6 DEF CleanUpInput, Strike
    <3>3. SingleOwner'
      BY <2>6 DEF CleanUpInput, Strike
    <3>4. SettlementInv'
      BY <2>6 DEF CleanUpInput, Strike
    <3>5. QED
      BY <3>1, <3>2, <3>3, <3>4
  <2>7. ASSUME NEW b \in Batch, ApiCrash(b) PROVE Parts
    <3>1. RequestInv'
      BY <2>7 DEF ApiCrash, Strike
    <3>2. WorkerInv'
      BY <2>7 DEF ApiCrash, Strike
    <3>3. SingleOwner'
      BY <2>7 DEF ApiCrash, Strike
    <3>4. SettlementInv'
      BY <2>7 DEF ApiCrash, Strike
    <3>5. QED
      BY <3>1, <3>2, <3>3, <3>4
  <2>8. ASSUME NEW b \in Batch, deleteBatchForOrg(b) PROVE Parts
    <3>1. RequestInv'
      BY <2>8 DEF deleteBatchForOrg, InsertRefundOnce
    <3>2. WorkerInv'
      BY <2>8 DEF deleteBatchForOrg, InsertRefundOnce
    <3>3. SingleOwner'
      BY <2>8 DEF deleteBatchForOrg, InsertRefundOnce
    <3>4. SettlementInv'
      BY <2>8 DEF deleteBatchForOrg, InsertRefundOnce
    <3>5. QED
      BY <3>1, <3>2, <3>3, <3>4
  <2>9. ASSUME NEW b \in Batch, DeleteObjects(b) PROVE Parts
    <3>1. RequestInv'
      BY <2>9 DEF DeleteObjects, Strike
    <3>2. WorkerInv'
      BY <2>9 DEF DeleteObjects, Strike
    <3>3. SingleOwner'
      BY <2>9 DEF DeleteObjects, Strike
    <3>4. SettlementInv'
      BY <2>9 DEF DeleteObjects, Strike
    <3>5. QED
      BY <3>1, <3>2, <3>3, <3>4
  <2>10. ASSUME NEW b \in Batch, SweepObjects(b) PROVE Parts
    <3>1. RequestInv'
      BY <2>10 DEF SweepObjects
    <3>2. WorkerInv'
      BY <2>10 DEF SweepObjects
    <3>3. SingleOwner'
      BY <2>10 DEF SweepObjects
    <3>4. SettlementInv'
      BY <2>10 DEF SweepObjects
    <3>5. QED
      BY <3>1, <3>2, <3>3, <3>4
  <2>11. ASSUME NEW b \in Batch, deleteBatchesByIds(b) PROVE Parts
    <3>1. RequestInv'
      BY <2>11 DEF deleteBatchesByIds, Strike
    <3>2. WorkerInv'
      BY <2>11 DEF deleteBatchesByIds, Strike
    <3>3. SingleOwner'
      BY <2>11 DEF deleteBatchesByIds, Strike
    <3>4. SettlementInv'
      <4>1. /\ \A c \in Batch : Lost(c)' <=> Lost(c)
            /\ \A c \in Batch : Removed(c) => Removed(c)'
            /\ \A c \in Batch : \/ row'[c] = row[c]
                                \/ row'[c] = "gone" /\ Removed(c)'
            /\ UNCHANGED <<total, charged, refund, jobs, api, worker>>
        <5> HIDE DEF IndInv, TypeOK, RequestInv, WorkerInv,
           SettlementInv, SingleOwner
        <5>1. struck \in [Batch -> SUBSET Strikes] /\ row \in [Batch -> Status]
          BY DEF IndInv, TypeOK
        <5>2. QED
          BY <2>11, <5>1 DEF deleteBatchesByIds, Strike
      <4>2. SUFFICES ASSUME NEW c \in Batch, ~Lost(c) PROVE SettlementOK(c)'
        BY <4>1
      <4>3. QED
        BY <4>1, <4>2
    <3>5. QED
      BY <3>1, <3>2, <3>3, <3>4
  <2>12. ASSUME NEW w \in Worker, NEW b \in Batch, TakeJob(w, b) PROVE Parts
    <3>1. RequestInv'
      BY <2>12 DEF TakeJob
    <3>2. WorkerInv'
      BY <2>12 DEF TakeJob
    <3>3. SingleOwner'
      BY <2>12 DEF TakeJob
    <3>4. SettlementInv'
      BY <2>12 DEF TakeJob
    <3>5. QED
      BY <3>1, <3>2, <3>3, <3>4
  <2>13. ASSUME NEW w \in Worker, claimBatchForProcessing(w) PROVE Parts
    <3>0. ASSUME row[worker[w].batch] = "pending"
          PROVE  /\ worker[w].batch \in Batch
                 /\ row' = [row EXCEPT ![worker[w].batch] = "processing"]
                 /\ worker'[w].batch = worker[w].batch
                 /\ worker'[w].left = total[worker[w].batch]
                 /\ worker'[w].charged = 0
                 /\ worker'[w].pc \in {"claimed", "org_unavailable"}
                 /\ \A v \in Worker : v # w => worker'[v] = worker[v]
      <4> HIDE DEF TypeOK
      <4> QED BY <2>13, <3>0, ClaimEffect
    <3>1. RequestInv'
      BY <2>13 DEF claimBatchForProcessing, Finish, Idle
    <3>2. WorkerInv'
      <4> DEFINE b == worker[w].batch
      <4> SUFFICES ASSUME NEW v \in Worker PROVE WorkerOK(v)'
        OBVIOUS
      <4>1. CASE row[b] # "pending"
        BY <2>13, <4>1 DEF claimBatchForProcessing, Finish
      <4>2. CASE row[b] = "pending"
        <5>1. /\ row' = [row EXCEPT ![b] = "processing"] /\ total' = total
              /\ worker'[w].batch = b /\ worker'[w].left = total[b]
              /\ worker'[w].charged = 0 /\ b \in Batch
              /\ worker'[w].pc \in {"claimed", "org_unavailable"}
              /\ \A u \in Worker : u # w => worker'[u] = worker[u]
          BY <2>13, <3>0, <4>2 DEF claimBatchForProcessing
        <5>2. CASE v = w
          BY <5>1, <5>2
        <5>3. CASE v # w
          BY <5>1, <5>3
        <5>4. QED
          BY <5>2, <5>3
      <4>3. QED
        BY <4>1, <4>2
    <3>3. SingleOwner'
      <4>1. CASE row[worker[w].batch] # "pending"
        BY <2>13, <4>1 DEF claimBatchForProcessing, Finish, Idle
      <4>2. CASE row[worker[w].batch] = "pending"
        <5>1. \A v \in Worker : v # w => ~Owns(v, worker[w].batch)
          BY <4>2
        <5>2. \A v \in Worker : v # w => worker'[v] = worker[v]
          BY <3>0, <4>2
        <5>3. worker'[w].batch = worker[w].batch
          BY <3>0, <4>2
        <5>4. QED
          BY <5>1, <5>2, <5>3
      <4>3. QED
        BY <4>1, <4>2
    <3>4. SettlementInv'
      <4> DEFINE b == worker[w].batch
      <4>1. b \in Batch /\ UNCHANGED <<total, charged, refund, jobs, api, struck>>
        BY <2>13 DEF claimBatchForProcessing
      <4>2. SUFFICES ASSUME NEW c \in Batch, ~Lost(c) PROVE SettlementOK(c)'
        BY <4>1
      <4>3. CASE row[b] # "pending"
        <5>1. UNCHANGED row /\ worker' = [worker EXCEPT ![w] = Idle]
          BY <2>13, <4>3 DEF claimBatchForProcessing, Finish
        <5>2. QED
          BY <4>1, <4>2, <5>1
      <4>4. CASE row[b] = "pending"
        <5>1. /\ row' = [row EXCEPT ![b] = "processing"]
              /\ worker'[w].batch = b
              /\ \A v \in Worker : v # w => worker'[v] = worker[v]
          BY <3>0, <4>4
        <5>2. CASE c = b
          BY <4>1, <4>2, <4>4, <5>1, <5>2
        <5>3. CASE c # b
          <6>1. \A v \in Worker : /\ Owns(v, c)' => Owns(v, c)
                                  /\ worker[v].batch # c => worker'[v].batch # c
            BY <5>1, <5>3
          <6>2. SettlementOK(c) /\ row'[c] = row[c]
            BY <4>2, <5>1, <5>3
          <6>3. QED
            BY <4>1, <6>1, <6>2
        <5>4. QED
          BY <5>2, <5>3
      <4>5. QED
        BY <4>3, <4>4
    <3>5. QED
      BY <3>1, <3>2, <3>3, <3>4
  <2>14. ASSUME NEW w \in Worker, FailOrgUnavailable(w) PROVE Parts
    <3>1. RequestInv'
      BY <2>14 DEF FailOrgUnavailable, failBatch, SetStatus,
         InsertRefundOnce, Finish, Idle
    <3>2. WorkerInv'
      BY <2>14 DEF FailOrgUnavailable, failBatch, SetStatus,
         InsertRefundOnce, Finish, Idle
    <3>3. SingleOwner'
      BY <2>14 DEF FailOrgUnavailable, failBatch, SetStatus,
         InsertRefundOnce, Finish, Idle
    <3>4. SettlementInv'
      BY <2>14 DEF FailOrgUnavailable, failBatch, SetStatus,
         InsertRefundOnce, Finish, Idle
    <3>5. QED
      BY <3>1, <3>2, <3>3, <3>4
  <2>15. ASSUME NEW w \in Worker, OpenInput(w) PROVE Parts
    <3>1. RequestInv'
      BY <2>15 DEF OpenInput, Goto
    <3>2. WorkerInv'
      BY <2>15 DEF OpenInput, Goto
    <3>3. SingleOwner'
      BY <2>15 DEF OpenInput, Goto
    <3>4. SettlementInv'
      BY <2>15 DEF OpenInput, Goto
    <3>5. QED
      BY <3>1, <3>2, <3>3, <3>4
  <2>16. ASSUME NEW w \in Worker, resolveChunk(w) PROVE Parts
    <3>0. /\ worker'[w].pc = worker[w].pc /\ worker'[w].batch = worker[w].batch
          /\ worker[w].pc = "processing"
          /\ worker'[w].charged + worker'[w].left
                <= worker[w].charged + worker[w].left
          /\ \A v \in Worker : v # w => worker'[v] = worker[v]
          /\ UNCHANGED <<row, total, charged, refund, debit, jobs, api, struck>>
      <4>1. worker[w].charged \in Nat /\ worker[w].left \in Nat
        BY <2>16 DEF resolveChunk
      <4>2. CASE worker' = [worker EXCEPT ![w] = [@ EXCEPT !.left = worker[w].left - 1,
                                                           !.charged = worker[w].charged + 1]]
        BY <2>16, <4>1, <4>2 DEF resolveChunk
      <4>3. CASE worker' = [worker EXCEPT ![w].left = @ - 1]
        BY <2>16, <4>1, <4>3 DEF resolveChunk
      <4>4. QED
        BY <2>16, <4>2, <4>3 DEF resolveChunk
    <3>1. RequestInv'
      BY <3>0
    <3>2. WorkerInv'
      <4> SUFFICES ASSUME NEW v \in Worker PROVE WorkerOK(v)'
        OBVIOUS
      <4>1. CASE v = w
        BY <3>0, <4>1
      <4>2. CASE v # w
        BY <3>0, <4>2
      <4>3. QED
        BY <4>1, <4>2
    <3>3. SingleOwner'
      <4>1. \A v \in Worker, b \in Batch : Owns(v, b)' <=> Owns(v, b)
        BY <3>0
      <4>2. QED
        BY <4>1
    <3>4. SettlementInv'
      <4>1. \A v \in Worker : /\ worker'[v].batch = worker[v].batch
                              /\ worker'[v].pc = worker[v].pc
        BY <3>0
      <4> SUFFICES ASSUME NEW c \in Batch, ~Lost(c) PROVE SettlementOK(c)'
        BY <3>0
      <4>2. SettlementOK(c)
        OBVIOUS
      <4>3. QED
        <5> HIDE DEF IndInv, TypeOK, RequestInv, WorkerInv,
           SettlementInv, SingleOwner
        <5>1. QED
          BY <3>0, <4>1, <4>2
    <3>5. QED
      BY <3>1, <3>2, <3>3, <3>4
  <2>17. ASSUME NEW w \in Worker, FinishUpload(w) PROVE Parts
    <3>1. RequestInv'
      BY <2>17 DEF FinishUpload, Goto
    <3>2. WorkerInv'
      BY <2>17 DEF FinishUpload, Goto
    <3>3. SingleOwner'
      BY <2>17 DEF FinishUpload, Goto
    <3>4. SettlementInv'
      BY <2>17 DEF FinishUpload, Goto
    <3>5. QED
      BY <3>1, <3>2, <3>3, <3>4
  <2>18. ASSUME NEW w \in Worker, completeBatch(w) PROVE Parts
    <3> DEFINE b == worker[w].batch
    <3>0. /\ b \in Batch /\ Owns(w, b)
          /\ worker'[w].batch = b /\ worker'[w].charged = worker[w].charged
          /\ worker'[w].left = worker[w].left
          /\ worker'[w].pc \in {"emit_completed", "failing"}
          /\ worker'[w].pc = "failing" => Lost(b)'
          /\ \A v \in Worker : v # w => worker'[v] = worker[v]
          /\ \A c \in Batch : c # b => struck'[c] = struck[c]
          /\ Lost(b) => Lost(b)'
          /\ row' = IF row[b] \in Stored THEN [row EXCEPT ![b] = "done"] ELSE row
          /\ refund' = IF total[b] - worker[w].charged > 0
                       THEN [refund EXCEPT ![b] = total[b] - worker[w].charged] ELSE refund
          /\ row[b] \in Stored => charged' = [charged EXCEPT ![b] = worker[w].charged]
          /\ row[b] \notin Stored => charged' = charged
          /\ UNCHANGED <<total, debit, jobs, api>>
      BY <2>18 DEF completeBatch, SetStatus, Goto, Strike
    <3>1. RequestInv'
      <4> SUFFICES ASSUME NEW c \in Batch PROVE RequestOK(c)'
        OBVIOUS
      <4>1. worker[w].charged \in Nat /\ b \in Batch /\ row[b] # "none"
        BY <2>18 DEF completeBatch
      <4>2. total[b] - worker[w].charged <= total[b] /\ debit[b] = total[b]
        BY <4>1
      <4>3. CASE c = b
        BY <3>0, <4>1, <4>2, <4>3
      <4>4. CASE c # b
        BY <3>0, <4>1, <4>4
      <4>5. QED
        BY <4>3, <4>4
    <3>2. WorkerInv'
      <4> SUFFICES ASSUME NEW v \in Worker PROVE WorkerOK(v)'
        OBVIOUS
      <4>1. CASE v = w
        BY <3>0, <4>1
      <4>2. CASE v # w
        BY <3>0, <4>2
      <4>3. QED
        BY <4>1, <4>2
    <3>3. SingleOwner'
      <4>1. \A v \in Worker, c \in Batch : Owns(v, c)' => Owns(v, c)
        BY <3>0
      <4>2. QED
        BY <4>1, OwnersOnlyLeave
    <3>4. SettlementInv'
      <4> SUFFICES ASSUME NEW c \in Batch, ~Lost(c)' PROVE SettlementOK(c)'
        OBVIOUS
      <4>1. ~Lost(c)
        BY <3>0
      <4>2. CASE c = b
        <5>1. /\ refund[b] = 0 /\ row[b] \in {"processing", "gone"}
              /\ api[b] \notin {"created", "enqueue_failed"}
              /\ worker[w].charged \in Nat /\ worker[w].charged <= total[b]
          BY <3>0, <4>1, <4>2
        <5>2. \A v \in Worker : ~Owns(v, b)'
          <6>1. ~Owns(w, b)'
            BY <3>0, <4>2
          <6>2. \A v \in Worker : v # w => ~Owns(v, b)
            BY <3>0
          <6>3. ASSUME NEW v \in Worker, v # w PROVE ~Owns(v, b)'
            BY <3>0, <6>2, <6>3
          <6>4. QED
            BY <6>1, <6>3
        <5>3. row'[b] = "done" => refund'[b] = total'[b] - charged'[b]
          BY <3>0, <5>1
        <5>4. QED
          BY <3>0, <4>2, <5>1, <5>2, <5>3
      <4>3. CASE c # b
        <5>1. /\ row'[c] = row[c] /\ refund'[c] = refund[c] /\ charged'[c] = charged[c]
              /\ total'[c] = total[c] /\ jobs'[c] = jobs[c] /\ api'[c] = api[c]
              /\ Removed(c)' <=> Removed(c)
          BY <3>0, <4>3
        <5>2. \A v \in Worker : /\ Owns(v, c)' => Owns(v, c)
                                /\ worker[v].batch # c => worker'[v].batch # c
          BY <3>0, <4>3
        <5>3. QED
          BY <4>1, <5>1, <5>2
      <4>4. QED
        BY <4>2, <4>3
    <3>5. QED
      BY <3>1, <3>2, <3>3, <3>4
  <2>19. ASSUME NEW w \in Worker, ProcessingError(w) PROVE Parts
    <3>1. RequestInv'
      BY <2>19 DEF ProcessingError, Goto
    <3>2. WorkerInv'
      BY <2>19 DEF ProcessingError, Goto
    <3>3. SingleOwner'
      BY <2>19 DEF ProcessingError, Goto
    <3>4. SettlementInv'
      BY <2>19 DEF ProcessingError, Goto
    <3>5. QED
      BY <3>1, <3>2, <3>3, <3>4
  <2>20. ASSUME NEW w \in Worker, FailBatch(w) PROVE Parts
    <3>1. RequestInv'
      BY <2>20 DEF FailBatch, failBatch, SetStatus, InsertRefundOnce, Goto
    <3>2. WorkerInv'
      BY <2>20 DEF FailBatch, failBatch, SetStatus, InsertRefundOnce, Goto
    <3>3. SingleOwner'
      BY <2>20 DEF FailBatch, failBatch, SetStatus, InsertRefundOnce, Goto
    <3>4. SettlementInv'
      BY <2>20 DEF FailBatch, failBatch, SetStatus, InsertRefundOnce, Goto
    <3>5. QED
      BY <3>1, <3>2, <3>3, <3>4
  <2>21. ASSUME NEW w \in Worker, EmitEvent(w) PROVE Parts
    <3>1. RequestInv'
      BY <2>21 DEF EmitEvent, Finish, Idle
    <3>2. WorkerInv'
      BY <2>21 DEF EmitEvent, Finish, Idle
    <3>3. SingleOwner'
      BY <2>21 DEF EmitEvent, Finish, Idle
    <3>4. SettlementInv'
      BY <2>21 DEF EmitEvent, Finish, Idle
    <3>5. QED
      BY <3>1, <3>2, <3>3, <3>4
  <2>22. ASSUME NEW w \in Worker, Crash(w) PROVE Parts
    <3>1. RequestInv'
      BY <2>22 DEF Crash, Requeue, Finish, Idle, Strike
    <3>2. WorkerInv'
      BY <2>22 DEF Crash, Requeue, Finish, Idle, Strike
    <3>3. SingleOwner'
      BY <2>22 DEF Crash, Requeue, Finish, Idle, Strike
    <3>4. SettlementInv'
      BY <2>22 DEF Crash, Requeue, Finish, Idle, Strike
    <3>5. QED
      BY <3>1, <3>2, <3>3, <3>4
  <2>23. ASSUME NEW w \in Worker, Stall(w) PROVE Parts
    <3>1. RequestInv'
      BY <2>23 DEF Stall, Requeue
    <3>2. WorkerInv'
      BY <2>23 DEF Stall, Requeue
    <3>3. SingleOwner'
      BY <2>23 DEF Stall, Requeue
    <3>4. SettlementInv'
      BY <2>23 DEF Stall, Requeue
    <3>5. QED
      BY <3>1, <3>2, <3>3, <3>4
  <2>24. ASSUME WipeObjects PROVE Parts
    <3>1. RequestInv'
      BY <2>24 DEF WipeObjects, Rows
    <3>2. WorkerInv'
      BY <2>24 DEF WipeObjects, Rows
    <3>3. SingleOwner'
      BY <2>24 DEF WipeObjects, Rows
    <3>4. SettlementInv'
      BY <2>24 DEF WipeObjects, Rows
    <3>5. QED
      BY <3>1, <3>2, <3>3, <3>4
  <2>25. ASSUME WipeRows PROVE Parts
    <3>1. RequestInv'
      BY <2>25 DEF WipeRows, Rows
    <3>2. WorkerInv'
      BY <2>25 DEF WipeRows, Rows
    <3>3. SingleOwner'
      BY <2>25 DEF WipeRows, Rows
    <3>4. SettlementInv'
      <4>1. /\ \A c \in Batch : Lost(c)' <=> Lost(c)
            /\ \A c \in Batch : Removed(c) => Removed(c)'
            /\ \A c \in Batch : \/ row'[c] = row[c]
                                \/ row'[c] = "gone" /\ Removed(c)'
            /\ UNCHANGED <<total, charged, refund, jobs, api, worker>>
        <5> HIDE DEF IndInv, TypeOK, RequestInv, WorkerInv,
           SettlementInv, SingleOwner
        <5>1. struck \in [Batch -> SUBSET Strikes] /\ row \in [Batch -> Status]
          BY DEF IndInv, TypeOK
        <5>2. QED
          BY <2>25, <5>1 DEF WipeRows, Rows
      <4>2. SUFFICES ASSUME NEW c \in Batch, ~Lost(c) PROVE SettlementOK(c)'
        BY <4>1
      <4>3. QED
        BY <4>1, <4>2
    <3>5. QED
      BY <3>1, <3>2, <3>3, <3>4
  <2>26. ASSUME WipeRollback PROVE Parts
    <3>1. RequestInv'
      BY <2>26 DEF WipeRollback, Rows
    <3>2. WorkerInv'
      BY <2>26 DEF WipeRollback, Rows
    <3>3. SingleOwner'
      BY <2>26 DEF WipeRollback, Rows
    <3>4. SettlementInv'
      BY <2>26 DEF WipeRollback, Rows
    <3>5. QED
      BY <3>1, <3>2, <3>3, <3>4
  <2>27. ASSUME softDeleteOrganization PROVE Parts
    <3>1. RequestInv'
      BY <2>27 DEF softDeleteOrganization, Rows
    <3>2. WorkerInv'
      BY <2>27 DEF softDeleteOrganization, Rows
    <3>3. SingleOwner'
      BY <2>27 DEF softDeleteOrganization, Rows
    <3>4. SettlementInv'
      BY <2>27 DEF softDeleteOrganization, Rows
    <3>5. QED
      BY <3>1, <3>2, <3>3, <3>4
  <2>28. ASSUME UNCHANGED vars PROVE Parts
    <3>1. RequestInv'
      BY <2>28 DEF vars
    <3>2. WorkerInv'
      BY <2>28 DEF vars
    <3>3. SingleOwner'
      BY <2>28 DEF vars
    <3>4. SettlementInv'
      BY <2>28 DEF vars
    <3>5. QED
      BY <3>1, <3>2, <3>3, <3>4
  <2>29. ASSUME NEW b \in Batch, LateUpload(b) PROVE Parts
    <3>1. RequestInv'
      BY <2>29 DEF LateUpload, Strike
    <3>2. WorkerInv'
      BY <2>29 DEF LateUpload, Strike
    <3>3. SingleOwner'
      BY <2>29 DEF LateUpload, Strike
    <3>4. SettlementInv'
      BY <2>29 DEF LateUpload, Strike
    <3>5. QED
      BY <3>1, <3>2, <3>3, <3>4
  <2>30. QED
    BY <2>1, <2>2, <2>3, <2>4, <2>5, <2>6, <2>7, <2>8, <2>9, <2>10,
       <2>11, <2>12, <2>13, <2>14, <2>15, <2>16, <2>17, <2>18, <2>19, <2>20,
       <2>21, <2>22, <2>23, <2>24, <2>25, <2>26, <2>27, <2>28, <2>29 DEF Next,
       ApiStep, WorkerStep
<1>3. QED
  BY <1>1, <1>2, TypeCorrect, PTL DEF Spec, IndInv
-----------------------------------------------------------------------------
\* Every variable keeps its type: rows, ledger, queue, objects and workers.
THEOREM TypeInvariant == Spec => []TypeOK
  BY TypeCorrect

\* A batch has at most one worker past its claim, however many times BullMQ
\* delivers its job and whichever processes die.
THEOREM OneOwner == Spec => []SingleOwner
  BY Inductive, PTL DEF IndInv

\* Settlement is exact: a done batch paid for its charged rows, a failed one
\* for nothing, unless a commit or enqueue was misreported.
THEOREM Settlement == Spec => []SettledExactly
<1>1. IndInv => SettledExactly
  BY DEF IndInv, SettlementInv, SettlementOK, SettledExactly, Lost
<1>2. QED
  BY <1>1, Inductive, PTL

\* After the owner's DELETE no worker acts on the batch.
THEOREM QuietAfterDelete == Spec => []DeletedBatchIsQuiet
<1>1. IndInv => DeletedBatchIsQuiet
  <2> SUFFICES ASSUME IndInv, NEW b \in Batch, row[b] = "gone",
                      struck[b] \cap {"wipe", "sweep", "lost_reply"} = {},
                      NEW w \in Worker, Owns(w, b)
               PROVE  FALSE
    BY DEF DeletedBatchIsQuiet
  <2>1. ~Lost(b) /\ ~Removed(b)
    BY DEF Lost, Removed
  <2>2. SettlementOK(b)
    BY <2>1 DEF IndInv, SettlementInv
  <2>3. QED
    BY <2>1, <2>2 DEF SettlementOK
<1>2. QED
  BY <1>1, Inductive, PTL

-----------------------------------------------------------------------------
\* A full refund is a refund step of the ledger, or nothing when the entry
\* already exists.
LEMMA FullRefund ==
    ASSUME TypeOK, NEW b \in Batch, RequestOK(b), row[b] # "none",
           InsertRefundOnce(b, total[b]), UNCHANGED debit
    PROVE  [Ledger!LedgerNext]_(Ledger!ledgerVars)
<1>1. total[b] \in 1..MaxRows /\ total[b] = debit[b]
  BY ConstantsAssumption DEF TypeOK, RequestOK
<1>2. CASE refund[b] = 0
  <2>1. Ledger!Refund(b, total[b])
    BY <1>1, <1>2 DEF Ledger!Refund, InsertRefundOnce
  <2>2. QED
    BY <1>1, <2>1 DEF Ledger!LedgerNext
<1>3. CASE refund[b] # 0
  BY <1>3 DEF InsertRefundOnce, Ledger!ledgerVars
<1>4. QED
  BY <1>2, <1>3

\* Batches implements CreditLedger: with rows, queue, workers, removals and
\* faults hidden, only reservations within the balance and single refunds
\* within the reservation remain.
THEOREM LedgerRefinement == Spec => RefinesLedger
<1>1. Init => Ledger!LedgerInit
  BY DEF Init, Ledger!LedgerInit
<1>2. IndInv /\ [Next]_vars => [Ledger!LedgerNext]_(Ledger!ledgerVars)
  <2> SUFFICES ASSUME IndInv, [Next]_vars
               PROVE  [Ledger!LedgerNext]_(Ledger!ledgerVars)
    OBVIOUS
  <2>1. TypeOK /\ \A b \in Batch : RequestOK(b)
    BY DEF IndInv, RequestInv
  <2>2. \A w \in Worker : worker[w].pc # "idle" =>
            worker[w].batch \in Batch /\ row[worker[w].batch] # "none"
    BY DEF IndInv, TypeOK, WorkerInv, WorkerOK, Busy, Idle
  <2>3. CASE UNCHANGED <<debit, refund>>
    BY <2>3 DEF Ledger!ledgerVars
  <2>4. ASSUME NEW b \in Batch, createBatchWithReservation(b)
        PROVE  [Ledger!LedgerNext]_(Ledger!ledgerVars)
    <3>1. CASE UNCHANGED debit
      BY <2>4, <3>1 DEF createBatchWithReservation, Ledger!ledgerVars
    <3>2. CASE ~ UNCHANGED debit
      <4>1. /\ Ledger!Balance >= total[b]
            /\ debit' = [debit EXCEPT ![b] = total[b]] /\ refund' = refund
        BY <2>4, <3>2 DEF createBatchWithReservation
      <4>2. debit[b] = 0 /\ total[b] \in 1..MaxRows
        BY <2>1, <2>4, ConstantsAssumption
        DEF createBatchWithReservation, RequestOK, TypeOK
      <4>3. Ledger!Reserve(b, total[b])
        BY <4>1, <4>2 DEF Ledger!Reserve
      <4>4. QED
        BY <4>2, <4>3 DEF Ledger!LedgerNext
    <3>3. QED
      BY <3>1, <3>2
  <2>5. ASSUME NEW b \in Batch, FailUnqueued(b)
        PROVE  [Ledger!LedgerNext]_(Ledger!ledgerVars)
    <3>1. row[b] # "none"
      BY <2>1, <2>5 DEF FailUnqueued, RequestOK
    <3>2. QED
      BY <2>1, <2>5, <3>1, FullRefund DEF FailUnqueued, failBatch
  <2>6. ASSUME NEW b \in Batch, deleteBatchForOrg(b)
        PROVE  [Ledger!LedgerNext]_(Ledger!ledgerVars)
    <3>1. CASE row[b] = "pending"
      BY <2>1, <2>6, <3>1, FullRefund DEF deleteBatchForOrg
    <3>2. CASE row[b] # "pending"
      BY <2>6, <3>2 DEF deleteBatchForOrg, Ledger!ledgerVars
    <3>3. QED
      BY <3>1, <3>2
  <2>7. ASSUME NEW w \in Worker, FailOrgUnavailable(w) \/ FailBatch(w)
        PROVE  [Ledger!LedgerNext]_(Ledger!ledgerVars)
    <3>1. /\ worker[w].pc # "idle" /\ failBatch(worker[w].batch)
          /\ UNCHANGED debit
      BY <2>7 DEF FailOrgUnavailable, FailBatch
    <3>2. worker[w].batch \in Batch /\ row[worker[w].batch] # "none"
      BY <2>2, <3>1
    <3>3. QED
      BY <2>1, <3>1, <3>2, FullRefund DEF failBatch
  <2>8. ASSUME NEW w \in Worker, completeBatch(w)
        PROVE  [Ledger!LedgerNext]_(Ledger!ledgerVars)
    <3> DEFINE b == worker[w].batch
               unspent == total[b] - worker[w].charged
    <3>1. /\ b \in Batch /\ debit[b] = total[b] /\ UNCHANGED debit
          /\ total[b] \in 0..MaxRows /\ worker[w].charged \in Nat
      <4>1. worker[w] \in Busy
        BY <2>1, <2>8 DEF completeBatch, TypeOK, Idle
      <4>2. b \in Batch /\ row[b] # "none"
        BY <2>2, <2>8 DEF completeBatch
      <4>3. QED
        BY <2>1, <2>8, <4>1, <4>2 DEF completeBatch, TypeOK, RequestOK, Busy
    <3>2. CASE unspent > 0
      <4>1. /\ refund[b] = 0 /\ refund' = [refund EXCEPT ![b] = unspent]
        BY <2>8, <3>2 DEF completeBatch
      <4>2. unspent \in 1..MaxRows /\ unspent <= debit[b]
        BY <3>1, <3>2, ConstantsAssumption
      <4>3. Ledger!Refund(b, unspent)
        BY <3>1, <4>1, <4>2 DEF Ledger!Refund
      <4>4. QED
        BY <3>1, <4>2, <4>3 DEF Ledger!LedgerNext
    <3>3. CASE ~(unspent > 0)
      BY <2>8, <3>3 DEF completeBatch, Ledger!ledgerVars
    <3>4. QED
      BY <3>2, <3>3
  <2>9. QED
    BY <2>3, <2>4, <2>5, <2>6, <2>7, <2>8
    DEF Next, ApiStep, WorkerStep, vars, ledgerVars, rowVars, Upload, Enqueue,
        EnqueueFails, CleanUpInput, LateUpload, ApiCrash, TakeJob, claimBatchForProcessing,
        OpenInput, resolveChunk, FinishUpload, ProcessingError, EmitEvent, Crash,
        Stall, DeleteObjects, WipeObjects, WipeRows, WipeRollback, SweepObjects,
        deleteBatchesByIds, softDeleteOrganization
<1>3. QED
  BY <1>1, <1>2, Inductive, PTL DEF Spec, RefinesLedger, Ledger!LedgerSpec
-----------------------------------------------------------------------------
(* Files and events: two further invariants, inductive given IndInv.       *)

\* What the steps below need of the inductive invariant.
LEMMA Known ==
    ASSUME IndInv
    PROVE  /\ row \in [Batch -> Status] /\ api \in [Batch -> ApiPc]
           /\ struck \in [Batch -> SUBSET Strikes] /\ worker \in [Worker -> {Idle} \cup Busy]
           /\ total \in [Batch -> 0 .. MaxRows] /\ refund \in [Batch -> 0 .. MaxRows]
           /\ \A b \in Batch : RequestOK(b)
           /\ \A w \in Worker : WorkerOK(w)
           /\ \A w \in Worker : worker[w].pc # "idle" => worker[w].batch \in Batch
           /\ \A v, w \in Worker : (/\ worker[v].pc \in OwnerPc /\ worker[w].pc \in OwnerPc
                                    /\ worker[v].batch = worker[w].batch) => v = w
           /\ \A b \in Batch : struck[b] = {} => \A w \in Worker : Owns(w, b) => row[b] = "processing"
           /\ \A b \in Batch : ~Lost(b) => \A w \in Worker : Owns(w, b) => refund[b] = 0
  <1>1. /\ row \in [Batch -> Status] /\ api \in [Batch -> ApiPc]
        /\ struck \in [Batch -> SUBSET Strikes] /\ worker \in [Worker -> {Idle} \cup Busy]
        /\ total \in [Batch -> 0 .. MaxRows] /\ refund \in [Batch -> 0 .. MaxRows]
        /\ \A b \in Batch : RequestOK(b)
        /\ \A w \in Worker : WorkerOK(w)
    BY DEF IndInv, TypeOK, RequestInv, WorkerInv
  <1>2. \A w \in Worker : worker[w].pc # "idle" => worker[w].batch \in Batch
    BY <1>1 DEF Idle, Busy
  <1>3. \A v, w \in Worker : (/\ worker[v].pc \in OwnerPc /\ worker[w].pc \in OwnerPc
                              /\ worker[v].batch = worker[w].batch) => v = w
    <2> SUFFICES ASSUME NEW v \in Worker, NEW w \in Worker, worker[v].pc \in OwnerPc,
                        worker[w].pc \in OwnerPc, worker[v].batch = worker[w].batch
                 PROVE  v = w
      OBVIOUS
    <2>1. worker[v].batch \in Batch
      BY <1>2 DEF OwnerPc
    <2>2. QED
      BY <2>1 DEF IndInv, SingleOwner, Owns
  <1>4. \A b \in Batch : struck[b] = {} => \A w \in Worker : Owns(w, b) => row[b] = "processing"
    BY DEF IndInv, SettlementInv, SettlementOK, Lost, Removed
  <1>5. \A b \in Batch : ~Lost(b) => \A w \in Worker : Owns(w, b) => refund[b] = 0
    BY DEF IndInv, SettlementInv, SettlementOK
  <1>6. QED
    BY <1>1, <1>2, <1>3, <1>4, <1>5

\* A strike is remembered, and it is of one batch.
LEMMA StrikeEffect ==
    ASSUME struck \in [Batch -> SUBSET Strikes], NEW b \in Batch, NEW kind, Strike(b, kind)
    PROVE  /\ struck'[b] # {} /\ \A c \in Batch : c # b => struck'[c] = struck[c]
           /\ \A c \in Batch : struck[c] \subseteq struck'[c]
  <1>1. struck'[b] = struck[b] \cup {kind} /\ \A c \in Batch : c # b => struck'[c] = struck[c]
    BY DEF Strike
  <1>2. QED
    BY <1>1

\* A row of a chunk moves no worker and no batch.
LEMMA ChunkEffect ==
    ASSUME IndInv, NEW w \in Worker, resolveChunk(w)
    PROVE  /\ \A v \in Worker : worker'[v].pc = worker[v].pc /\ worker'[v].batch = worker[v].batch
           /\ UNCHANGED <<row, total, resultKey, refund, objects, emitted, struck>>
  <1>1. UNCHANGED <<row, total, resultKey, refund, objects, emitted, struck>>
    BY DEF resolveChunk, rowVars, ledgerVars
  <1>2. worker[w] \in Busy /\ worker \in [Worker -> {Idle} \cup Busy]
    BY Known DEF resolveChunk, Idle
  <1>3. \A v \in Worker : worker'[v].pc = worker[v].pc /\ worker'[v].batch = worker[v].batch
    <2> SUFFICES ASSUME NEW v \in Worker
                 PROVE  worker'[v].pc = worker[v].pc /\ worker'[v].batch = worker[v].batch
      OBVIOUS
    <2>1. PICK left, charge : left = worker[w].left - 1 /\ charge = worker[w].charged + 1
      OBVIOUS
    <2>2. \/ worker' = [worker EXCEPT ![w] = [@ EXCEPT !.left = left, !.charged = charge]]
          \/ worker' = [worker EXCEPT ![w] = [@ EXCEPT !.left = left]]
      BY <2>1 DEF resolveChunk
    <2>3. CASE v = w
      BY <1>2, <2>2, <2>3 DEF Busy
    <2>4. CASE v # w
      BY <1>2, <2>2, <2>4
    <2>5. QED
      BY <2>3, <2>4
  <1>4. QED
    BY <1>1, <1>3

\* A completion settles the batch its worker owns and moves that worker on.
LEMMA CompletionEffect ==
    ASSUME IndInv, NEW w \in Worker, completeBatch(w)
    PROVE  \E b \in Batch :
             /\ b = worker[w].batch /\ worker[w].pc = "uploaded"
             /\ row' = (IF row[b] \in Stored THEN [row EXCEPT ![b] = "done"] ELSE row)
             /\ resultKey' \subseteq resultKey \cup {b}
             /\ \A c \in Batch : c # b => refund'[c] = refund[c]
             /\ \A c \in Batch : struck[c] \subseteq struck'[c]
             /\ worker'[w].pc \in {"emit_completed", "failing"} /\ worker'[w].batch = b
             /\ \A v \in Worker : v # w => worker'[v] = worker[v]
             /\ UNCHANGED <<total, objects, emitted>>
  <1>1. PICK b \in Batch : b = worker[w].batch /\ worker[w].pc = "uploaded" /\ worker[w] \in Busy
    BY Known DEF completeBatch, Idle
  <1>2. refund \in [Batch -> 0 .. MaxRows]
    BY DEF IndInv, TypeOK
  <1>3. /\ row' = (IF row[b] \in Stored THEN [row EXCEPT ![b] = "done"] ELSE row)
        /\ resultKey' \subseteq resultKey \cup {b}
        /\ UNCHANGED <<total, objects, emitted>>
    BY <1>1 DEF completeBatch, SetStatus
  <1>4. \A c \in Batch : c # b => refund'[c] = refund[c]
    BY <1>1, <1>2 DEF completeBatch
  <1>5. \A c \in Batch : struck[c] \subseteq struck'[c]
    BY <1>1, Known DEF completeBatch, Strike
  <1>6. /\ worker'[w].pc \in {"emit_completed", "failing"} /\ worker'[w].batch = b
        /\ \A v \in Worker : v # w => worker'[v] = worker[v]
    BY <1>1, Known DEF completeBatch, Goto, Busy
  <1>7. QED
    BY <1>1, <1>3, <1>4, <1>5, <1>6

\* A step keeps the files of every batch accounted for.
LEMMA FilesStep ==
    ASSUME IndInv, \A b \in Batch : FilesOK(b), [Next]_vars, NEW c \in Batch
    PROVE  FilesOK(c)'
  <1> USE Known DEF FilesOK, RequestOK, WorkerOK, Owns, OwnerPc, Stored, Status,
          rowVars, ledgerVars, queueVars, removalVars
  <1>1. ASSUME NEW b \in Batch, Upload(b) PROVE FilesOK(c)'
    BY <1>1 DEF Upload, Inspected
  <1>2. ASSUME NEW b \in Batch, createBatchWithReservation(b) PROVE FilesOK(c)'
    BY <1>2 DEF createBatchWithReservation
  <1>3. ASSUME NEW b \in Batch, Enqueue(b) PROVE FilesOK(c)'
    BY <1>3 DEF Enqueue
  <1>4. ASSUME NEW b \in Batch, EnqueueFails(b) PROVE FilesOK(c)'
    BY <1>4 DEF EnqueueFails, Strike
  <1>5. ASSUME NEW b \in Batch, FailUnqueued(b) PROVE FilesOK(c)'
    BY <1>5 DEF FailUnqueued, failBatch, SetStatus, InsertRefundOnce
  <1>6. ASSUME NEW b \in Batch, CleanUpInput(b) PROVE FilesOK(c)'
    <2>1. struck \in [Batch -> SUBSET Strikes]
      BY Known
    <2>2. \/ struck'[b] # {} /\ objects' \subseteq objects \cup {<<b, "input">>}
          \/ struck' = struck /\ objects' = objects \ {<<b, "input">>}
      BY <1>6, <2>1, StrikeEffect DEF CleanUpInput
    <2>3. \A a \in Batch : a # b => struck'[a] = struck[a]
      BY <1>6, <2>1, StrikeEffect DEF CleanUpInput
    <2>4. CASE c = b
      BY <1>6, <2>2, <2>4 DEF CleanUpInput, KeysOf
    <2>5. CASE c # b
      BY <1>6, <2>3, <2>5 DEF CleanUpInput, KeysOf
    <2>6. QED
      BY <2>4, <2>5
  <1>7. ASSUME NEW b \in Batch, LateUpload(b) PROVE FilesOK(c)'
    <2>1. struck \in [Batch -> SUBSET Strikes]
      BY Known
    <2>2. \/ struck'[b] # {} /\ objects' \subseteq objects \cup {<<b, "input">>}
          \/ struck' = struck /\ objects' = objects
      BY <1>7, <2>1, StrikeEffect DEF LateUpload
    <2>3. \A a \in Batch : a # b => struck'[a] = struck[a]
      BY <1>7, <2>1, StrikeEffect DEF LateUpload
    <2>4. CASE c = b
      BY <1>7, <2>2, <2>4 DEF LateUpload, KeysOf
    <2>5. CASE c # b
      BY <1>7, <2>3, <2>5 DEF LateUpload, KeysOf
    <2>6. QED
      BY <2>4, <2>5
  <1>8. ASSUME NEW b \in Batch, ApiCrash(b) PROVE FilesOK(c)'
    BY <1>8 DEF ApiCrash, Strike
  <1>9. ASSUME NEW b \in Batch, deleteBatchForOrg(b) PROVE FilesOK(c)'
    BY <1>9 DEF deleteBatchForOrg, InsertRefundOnce
  <1>10. ASSUME NEW b \in Batch, DeleteObjects(b) PROVE FilesOK(c)'
    <2>1. struck \in [Batch -> SUBSET Strikes]
      BY Known
    <2>2. \/ struck'[b] # {} /\ objects' \subseteq objects \cup {<<b, "input">>}
          \/ struck' = struck /\ objects' = objects \ KeysOf(b)
      BY <1>10, <2>1, StrikeEffect DEF DeleteObjects
    <2>3. \A a \in Batch : a # b => struck'[a] = struck[a]
      BY <1>10, <2>1, StrikeEffect DEF DeleteObjects
    <2>4. CASE c = b
      BY <1>10, <2>2, <2>4 DEF DeleteObjects, KeysOf
    <2>5. CASE c # b
      BY <1>10, <2>3, <2>5 DEF DeleteObjects, KeysOf
    <2>6. QED
      BY <2>4, <2>5
  <1>11. ASSUME NEW b \in Batch, SweepObjects(b) PROVE FilesOK(c)'
    BY <1>11 DEF SweepObjects, TrackedKeys
  <1>12. ASSUME NEW b \in Batch, deleteBatchesByIds(b) PROVE FilesOK(c)'
    BY <1>12 DEF deleteBatchesByIds, Strike
  <1>13. ASSUME NEW w \in Worker, NEW b \in Batch, TakeJob(w, b) PROVE FilesOK(c)'
    BY <1>13 DEF TakeJob
  <1>14. ASSUME NEW w \in Worker, claimBatchForProcessing(w) PROVE FilesOK(c)'
    BY <1>14 DEF claimBatchForProcessing, Finish
  <1>15. ASSUME NEW w \in Worker, FailOrgUnavailable(w) PROVE FilesOK(c)'
    BY <1>15 DEF FailOrgUnavailable, failBatch, SetStatus, InsertRefundOnce, Finish
  <1>16. ASSUME NEW w \in Worker, OpenInput(w) PROVE FilesOK(c)'
    BY <1>16 DEF OpenInput, Goto
  <1>17. ASSUME NEW w \in Worker, resolveChunk(w) PROVE FilesOK(c)'
    BY <1>17 DEF resolveChunk
  <1>18. ASSUME NEW w \in Worker, FinishUpload(w) PROVE FilesOK(c)'
    BY <1>18 DEF FinishUpload, Goto
  <1>19. ASSUME NEW w \in Worker, completeBatch(w) PROVE FilesOK(c)'
    BY <1>19 DEF completeBatch, SetStatus, Goto, Strike
  <1>20. ASSUME NEW w \in Worker, ProcessingError(w) PROVE FilesOK(c)'
    BY <1>20 DEF ProcessingError, Goto
  <1>21. ASSUME NEW w \in Worker, FailBatch(w) PROVE FilesOK(c)'
    BY <1>21 DEF FailBatch, failBatch, SetStatus, InsertRefundOnce, Goto
  <1>22. ASSUME NEW w \in Worker, EmitEvent(w) PROVE FilesOK(c)'
    BY <1>22 DEF EmitEvent, Finish
  <1>23. ASSUME NEW w \in Worker, Crash(w) PROVE FilesOK(c)'
    BY <1>23 DEF Crash, Requeue, Finish, Strike
  <1>24. ASSUME NEW w \in Worker, Stall(w) PROVE FilesOK(c)'
    BY <1>24 DEF Stall, Requeue
  <1>25. CASE WipeObjects
    BY <1>25 DEF WipeObjects, TrackedKeys, Rows
  <1>26. CASE WipeRows
    BY <1>26 DEF WipeRows, Rows
  <1>27. CASE WipeRollback
    BY <1>27 DEF WipeRollback, Rows
  <1>28. CASE softDeleteOrganization
    BY <1>28 DEF softDeleteOrganization
  <1>29. CASE UNCHANGED vars
    BY <1>29 DEF vars
  <1>30. QED
    BY <1>1, <1>2, <1>3, <1>4, <1>5, <1>6, <1>7, <1>8, <1>9, <1>10, <1>11, <1>12,
       <1>13, <1>14, <1>15, <1>16, <1>17, <1>18, <1>19, <1>20, <1>21, <1>22, <1>23, <1>24,
       <1>25, <1>26, <1>27, <1>28, <1>29
    DEF Next, ApiStep, WorkerStep

\* A step keeps what a worker knows of its result.
LEMMA ResultStep ==
    ASSUME IndInv, FilesInv, [Next]_vars, NEW v \in Worker
    PROVE  ResultOK(v)'
  <1> USE Known DEF FilesInv, ResultOK, FilesOK, WorkerOK, OwnerPc, Stored, Idle,
          rowVars, ledgerVars, queueVars, removalVars
  <1>1. ASSUME NEW b \in Batch, Upload(b) PROVE ResultOK(v)'
    BY <1>1 DEF Upload, Inspected
  <1>2. ASSUME NEW b \in Batch, createBatchWithReservation(b) PROVE ResultOK(v)'
    BY <1>2 DEF createBatchWithReservation, RequestOK
  <1>3. ASSUME NEW b \in Batch, Enqueue(b) PROVE ResultOK(v)'
    BY <1>3 DEF Enqueue
  <1>4. ASSUME NEW b \in Batch, EnqueueFails(b) PROVE ResultOK(v)'
    BY <1>4 DEF EnqueueFails, Strike
  <1>5. ASSUME NEW b \in Batch, FailUnqueued(b) PROVE ResultOK(v)'
    BY <1>5 DEF FailUnqueued, failBatch, SetStatus, InsertRefundOnce
  <1>6. ASSUME NEW b \in Batch, CleanUpInput(b) PROVE ResultOK(v)'
    BY <1>6 DEF CleanUpInput, Strike
  <1>7. ASSUME NEW b \in Batch, LateUpload(b) PROVE ResultOK(v)'
    BY <1>7 DEF LateUpload, Strike
  <1>8. ASSUME NEW b \in Batch, ApiCrash(b) PROVE ResultOK(v)'
    BY <1>8 DEF ApiCrash, Strike
  <1>9. ASSUME NEW b \in Batch, deleteBatchForOrg(b) PROVE ResultOK(v)'
    BY <1>9 DEF deleteBatchForOrg, InsertRefundOnce
  <1>10. ASSUME NEW b \in Batch, DeleteObjects(b) PROVE ResultOK(v)'
    BY <1>10 DEF DeleteObjects, Strike, KeysOf
  <1>11. ASSUME NEW b \in Batch, SweepObjects(b) PROVE ResultOK(v)'
    BY <1>11 DEF SweepObjects, TrackedKeys
  <1>12. ASSUME NEW b \in Batch, deleteBatchesByIds(b) PROVE ResultOK(v)'
    BY <1>12 DEF deleteBatchesByIds, Strike
  <1>13. ASSUME NEW w \in Worker, NEW b \in Batch, TakeJob(w, b) PROVE ResultOK(v)'
    BY <1>13 DEF TakeJob
  <1>14. ASSUME NEW w \in Worker, claimBatchForProcessing(w) PROVE ResultOK(v)'
    <2>1. PICK b \in Batch : b = worker[w].batch
      BY <1>14 DEF claimBatchForProcessing
    <2>2. CASE row[b] # "pending"
      BY <1>14, <2>1, <2>2 DEF claimBatchForProcessing, Finish
    <2>3. CASE row[b] = "pending"
      <3>1. /\ row' = [row EXCEPT ![b] = "processing"] /\ worker'[w].batch = b
            /\ \A x \in Worker : x # w => worker'[x] = worker[x]
            /\ worker'[w].pc \in {"claimed", "org_unavailable"}
        BY <1>14, <2>1, <2>3, ClaimEffect DEF IndInv
      <3>2. UNCHANGED <<resultKey, objects>>
        BY <1>14 DEF claimBatchForProcessing
      <3>3. row[b] \in Stored /\ b \notin resultKey
        BY <2>3
      <3>4. CASE v = w
        BY <2>1, <3>1, <3>2, <3>3, <3>4
      <3>5. CASE v # w
        BY <2>1, <3>1, <3>2, <3>3, <3>5
      <3>6. QED
        BY <3>4, <3>5
    <2>4. QED
      BY <2>2, <2>3
  <1>15. ASSUME NEW w \in Worker, FailOrgUnavailable(w) PROVE ResultOK(v)'
    BY <1>15 DEF FailOrgUnavailable, failBatch, SetStatus, InsertRefundOnce, Finish
  <1>16. ASSUME NEW w \in Worker, OpenInput(w) PROVE ResultOK(v)'
    BY <1>16 DEF OpenInput, Goto
  <1>17. ASSUME NEW w \in Worker, resolveChunk(w) PROVE ResultOK(v)'
    <2>1. /\ \A x \in Worker : worker'[x].pc = worker[x].pc /\ worker'[x].batch = worker[x].batch
          /\ UNCHANGED <<row, total, resultKey, refund, objects, emitted, struck>>
      BY <1>17, ChunkEffect
    <2>2. QED
      BY <2>1
  <1>18. ASSUME NEW w \in Worker, FinishUpload(w) PROVE ResultOK(v)'
    BY <1>18 DEF FinishUpload, Goto
  <1>19. ASSUME NEW w \in Worker, completeBatch(w) PROVE ResultOK(v)'
    <2>1. PICK b \in Batch :
             /\ b = worker[w].batch /\ worker[w].pc = "uploaded"
             /\ row' = (IF row[b] \in Stored THEN [row EXCEPT ![b] = "done"] ELSE row)
             /\ resultKey' \subseteq resultKey \cup {b}
             /\ \A a \in Batch : a # b => refund'[a] = refund[a]
             /\ \A a \in Batch : struck[a] \subseteq struck'[a]
             /\ worker'[w].pc \in {"emit_completed", "failing"} /\ worker'[w].batch = b
             /\ \A x \in Worker : x # w => worker'[x] = worker[x]
             /\ UNCHANGED <<total, objects, emitted>>
      BY <1>19, CompletionEffect
    <2>2. CASE v = w
      BY <2>1, <2>2
    <2>3. CASE v # w
      BY <2>1, <2>3
    <2>4. QED
      BY <2>2, <2>3
  <1>20. ASSUME NEW w \in Worker, ProcessingError(w) PROVE ResultOK(v)'
    BY <1>20 DEF ProcessingError, Goto
  <1>21. ASSUME NEW w \in Worker, FailBatch(w) PROVE ResultOK(v)'
    BY <1>21 DEF FailBatch, failBatch, SetStatus, InsertRefundOnce, Goto
  <1>22. ASSUME NEW w \in Worker, EmitEvent(w) PROVE ResultOK(v)'
    BY <1>22 DEF EmitEvent, Finish
  <1>23. ASSUME NEW w \in Worker, Crash(w) PROVE ResultOK(v)'
    BY <1>23 DEF Crash, Requeue, Finish, Strike
  <1>24. ASSUME NEW w \in Worker, Stall(w) PROVE ResultOK(v)'
    BY <1>24 DEF Stall, Requeue
  <1>25. CASE WipeObjects
    BY <1>25 DEF WipeObjects, TrackedKeys, Rows
  <1>26. CASE WipeRows
    BY <1>26 DEF WipeRows, Rows
  <1>27. CASE WipeRollback
    BY <1>27 DEF WipeRollback, Rows
  <1>28. CASE softDeleteOrganization
    BY <1>28 DEF softDeleteOrganization
  <1>29. CASE UNCHANGED vars
    BY <1>29 DEF vars
  <1>30. QED
    BY <1>1, <1>2, <1>3, <1>4, <1>5, <1>6, <1>7, <1>8, <1>9, <1>10, <1>11, <1>12,
       <1>13, <1>14, <1>15, <1>16, <1>17, <1>18, <1>19, <1>20, <1>21, <1>22, <1>23, <1>24,
       <1>25, <1>26, <1>27, <1>28, <1>29
    DEF Next, ApiStep, WorkerStep

\* A step keeps the result of a completed batch.
LEMMA ReadyStep ==
    ASSUME IndInv, FilesInv, [Next]_vars, NEW c \in Batch
    PROVE  ReadyOK(c)'
  <1> USE Known DEF FilesInv, ReadyOK, ResultOK, FilesOK, Stored,
          rowVars, ledgerVars, queueVars, removalVars
  <1>1. ASSUME NEW b \in Batch, Upload(b) PROVE ReadyOK(c)'
    BY <1>1 DEF Upload, Inspected
  <1>2. ASSUME NEW b \in Batch, createBatchWithReservation(b) PROVE ReadyOK(c)'
    BY <1>2 DEF createBatchWithReservation
  <1>3. ASSUME NEW b \in Batch, Enqueue(b) PROVE ReadyOK(c)'
    BY <1>3 DEF Enqueue
  <1>4. ASSUME NEW b \in Batch, EnqueueFails(b) PROVE ReadyOK(c)'
    <2>1. struck \in [Batch -> SUBSET Strikes]
      BY Known
    <2>2. struck[c] \subseteq struck'[c]
      BY <1>4, <2>1, StrikeEffect DEF EnqueueFails
    <2>3. QED
      BY <1>4, <2>2 DEF EnqueueFails
  <1>5. ASSUME NEW b \in Batch, FailUnqueued(b) PROVE ReadyOK(c)'
    BY <1>5 DEF FailUnqueued, failBatch, SetStatus, InsertRefundOnce
  <1>6. ASSUME NEW b \in Batch, CleanUpInput(b) PROVE ReadyOK(c)'
    <2>1. struck \in [Batch -> SUBSET Strikes]
      BY Known
    <2>2. struck[c] \subseteq struck'[c]
      BY <1>6, <2>1, StrikeEffect DEF CleanUpInput
    <2>3. QED
      BY <1>6, <2>2 DEF CleanUpInput
  <1>7. ASSUME NEW b \in Batch, LateUpload(b) PROVE ReadyOK(c)'
    <2>1. struck \in [Batch -> SUBSET Strikes]
      BY Known
    <2>2. struck[c] \subseteq struck'[c]
      BY <1>7, <2>1, StrikeEffect DEF LateUpload
    <2>3. QED
      BY <1>7, <2>2 DEF LateUpload
  <1>8. ASSUME NEW b \in Batch, ApiCrash(b) PROVE ReadyOK(c)'
    BY <1>8 DEF ApiCrash, Strike
  <1>9. ASSUME NEW b \in Batch, deleteBatchForOrg(b) PROVE ReadyOK(c)'
    BY <1>9 DEF deleteBatchForOrg, InsertRefundOnce
  <1>10. ASSUME NEW b \in Batch, DeleteObjects(b) PROVE ReadyOK(c)'
    BY <1>10 DEF DeleteObjects, Strike, KeysOf
  <1>11. ASSUME NEW b \in Batch, SweepObjects(b) PROVE ReadyOK(c)'
    BY <1>11 DEF SweepObjects, TrackedKeys
  <1>12. ASSUME NEW b \in Batch, deleteBatchesByIds(b) PROVE ReadyOK(c)'
    BY <1>12 DEF deleteBatchesByIds, Strike
  <1>13. ASSUME NEW w \in Worker, NEW b \in Batch, TakeJob(w, b) PROVE ReadyOK(c)'
    BY <1>13 DEF TakeJob
  <1>14. ASSUME NEW w \in Worker, claimBatchForProcessing(w) PROVE ReadyOK(c)'
    BY <1>14 DEF claimBatchForProcessing, Finish
  <1>15. ASSUME NEW w \in Worker, FailOrgUnavailable(w) PROVE ReadyOK(c)'
    BY <1>15 DEF FailOrgUnavailable, failBatch, SetStatus, InsertRefundOnce, Finish
  <1>16. ASSUME NEW w \in Worker, OpenInput(w) PROVE ReadyOK(c)'
    BY <1>16 DEF OpenInput, Goto
  <1>17. ASSUME NEW w \in Worker, resolveChunk(w) PROVE ReadyOK(c)'
    BY <1>17 DEF resolveChunk
  <1>18. ASSUME NEW w \in Worker, FinishUpload(w) PROVE ReadyOK(c)'
    BY <1>18 DEF FinishUpload, Goto
  <1>19. ASSUME NEW w \in Worker, completeBatch(w) PROVE ReadyOK(c)'
    <2>1. PICK b \in Batch :
             /\ b = worker[w].batch /\ worker[w].pc = "uploaded"
             /\ row' = (IF row[b] \in Stored THEN [row EXCEPT ![b] = "done"] ELSE row)
             /\ resultKey' \subseteq resultKey \cup {b}
             /\ \A a \in Batch : a # b => refund'[a] = refund[a]
             /\ \A a \in Batch : struck[a] \subseteq struck'[a]
             /\ worker'[w].pc \in {"emit_completed", "failing"} /\ worker'[w].batch = b
             /\ \A x \in Worker : x # w => worker'[x] = worker[x]
             /\ UNCHANGED <<total, objects, emitted>>
      BY <1>19, CompletionEffect
    <2>2. UNCHANGED <<sweeping, wiping>>
      BY <1>19 DEF completeBatch
    <2>3. CASE c = b
      BY <2>1, <2>3
    <2>4. CASE c # b
      BY <2>1, <2>2, <2>4
    <2>5. QED
      BY <2>3, <2>4
  <1>20. ASSUME NEW w \in Worker, ProcessingError(w) PROVE ReadyOK(c)'
    BY <1>20 DEF ProcessingError, Goto
  <1>21. ASSUME NEW w \in Worker, FailBatch(w) PROVE ReadyOK(c)'
    BY <1>21 DEF FailBatch, failBatch, SetStatus, InsertRefundOnce, Goto
  <1>22. ASSUME NEW w \in Worker, EmitEvent(w) PROVE ReadyOK(c)'
    BY <1>22 DEF EmitEvent, Finish
  <1>23. ASSUME NEW w \in Worker, Crash(w) PROVE ReadyOK(c)'
    BY <1>23 DEF Crash, Requeue, Finish, Strike
  <1>24. ASSUME NEW w \in Worker, Stall(w) PROVE ReadyOK(c)'
    BY <1>24 DEF Stall, Requeue
  <1>25. CASE WipeObjects
    BY <1>25 DEF WipeObjects, TrackedKeys, Rows
  <1>26. CASE WipeRows
    BY <1>26 DEF WipeRows, Rows
  <1>27. CASE WipeRollback
    BY <1>27 DEF WipeRollback, Rows
  <1>28. CASE softDeleteOrganization
    BY <1>28 DEF softDeleteOrganization
  <1>29. CASE UNCHANGED vars
    BY <1>29 DEF vars
  <1>30. QED
    BY <1>1, <1>2, <1>3, <1>4, <1>5, <1>6, <1>7, <1>8, <1>9, <1>10, <1>11, <1>12,
       <1>13, <1>14, <1>15, <1>16, <1>17, <1>18, <1>19, <1>20, <1>21, <1>22, <1>23, <1>24,
       <1>25, <1>26, <1>27, <1>28, <1>29
    DEF Next, ApiStep, WorkerStep

\* A step keeps a batch with one run.
LEMMA RunStep ==
    ASSUME IndInv, EventsInv, [Next]_vars, NEW c \in Batch, NEW u \in Worker, NEW v \in Worker,
           Running(u, c)', Running(v, c)'
    PROVE  u = v
  <1> USE Known DEF EventsInv, OneRun, EventsOK, Running, Announced, WorkerOK, OwnerPc, Idle,
          rowVars, ledgerVars, queueVars, removalVars
  <1>1. ASSUME NEW b \in Batch, Upload(b) PROVE u = v
    BY <1>1 DEF Upload, Inspected
  <1>2. ASSUME NEW b \in Batch, createBatchWithReservation(b) PROVE u = v
    BY <1>2 DEF createBatchWithReservation
  <1>3. ASSUME NEW b \in Batch, Enqueue(b) PROVE u = v
    BY <1>3 DEF Enqueue
  <1>4. ASSUME NEW b \in Batch, EnqueueFails(b) PROVE u = v
    BY <1>4 DEF EnqueueFails, Strike
  <1>5. ASSUME NEW b \in Batch, FailUnqueued(b) PROVE u = v
    BY <1>5 DEF FailUnqueued, failBatch, SetStatus, InsertRefundOnce
  <1>6. ASSUME NEW b \in Batch, CleanUpInput(b) PROVE u = v
    BY <1>6 DEF CleanUpInput, Strike
  <1>7. ASSUME NEW b \in Batch, LateUpload(b) PROVE u = v
    BY <1>7 DEF LateUpload, Strike
  <1>8. ASSUME NEW b \in Batch, ApiCrash(b) PROVE u = v
    BY <1>8 DEF ApiCrash, Strike
  <1>9. ASSUME NEW b \in Batch, deleteBatchForOrg(b) PROVE u = v
    BY <1>9 DEF deleteBatchForOrg, InsertRefundOnce
  <1>10. ASSUME NEW b \in Batch, DeleteObjects(b) PROVE u = v
    BY <1>10 DEF DeleteObjects, Strike
  <1>11. ASSUME NEW b \in Batch, SweepObjects(b) PROVE u = v
    BY <1>11 DEF SweepObjects, TrackedKeys
  <1>12. ASSUME NEW b \in Batch, deleteBatchesByIds(b) PROVE u = v
    BY <1>12 DEF deleteBatchesByIds, Strike
  <1>13. ASSUME NEW w \in Worker, NEW b \in Batch, TakeJob(w, b) PROVE u = v
    BY <1>13 DEF TakeJob
  <1>14. ASSUME NEW w \in Worker, claimBatchForProcessing(w) PROVE u = v
    <2>1. PICK b \in Batch : b = worker[w].batch
      BY <1>14 DEF claimBatchForProcessing
    <2>2. CASE row[b] # "pending"
      BY <1>14, <2>1, <2>2 DEF claimBatchForProcessing, Finish
    <2>3. CASE row[b] = "pending"
      <3>1. /\ row' = [row EXCEPT ![b] = "processing"] /\ worker'[w].batch = b
            /\ \A x \in Worker : x # w => worker'[x] = worker[x]
            /\ worker'[w].pc \in {"claimed", "org_unavailable"}
        BY <1>14, <2>1, <2>3, ClaimEffect DEF IndInv
      <3>2. UNCHANGED <<resultKey, objects>>
        BY <1>14 DEF claimBatchForProcessing
      <3>3. \A x \in Worker : ~Running(x, b)
        BY <2>3
      <3>4. CASE c = b
        <4>1. \A x \in Worker : x # w => ~Running(x, b)'
          BY <3>1, <3>3
        <4>2. QED
          BY <3>4, <4>1
      <3>5. CASE c # b
        <4>1. \A x \in Worker : Running(x, c)' => Running(x, c)
          BY <3>1, <3>5
        <4>2. QED
          BY <4>1
      <3>6. QED
        BY <3>4, <3>5
    <2>4. QED
      BY <2>2, <2>3
  <1>15. ASSUME NEW w \in Worker, FailOrgUnavailable(w) PROVE u = v
    BY <1>15 DEF FailOrgUnavailable, failBatch, SetStatus, InsertRefundOnce, Finish
  <1>16. ASSUME NEW w \in Worker, OpenInput(w) PROVE u = v
    BY <1>16 DEF OpenInput, Goto
  <1>17. ASSUME NEW w \in Worker, resolveChunk(w) PROVE u = v
    <2>1. /\ \A x \in Worker : worker'[x].pc = worker[x].pc /\ worker'[x].batch = worker[x].batch
          /\ UNCHANGED <<row, total, resultKey, refund, objects, emitted, struck>>
      BY <1>17, ChunkEffect
    <2>2. QED
      BY <2>1
  <1>18. ASSUME NEW w \in Worker, FinishUpload(w) PROVE u = v
    BY <1>18 DEF FinishUpload, Goto
  <1>19. ASSUME NEW w \in Worker, completeBatch(w) PROVE u = v
    <2>1. PICK b \in Batch :
             /\ b = worker[w].batch /\ worker[w].pc = "uploaded"
             /\ row' = (IF row[b] \in Stored THEN [row EXCEPT ![b] = "done"] ELSE row)
             /\ resultKey' \subseteq resultKey \cup {b}
             /\ \A a \in Batch : a # b => refund'[a] = refund[a]
             /\ \A a \in Batch : struck[a] \subseteq struck'[a]
             /\ worker'[w].pc \in {"emit_completed", "failing"} /\ worker'[w].batch = b
             /\ \A x \in Worker : x # w => worker'[x] = worker[x]
             /\ UNCHANGED <<total, objects, emitted>>
      BY <1>19, CompletionEffect
    <2>2. QED
      BY <2>1
  <1>20. ASSUME NEW w \in Worker, ProcessingError(w) PROVE u = v
    BY <1>20 DEF ProcessingError, Goto
  <1>21. ASSUME NEW w \in Worker, FailBatch(w) PROVE u = v
    BY <1>21 DEF FailBatch, failBatch, SetStatus, InsertRefundOnce, Goto
  <1>22. ASSUME NEW w \in Worker, EmitEvent(w) PROVE u = v
    BY <1>22 DEF EmitEvent, Finish
  <1>23. ASSUME NEW w \in Worker, Crash(w) PROVE u = v
    BY <1>23 DEF Crash, Requeue, Finish, Strike
  <1>24. ASSUME NEW w \in Worker, Stall(w) PROVE u = v
    BY <1>24 DEF Stall, Requeue
  <1>25. CASE WipeObjects
    BY <1>25 DEF WipeObjects, TrackedKeys, Rows
  <1>26. CASE WipeRows
    BY <1>26 DEF WipeRows, Rows
  <1>27. CASE WipeRollback
    BY <1>27 DEF WipeRollback, Rows
  <1>28. CASE softDeleteOrganization
    BY <1>28 DEF softDeleteOrganization
  <1>29. CASE UNCHANGED vars
    BY <1>29 DEF vars
  <1>30. QED
    BY <1>1, <1>2, <1>3, <1>4, <1>5, <1>6, <1>7, <1>8, <1>9, <1>10, <1>11, <1>12,
       <1>13, <1>14, <1>15, <1>16, <1>17, <1>18, <1>19, <1>20, <1>21, <1>22, <1>23, <1>24,
       <1>25, <1>26, <1>27, <1>28, <1>29
    DEF Next, ApiStep, WorkerStep

\* A step keeps the events of a batch.
LEMMA EventsStep ==
    ASSUME IndInv, EventsInv, [Next]_vars, NEW c \in Batch
    PROVE  EventsOK(c)'
  <1> USE Known DEF EventsInv, OneRun, EventsOK, Running, Announced, WorkerOK, RequestOK,
          Lost, OwnerPc, Idle, Stored, rowVars, ledgerVars, queueVars, removalVars
  <1>1. ASSUME NEW b \in Batch, Upload(b) PROVE EventsOK(c)'
    <2>1. CASE c = b
      BY <1>1, <2>1 DEF Upload, Inspected
    <2>2. CASE c # b
      BY <1>1, <2>2 DEF Upload, Inspected
    <2>3. QED
      BY <2>1, <2>2
  <1>2. ASSUME NEW b \in Batch, createBatchWithReservation(b) PROVE EventsOK(c)'
    BY <1>2 DEF createBatchWithReservation
  <1>3. ASSUME NEW b \in Batch, Enqueue(b) PROVE EventsOK(c)'
    BY <1>3 DEF Enqueue
  <1>4. ASSUME NEW b \in Batch, EnqueueFails(b) PROVE EventsOK(c)'
    BY <1>4 DEF EnqueueFails, Strike
  <1>5. ASSUME NEW b \in Batch, FailUnqueued(b) PROVE EventsOK(c)'
    BY <1>5 DEF FailUnqueued, failBatch, SetStatus, InsertRefundOnce
  <1>6. ASSUME NEW b \in Batch, CleanUpInput(b) PROVE EventsOK(c)'
    BY <1>6 DEF CleanUpInput, Strike
  <1>7. ASSUME NEW b \in Batch, LateUpload(b) PROVE EventsOK(c)'
    BY <1>7 DEF LateUpload, Strike
  <1>8. ASSUME NEW b \in Batch, ApiCrash(b) PROVE EventsOK(c)'
    BY <1>8 DEF ApiCrash, Strike
  <1>9. ASSUME NEW b \in Batch, deleteBatchForOrg(b) PROVE EventsOK(c)'
    <2>1. CASE c = b
      BY <1>9, <2>1 DEF deleteBatchForOrg, InsertRefundOnce
    <2>2. CASE c # b
      BY <1>9, <2>2 DEF deleteBatchForOrg, InsertRefundOnce
    <2>3. QED
      BY <2>1, <2>2
  <1>10. ASSUME NEW b \in Batch, DeleteObjects(b) PROVE EventsOK(c)'
    BY <1>10 DEF DeleteObjects, Strike
  <1>11. ASSUME NEW b \in Batch, SweepObjects(b) PROVE EventsOK(c)'
    BY <1>11 DEF SweepObjects, TrackedKeys
  <1>12. ASSUME NEW b \in Batch, deleteBatchesByIds(b) PROVE EventsOK(c)'
    BY <1>12 DEF deleteBatchesByIds, Strike
  <1>13. ASSUME NEW w \in Worker, NEW b \in Batch, TakeJob(w, b) PROVE EventsOK(c)'
    BY <1>13 DEF TakeJob
  <1>14. ASSUME NEW w \in Worker, claimBatchForProcessing(w) PROVE EventsOK(c)'
    BY <1>14 DEF claimBatchForProcessing, Finish
  <1>15. ASSUME NEW w \in Worker, FailOrgUnavailable(w) PROVE EventsOK(c)'
    BY <1>15 DEF FailOrgUnavailable, failBatch, SetStatus, InsertRefundOnce, Finish
  <1>16. ASSUME NEW w \in Worker, OpenInput(w) PROVE EventsOK(c)'
    BY <1>16 DEF OpenInput, Goto
  <1>17. ASSUME NEW w \in Worker, resolveChunk(w) PROVE EventsOK(c)'
    <2>1. /\ \A x \in Worker : worker'[x].pc = worker[x].pc /\ worker'[x].batch = worker[x].batch
          /\ UNCHANGED <<row, total, resultKey, refund, objects, emitted, struck>>
      BY <1>17, ChunkEffect
    <2>2. QED
      BY <2>1
  <1>18. ASSUME NEW w \in Worker, FinishUpload(w) PROVE EventsOK(c)'
    BY <1>18 DEF FinishUpload, Goto
  <1>19. ASSUME NEW w \in Worker, completeBatch(w) PROVE EventsOK(c)'
    <2>1. PICK b \in Batch :
             /\ b = worker[w].batch /\ worker[w].pc = "uploaded"
             /\ row' = (IF row[b] \in Stored THEN [row EXCEPT ![b] = "done"] ELSE row)
             /\ resultKey' \subseteq resultKey \cup {b}
             /\ \A a \in Batch : a # b => refund'[a] = refund[a]
             /\ \A a \in Batch : struck[a] \subseteq struck'[a]
             /\ worker'[w].pc \in {"emit_completed", "failing"} /\ worker'[w].batch = b
             /\ \A x \in Worker : x # w => worker'[x] = worker[x]
             /\ UNCHANGED <<total, objects, emitted>>
      BY <1>19, CompletionEffect
    <2>2. CASE c = b
      BY <2>1, <2>2
    <2>3. CASE c # b
      BY <2>1, <2>3
    <2>4. QED
      BY <2>2, <2>3
  <1>20. ASSUME NEW w \in Worker, ProcessingError(w) PROVE EventsOK(c)'
    BY <1>20 DEF ProcessingError, Goto
  <1>21. ASSUME NEW w \in Worker, FailBatch(w) PROVE EventsOK(c)'
    <2>1. PICK b \in Batch : b = worker[w].batch /\ Owns(w, b)
      BY <1>21 DEF FailBatch, Owns
    <2>2. CASE c = b
      BY <1>21, <2>1, <2>2 DEF FailBatch, failBatch, SetStatus, InsertRefundOnce, Goto
    <2>3. CASE c # b
      BY <1>21, <2>1, <2>3 DEF FailBatch, failBatch, SetStatus, InsertRefundOnce, Goto
    <2>4. QED
      BY <2>2, <2>3
  <1>22. ASSUME NEW w \in Worker, EmitEvent(w) PROVE EventsOK(c)'
    BY <1>22 DEF EmitEvent, Finish
  <1>23. ASSUME NEW w \in Worker, Crash(w) PROVE EventsOK(c)'
    BY <1>23 DEF Crash, Requeue, Finish, Strike
  <1>24. ASSUME NEW w \in Worker, Stall(w) PROVE EventsOK(c)'
    BY <1>24 DEF Stall, Requeue
  <1>25. CASE WipeObjects
    BY <1>25 DEF WipeObjects, TrackedKeys, Rows
  <1>26. CASE WipeRows
    BY <1>26 DEF WipeRows, Rows
  <1>27. CASE WipeRollback
    BY <1>27 DEF WipeRollback, Rows
  <1>28. CASE softDeleteOrganization
    BY <1>28 DEF softDeleteOrganization
  <1>29. CASE UNCHANGED vars
    BY <1>29 DEF vars
  <1>30. QED
    BY <1>1, <1>2, <1>3, <1>4, <1>5, <1>6, <1>7, <1>8, <1>9, <1>10, <1>11, <1>12,
       <1>13, <1>14, <1>15, <1>16, <1>17, <1>18, <1>19, <1>20, <1>21, <1>22, <1>23, <1>24,
       <1>25, <1>26, <1>27, <1>28, <1>29
    DEF Next, ApiStep, WorkerStep

-----------------------------------------------------------------------------
\* The files of every batch are accounted for, and so is every result.
THEOREM FilesInductive == Spec => []FilesInv
<1>1. Init => FilesInv
  BY DEF Init, FilesInv, FilesOK, ReadyOK, ResultOK, Idle
<1>2. IndInv /\ FilesInv /\ [Next]_vars => FilesInv'
  <2> SUFFICES ASSUME IndInv, FilesInv, [Next]_vars PROVE FilesInv'
    OBVIOUS
  <2>1. \A b \in Batch : FilesOK(b)
    BY DEF FilesInv
  <2>2. \A b \in Batch : FilesOK(b)'
    BY <2>1, FilesStep
  <2>3. \A b \in Batch : ReadyOK(b)'
    BY ReadyStep
  <2>4. \A w \in Worker : ResultOK(w)'
    BY ResultStep
  <2>5. QED
    BY <2>2, <2>3, <2>4 DEF FilesInv
<1>3. QED
  BY <1>1, <1>2, Inductive, PTL DEF Spec

\* A done batch offers its result and the result is there, except while a
\* removal has taken the objects and not yet the row: no cleanup, DELETE,
\* sweep or wipe takes the file of a batch that is still completing.
THEOREM ResultsAreThere == Spec => []ResultDownloadable
<1>1. FilesInv => ResultDownloadable
  BY DEF FilesInv, FilesOK, ReadyOK, ResultDownloadable, downloadUrl, getBatchForOrg, Stored
<1>2. QED
  BY <1>1, FilesInductive, PTL

\* An object of a batch that nothing struck always has a row, a DELETE or a
\* request that will still remove it.
THEOREM NothingIsOrphaned == Spec => []NoOrphans
<1>1. IndInv /\ FilesInv => NoOrphans
  <2> SUFFICES ASSUME IndInv, FilesInv, NEW b \in Batch, struck[b] = {},
                      KeysOf(b) \cap objects # {}, row[b] \notin Stored, b \notin deleting
               PROVE  api[b] \notin {"idle", "answered"}
    BY DEF NoOrphans
  <2>1. <<b, "input">> \in objects \/ <<b, "result">> \in objects
    BY DEF KeysOf
  <2>2. row[b] \in {"none", "gone"}
    BY Known DEF Status, Stored
  <2>3. QED
    BY <2>1, <2>2 DEF FilesInv, FilesOK
<1>2. QED
  BY <1>1, Inductive, FilesInductive, PTL

\* A batch is run and announced by one worker in its life.
THEOREM EventsInductive == Spec => []EventsInv
<1>1. Init => EventsInv
  BY DEF Init, EventsInv, OneRun, EventsOK, Running, Announced, OwnerPc, Idle
<1>2. IndInv /\ EventsInv /\ [Next]_vars => EventsInv'
  <2> SUFFICES ASSUME IndInv, EventsInv, [Next]_vars PROVE EventsInv'
    OBVIOUS
  <2>1. OneRun'
    BY RunStep DEF OneRun
  <2>2. \A b \in Batch : EventsOK(b)'
    BY EventsStep
  <2>3. QED
    BY <2>1, <2>2 DEF EventsInv
<1>3. QED
  BY <1>1, <1>2, Inductive, PTL DEF Spec

\* A batch never announces both outcomes, and "batch.failed" means that the
\* whole reservation came back, lost replies aside.
THEOREM EventsAreTrue == Spec => []EventMatchesLedger
<1>1. EventsInv => EventMatchesLedger
  BY DEF EventsInv, EventsOK, EventMatchesLedger, Lost
<1>2. QED
  BY <1>1, EventsInductive, PTL

=============================================================================
