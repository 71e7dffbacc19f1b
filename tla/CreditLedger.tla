---------------------------- MODULE CreditLedger ----------------------------
(***************************************************************************)
(* What the credit ledger promises about batches, with no batch rows,      *)
(* queues, workers or object storage in sight: a batch is debited once,    *)
(* for as much as the balance covers, and at most one refund entry later   *)
(* gives back at most what was debited.  The detailed module Batches       *)
(* implements this specification.                                          *)
(*                                                                         *)
(* An entry of credit_ledger is keyed by (org_id, reference_id): batch b   *)
(* has the debit entry "b" and the refund entry "b:refund".  A zero amount *)
(* stands for an entry that was never inserted (the code inserts neither a *)
(* zero debit nor a zero refund).                                          *)
(***************************************************************************)
EXTENDS Integers, FiniteSetsExt

CONSTANTS
    Batch,      \* batch ids
    MaxRows,    \* rows in the largest batch (MAX_BATCH_ROWS in the code)
    Granted     \* credits granted to the organisation, one credit per row

VARIABLES
    debit,      \* debit[b]: amount of the batch_check entry of b
    refund      \* refund[b]: amount of the refund entry of b

ledgerVars == <<debit, refund>>

Total(f) == MapThenSumSet(LAMBDA b : f[b], Batch)

\* coalesce(sum(delta), 0) over the organisation's entries.
Balance == Granted - Total(debit) + Total(refund)

LedgerInit ==
    /\ debit = [b \in Batch |-> 0]
    /\ refund = [b \in Batch |-> 0]

\* The batch_check entry that reserves n credits for b.
Reserve(b, n) ==
    /\ debit[b] = 0
    /\ Balance >= n
    /\ debit' = [debit EXCEPT ![b] = n]
    /\ UNCHANGED refund

\* The one refund entry of b, for at most what was reserved.
Refund(b, n) ==
    /\ refund[b] = 0
    /\ n <= debit[b]
    /\ refund' = [refund EXCEPT ![b] = n]
    /\ UNCHANGED debit

LedgerNext == \E b \in Batch, n \in 1..MaxRows : Reserve(b, n) \/ Refund(b, n)

LedgerSpec == LedgerInit /\ [][LedgerNext]_ledgerVars

=============================================================================
