------------------------- MODULE EmailChecksProofs --------------------------
(***************************************************************************)
(* Single checks, for any number of requests, addresses, workers and       *)
(* credits: an address is charged once per cache window, the ledger never  *)
(* goes negative, and a pending row is always somebody's job.              *)
(*                                                                         *)
(* IndInv is preserved conjunct by conjunct: TypeStep, LocalStep, PaidStep,*)
(* BalanceStep and ServedStep, each with one case per action that writes   *)
(* what the conjunct reads.                                                *)
(***************************************************************************)
EXTENDS EmailChecks, FiniteSetTheorems, TLAPS

\* Every action, grouped by what it may write (the split of Next below).
RequestAction(r) ==
    \/ StartEmailCheck(r) \/ postPhoneCheck(r) \/ performPhoneCheck(r) \/ currentBalance(r)
    \/ FillHint(r) \/ findRecentEmailCheck(r) \/ Verify(r)
    \/ createEmailCheckWithDebit(r) \/ SettleBalance(r) \/ MarkPending(r)
    \/ EnqueueProbe(r) \/ RestoreSnapshot(r) \/ RequestDies(r)
WorkerAction(w) ==
    \/ \E i \in Request : TakeProbe(w, i)
    \/ Throttled(w) \/ updateEmailCheckResult(w) \/ ProbeDies(w)
RowAction ==
    \/ \E i \in Request : AgeRow(i) \/ deleteEmailCheckForOrg(i)
    \/ purgeExpiredChecks
OtherAction == HintExpires \/ BuyCredit \/ DeleteOrganization

\* The four groups are all of Next.
LEMMA NextSplit ==
    ASSUME Next
    PROVE  \/ \E r \in Request : RequestAction(r)
           \/ \E w \in Worker : WorkerAction(w)
           \/ RowAction
           \/ OtherAction
  BY DEF Next, RequestStep, RequestAction, WorkerAction, RowAction, OtherAction

\* The constants the rows, requests and workers start from have their types.
LEMMA RecordTypes ==
    /\ Offline \in Snapshot
    /\ NoRow \in Row
    /\ \A e \in Email : NewRow(e) \in Row
    /\ NoProbe \in ProbeRecord
  BY DEF Offline, Snapshot, Engine, NoRow, NewRow, Row, NoProbe, ProbeRecord

\* So do a request that has not begun and one that is finished.
LEMMA RequestTypes ==
    /\ NoRequest \in RequestRecord
    /\ [NoRequest EXCEPT !.pc = "done"] \in RequestRecord
    /\ \A e \in Email, m \in Mode :
         [NoRequest EXCEPT !.pc = "balance", !.email = e, !.mode = m] \in RequestRecord
<1>1. NoRequest \in RequestRecord
  BY RecordTypes DEF NoRequest, RequestRecord, RequestPc, Mode
<1>2. [NoRequest EXCEPT !.pc = "done"] \in RequestRecord
  BY <1>1 DEF RequestRecord, RequestPc
<1>3. ASSUME NEW e \in Email, NEW m \in Mode
      PROVE  [NoRequest EXCEPT !.pc = "balance", !.email = e, !.mode = m] \in RequestRecord
  BY <1>1 DEF RequestRecord, RequestPc
<1>4. QED
  BY <1>1, <1>2, <1>3

\* The balance is an integer.
LEMMA BalanceType ==
    ASSUME TypeOK, IsFiniteSet(spent)
    PROVE  Balance \in Int
  BY FS_CardinalityType, ChecksAssumption DEF TypeOK, Balance

\* Every step keeps the types.
LEMMA TypeStep ==
    ASSUME TypeOK, IsFiniteSet(spent), LocalInv, Next
    PROVE  TypeOK'
<1>b. Balance \in Int
  BY BalanceType
<1>1. ASSUME NEW r \in Request, RequestAction(r)
      PROVE  TypeOK'
  <2>t. req[r] \in RequestRecord
    BY DEF TypeOK
  <2>f. Finish(r) => req' \in [Request -> RequestRecord]
    BY RequestTypes DEF Finish, TypeOK
  <2>g. \A pc \in RequestPc : Goto(r, pc) => req' \in [Request -> RequestRecord]
    BY <2>t DEF Goto, TypeOK, RequestRecord
  <2>b. ASSUME NEW b \in Int, NEW p \in RequestPc
        PROVE  [req EXCEPT ![r] = [@ EXCEPT !.balance = b, !.pc = p]] \in [Request -> RequestRecord]
    BY <2>t DEF TypeOK, RequestRecord
  <2>1. CASE StartEmailCheck(r)
    BY <2>1, RequestTypes DEF StartEmailCheck, TypeOK, storeVars
  <2>0. CASE postPhoneCheck(r)
    <3>1. "phone" \in RequestPc
      BY DEF RequestPc
    <3>2. req' \in [Request -> RequestRecord]
      BY <2>0, <2>g, <3>1 DEF postPhoneCheck
    <3>3. QED
      BY <2>0, <3>2 DEF postPhoneCheck, TypeOK, storeVars
  <2>2. CASE performPhoneCheck(r)
    <3> DEFINE b == IF Balance >= 1 THEN Balance - 1 ELSE Balance
    <3>1. b \in Int
      BY <1>b
    <3>2. CASE createPhoneCheckWithDebit(r)
      <4>1. req' = [req EXCEPT ![r] = [@ EXCEPT !.pc = "settle", !.balance = b]]
        BY <3>2 DEF createPhoneCheckWithDebit
      <4>2. req' \in [Request -> RequestRecord]
        <5> HIDE DEF b
        <5>1. QED
          BY <3>1, <4>1, <2>t DEF TypeOK, RequestRecord, RequestPc
      <4>3. QED
        BY <2>2, <3>2, <4>2 DEF performPhoneCheck, createPhoneCheckWithDebit, TypeOK
    <3>3. CASE Finish(r) /\ UNCHANGED spent
      BY <2>2, <3>3, <2>f DEF performPhoneCheck, TypeOK
    <3>4. QED
      BY <2>2, <3>2, <3>3 DEF performPhoneCheck
  <2>3. CASE currentBalance(r)
    <3>1. "fill" \in RequestPc /\ "lookup" \in RequestPc /\ (hint # None => hint \in Int)
      BY DEF RequestPc, TypeOK
    <3>2. req' \in [Request -> RequestRecord]
      <4>1. [req EXCEPT ![r] = [@ EXCEPT !.balance = Balance, !.pc = "fill"]] \in [Request -> RequestRecord]
        BY <3>1, <2>b, <1>b
      <4>2. hint # None => [req EXCEPT ![r] = [@ EXCEPT !.balance = hint,
                                                        !.pc = "lookup"]]
                             \in [Request -> RequestRecord]
        BY <3>1, <2>b
      <4>3. QED
        BY <2>3, <4>1, <4>2, <2>f DEF currentBalance
    <3>3. QED
      BY <2>3, <3>2 DEF currentBalance, TypeOK, storeVars
  <2>4. CASE FillHint(r)
    BY <2>4, <2>t, <2>f, <2>g DEF FillHint, TypeOK, RequestRecord, RequestPc, storeVars
  <2>5. CASE findRecentEmailCheck(r)
    <3>1. ASSUME NEW i \in Request
          PROVE  [req EXCEPT ![r] = [@ EXCEPT !.pc = "pending", !.hit = i,
                                              !.snapshot = row[i].snapshot]]
                   \in [Request -> RequestRecord]
      BY <2>t DEF TypeOK, Row, RequestRecord, RequestPc
    <3>2. req' \in [Request -> RequestRecord]
      BY <2>5, <3>1, <2>f, <2>g DEF findRecentEmailCheck, Recent, RequestPc
    <3>3. QED
      BY <2>5, <3>2 DEF findRecentEmailCheck, TypeOK, storeVars
  <2>6. CASE Verify(r)
    BY <2>6, <2>f, <2>g DEF Verify, TypeOK, RequestPc, storeVars
  <2>7. CASE createEmailCheckWithDebit(r)
    <3>1. ASSUME NEW b \in Int
          PROVE  /\ [req EXCEPT ![r] = [@ EXCEPT !.pc = "settle", !.balance = b,
                                                 !.hit = r]]
                      \in [Request -> RequestRecord]
                 /\ [req EXCEPT ![r] = [@ EXCEPT !.pc = "settle", !.balance = b]]
                      \in [Request -> RequestRecord]
      BY <2>t DEF TypeOK, RequestRecord, RequestPc
    <3>2. Balance \in Int /\ Balance - 1 \in Int
      BY <1>b
    <3>3. NewRow(req[r].email) \in Row
      BY <2>t DEF NewRow, Row, RequestRecord, Engine, Snapshot, Offline
    <3>4. req' \in [Request -> RequestRecord]
      BY <2>7, <3>1, <3>2, <2>f DEF createEmailCheckWithDebit
    <3>5. row' \in [Request -> Row] /\ spent' \subseteq Request
      BY <2>7, <3>3 DEF createEmailCheckWithDebit, lockOrganization, TypeOK
    <3>6. QED
      BY <2>7, <3>4, <3>5 DEF createEmailCheckWithDebit, lockOrganization, TypeOK
  <2>8. CASE SettleBalance(r)
    BY <2>8, <2>t, <2>f, <2>g DEF SettleBalance, TypeOK, RequestRecord, RequestPc, storeVars
  <2>9. CASE MarkPending(r)
    <3>1. [req[r].snapshot EXCEPT !.smtp = "pending"] \in Snapshot
      BY <2>t DEF RequestRecord, Snapshot
    <3>2. row' \in [Request -> Row]
      BY <2>9, <3>1 DEF MarkPending, SetSnapshot, TypeOK, Row
    <3>3. QED
      BY <2>9, <3>2, <2>g DEF MarkPending, TypeOK, RequestPc
  <2>10. CASE EnqueueProbe(r)
    <3>1. jobs' \in [Request -> Nat] /\ req' \in [Request -> RequestRecord]
      BY <2>10, <2>f, <2>g DEF EnqueueProbe, TypeOK, RequestPc
    <3>2. QED
      BY <2>10, <3>1 DEF EnqueueProbe, TypeOK, storeVars
  <2>11. CASE RestoreSnapshot(r)
    <3>1. req[r].snapshot \in Snapshot
      BY <2>t DEF RequestRecord
    <3>2. row' \in [Request -> Row]
      BY <2>11, <3>1 DEF RestoreSnapshot, SetSnapshot, TypeOK, Row
    <3>3. QED
      BY <2>11, <3>2, <2>f DEF RestoreSnapshot, TypeOK
  <2>12. CASE RequestDies(r)
    BY <2>12, <2>f, <2>t DEF RequestDies, TypeOK, RequestRecord, storeVars
  <2>13. QED
    BY <1>1, <2>0, <2>1, <2>2, <2>3, <2>4, <2>5, <2>6, <2>7, <2>8, <2>9, <2>10, <2>11, <2>12
       DEF RequestAction
<1>2. ASSUME NEW w \in Worker, WorkerAction(w)
      PROVE  TypeOK'
  <2>t. probe[w] \in ProbeRecord
    BY DEF TypeOK
  <2>1. ASSUME NEW i \in Request, TakeProbe(w, i)
        PROVE  TypeOK'
    <3>1. [pc |-> "loaded", row |-> i, engine |-> row[i].snapshot.engine] \in ProbeRecord
      BY DEF TypeOK, Row, Snapshot, ProbeRecord
    <3>2. jobs' \in [Request -> Nat]
      BY <2>1 DEF TakeProbe, TypeOK
    <3>3. QED
      BY <2>1, <3>1, <3>2 DEF TakeProbe, TypeOK, storeVars
  <2>2. CASE Throttled(w)
    <3>1. jobs' \in [Request -> Nat]
      <4>1. probe[w].row \in Request
        BY <2>2 DEF Throttled, LocalInv
      <4>2. QED
        BY <2>2, <4>1 DEF Throttled, TypeOK
    <3>2. QED
      BY <2>2, <3>1, RecordTypes DEF Throttled, TypeOK, storeVars
  <2>3. CASE updateEmailCheckResult(w)
    <3>1. row' \in [Request -> Row]
      <4> DEFINE i == probe[w].row
                 e(v) == IF v = "probed" THEN v ELSE probe[w].engine
      <4>1. PICK v \in {probe[w].engine, "probed", "unavailable"} :
              row' = IF Stored(i)
                     THEN [row EXCEPT ![i] = [@ EXCEPT !.verdict = v,
                                                       !.snapshot = [engine |-> e(v), smtp |-> "complete"]]]
                     ELSE row
        BY <2>3 DEF updateEmailCheckResult
      <4>2. v \in Engine \cup {"unavailable"} /\ e(v) \in Engine
        BY <2>t DEF ProbeRecord, Engine
      <4>3. [engine |-> e(v), smtp |-> "complete"] \in Snapshot
        BY <4>2 DEF Snapshot
      <4>4. ASSUME NEW s \in Snapshot
            PROVE  [row EXCEPT ![i] = [@ EXCEPT !.verdict = v, !.snapshot = s]] \in [Request -> Row]
        BY <4>2 DEF TypeOK, Row
      <4>5. QED
        BY <4>1, <4>3, <4>4 DEF TypeOK
    <3>2. QED
      BY <2>3, <3>1, RecordTypes DEF updateEmailCheckResult, TypeOK
  <2>4. CASE ProbeDies(w)
    <3>1. jobs' \in [Request -> Nat] /\ crashed' \subseteq Request
      BY <2>4, <2>t DEF ProbeDies, TypeOK, LocalInv
    <3>2. QED
      BY <2>4, <3>1, RecordTypes DEF ProbeDies, TypeOK, storeVars
  <2>5. QED
    BY <1>2, <2>1, <2>2, <2>3, <2>4 DEF WorkerAction
<1>3. CASE RowAction
  <2>1. row' \in [Request -> Row]
    BY <1>3, RecordTypes DEF RowAction, AgeRow, deleteEmailCheckForOrg, purgeExpiredChecks,
                             TypeOK, Row
  <2>2. QED
    BY <1>3, <2>1 DEF RowAction, AgeRow, deleteEmailCheckForOrg, purgeExpiredChecks, TypeOK
<1>4. CASE OtherAction
  BY <1>4, ChecksAssumption
     DEF OtherAction, HintExpires, BuyCredit, DeleteOrganization, TypeOK, storeVars
<1>5. QED
  BY <1>1, <1>2, <1>3, <1>4, NextSplit

\* Every step keeps what requests and workers know about the row they hold.
LEMMA LocalStep ==
    ASSUME TypeOK, LocalInv, Next
    PROVE  LocalInv'
<1> DEFINE ReqOK(q) == /\ q.snapshot.smtp = "skipped"
                       /\ q.pc \in {"pending", "enqueue", "restore"} => q.hit \in Request
           ProbeOK(p) == IF p.pc = "loaded" THEN p.row \in Request ELSE p.row = None
<1>a. LocalInv <=> (\A r \in Request : ReqOK(req[r])) /\ (\A w \in Worker : ProbeOK(probe[w]))
  BY DEF LocalInv
<1>b. LocalInv' <=> (\A r \in Request : ReqOK(req'[r])) /\ (\A w \in Worker : ProbeOK(probe'[w]))
  BY DEF LocalInv
<1>1. ASSUME NEW r \in Request, RequestAction(r)
      PROVE  LocalInv'
  <2>1. probe' = probe
    BY <1>1 DEF RequestAction, StartEmailCheck, postPhoneCheck, performPhoneCheck, createPhoneCheckWithDebit, currentBalance,
                FillHint, findRecentEmailCheck, Verify, createEmailCheckWithDebit, lockOrganization,
                SettleBalance, MarkPending, EnqueueProbe, RestoreSnapshot, RequestDies
  <2>2. \A q \in Request : q # r => req'[q] = req[q]
    BY <1>1 DEF RequestAction, StartEmailCheck, postPhoneCheck, performPhoneCheck, createPhoneCheckWithDebit, currentBalance,
                FillHint, findRecentEmailCheck, Verify, createEmailCheckWithDebit, lockOrganization,
                SettleBalance, MarkPending, EnqueueProbe, RestoreSnapshot, RequestDies,
                Finish, Goto, TypeOK
  <2>t. req[r] \in RequestRecord /\ ReqOK(req[r])
    BY <1>a DEF TypeOK
  <2>f. Finish(r) => ReqOK(req'[r])
    BY DEF Finish, TypeOK, NoRequest, Offline
  <2>g. ASSUME NEW pc, Goto(r, pc), pc \in {"pending", "enqueue", "restore"} => req[r].hit \in Request
        PROVE  ReqOK(req'[r])
    BY <2>t, <2>g DEF Goto, TypeOK, RequestRecord
  <2>3. ReqOK(req'[r])
    <3>1. CASE StartEmailCheck(r)
      BY <3>1 DEF StartEmailCheck, TypeOK, NoRequest, Offline
    <3>0. CASE postPhoneCheck(r)
      BY <3>0, <2>g DEF postPhoneCheck
    <3>2. CASE performPhoneCheck(r) \/ currentBalance(r) \/ createEmailCheckWithDebit(r)
      <4>1. \/ Finish(r)
            \/ req'[r].snapshot = req[r].snapshot /\ req'[r].pc \in {"settle", "fill", "lookup"}
        <5>2. CASE performPhoneCheck(r)
          <6>1. CASE createPhoneCheckWithDebit(r)
            BY <2>t, <6>1 DEF createPhoneCheckWithDebit, TypeOK, RequestRecord
          <6>2. QED
            BY <5>2, <6>1 DEF performPhoneCheck
        <5>3. CASE currentBalance(r)
          <6>1. \/ Finish(r)
                \/ req'[r] = [req[r] EXCEPT !.balance = hint, !.pc = "lookup"]
                \/ req'[r] = [req[r] EXCEPT !.balance = Balance, !.pc = "fill"]
            BY <5>3 DEF currentBalance, TypeOK
          <6>2. CASE req'[r] = [req[r] EXCEPT !.balance = hint, !.pc = "lookup"]
            BY <2>t, <6>2 DEF RequestRecord
          <6>3. CASE req'[r] = [req[r] EXCEPT !.balance = Balance, !.pc = "fill"]
            BY <2>t, <6>3 DEF RequestRecord
          <6>4. QED
            BY <6>1, <6>2, <6>3
        <5>4. CASE createEmailCheckWithDebit(r)
          <6>1. \/ Finish(r)
                \/ req'[r] = [req[r] EXCEPT !.pc = "settle", !.balance = Balance - 1,
                                            !.hit = r]
                \/ req'[r] = [req[r] EXCEPT !.pc = "settle", !.balance = Balance]
            BY <5>4 DEF createEmailCheckWithDebit, lockOrganization, TypeOK
          <6>2. CASE req'[r] = [req[r] EXCEPT !.pc = "settle", !.balance = Balance - 1,
                                            !.hit = r]
            BY <2>t, <6>2 DEF RequestRecord
          <6>3. CASE req'[r] = [req[r] EXCEPT !.pc = "settle", !.balance = Balance]
            BY <2>t, <6>3 DEF RequestRecord
          <6>4. QED
            BY <6>1, <6>2, <6>3
        <5>5. QED
          BY <3>2, <5>2, <5>3, <5>4
      <4>2. QED
        BY <4>1, <2>f, <2>t
    <3>3. CASE FillHint(r) \/ Verify(r)
      BY <3>3, <2>f, <2>g DEF FillHint, Verify
    <3>4. CASE findRecentEmailCheck(r)
      <4>1. ASSUME NEW i \in Request, row[i].snapshot.smtp = "skipped",
                   req' = [req EXCEPT ![r] = [@ EXCEPT !.pc = "pending", !.hit = i,
                                                       !.snapshot = row[i].snapshot]]
            PROVE  ReqOK(req'[r])
        <5>1. req'[r].hit = i /\ req'[r].snapshot = row[i].snapshot
          BY <4>1, <2>t DEF TypeOK, RequestRecord
        <5>2. QED
          BY <5>1, <4>1
      <4>2. Goto(r, "verify") => ReqOK(req'[r])
        BY <2>g
      <4>3. QED
        BY <3>4, <4>1, <4>2, <2>f DEF findRecentEmailCheck, Recent
    <3>5. CASE SettleBalance(r)
      BY <3>5, <2>t, <2>f, <2>g DEF SettleBalance, RequestRecord
    <3>6. CASE MarkPending(r) \/ EnqueueProbe(r)
      BY <3>6, <2>t, <2>f, <2>g DEF MarkPending, EnqueueProbe, At
    <3>7. CASE RestoreSnapshot(r) \/ RequestDies(r)
      BY <3>7, <2>f DEF RestoreSnapshot, RequestDies
    <3>8. QED
      BY <1>1, <3>0, <3>1, <3>2, <3>3, <3>4, <3>5, <3>6, <3>7 DEF RequestAction
  <2>4. QED
    BY <1>a, <1>b, <2>1, <2>2, <2>3
<1>2. ASSUME NEW w \in Worker, WorkerAction(w)
      PROVE  LocalInv'
  <2>1. req' = req
    BY <1>2 DEF WorkerAction, TakeProbe, Throttled, updateEmailCheckResult, ProbeDies
  <2>2. \A v \in Worker : ProbeOK(probe'[v])
    BY <1>2, <1>a DEF WorkerAction, TakeProbe, Throttled, updateEmailCheckResult, ProbeDies,
                      TypeOK, NoProbe
  <2>3. QED
    BY <1>a, <1>b, <2>1, <2>2
<1>3. CASE RowAction \/ OtherAction
  <2>1. req' = req /\ probe' = probe
    BY <1>3 DEF RowAction, AgeRow, deleteEmailCheckForOrg, purgeExpiredChecks,
                OtherAction, HintExpires, BuyCredit, DeleteOrganization
  <2>2. QED
    BY <1>a, <1>b, <2>1
<1>4. QED
  BY <1>1, <1>2, <1>3, NextSplit

\* The only step that creates a reusable row is the locked debit, which sees
\* every row of the address; the rest change no email and no age back to live.
LEMMA PaidStep ==
    ASSUME TypeOK, LocalInv, PaidOnce, Next
    PROVE  PaidOnce'
<1> DEFINE Kept == \A i \in Request :
                     row'[i].age = "live" => row[i].age = "live" /\ row'[i].email = row[i].email
<1>k. Kept => PaidOnce'
  BY DEF PaidOnce
<1>s. ASSUME NEW i, NEW s, SetSnapshot(i, s)
      PROVE  Kept
  BY <1>s DEF SetSnapshot, TypeOK, Row
<1>1. ASSUME NEW r \in Request, RequestAction(r)
      PROVE  PaidOnce'
  <2>1. CASE createEmailCheckWithDebit(r)
    <3>1. CASE row' = row
      BY <3>1, <1>k
    <3>2. CASE row' = [row EXCEPT ![r] = NewRow(req[r].email)] /\ Recent(req[r].email) = {}
      <4>1. \A i \in Request : row[i].age = "live" => row[i].email # req[r].email
        BY <3>2 DEF Recent
      <4>2. QED
        BY <3>2, <4>1 DEF PaidOnce, NewRow, TypeOK
    <3>3. QED
      BY <2>1, <3>1, <3>2 DEF createEmailCheckWithDebit
  <2>2. CASE MarkPending(r) \/ RestoreSnapshot(r)
    BY <2>2, <1>s, <1>k DEF MarkPending, RestoreSnapshot
  <2>3. CASE row' = row
    BY <2>3, <1>k
  <2>4. QED
    BY <1>1, <2>1, <2>2, <2>3
       DEF RequestAction, StartEmailCheck, postPhoneCheck, performPhoneCheck, createPhoneCheckWithDebit, currentBalance, FillHint,
           findRecentEmailCheck, Verify, SettleBalance, EnqueueProbe, RequestDies, storeVars
<1>2. ASSUME NEW w \in Worker, WorkerAction(w)
      PROVE  PaidOnce'
  <2>1. CASE updateEmailCheckResult(w)
    <3>1. \A i \in Request : row'[i].age = row[i].age /\ row'[i].email = row[i].email
      BY <2>1 DEF updateEmailCheckResult, TypeOK, Row
    <3>2. QED
      BY <3>1, <1>k
  <2>2. CASE row' = row
    BY <2>2, <1>k
  <2>3. QED
    BY <1>2, <2>1, <2>2 DEF WorkerAction, TakeProbe, Throttled, ProbeDies, storeVars
<1>3. CASE RowAction
  <2>1. Kept
    BY <1>3 DEF RowAction, AgeRow, deleteEmailCheckForOrg, purgeExpiredChecks, NoRow, TypeOK, Row
  <2>2. QED
    BY <2>1, <1>k
<1>4. CASE OtherAction
  BY <1>4, <1>k DEF OtherAction, HintExpires, BuyCredit, DeleteOrganization, storeVars
<1>5. QED
  BY <1>1, <1>2, <1>3, <1>4, NextSplit

\* A debit takes one credit and is refused below one; nothing else spends.
LEMMA BalanceStep ==
    ASSUME TypeOK, IsFiniteSet(spent), NotOverspent, Next
    PROVE  IsFiniteSet(spent)' /\ NotOverspent'
<1>t. Cardinality(spent) \in Nat /\ bought \in Nat /\ Granted \in Nat
  BY FS_CardinalityType, ChecksAssumption DEF TypeOK
<1>1. ASSUME NEW r \in Request, spent' = spent \cup {r}, bought' = bought, Balance >= 1
      PROVE  IsFiniteSet(spent)' /\ NotOverspent'
  <2>1. IsFiniteSet(spent') /\ (\/ Cardinality(spent') = Cardinality(spent)
                                \/ Cardinality(spent') = Cardinality(spent) + 1)
    BY <1>1, FS_AddElement
  <2>2. Granted + bought - Cardinality(spent') >= 0
    BY <2>1, <1>1, <1>t DEF Balance
  <2>3. QED
    BY <2>1, <2>2, <1>1 DEF NotOverspent, Balance
<1>2. CASE spent' = spent /\ bought' \in {bought, bought + 1}
  <2>1. Granted + bought' - Cardinality(spent) >= 0
    BY <1>2, <1>t DEF NotOverspent, Balance
  <2>2. QED
    BY <1>2, <2>1 DEF NotOverspent, Balance
<1>3. \/ spent' = spent /\ bought' \in {bought, bought + 1}
      \/ \E r \in Request : spent' = spent \cup {r} /\ bought' = bought /\ Balance >= 1
  <2>1. ASSUME NEW r \in Request, RequestAction(r)
        PROVE  \/ spent' = spent /\ bought' = bought
               \/ spent' = spent \cup {r} /\ bought' = bought /\ Balance >= 1
    BY <2>1 DEF RequestAction, StartEmailCheck, postPhoneCheck, performPhoneCheck, createPhoneCheckWithDebit, currentBalance,
                FillHint, findRecentEmailCheck, Verify, createEmailCheckWithDebit, lockOrganization,
                SettleBalance, MarkPending, EnqueueProbe, RestoreSnapshot, RequestDies, storeVars
  <2>2. ASSUME NEW w \in Worker, WorkerAction(w)
        PROVE  spent' = spent /\ bought' = bought
    BY <2>2 DEF WorkerAction, TakeProbe, Throttled, updateEmailCheckResult, ProbeDies, storeVars
  <2>3. RowAction \/ OtherAction => spent' = spent /\ bought' \in {bought, bought + 1}
    BY DEF RowAction, AgeRow, deleteEmailCheckForOrg, purgeExpiredChecks,
           OtherAction, HintExpires, BuyCredit, DeleteOrganization, storeVars
  <2>4. QED
    BY <2>1, <2>2, <2>3, NextSplit
<1>4. QED
  BY <1>1, <1>2, <1>3

\* A row becomes pending only in MarkPending, whose request then enqueues or
\* restores it; whoever serves a row hands it on, finishes it, or dies and is
\* recorded in crashed.
LEMMA ServedStep ==
    ASSUME TypeOK, LocalInv, PendingIsServed, Next
    PROVE  PendingIsServed'
<1> DEFINE Waits(i) == Visible(i) /\ row[i].snapshot.smtp = "pending"
                         /\ i \notin crashed /\ org = "active"
<1>a. PendingIsServed <=> \A i \in Request : Waits(i) => Served(i)
  BY DEF PendingIsServed
<1>b. (\A i \in Request : Waits(i)' => Served(i)') => PendingIsServed'
  BY DEF PendingIsServed
<1>1. ASSUME NEW r \in Request, RequestAction(r), NEW i \in Request, Waits(i)'
      PROVE  Served(i)'
  <2>t. req[r] \in RequestRecord /\ row[i] \in Row /\ jobs[i] \in Nat
    BY DEF TypeOK
  <2>o. ASSUME NEW q \in Request, q # r
        PROVE  req'[q] = req[q]
    BY <1>1, <2>o
       DEF RequestAction, StartEmailCheck, postPhoneCheck, performPhoneCheck, createPhoneCheckWithDebit, currentBalance,
           FillHint, findRecentEmailCheck, Verify, createEmailCheckWithDebit, lockOrganization,
           SettleBalance, MarkPending, EnqueueProbe, RestoreSnapshot, RequestDies,
           Finish, Goto, TypeOK
  <2>p. probe' = probe
    BY <1>1 DEF RequestAction, StartEmailCheck, postPhoneCheck, performPhoneCheck, createPhoneCheckWithDebit, currentBalance,
                FillHint, findRecentEmailCheck, Verify, createEmailCheckWithDebit, lockOrganization,
                SettleBalance, MarkPending, EnqueueProbe, RestoreSnapshot, RequestDies
  \* A request that serves no row leaves everyone's service alone.
  <2>u. ASSUME Waits(i), jobs' = jobs, ~(req[r].hit = i /\ req[r].pc \in {"enqueue", "restore"})
        PROVE  Served(i)'
    <3>1. Served(i)
      BY <2>u, <1>a
    <3>2. QED
      BY <3>1, <2>u, <2>o, <2>p DEF Served
  <2>1. CASE \/ StartEmailCheck(r) \/ postPhoneCheck(r) \/ performPhoneCheck(r) \/ currentBalance(r)
             \/ FillHint(r) \/ findRecentEmailCheck(r) \/ Verify(r) \/ SettleBalance(r)
    <3>1. jobs' = jobs /\ row' = row /\ crashed' = crashed /\ org' = org
          /\ req[r].pc \notin {"enqueue", "restore"}
      BY <2>1 DEF StartEmailCheck, postPhoneCheck, performPhoneCheck, createPhoneCheckWithDebit,
                  currentBalance, FillHint, findRecentEmailCheck, Verify, SettleBalance, At, storeVars
    <3>2. QED
      BY <3>1, <2>u, <1>1 DEF Visible
  <2>2. CASE createEmailCheckWithDebit(r)
    <3>1. jobs' = jobs /\ crashed' = crashed /\ org' = org /\ req[r].pc \notin {"enqueue", "restore"}
      BY <2>2 DEF createEmailCheckWithDebit, lockOrganization, At
    <3>2. row'[i] = row[i] \/ row'[i].snapshot.smtp = "skipped"
      BY <2>2 DEF createEmailCheckWithDebit, lockOrganization, NewRow, Offline, TypeOK
    <3>3. QED
      BY <3>1, <3>2, <2>u, <1>1 DEF Visible
  <2>3. CASE MarkPending(r)
    <3>1. req'[r].pc = "enqueue" /\ req'[r].hit = req[r].hit
      BY <2>3, <2>t DEF MarkPending, Goto, TypeOK, RequestRecord
    <3>2. CASE req[r].hit = i
      BY <3>1, <3>2 DEF Served
    <3>3. CASE req[r].hit # i
      <4>1. row'[i] = row[i] /\ jobs' = jobs /\ crashed' = crashed /\ org' = org
        BY <2>3, <3>3 DEF MarkPending, SetSnapshot, TypeOK
      <4>2. QED
        BY <4>1, <3>3, <2>u, <1>1 DEF Visible
    <3>4. QED
      BY <3>2, <3>3
  <2>4. CASE EnqueueProbe(r)
    <3>1. row' = row /\ crashed' = crashed /\ org' = org
      BY <2>4 DEF EnqueueProbe, storeVars
    <3>2. Served(i)
      BY <3>1, <1>1, <1>a DEF Visible
    <3>3. jobs[i] > 0 => jobs'[i] > 0
      BY <2>4, <2>t DEF EnqueueProbe, TypeOK
    <3>4. CASE req[r].hit = i
      <4>1. jobs'[i] > 0 \/ (req'[r].hit = i /\ req'[r].pc = "restore")
        BY <2>4, <2>t, <3>4 DEF EnqueueProbe, Goto, TypeOK, RequestRecord
      <4>2. QED
        BY <4>1 DEF Served
    <3>5. CASE req[r].hit # i
      BY <3>2, <3>3, <3>5, <2>o, <2>p DEF Served
    <3>6. QED
      BY <3>4, <3>5
  <2>5. CASE RestoreSnapshot(r)
    <3>1. jobs' = jobs /\ crashed' = crashed /\ org' = org
      BY <2>5 DEF RestoreSnapshot
    <3>2. CASE req[r].hit = i
      <4>1. row'[i].snapshot.smtp = "skipped" \/ row'[i].age = "none"
        BY <2>5, <2>t, <3>2 DEF RestoreSnapshot, SetSnapshot, Stored, LocalInv, TypeOK, Row
      <4>2. QED
        BY <4>1, <1>1 DEF Visible
    <3>3. CASE req[r].hit # i
      <4>1. row'[i] = row[i]
        BY <2>5, <3>3 DEF RestoreSnapshot, SetSnapshot, TypeOK
      <4>2. QED
        BY <3>1, <4>1, <3>3, <2>u, <1>1 DEF Visible
    <3>4. QED
      BY <3>2, <3>3
  <2>6. CASE RequestDies(r)
    <3>1. row' = row /\ jobs' = jobs /\ org' = org /\ crashed' = crashed \cup ({req[r].hit} \ {None})
      BY <2>6 DEF RequestDies, storeVars
    <3>2. req[r].hit # i
      BY <3>1, <1>1, ChecksAssumption
    <3>3. QED
      BY <3>1, <3>2, <2>u, <1>1 DEF Visible
  <2>7. QED
    BY <1>1, <2>1, <2>2, <2>3, <2>4, <2>5, <2>6 DEF RequestAction
<1>2. ASSUME NEW w \in Worker, WorkerAction(w), NEW i \in Request, Waits(i)'
      PROVE  Served(i)'
  <2>t. row[i] \in Row /\ jobs[i] \in Nat /\ probe[w] \in ProbeRecord
    BY DEF TypeOK
  <2>q. req' = req /\ org' = org
    BY <1>2 DEF WorkerAction, TakeProbe, Throttled, updateEmailCheckResult, ProbeDies, storeVars
  <2>1. ASSUME NEW k \in Request, TakeProbe(w, k)
        PROVE  Served(i)'
    <3>1. row' = row /\ crashed' = crashed
      BY <2>1 DEF TakeProbe, storeVars
    <3>2. Served(i) /\ Visible(i) /\ org = "active"
      BY <3>1, <2>q, <1>2, <1>a DEF Visible
    <3>3. probe[w].row = None
      BY <2>1 DEF TakeProbe, LocalInv
    <3>4. CASE k = i
      <4>1. probe'[w].row = i
        BY <2>1, <3>2, <3>4 DEF TakeProbe, TypeOK
      <4>2. QED
        BY <4>1 DEF Served
    <3>5. CASE k # i
      <4>1. jobs'[i] = jobs[i]
        BY <2>1, <3>5 DEF TakeProbe, TypeOK
      <4>2. \A v \in Worker : probe[v].row = i => probe'[v].row = i
        BY <2>1, <3>3, ChecksAssumption DEF TakeProbe, TypeOK
      <4>3. QED
        BY <4>1, <4>2, <3>2, <2>q DEF Served
    <3>6. QED
      BY <3>4, <3>5
  <2>o. \A v \in Worker : v # w => probe'[v] = probe[v] \/ \E k \in Request : TakeProbe(w, k)
    BY <1>2 DEF WorkerAction, Throttled, updateEmailCheckResult, ProbeDies, TypeOK
  <2>2. CASE Throttled(w) \/ ProbeDies(w)
    <3>1. /\ row' = row
          /\ crashed' = crashed \/ crashed' = crashed \cup {probe[w].row}
          /\ probe' = [probe EXCEPT ![w] = NoProbe]
      BY <2>2 DEF Throttled, ProbeDies, storeVars
    <3>2. Served(i)
      BY <3>1, <2>q, <1>2, <1>a DEF Visible
    <3>3. jobs[i] > 0 => jobs'[i] > 0
      BY <2>2, <2>t DEF Throttled, ProbeDies, TypeOK
    <3>4. CASE probe[w].row = i
      <4>1. jobs'[i] > 0
        BY <2>2, <2>t, <3>1, <3>4, <1>2 DEF Throttled, ProbeDies, TypeOK
      <4>2. QED
        BY <4>1 DEF Served
    <3>5. CASE probe[w].row # i
      <4>1. \A v \in Worker : probe[v].row = i => probe'[v].row = i
        BY <3>1, <3>5 DEF TypeOK
      <4>2. QED
        BY <4>1, <3>2, <3>3, <2>q DEF Served
    <3>6. QED
      BY <3>4, <3>5
  <2>3. CASE updateEmailCheckResult(w)
    <3>1. jobs' = jobs /\ crashed' = crashed /\ probe' = [probe EXCEPT ![w] = NoProbe]
      BY <2>3 DEF updateEmailCheckResult
    <3>2. CASE probe[w].row = i
      <4>1. row'[i].snapshot.smtp = "complete" \/ row'[i].age = "none"
        BY <2>3, <3>2 DEF updateEmailCheckResult, Stored, TypeOK, Row
      <4>2. QED
        BY <4>1, <1>2 DEF Visible
    <3>3. CASE probe[w].row # i
      <4>1. row'[i] = row[i]
        BY <2>3, <3>3 DEF updateEmailCheckResult, TypeOK
      <4>2. Served(i)
        BY <4>1, <3>1, <2>q, <1>2, <1>a DEF Visible
      <4>3. \A v \in Worker : probe[v].row = i => probe'[v].row = i
        BY <3>1, <3>3 DEF TypeOK
      <4>4. QED
        BY <4>2, <4>3, <3>1, <2>q DEF Served
    <3>4. QED
      BY <3>2, <3>3
  <2>4. QED
    BY <1>2, <2>1, <2>2, <2>3 DEF WorkerAction
<1>3. ASSUME RowAction \/ OtherAction, NEW i \in Request, Waits(i)'
      PROVE  Served(i)'
  <2>1. jobs' = jobs /\ req' = req /\ probe' = probe /\ crashed' = crashed
    BY <1>3 DEF RowAction, AgeRow, deleteEmailCheckForOrg, purgeExpiredChecks,
                OtherAction, HintExpires, BuyCredit, DeleteOrganization
  <2>2. org' = "active" => org = "active"
    BY <1>3 DEF RowAction, AgeRow, deleteEmailCheckForOrg, purgeExpiredChecks,
                OtherAction, HintExpires, BuyCredit, DeleteOrganization, storeVars
  <2>3. Visible(i)' => Visible(i) /\ row'[i].snapshot = row[i].snapshot
    BY <1>3 DEF RowAction, AgeRow, deleteEmailCheckForOrg, purgeExpiredChecks, NoRow, Visible,
                OtherAction, HintExpires, BuyCredit, DeleteOrganization, storeVars, TypeOK, Row
  <2>4. QED
    BY <2>1, <2>2, <2>3, <1>3, <1>a DEF Served
<1>4. QED
  BY <1>b, <1>1, <1>2, <1>3, NextSplit

-----------------------------------------------------------------------------
\* The inductive invariant: initially true, kept by every step.
THEOREM ChecksInductive == Spec => []IndInv
<1>1. Init => IndInv
  <2> SUFFICES ASSUME Init PROVE IndInv
    OBVIOUS
  <2>1. TypeOK
    <3>1. bought \in 0..MaxBuys /\ hint \in {None} \cup Int /\ jobs \in [Request -> Nat]
      BY ChecksAssumption DEF Init
    <3>2. row \in [Request -> Row] /\ req \in [Request -> RequestRecord]
          /\ probe \in [Worker -> ProbeRecord]
      BY RecordTypes, RequestTypes DEF Init
    <3>3. QED
      BY <3>1, <3>2 DEF Init, TypeOK
  <2>2. IsFiniteSet(spent) /\ NotOverspent
    BY FS_EmptySet, ChecksAssumption DEF Init, NotOverspent, Balance
  <2>3. LocalInv /\ PaidOnce /\ PendingIsServed
    BY DEF Init, LocalInv, PaidOnce, PendingIsServed, NoRequest, NoProbe, NoRow, Offline, Visible
  <2>4. QED
    BY <2>1, <2>2, <2>3 DEF IndInv
<1>2. IndInv /\ [Next]_vars => IndInv'
  <2> SUFFICES ASSUME IndInv, [Next]_vars PROVE IndInv'
    OBVIOUS
  <2>1. CASE Next
    BY <2>1, TypeStep, LocalStep, PaidStep, BalanceStep, ServedStep DEF IndInv
  <2>2. CASE UNCHANGED vars
    BY <2>2 DEF vars, IndInv, TypeOK, LocalInv, PaidOnce, NotOverspent, Balance,
                PendingIsServed, Served, Visible
  <2>3. QED
    BY <2>1, <2>2
<1>3. QED
  BY <1>1, <1>2, PTL DEF Spec

\* Rows, requests, jobs and workers keep their types.
THEOREM ChecksTypeCorrect == Spec => []TypeOK
  BY ChecksInductive, PTL DEF IndInv

\* Whatever the interleaving of requests, an address has one reusable row.
THEOREM OneChargePerAddress == Spec => []PaidOnce
  BY ChecksInductive, PTL DEF IndInv

\* However stale the cached balance, the ledger's sum never goes below zero.
THEOREM HintNeverAuthorises == Spec => []NotOverspent
  BY ChecksInductive, PTL DEF IndInv

\* A visible pending check always has a job, a worker or a request behind it,
\* unless the process that served it died.
THEOREM PendingHasServer == Spec => []PendingIsServed
  BY ChecksInductive, PTL DEF IndInv

=============================================================================
