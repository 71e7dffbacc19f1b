------------------------------- MODULE Billing -------------------------------
(***************************************************************************)
(* The credit ledger as the books see it: manual grants keyed by invoice,  *)
(* spends and refunds, the balance as the sum of what is left of the       *)
(* ledger, the monthly statements and the running balance, and the purge   *)
(* of entries past the accounting retention.                               *)
(*                                                                         *)
(* Time is a count of coarse ticks, read from the database's clock and    *)
(* from the worker's, which are taken to agree.  Retention extends this    *)
(* module with everything else that expires.                               *)
(***************************************************************************)
EXTENDS Integers, FiniteSets, FiniteSetsExt

CONSTANTS
    Orgs,             \* organisations
    Invoices,         \* what a non-blank note says, without its blanks
    Amounts,          \* the amounts an operator types, zero included
    Ids,              \* identifiers of rows and objects
    Horizon,          \* bound: the last tick
    MonthLength,      \* ticks in a statement month
    LedgerRetention,  \* LEDGER_RETENTION_YEARS
    LeapDays          \* ticks that are a 29th of February

ASSUME BillingAssumption ==
    /\ Ids \subseteq Nat \ {0} /\ IsFiniteSet(Ids)
    /\ Amounts \subseteq Nat
    /\ Horizon \in Nat
    /\ MonthLength \in Nat \ {0}
    /\ LedgerRetention \in Nat \ {0}
    /\ LeapDays \subseteq 0 .. Horizon
    /\ "" \notin Invoices

VARIABLES
    clock,   \* the present tick
    org,     \* org[o]: state, deletedAt and retention of an organisation row
    ledger,  \* credit_ledger
    used     \* identifiers drawn so far: none comes back

books == <<clock, org, ledger, used>>

Times == 0 .. Horizon
Never == Horizon + 1

\* The next identifier.  UUIDs come in no order, but all that their order
\* decides is which page of an export a row is on.
Fresh == IF Ids \subseteq used THEN {} ELSE {Min(Ids \ used)}

\* A note as typed: what it says, and whether blanks surround it.
Notes == [text : Invoices \cup {""}, padded : BOOLEAN]

\* reference_id: a grant is named by amount and note, a movement by its check or batch.
Reference == [kind : {"grant", "check", "batch", "refund"}, of : Nat, note : Notes]

Entry ==
    [id : Ids, org : Orgs, delta : Int,
     reason : {"grant", "single_check", "batch_check", "refund"},
     ref : Reference, at : Times]

CONSUMPTION_REASONS == {"single_check", "batch_check"}

Plain(text) == [text |-> text, padded |-> FALSE]

OrgRow == [state : {"active", "deleted", "purged", "removed"}, deletedAt : Times, retention : Nat]

NewOrg(retention) == [state |-> "active", deletedAt |-> 0, retention |-> retention]

Active(o) == org[o].state = "active"

EntriesOf(o) == {e \in ledger : e.org = o}

Total(entries) == MapThenSumSet(LAMBDA e : e.delta, entries)

getCreditBalance(o) == Total(EntriesOf(o))

\* The partial unique index on (org_id, reference_id).
Unreferenced(o, ref) == \A e \in EntriesOf(o) : e.ref # ref

Append1(entry) ==
    /\ ledger' = ledger \cup {entry}
    /\ used' = used \cup {entry.id}
    /\ UNCHANGED <<clock, org>>

-----------------------------------------------------------------------------
(* Grants, spends and refunds *)

\* Wrong on purpose: the reference is derived from the note as typed.
keepBlanks(note) == note

Trim(note) == Plain(note.text)

grantReference(credits, note) == [kind |-> "grant", of |-> credits, note |-> note]

\* The transaction of a grant.  Every refusal (amount, blank note,
\* organisation, replay) leaves the state as it is.
grantCreditsWithAudit(o, credits, typed, id) ==
    LET note == Trim(typed)
        ref  == grantReference(credits, note)
    IN  /\ credits > 0
        /\ note.text # ""
        /\ Active(o)
        /\ Unreferenced(o, ref)
        /\ Append1([id |-> id, org |-> o, delta |-> credits, reason |-> "grant",
                    ref |-> ref, at |-> clock])

\* billing:grant with whatever the operator types, any number of times.
billingGrantCommand(o, id) ==
    \E credits \in Amounts, typed \in Notes :
        /\ credits > 0 /\ typed.text # ""
        /\ grantCreditsWithAudit(o, credits, typed, id)

\* One credit spent by a check, or reserved by a batch of one row.
Spend(o, reason, id) ==
    /\ Active(o)
    /\ getCreditBalance(o) >= 1
    /\ Append1([id |-> id, org |-> o, delta |-> -1, reason |-> reason,
                ref |-> [kind |-> IF reason = "batch_check" THEN "batch" ELSE "check",
                         of |-> id, note |-> Plain("")],
                at |-> clock])

\* What a failed batch gets back, once.
Refund(o, batch, id) ==
    LET ref == [kind |-> "refund", of |-> batch.id, note |-> Plain("")]
    IN  /\ batch \in EntriesOf(o)
        /\ batch.reason = "batch_check"
        /\ Unreferenced(o, ref)
        /\ Append1([id |-> id, org |-> o, delta |-> 1, reason |-> "refund",
                    ref |-> ref, at |-> clock])

-----------------------------------------------------------------------------
(* The purge of entries past the accounting retention *)

\* setUTCFullYear on a 29th of February lands on the 1st of March, one day
\* later than the interval arithmetic of the database.
ledgerRetentionCutoff(now) ==
    now - LedgerRetention + (IF now \in LeapDays THEN 1 ELSE 0)

\* Wrong on purpose: the trigger is satisfied by the flag alone.
allowFlagged(entry) == TRUE

\* credit_ledger_reject_mutation: what a flagged DELETE may remove, by the
\* clock of the database.
OldEnough(entry) == entry.at <= clock - LedgerRetention

PurgeTargets(now) == {e \in ledger : e.at <= ledgerRetentionCutoff(now)}

\* The trigger raises on the first young row and the transaction rolls back.
PurgeRaises(now) == \E e \in PurgeTargets(now) : ~OldEnough(e)

\* One transaction of the sweep, run at the present tick.
purgeExpiredLedgerEntries ==
    /\ ~PurgeRaises(clock)
    /\ PurgeTargets(clock) # {}
    /\ ledger' = ledger \ PurgeTargets(clock)
    /\ UNCHANGED <<clock, org, used>>

softDeleteOrganization(o) ==
    /\ Active(o)
    /\ org' = [org EXCEPT ![o] = [@ EXCEPT !.state = "deleted", !.deletedAt = clock]]
    /\ UNCHANGED <<clock, ledger, used>>

BookTick ==
    /\ clock < Horizon
    /\ clock' = clock + 1
    /\ UNCHANGED <<org, ledger, used>>

Book(o, id) ==
    \/ billingGrantCommand(o, id)
    \/ \E reason \in CONSUMPTION_REASONS : Spend(o, reason, id)
    \/ \E batch \in ledger : Refund(o, batch, id)

BillingInit ==
    /\ clock = 0
    /\ org = [o \in Orgs |-> NewOrg(1)]
    /\ ledger = {}
    /\ used = {}

BillingNext ==
    \/ \E o \in Orgs, id \in Fresh : Book(o, id)
    \/ \E o \in Orgs : softDeleteOrganization(o)
    \/ purgeExpiredLedgerEntries
    \/ BookTick

BillingSpec == BillingInit /\ [][BillingNext]_books

-----------------------------------------------------------------------------
(* Statements and summaries: pure functions of the ledger *)

Months == 0 .. (Horizon \div MonthLength)

\* Wrong on purpose: the end of the month belongs to it.
monthClosed(m, t) == m * MonthLength <= t /\ t <= (m + 1) * MonthLength

\* parseStatementMonth's half-open bounds.
InMonth(m, t) == m * MonthLength <= t /\ t < (m + 1) * MonthLength

monthStartUtc(now) == (now \div MonthLength) * MonthLength

getMonthlyStatement(o, m) ==
    LET entries == {e \in EntriesOf(o) : InMonth(m, e.at)}
        byReason(reasons) == Total({e \in entries : e.reason \in reasons})
        opening == Total({e \in EntriesOf(o) : e.at < m * MonthLength})
    IN  [opening   |-> opening,
         granted   |-> byReason({"grant"}),
         consumed  |-> -byReason(CONSUMPTION_REASONS),
         refunded  |-> byReason({"refund"}),
         closing   |-> opening + Total(entries)]

getBillingSummary(o, now) ==
    LET inMonth == {e \in EntriesOf(o) : monthStartUtc(now) <= e.at /\ e.at <= now}
    IN  [balance  |-> getCreditBalance(o),
         granted  |-> Total({e \in inMonth : e.reason = "grant"}),
         consumed |-> -Total({e \in inMonth : e.reason \in CONSUMPTION_REASONS})]

UpTo(entry) ==
    {e \in EntriesOf(entry.org) :
        e.at < entry.at \/ (e.at = entry.at /\ e.id <= entry.id)}

\* getLedgerWithRunningBalance: the window sum over the whole history, by
\* (created_at, id), whatever the dates hide.
runningBalance(entry) == Total(UpTo(entry))

\* GET /internal/usage: the balance, and the entries from a date on with their
\* running balances.
usagePage(o, from) ==
    [balance |-> getCreditBalance(o),
     ledger  |-> {[entry |-> e, running |-> runningBalance(e)] :
                     e \in {f \in EntriesOf(o) : f.at >= from}}]

\* GET /internal/billing: the summary, and the newest running balance.
billingPage(o) ==
    [summary |-> getBillingSummary(o, clock),
     newest  |-> {runningBalance(e) : e \in {f \in EntriesOf(o) : UpTo(f) = EntriesOf(o)}}]

\* A cursor is the order key of the last entry of a page, {} when there is no
\* further page.  The database keeps microseconds, a cursor milliseconds: unit
\* is how many ticks of the one go into the other.
encodeCursor(entry, unit) == {[at |-> (entry.at \div unit) * unit, id |-> entry.id]}

Beyond(o, cursor) ==
    {e \in EntriesOf(o) : \A c \in cursor : e.at < c.at \/ (e.at = c.at /\ e.id < c.id)}

\* The newest entries of a set, by (created_at, id) descending.
Newest(entries, limit) ==
    {e \in entries : Cardinality({f \in entries : e \in UpTo(f) \ {f}}) < limit}

\* The balance and one page of the ledger, read with one entry to spare.  The
\* counts of the month's checks are not taken from the ledger.
getUsageSummary(o, cursor, limit, unit) ==
    LET rows == Beyond(o, cursor)
        page == Newest(rows, limit)
    IN  [balance |-> getCreditBalance(o),
         entries |-> page,
         next    |-> IF rows = page THEN {}
                     ELSE encodeCursor(CHOOSE e \in page : UpTo(e) \cap page = {e}, unit)]

-----------------------------------------------------------------------------
(* Properties of the books *)

\* However often billing:grant is re-run for one paid invoice, with whatever
\* blanks around its note, the ledger holds at most one grant of that amount
\* for it (grantCreditsWithAudit and its derived reference).
GrantedOnce ==
    \A e, f \in ledger :
        (/\ e.reason = "grant" /\ f.reason = "grant"
         /\ e.org = f.org /\ e.delta = f.delta
         /\ e.ref.note.text = f.ref.note.text) => e = f

\* What makes it inductive: a grant's reference is derived from its amount and
\* its trimmed note, and nothing else is.
GrantsAreNamed ==
    \A e \in ledger :
        e.reason = "grant" => e.ref = grantReference(e.delta, Plain(e.ref.note.text))

BooksTypeOK ==
    /\ clock \in Times
    /\ org \in [Orgs -> OrgRow]
    /\ ledger \subseteq Entry
    /\ used \subseteq Ids

BooksInv == BooksTypeOK /\ GrantsAreNamed /\ GrantedOnce

\* What the sums need besides: the ledger is finite, an identifier names one
\* entry, and no entry is from the future.
EntriesAreDistinct ==
    /\ IsFiniteSet(ledger)
    /\ \A e, f \in ledger : e.id = f.id => e = f
    /\ \A e \in ledger : e.id \in used /\ e.at <= clock

\* The three views of one ledger agree, at every boundary of a month and on
\* ties of the timestamp: a statement closes where the next one opens, adds up
\* line by line, the current one closes at the balance the summary shows with
\* the same month-to-date sums, the newest running balance is that balance, and
\* the running balances of a usage page, whatever its first day hides, each
\* continue the one before it.  The pages of GET /v1/usage show the balance and
\* no entry twice, and pass over an entry only where the coarser clock of the
\* cursor cannot tell it from one they show.
BooksAgree ==
    \A o \in Orgs :
        LET current == getMonthlyStatement(o, clock \div MonthLength)
            shown   == billingPage(o)
        IN  /\ \A m \in Months :
                   LET s == getMonthlyStatement(o, m)
                   IN  /\ s.closing = getMonthlyStatement(o, m + 1).opening
                       /\ s.closing = s.opening + s.granted - s.consumed + s.refunded
            /\ current.closing = shown.summary.balance
            /\ current.granted = shown.summary.granted
            /\ current.consumed = shown.summary.consumed
            /\ \A running \in shown.newest : running = shown.summary.balance
            /\ \A from \in Times :
                   LET usage == usagePage(o, from)
                   IN  /\ usage.balance = shown.summary.balance
                       /\ \A x, y \in usage.ledger :
                              UpTo(y.entry) \ UpTo(x.entry) = {y.entry} =>
                                  y.running = x.running + y.entry.delta
            /\ \A unit \in 1 .. 2 :
                 \A cursor \in {{}} \cup {encodeCursor(e, unit) : e \in EntriesOf(o)} :
                   LET page == getUsageSummary(o, cursor, 1, unit)
                       rest == IF page.next = {} THEN {} ELSE Beyond(o, page.next)
                   IN  /\ page.balance = shown.summary.balance
                       /\ rest \cap page.entries = {}
                       /\ \A e \in Beyond(o, cursor) \ rest : \E f \in page.entries :
                              e.at \div unit = f.at \div unit /\ (unit = 1 => e = f)

\* An entry goes only when the accounting retention is over by the clock of
\* the database, whatever cutoff the worker computed, leap days included.
LedgerKept == [][\A e \in ledger \ ledger' : e.at + LedgerRetention <= clock]_books

\* The retention sweep never moves the balance of an organisation in use: the
\* balance is the sum of an append-only ledger whose history is never
\* rewritten.  What purgeExpiredLedgerEntries deletes is no longer summed.
BalanceKept ==
    [][purgeExpiredLedgerEntries =>
          \A o \in Orgs : Active(o) => getCreditBalance(o)' = getCreditBalance(o)]_books
=============================================================================
