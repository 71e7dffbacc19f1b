------------------------------ MODULE Retention ------------------------------
(***************************************************************************)
(* What the product keeps and for how long: check, batch, invoice and lead *)
(* rows, batch files, export archives and statements in object storage,    *)
(* the ledger of Billing, and the organisations themselves; the calls of   *)
(* the API, the worker and the command line that write them; and the       *)
(* hourly sweep (runLifecycleSweep) that removes them, step by step, with  *)
(* storage calls that fail half-way and a process that may die anywhere.   *)
(***************************************************************************)
EXTENDS Billing, Sequences

CONSTANTS
    Retentions,     \* RETENTION_CHOICES
    DefaultRetention,  \* organizations.retention_days as inserted
    LeadRetention,  \* LEAD_RETENTION_DAYS
    Grace,          \* ORG_PURGE_GRACE_DAYS
    LinkTtl,        \* EXPORT_LINK_TTL_SECONDS, EXPORT_OBJECT_TTL_MS
    StatementTtl,   \* STATEMENT_LINK_TTL_SECONDS
    Stock,          \* ids of the checks one organisation has to begin with
    MaxCall,        \* the longest a request, job or command is under way
    PageSize,       \* EXPORT_PAGE_SIZE and the sweep's batchPageSize
    MaxSweep,       \* the longest run of the sweep
    MaxFaults       \* bound: storage, database and process failures

ASSUME RetentionAssumption ==
    /\ Retentions \subseteq Nat \ {0} /\ DefaultRetention \in Retentions
    /\ LeadRetention \in Nat \ {0}
    /\ Grace \in Nat /\ LinkTtl \in Nat /\ MaxCall \in Nat
    /\ MaxCall < Grace      \* no call outlives the grace period
    /\ LinkTtl < Grace
    /\ StatementTtl \in Nat /\ StatementTtl < Grace
    /\ PageSize \in Nat \ {0}
    /\ Stock \subseteq Ids
    /\ MaxSweep \in Nat /\ MaxFaults \in Nat
    /\ "no organisation" \notin Orgs    \* NoOrg, below

VARIABLES
    rows,     \* email_checks, phone_checks, batches, invoice_requests, leads
    objects,  \* keys in object storage
    links,    \* links handed out: the archive or statement, and expires_at as told
    calls,    \* uploads under way, each begun for an active organisation
    sweep,    \* the run of the sweep: its step, its `now`, what it has listed
    faults    \* failures so far

vars == <<clock, org, ledger, used, rows, objects, links, calls, sweep, faults>>

NoOrg == "no organisation"

Row ==
    [id : Ids, kind : {"check", "batch", "invoice", "lead"}, org : Orgs \cup {NoOrg},
     expires : Nat, erased : BOOLEAN]

Object == [id : Ids, kind : {"input", "export", "statement"}, org : Orgs, at : Times]

Call ==
    [id : Ids, kind : {"batch", "statement", "export"}, org : Orgs, at : Times,
     category : 0 .. 3, after : Nat, copied : SUBSET Ids, there : SUBSET Ids]

Steps ==
    {"idle", "checks", "batches", "batchObjects", "batchRows", "orgs", "nextOrg",
     "orgObjects", "relist", "purge", "leads", "exports", "exportObjects", "ledger", "retire"}

\* `current` holds the organisation under purge, `page` the batches of a page.
Sweep ==
    [step : Steps, now : Times, due : SUBSET Orgs, current : SUBSET Orgs,
     page : SUBSET Ids, keys : SUBSET Object]

Idle ==
    [step |-> "idle", now |-> 0, due |-> {}, current |-> {}, page |-> {}, keys |-> {}]

TypeOK ==
    /\ BooksTypeOK
    /\ rows \subseteq Row
    /\ objects \subseteq Object
    /\ links \subseteq [id : Ids, until : Nat]
    /\ calls \subseteq Call
    /\ sweep \in Sweep
    /\ faults \in 0 .. MaxFaults

NewRow(id, kind, o, expires) ==
    [id |-> id, kind |-> kind, org |-> o, expires |-> expires, erased |-> FALSE]

Init ==
    /\ clock = 0
    /\ org = [o \in Orgs |-> NewOrg(DefaultRetention)]
    /\ \E o \in Orgs : rows = {NewRow(id, "check", o, DefaultRetention) : id \in Stock}
    /\ used = Stock
    /\ ledger = {} /\ objects = {} /\ links = {} /\ calls = {}
    /\ sweep = Idle
    /\ faults = 0

-----------------------------------------------------------------------------
(* The product *)

NewObject(call, kind) == [id |-> call.id, kind |-> kind, org |-> call.org, at |-> call.at]

\* An upload is there when it is complete, and not before.
uploadStream(call, kind) == objects' = objects \cup {NewObject(call, kind)}

Insert(id, kind, o, expires) ==
    /\ rows' = rows \cup {NewRow(id, kind, o, expires)}
    /\ used' = used \cup {id}
    /\ UNCHANGED <<clock, org, ledger, objects, links, calls, sweep, faults>>

\* A check, inserted for an active organisation with its expiry.
CreateCheck(o, id) ==
    /\ Active(o)
    /\ Insert(id, "check", o, clock + org[o].retention)

\* The session of a billing request: sealed cookies outlive their organisation,
\* so the database is asked (Accounts has the session itself).
requireSession(o) == Active(o)

\* The transaction finds the organisation active too.
createInvoiceRequest(o, id) ==
    /\ Active(o)
    /\ Insert(id, "invoice", o, Never)

\* POST /internal/billing/invoice-request, for a known plan.
postInvoiceRequest(o, id) == requireSession(o) /\ createInvoiceRequest(o, id)

\* POST /public/leads, once past the honeypot, the window of the address and
\* the validation of the e-mail, any of which stores nothing.
SubmitLead(id) == Insert(id, "lead", NoOrg, clock + LeadRetention)

\* An erasure request marks the lead deleted_at: the next sweep takes it.
EraseLead(row) ==
    /\ row \in rows /\ row.kind = "lead" /\ ~row.erased
    /\ rows' = (rows \ {row}) \cup {[row EXCEPT !.erased = TRUE]}
    /\ UNCHANGED <<books, objects, links, calls, sweep, faults>>

\* The retention of rows to come; what is stored keeps its own expiry.
updateOrgSettings(o, retention) ==
    /\ Active(o)
    /\ org' = [org EXCEPT ![o].retention = retention]
    /\ UNCHANGED <<clock, ledger, used, rows, objects, links, calls, sweep, faults>>

\* POST /internal/settings refuses any other number of days.
postSettings(o) == \E days \in Retentions \ {org[o].retention} : updateOrgSettings(o, days)

deleteOrganization(o) ==
    /\ softDeleteOrganization(o)
    /\ UNCHANGED <<rows, objects, links, calls, sweep, faults>>

\* Of the ledger only that there are entries, and how old: Billing has the rest.
Grant(o, id) ==
    /\ billingGrantCommand(o, id)
    /\ UNCHANGED <<rows, objects, links, calls, sweep, faults>>

-----------------------------------------------------------------------------
(* Calls that store objects: begun for an active organisation, they end    *)
(* later, when it may be gone.  One that fails stores nothing, as if it    *)
(* had never begun.                                                        *)

\* The files of the archive: e-mail and phone checks, batches, the ledger
\* (audit events are not modelled).
Categories == <<"check", "batch", "ledger">>

\* What the pagers of one category select, by id.
Exported(o, category) ==
    IF Categories[category] = "ledger"
    THEN {e.id : e \in EntriesOf(o)}
    ELSE {r.id : r \in {q \in rows : q.org = o /\ q.kind = Categories[category]}}

Present(o) == UNION {Exported(o, category) : category \in DOMAIN Categories}

NewCall(kind, o, id) ==
    [id |-> id, kind |-> kind, org |-> o, at |-> clock,
     category |-> IF kind = "export" THEN 1 ELSE 0, after |-> 0, copied |-> {},
     there |-> IF kind = "export" THEN Present(o) ELSE {}]

\* The session, key or command names an active organisation at this point only.
BeginCall(kind, o, id) ==
    /\ Active(o)
    /\ calls' = calls \cup {NewCall(kind, o, id)}
    /\ used' = used \cup {id}
    /\ UNCHANGED <<clock, org, ledger, rows, objects, links, sweep, faults>>

\* POST /v1/batches (Batches has the worker's part): the input is stored, then
\* the row is inserted for an organisation that is still active; otherwise the
\* input is deleted again.
createBatch(call) ==
    /\ call \in calls /\ call.kind = "batch"
    /\ calls' = calls \ {call}
    /\ IF Active(call.org)
       THEN /\ uploadStream(call, "input")
            /\ rows' = rows \cup {NewRow(call.id, "batch", call.org,
                                         clock + org[call.org].retention)}
       ELSE UNCHANGED <<objects, rows>>
    /\ UNCHANGED <<books, links, sweep, faults>>

\* That clean-up fails too: the input stays until the organisation goes.
createBatchUncleaned(call) ==
    /\ call \in calls /\ call.kind = "batch"
    /\ ~Active(call.org)
    /\ faults < MaxFaults /\ faults' = faults + 1
    /\ calls' = calls \ {call}
    /\ uploadStream(call, "input")
    /\ UNCHANGED <<books, rows, links, sweep>>

\* billing:statement looks the organisation up, then renders and stores.
billingStatementCommand(call) ==
    /\ call \in calls /\ call.kind = "statement"
    /\ calls' = calls \ {call}
    /\ uploadStream(call, "statement")
    /\ UNCHANGED <<books, rows, links, sweep, faults>>

\* Wrong on purpose: a full last page ends the category.
pageShort(ids, after) ==
    LET rest == {i \in ids : i > after}
        next == {i \in rest : Cardinality({j \in rest : j < i}) < PageSize}
    IN  [rows |-> next, next |-> IF Cardinality(next) <= PageSize THEN 0 ELSE Max(next)]

\* One keyset page: the next ids in order, and where to go on; 0 ends.
page(ids, after) ==
    LET rest == {i \in ids : i > after}
        next == {i \in rest : Cardinality({j \in rest : j < i}) < PageSize}
    IN  [rows |-> next, next |-> IF Cardinality(next) < PageSize THEN 0 ELSE Max(next)]

CopyPage(call) ==
    /\ call \in calls /\ call.kind = "export" /\ call.category \in 1 .. 3
    /\ LET p == page(Exported(call.org, call.category), call.after)
       IN  calls' = (calls \ {call}) \cup
                        {[call EXCEPT !.copied = @ \cup p.rows, !.after = p.next,
                                      !.category = IF p.next # 0 THEN @
                                                   ELSE IF @ = 3 THEN 0 ELSE @ + 1]}
    /\ UNCHANGED <<books, rows, objects, links, sweep, faults>>

\* The archive is complete in storage and the link is signed: its time counts
\* from the beginning of the call, which is also what the key says.
buildOrgDataExport(call) ==
    /\ call \in calls /\ call.kind = "export" /\ call.category = 0
    /\ calls' = calls \ {call}
    /\ uploadStream(call, "export")
    /\ links' = links \cup {[id |-> call.id, until |-> call.at + LinkTtl]}
    /\ UNCHANGED <<books, rows, sweep, faults>>

\* POST /internal/billing/statements/link: a statement that is in storage, under
\* the prefix of the session's own organisation, is signed as often as asked.
postStatementLink(object) ==
    /\ requireSession(object.org)
    /\ object \in objects /\ object.kind = "statement"
    /\ links' = links \cup {[id |-> object.id, until |-> clock + StatementTtl]}
    /\ UNCHANGED <<books, rows, objects, calls, sweep, faults>>

EndCall ==
    \E call \in calls :
        \/ createBatch(call)
        \/ billingStatementCommand(call)
        \/ CopyPage(call)
        \/ buildOrgDataExport(call)

-----------------------------------------------------------------------------
(* The sweep *)

At(step) == sweep.step = step

Goto(step) == sweep' = [sweep EXCEPT !.step = step]

StartSweep ==
    /\ At("idle")
    /\ sweep' = [Idle EXCEPT !.step = "checks", !.now = clock]
    /\ UNCHANGED <<books, rows, objects, links, calls, faults>>

Expired(kind) == {r \in rows : r.kind = kind /\ r.expires <= sweep.now}

purgeExpiredChecks ==
    /\ At("checks")
    /\ rows' = rows \ Expired("check")
    /\ Goto("batches")
    /\ UNCHANGED <<books, objects, links, calls, faults>>

KeysOf(batches) == {x \in objects : \E b \in batches : x.id = b.id}

\* A page of expired batches, in no order, or none: then the organisations.
listExpiredBatches ==
    /\ At("batches")
    /\ IF Expired("batch") = {}
       THEN Goto("orgs")
       ELSE \E listed \in SUBSET Expired("batch") :
                /\ listed # {} /\ Cardinality(listed) <= PageSize
                /\ sweep' = [sweep EXCEPT !.step = "batchObjects",
                                          !.page = {b.id : b \in listed},
                                          !.keys = KeysOf(listed)]
    /\ UNCHANGED <<books, rows, objects, links, calls, faults>>

\* deleteObjects reports success only when every key is gone.
deleteObjects(step, next) ==
    /\ At(step)
    /\ objects' = objects \ sweep.keys
    /\ sweep' = [sweep EXCEPT !.step = next, !.keys = {}]
    /\ UNCHANGED <<books, rows, links, calls, faults>>

\* Wrong on purpose: the rows go first.
rowsFirst ==
    /\ At("batchObjects")
    /\ rows' = {r \in rows : r.id \notin sweep.page}
    /\ Goto("batchRows")
    /\ UNCHANGED <<books, objects, links, calls, faults>>

deleteBatchObjects == deleteObjects("batchObjects", "batchRows")

deleteBatchesByIds ==
    /\ At("batchRows")
    /\ rows' = {r \in rows : r.id \notin sweep.page}
    /\ sweep' = [sweep EXCEPT !.step = "batches", !.page = {}]
    /\ UNCHANGED <<books, objects, links, calls, faults>>

\* On to the next due organisation, or past them.
WithDue(due) == [sweep EXCEPT !.step = IF due = {} THEN "leads" ELSE "nextOrg",
                              !.due = due, !.current = {}]

\* Wrong on purpose: no grace period.
listDeleted ==
    /\ At("orgs")
    /\ sweep' = WithDue({o \in Orgs : org[o].state = "deleted"})
    /\ UNCHANGED <<books, rows, objects, links, calls, faults>>

listOrganizationsDueForPurge ==
    /\ At("orgs")
    /\ sweep' = WithDue({o \in Orgs : /\ org[o].state = "deleted"
                                      /\ org[o].deletedAt <= sweep.now - Grace})
    /\ UNCHANGED <<books, rows, objects, links, calls, faults>>

UnderPrefix(o) == {x \in objects : x.org = o}

\* The keys under the prefix, which go next if there are any.
listKeys(o) ==
    /\ At("nextOrg") /\ o \in sweep.due
    /\ sweep' = [sweep EXCEPT !.step = IF UnderPrefix(o) = {} THEN "relist" ELSE "orgObjects",
                              !.due = @ \ {o}, !.current = {o}, !.keys = UnderPrefix(o)]
    /\ UNCHANGED <<books, rows, objects, links, calls, faults>>

deleteOrgObjects == deleteObjects("orgObjects", "relist")

\* A key under the prefix after all: the run throws, nothing is marked.
relistKeys(o) ==
    /\ At("relist") /\ o \in sweep.current
    /\ sweep' = IF UnderPrefix(o) = {} THEN [sweep EXCEPT !.step = "purge"] ELSE Idle
    /\ UNCHANGED <<books, rows, objects, links, calls, faults>>

hardDeleteOrganizationData(o) ==
    /\ At("purge") /\ o \in sweep.current
    /\ rows' = {r \in rows : r.org # o}
    /\ org' = [org EXCEPT ![o].state = "purged"]
    /\ sweep' = WithDue(sweep.due)
    /\ UNCHANGED <<clock, ledger, used, objects, links, calls, faults>>

\* Wrong on purpose: an erasure request is not seen.
purgeByExpiryOnly ==
    /\ At("leads")
    /\ rows' = rows \ Expired("lead")
    /\ Goto("exports")
    /\ UNCHANGED <<books, objects, links, calls, faults>>

purgeExpiredLeads ==
    /\ At("leads")
    /\ rows' = rows \ (Expired("lead") \cup {r \in rows : r.kind = "lead" /\ r.erased})
    /\ Goto("exports")
    /\ UNCHANGED <<books, objects, links, calls, faults>>

\* Wrong on purpose: the boundary belongs to the other side.
staleAtOnce(object) == object.kind = "export" /\ sweep.now - object.at >= LinkTtl

\* exportKeyCreatedAtMs against the sweep's clock.
Stale(object) == object.kind = "export" /\ sweep.now - object.at > LinkTtl

listStaleExports ==
    /\ At("exports")
    /\ LET stale == {x \in objects : Stale(x)}
       IN  sweep' = [sweep EXCEPT !.step = IF stale = {} THEN "ledger" ELSE "exportObjects",
                                  !.keys = stale]
    /\ UNCHANGED <<books, rows, objects, links, calls, faults>>

deleteExportObjects == deleteObjects("exportObjects", "ledger")

\* The trigger's refusal fails the run; the next one tries again.
purgeLedger ==
    /\ At("ledger")
    /\ IF PurgeRaises(sweep.now)
       THEN /\ sweep' = Idle
            /\ UNCHANGED ledger
       ELSE /\ ledger' = ledger \ PurgeTargets(sweep.now)
            /\ Goto("retire")
    /\ UNCHANGED <<clock, org, used, rows, objects, links, calls, faults>>

\* The last rows go, and the run is audited.
deleteRetiredOrganizations ==
    /\ At("retire")
    /\ org' = [o \in Orgs |-> IF org[o].state = "purged" /\ EntriesOf(o) = {}
                               THEN [org[o] EXCEPT !.state = "removed"] ELSE org[o]]
    /\ sweep' = Idle
    /\ UNCHANGED <<clock, ledger, used, rows, objects, links, calls, faults>>

SweepStep ==
    \/ StartSweep
    \/ purgeExpiredChecks
    \/ listExpiredBatches
    \/ deleteBatchObjects
    \/ deleteBatchesByIds
    \/ listOrganizationsDueForPurge
    \/ \E o \in Orgs : listKeys(o) \/ relistKeys(o) \/ hardDeleteOrganizationData(o)
    \/ deleteOrgObjects
    \/ purgeExpiredLeads
    \/ listStaleExports
    \/ deleteExportObjects
    \/ purgeLedger
    \/ deleteRetiredOrganizations

\* A call of the sweep fails or its process dies.  A deletion may have
\* removed any of its keys by then; a failed run keeps nothing it had listed.
SweepFails ==
    /\ ~At("idle")
    /\ faults < MaxFaults /\ faults' = faults + 1
    /\ \E gone \in SUBSET sweep.keys :
           /\ At("batchObjects") \/ At("orgObjects") \/ At("exportObjects") \/ gone = {}
           /\ objects' = objects \ gone
    /\ sweep' = Idle
    /\ UNCHANGED <<books, rows, links, calls>>

-----------------------------------------------------------------------------

\* Time passes, but no call is under way for longer than MaxCall, and no run
\* of the sweep for longer than MaxSweep.
Tick ==
    /\ clock < Horizon
    /\ At("idle") \/ clock < sweep.now + MaxSweep
    /\ \A call \in calls : clock < call.at + MaxCall
    /\ clock' = clock + 1
    /\ UNCHANGED <<org, ledger, used, rows, objects, links, calls, sweep, faults>>

Product ==
    \/ \E id \in Fresh :
           \/ \E o \in Orgs :
                  \/ CreateCheck(o, id)
                  \/ postInvoiceRequest(o, id)
                  \/ Grant(o, id)
                  \/ \E kind \in {"batch", "statement", "export"} : BeginCall(kind, o, id)
           \/ SubmitLead(id)
    \/ \E row \in rows : EraseLead(row)
    \/ \E object \in objects : postStatementLink(object)
    \/ \E o \in Orgs :
           \/ postSettings(o)
           \/ deleteOrganization(o)

Faults ==
    \/ \E call \in calls : createBatchUncleaned(call)
    \/ SweepFails

Next == Product \/ EndCall \/ SweepStep \/ Faults \/ Tick

\* The sweep is scheduled every hour and a run that began goes on.
Spec ==
    /\ Init /\ [][Next]_vars
    /\ WF_vars(SweepStep)

-----------------------------------------------------------------------------
(* Properties *)

\* Once purged_at is set nothing of the organisation is left but its ledger:
\* no row and no object under its prefix, although uploads begun before the
\* deletion ended after it and runs of the sweep failed half-way.
PurgedIsEmpty ==
    \A o \in Orgs :
        org[o].state \in {"purged", "removed"} =>
            /\ \A r \in rows : r.org # o
            /\ UnderPrefix(o) = {}

\* A link to an archive or a statement works until the expires_at its owner was
\* told: neither the sweep of stale archives nor the purge of the organisation
\* is earlier.
LinkWorks ==
    \A l \in links : clock <= l.until => \E x \in objects : x.id = l.id

\* A finished archive holds every row that was there from the beginning of the
\* export to its end, whatever was inserted, settled and swept between pages.
ExportIsComplete ==
    \A call \in calls :
        (call.kind = "export" /\ call.category = 0) =>
            (call.there \cap Present(call.org)) \subseteq call.copied

\* While the organisation is in use no batch file is without the row that
\* names it: the rows go after their objects, and a run that fails between the
\* two leaves rows, not files.
FilesAreTracked ==
    \A x \in objects :
        (x.kind = "input" /\ Active(x.org)) => \E r \in rows : r.kind = "batch" /\ r.id = x.id

OverdueIds ==
    {r.id : r \in {q \in rows : q.expires <= clock \/ q.erased}}
        \cup {x.id : x \in {y \in objects : y.kind = "export" /\ y.at + LinkTtl < clock}}
        \cup {e.id : e \in {f \in ledger : f.at + LedgerRetention <= clock}}

OverdueOrgs ==
    {o \in Orgs : \/ org[o].state = "deleted" /\ org[o].deletedAt + Grace <= clock
                  \/ org[o].state = "purged" /\ EntriesOf(o) = {}}

\* What the sweep is for: when the product rests, every row past its expiry,
\* erased lead, stale archive and old ledger entry is removed in the end, every
\* deleted organisation is purged and, its ledger gone, removed, though runs
\* failed half-way and a leap day made the ledger's trigger refuse.
Swept == <>[](OverdueIds = {} /\ OverdueOrgs = {})

-----------------------------------------------------------------------------
(* What makes the safety properties inductive *)

\* Whatever has an identifier drew it.
IdsOK ==
    /\ \A r \in rows : r.id \in used
    /\ \A x \in objects : x.id \in used
    /\ \A e \in ledger : e.id \in used
    /\ \A c \in calls : c.id \in used /\ c.there \subseteq used
    /\ sweep.page \subseteq used

\* The identifier of a call under way is nobody else's, so what the call stores
\* in the end is in no page of the sweep and in no archive begun before.
CallIdsOK ==
    \A c \in calls :
        /\ c.id \notin sweep.page
        /\ \A r \in rows : r.id # c.id
        /\ \A x \in objects : x.id # c.id
        /\ \A e \in ledger : e.id # c.id
        /\ \A d \in calls : c.id \notin d.there /\ (d.id = c.id => d = c)

\* Only a batch's files share the identifier of a row.
RowObjectsOK == \A r \in rows, x \in objects : r.id = x.id => x.kind = "input"

\* A call began no longer ago than MaxCall, for an organisation that was not
\* deleted then.
CallTimesOK ==
    \A c \in calls :
        /\ c.at <= clock /\ clock <= c.at + MaxCall
        /\ \/ Active(c.org)
           \/ org[c.org].state = "deleted" /\ c.at <= org[c.org].deletedAt

\* What the sweep has still to purge has been deleted for the grace period; it
\* purges one organisation at a time.
DueOK ==
    /\ sweep.now <= clock
    /\ sweep.due \cap sweep.current = {}
    /\ \A o, p \in sweep.current : o = p
    /\ \A o \in sweep.due \cup sweep.current :
           org[o].state = "deleted" /\ org[o].deletedAt + Grace <= sweep.now

\* What the sweep has listed, by its step, and what it has found gone.
KeysOK ==
    /\ At("batchObjects") =>
           /\ \A x \in sweep.keys : x.kind = "input"
           /\ \A x \in objects : x.id \in sweep.page => x \in sweep.keys
    /\ At("batchRows") => \A x \in objects : x.id \notin sweep.page
    /\ At("orgObjects") => \A x \in sweep.keys : x.org \in sweep.current
    /\ At("purge") => \A x \in objects : x.org \notin sweep.current
    /\ At("exportObjects") => \A x \in sweep.keys : x.kind = "export" /\ x.at + LinkTtl < sweep.now

\* FilesAreTracked, by a row of the same organisation.
TracksOK ==
    \A x \in objects :
        (x.kind = "input" /\ Active(x.org)) =>
            \E r \in rows : r.kind = "batch" /\ r.id = x.id /\ r.org = x.org

\* What a link that still works is for: no batch's file, no archive that is
\* stale before, and nothing whose organisation is purged before.
Backs(x, l) ==
    /\ x.id = l.id /\ x.kind \in {"export", "statement"}
    /\ x.kind = "export" => l.until <= x.at + LinkTtl
    /\ \/ Active(x.org) /\ l.until < clock + Grace
       \/ org[x.org].state = "deleted" /\ l.until < org[x.org].deletedAt + Grace
LinksOK == \A l \in links : clock <= l.until => \E x \in objects : Backs(x, l)

\* What an export has not copied is ahead of it, if it is still there.
Ahead(call, category, id) ==
    \/ call.category # 0 /\ category > call.category
    \/ category = call.category /\ id > call.after
ExportsOK ==
    \A call \in calls :
        call.kind = "export" =>
            \A category \in 1 .. 3 :
                \A id \in call.there \cap Exported(call.org, category) :
                    id \in call.copied \/ Ahead(call, category, id)

IndInv ==
    /\ TypeOK /\ GrantsAreNamed /\ GrantedOnce
    /\ IdsOK /\ CallIdsOK /\ RowObjectsOK /\ CallTimesOK /\ DueOK /\ KeysOK
    /\ TracksOK /\ LinksOK /\ ExportsOK /\ PurgedIsEmpty
=============================================================================
