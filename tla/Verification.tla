---------------------------- MODULE Verification ----------------------------
(***************************************************************************)
(* One POST /verify of the Go engine and the verdict its caller draws from *)
(* the answer: the MX lookup, the SMTP conversation with the domain's mail *)
(* servers in order of preference, the response contract, and aggregate.   *)
(*                                                                         *)
(* Servers are free to reply anything at any stage, drop the connection or *)
(* break the TLS upgrade; the request's deadline may pass between any two  *)
(* steps, after which every dial fails and every conversation is cut.      *)
(***************************************************************************)
EXTENDS Verdicts, DomainTypo

CONSTANTS
    MaxHosts,       \* bound: mail servers of a domain
    MaxDials,       \* bound: the conversations with one host that are counted
    DomainName,     \* domains of the addresses checked
    ProbedDomain    \* bound: those of them whose mailboxes are probed

ASSUME VerificationAssumption ==
    /\ MaxHosts \in Nat \ {0} /\ MaxDials \in Nat
    /\ DomainName \subseteq Seq(STRING) /\ ProbedDomain \subseteq DomainName
    /\ Null = NoTypo

VARIABLES
    pc,         \* the stage of the request
    ctx,        \* the request's context: "live" or "done"
    req,        \* what was asked: smtp, catch_all, and the process's SMTP switch
    valid,      \* ParseAddress accepted the address
    mx,         \* the MX result of the response
    hosts,      \* mail servers left to try, the first is being talked to
    tls,        \* the conversation may try STARTTLS
    smtp,       \* the SMTP result of the response, Null until set
    result,     \* what aggregate returned, Null until then
    dials,      \* history: conversations begun, per host
    heard       \* history: what the lookup and the RCPT commands were answered,
                \* and whether a server answered at all

vars == <<pc, ctx, req, valid, mx, hosts, tls, smtp, result, dials, heard>>
requestVars == <<req, valid>>

-----------------------------------------------------------------------------
(* Replies.                                                                *)

\* A reply is its code and the classes of words (or enhanced codes) found in
\* its text; "drop" is a connection that ended without one.
Hint == {"blocked", "full", "disabled", "unknown"}
Code == {250, 450, 550, 554}
Dropped == [code |-> 0, hints |-> {}]
Reply == [code : Code, hints : SUBSET Hint] \cup {Dropped}
Accepts(reply) == reply.code \in 200..299

ASSUME ReplyAssumption == Null \notin Reply

classifyReply(reply) ==
    CASE reply = Dropped -> "other"
      [] reply.code \in 200..299 -> "accepted"
      [] reply.code \in 400..499 ->
           IF "full" \in reply.hints THEN "full"
           ELSE IF "unknown" \in reply.hints THEN "unknown"
           ELSE "temporary"
      [] OTHER ->
           IF "blocked" \in reply.hints THEN "blocked"
           ELSE IF "full" \in reply.hints THEN "full"
           ELSE IF "disabled" \in reply.hints THEN "disabled"
           ELSE IF "unknown" \in reply.hints \/ reply.code \in {550, 551, 553} THEN "unknown"
           ELSE "other"

\* The replies a server can still give: none once the context has ended.
Replies == IF ctx = "done" THEN {Dropped} ELSE Reply

NoSmtp == [attempted |-> FALSE, mailbox_accepted |-> FALSE, catch_all |-> FALSE,
           full_inbox |-> FALSE, disabled |-> FALSE, error |-> FALSE]
Attempted == [NoSmtp EXCEPT !.attempted = TRUE]
NotHeard == [lookup |-> Null, random |-> Null, mailbox |-> Null, answered |-> FALSE]

Stage == {"parse", "mx", "probe", "dial", "greeting", "helo", "starttls", "mail",
          "random", "rcpt", "aggregate", "done"}

Init ==
    /\ pc = "parse"
    /\ ctx = "live"
    /\ req \in [smtp : BOOLEAN, catch_all : BOOLEAN, enabled : BOOLEAN]
    /\ valid \in BOOLEAN
    /\ mx = [has_mx |-> FALSE, error |-> FALSE]
    /\ hosts = <<>>
    /\ tls = TRUE
    /\ smtp = Null
    /\ result = Null
    /\ dials = [h \in 1..MaxHosts |-> 0]
    /\ heard = NotHeard

-----------------------------------------------------------------------------
(* The end of a probe.                                                     *)

Respond(s) == smtp' = s /\ pc' = "aggregate"

\* The probe could not conclude: a probeError, or the context's error.
ProbeFails ==
    /\ Respond([Attempted EXCEPT !.error = TRUE])
    /\ UNCHANGED <<hosts, tls>>

\* Wrong on purpose: the host that could not be reached is tried for ever.
NextHostNever ==
    IF ctx = "done" THEN ProbeFails
    ELSE /\ pc' = "dial" /\ UNCHANGED <<hosts, tls, smtp>>

\* An error that is not an answer: the next host, unless the context ended or
\* there is none.
NextHost ==
    IF ctx = "done" \/ Len(hosts) = 1
    THEN ProbeFails
    ELSE /\ pc' = "dial" /\ hosts' = Tail(hosts) /\ tls' = TRUE
         /\ UNCHANGED smtp

\* A server refused HELO or MAIL FROM, or dropped the connection there; only
\* at the greeting is a dropped connection told apart.
stageError(reply) ==
    /\ heard' = [heard EXCEPT !.answered = TRUE]
    /\ ProbeFails

-----------------------------------------------------------------------------
(* runVerify.                                                              *)

\* decodeVerifyRequest let the body through; an address that does not parse is
\* answered without any lookup.
ParseAddress ==
    /\ pc = "parse"
    /\ IF valid THEN pc' = "mx" /\ UNCHANGED smtp
       ELSE Respond(IF req.smtp THEN NoSmtp ELSE Null)
    /\ UNCHANGED <<ctx, requestVars, mx, hosts, tls, result, dials, heard>>

\* Wrong on purpose: a failed lookup is taken for a domain without servers.
mxResultPessimistic(found) ==
    [has_mx |-> found = "records", error |-> FALSE]

\* An authoritative NXDOMAIN is an answer; a timeout, SERVFAIL or the deadline
\* is not.
Answer == {"records", "none", "nxdomain", "failure"}
Lookup == IF ctx = "done" THEN {"failure"} ELSE Answer
mxResult(found) ==
    CASE found = "records" -> [has_mx |-> TRUE, error |-> FALSE]
      [] found \in {"none", "nxdomain"} -> [has_mx |-> FALSE, error |-> FALSE]
      [] found = "failure" -> [has_mx |-> Null, error |-> TRUE]

lookupMX ==
    /\ pc = "mx"
    /\ \E found \in Lookup :
         mx' = mxResult(found) /\ heard' = [heard EXCEPT !.lookup = found]
    /\ pc' = IF req.smtp THEN "probe" ELSE "aggregate"
    /\ UNCHANGED <<ctx, requestVars, hosts, tls, smtp, result, dials>>

\* probeSMTP, then probeMailbox's own MX lookup, which may answer differently.
probeSMTP ==
    /\ pc = "probe"
    /\ IF ~req.enabled
       THEN Respond([NoSmtp EXCEPT !.disabled = TRUE]) /\ UNCHANGED hosts
       ELSE IF mx.error \/ mx.has_mx = FALSE
       THEN Respond([NoSmtp EXCEPT !.error = TRUE]) /\ UNCHANGED hosts
       ELSE \/ Respond([Attempted EXCEPT !.error = TRUE]) /\ UNCHANGED hosts
            \/ /\ ctx = "live"
               /\ \E n \in 1..MaxHosts : hosts' = [i \in 1..n |-> i]
               /\ pc' = "dial" /\ UNCHANGED smtp
    /\ UNCHANGED <<ctx, requestVars, mx, tls, result, dials, heard>>

dial ==
    /\ pc = "dial"
    /\ \/ /\ ctx = "live"
          /\ dials' = [dials EXCEPT ![Head(hosts)] = IF @ < MaxDials THEN @ + 1 ELSE @]
          /\ pc' = "greeting" /\ UNCHANGED <<hosts, tls, smtp>>
       \/ NextHost /\ UNCHANGED dials
    /\ UNCHANGED <<ctx, requestVars, mx, result, heard>>

greeting ==
    /\ pc = "greeting"
    /\ \E reply \in Replies :
         \/ Accepts(reply) /\ pc' = "helo" /\ UNCHANGED <<hosts, tls, smtp, heard>>
         \/ reply = Dropped /\ NextHost /\ UNCHANGED heard
         \/ reply # Dropped /\ ~Accepts(reply) /\ stageError(reply)
    /\ UNCHANGED <<ctx, requestVars, mx, result, dials>>

\* A server that offers STARTTLS is upgraded when this is the first try.
Hello ==
    /\ pc = "helo"
    /\ \E reply \in Replies, offersTls \in BOOLEAN :
         \/ /\ Accepts(reply)
            /\ pc' = IF offersTls /\ tls THEN "starttls" ELSE "mail"
            /\ UNCHANGED <<hosts, tls, smtp, heard>>
         \/ ~Accepts(reply) /\ stageError(reply)
    /\ UNCHANGED <<ctx, requestVars, mx, result, dials>>

\* A failed upgrade redials the same host once, in plain text.
StartTLS ==
    /\ pc = "starttls"
    /\ \/ ctx = "live" /\ pc' = "mail" /\ UNCHANGED tls
       \/ pc' = "dial" /\ tls' = FALSE
    /\ UNCHANGED <<ctx, requestVars, mx, hosts, smtp, result, dials, heard>>

Mail ==
    /\ pc = "mail"
    /\ \E reply \in Replies :
         \/ /\ Accepts(reply)
            /\ pc' = IF req.catch_all THEN "random" ELSE "rcpt"
            /\ UNCHANGED <<hosts, tls, smtp, heard>>
         \/ ~Accepts(reply) /\ stageError(reply)
    /\ UNCHANGED <<ctx, requestVars, mx, result, dials>>

\* Wrong on purpose: an accepted random recipient does not end the probe.
RcptRandomIgnored ==
    /\ pc = "random"
    /\ \E reply \in Replies : heard' = [heard EXCEPT !.random = Accepts(reply)]
    /\ pc' = "rcpt"
    /\ UNCHANGED <<ctx, requestVars, mx, hosts, tls, smtp, result, dials>>

\* The catch-all test: a random recipient.
RcptRandom ==
    /\ pc = "random"
    /\ \E reply \in Replies :
         LET kind == classifyReply(reply) IN
         /\ heard' = [heard EXCEPT !.random = Accepts(reply), !.answered = TRUE]
         /\ \/ kind = "accepted" /\ Respond([Attempted EXCEPT !.catch_all = TRUE])
            \/ kind \in {"unknown", "full", "disabled"} /\ pc' = "rcpt" /\ UNCHANGED smtp
            \/ /\ kind \in {"blocked", "temporary", "other"}
               /\ Respond([Attempted EXCEPT !.error = TRUE])
    /\ UNCHANGED <<ctx, requestVars, mx, hosts, tls, result, dials>>

\* The mailbox itself.
Rcpt ==
    /\ pc = "rcpt"
    /\ \E reply \in Replies :
         LET kind == classifyReply(reply) IN
         /\ heard' = [heard EXCEPT !.mailbox = reply, !.answered = TRUE]
         /\ Respond([Attempted EXCEPT !.mailbox_accepted = (kind = "accepted"),
                                      !.full_inbox = (kind = "full"),
                                      !.disabled = (kind = "disabled"),
                                      !.error = kind \in {"blocked", "temporary", "other"}])
    /\ UNCHANGED <<ctx, requestVars, mx, hosts, tls, result, dials>>

\* The deadline passes, or the caller goes away.
Expire ==
    /\ ctx = "live" /\ pc \notin {"aggregate", "done"}
    /\ ctx' = "done"
    /\ UNCHANGED <<pc, requestVars, mx, hosts, tls, smtp, result, dials, heard>>

\* The domains with what detectTypo says of them.
Typos == {<<d, detectTypo(d)>> : d \in DomainName}

\* The caller.  Domain, lists and operational condition play no part in the
\* conversation and are read here; the worker has an operational condition
\* exactly when it did not ask for a probe.
Aggregate ==
    /\ pc = "aggregate"
    /\ \E checked \in Typos, disposable, role \in BOOLEAN,
          operational \in {Null} \cup OperationalReason :
         /\ operational # Null => ~req.smtp
         /\ req.smtp => checked[1] \in ProbedDomain
         /\ ~valid => ~disposable /\ ~role
         /\ LET engine == [valid |-> valid, mx |-> mx, disposable |-> disposable,
                           role_account |-> role, smtp |-> smtp]
                typo == IF valid THEN checked[2] ELSE Null
            IN result' = [aggregated |-> aggregate(engine, typo, operational),
                          domain |-> checked[1], typo |-> typo]
    /\ pc' = "done"
    /\ UNCHANGED <<ctx, requestVars, mx, hosts, tls, smtp, dials, heard>>

Next ==
    \/ ParseAddress \/ lookupMX \/ probeSMTP \/ dial \/ greeting \/ Hello
    \/ StartTLS \/ Mail \/ RcptRandom \/ Rcpt \/ Expire \/ Aggregate

Spec == Init /\ [][Next]_vars
\* A goroutine that can go on goes on; every network call has a deadline.
FairSpec == Spec /\ WF_vars(Next)

-----------------------------------------------------------------------------
(* Properties.                                                             *)

History == [lookup : Answer \cup {Null}, random : BOOLEAN \cup {Null},
            mailbox : Reply \cup {Null}, answered : BOOLEAN]

Talking == {"dial", "greeting", "helo", "starttls", "mail", "random", "rcpt"}

\* The stages, the response so far and the histories keep their types, and a
\* conversation always has a host to talk to.
TypeOK ==
    /\ pc \in Stage /\ ctx \in {"live", "done"}
    /\ req \in [smtp : BOOLEAN, catch_all : BOOLEAN, enabled : BOOLEAN]
    /\ valid \in BOOLEAN /\ tls \in BOOLEAN
    /\ mx \in MxResult
    /\ smtp \in SmtpResult \cup {Null}
    /\ hosts \in Seq(1..MaxHosts)
    /\ dials \in [1..MaxHosts -> 0..MaxDials]
    /\ heard \in History
    /\ pc \in Talking => hosts # <<>> /\ req.enabled
    /\ pc \in Talking \cup {"probe"} => req.smtp

Verdict == result.aggregated.verdict
Reasons == {result.aggregated.reason} \cup result.aggregated.cautions

\* A reply that says the mailbox cannot be used: not a policy block, and a
\* temporary refusal only when it names the mailbox.
Refuses(reply) ==
    /\ reply \notin {Null, Dropped} /\ ~Accepts(reply)
    /\ reply.code < 500 => reply.hints \cap {"full", "unknown"} # {}
    /\ reply.code >= 500 => "blocked" \notin reply.hints

\* Not being able to look is not evidence of absence (aggregate.ts): whatever
\* breaks, invalid rests on the address's syntax, on an authoritative answer
\* that the domain has no mail servers, or on a server's refusal of this very
\* mailbox.
InvalidHasEvidence ==
    pc = "done" /\ Verdict = "invalid" =>
      \/ ~valid
      \/ heard.lookup \in {"none", "nxdomain"}
      \/ Refuses(heard.mailbox)

\* valid is given only after a server accepted the mailbox itself and, when the
\* catch-all test was asked for, had refused a random one.
ValidWasAccepted ==
    pc = "done" /\ Verdict = "valid" =>
      /\ heard.mailbox # Null /\ Accepts(heard.mailbox)
      /\ req.catch_all => heard.random = FALSE

-----------------------------------------------------------------------------
(* What makes these two inductive.                                         *)

\* The MX result of the response is what the lookup of this request said.
LookupOK ==
    valid /\ pc \notin {"parse", "mx"} =>
      heard.lookup \in Answer /\ mx = mxResult(heard.lookup)

\* The random recipient was refused before the mailbox is tried.
RandomOK == req.catch_all => heard.random = FALSE

\* The SMTP result of the response follows the replies to this request: a
\* conclusive one (attempted, without an error, no catch-all) says of the
\* mailbox what the server said of it, and one that was not attempted says why
\* unless the address does not parse.
Conclusive == smtp # Null /\ smtp.attempted /\ ~smtp.catch_all /\ ~smtp.error
ProbeOK ==
    /\ smtp # Null => pc \in {"aggregate", "done"}
    /\ smtp # Null /\ ~smtp.attempted /\ valid => smtp.error \/ smtp.disabled
    /\ pc = "rcpt" => RandomOK
    /\ Conclusive =>
         /\ RandomOK
         /\ heard.mailbox \in Reply
         /\ smtp.mailbox_accepted => Accepts(heard.mailbox) /\ ~smtp.disabled
         /\ ~smtp.mailbox_accepted => Refuses(heard.mailbox)

IndInv == TypeOK /\ LookupOK /\ ProbeOK /\ InvalidHasEvidence /\ ValidWasAccepted

-----------------------------------------------------------------------------

\* What a suggestion for d may be, by what edits do and not by what the rows
\* compute.
GoodSuggestion(d, typo) ==
    LET known(i) == KNOWN_PROVIDER_DOMAINS[i]
        index == 1..Len(KNOWN_PROVIDER_DOMAINS)
        listed == d \in KNOWN_SET \cup NEVER_CORRECT
        mapped == d \in DOMAIN STATIC_TYPO_MAP \/ repairTld(d) # NoTypo
        guessable == ~listed /\ ~mapped /\ Len(d) >= MIN_LENGTH_FOR_DISTANCE_MATCH
    IN /\ typo # NoTypo => typo \in KNOWN_SET /\ ~listed
       /\ guessable /\ typo # NoTypo => Within(d, typo, MaxDistance(d))
       /\ guessable =>
            \A i \in index, k \in 0..MaxDistance(d) :
              Within(d, known(i), k) =>
                \E j \in index :
                  /\ typo = known(j)
                  /\ Within(d, typo, k)
                  /\ j <= i \/ \E l \in 0..(k - 1) : Within(d, typo, l)
GoodSuggestions == {pair \in DomainName \X (KNOWN_SET \cup {NoTypo}) :
                      GoodSuggestion(pair[1], pair[2])}

\* A suggestion is a known provider, never for a known or a protected domain;
\* a guess by distance is within the allowed edits, no known domain is closer
\* and none as close comes earlier; without a suggestion no known domain is
\* within reach (detectTypo, closestKnownDomain, levenshtein).
TypoIsClosest ==
    pc = "done" /\ valid => <<result.domain, result.typo>> \in GoodSuggestions

\* Every request is answered, and its answer becomes a verdict.
Answers == <>(pc = "done")

=============================================================================
