------------------------- MODULE VerificationProofs -------------------------
(***************************************************************************)
(* Proofs about Verification, for any number of mail servers, any domains  *)
(* and any tables of providers: the verdicts of aggregate rest on what the *)
(* engine's response says (lemma VerdictRests), the response says what     *)
(* this request's lookup and recipients were answered (LookupOK, ProbeOK), *)
(* so invalid has evidence and valid had a server's acceptance.            *)
(*                                                                         *)
(* The second half is about the suggestion: the rows levenshtein computes  *)
(* are the table of the edit distances of all prefixes (RowsAreTable), an  *)
(* entry of at most two is reached by so many edits and by no fewer        *)
(* (TableIsSound, TableIsComplete), the row cut-off and the length test    *)
(* lose nothing (CutOff, LengthBound), so the suggestion is the closest.   *)
(***************************************************************************)
EXTENDS Verification, FiniteSetTheorems, SequenceTheorems, WellFoundedInduction, TLAPS

\* What a conclusive probe looks like in the response.
Concludes(s) == s # Null /\ s.attempted /\ ~s.catch_all /\ ~s.error

NoServers == [has_mx |-> FALSE, error |-> FALSE]

\* The rules about the probe say invalid only of a conclusive refusal, and have
\* no objection only to an accepted mailbox or to a probe that was not made.
LEMMA SmtpRests ==
    ASSUME NEW s \in SmtpResult
    PROVE  /\ decideSmtp(s) # Null => decideSmtp(s).verdict # "valid"
           /\ decideSmtp(s) # Null /\ decideSmtp(s).verdict = "invalid" =>
                Concludes(s) /\ (~s.mailbox_accepted \/ s.disabled)
           /\ decideSmtp(s) = Null /\ s.attempted =>
                Concludes(s) /\ s.mailbox_accepted /\ ~s.disabled
           /\ decideSmtp(s) = Null /\ ~s.attempted => ~s.error /\ ~s.disabled
  <1>0. s # Null
    BY VerdictsAssumption
  <1>1. /\ Decision("unknown", 50, "CATCH_ALL_DOMAIN") \in SmtpDecision
        /\ Decision("unknown", 50, "SMTP_UNAVAILABLE") \in SmtpDecision
        /\ Decision("unknown", 50, "SMTP_NOT_CHECKED") \in SmtpDecision
        /\ Decision("invalid", 10, "MAILBOX_REJECTED") \in SmtpDecision
        /\ Decision("risky", 45, "MAILBOX_FULL") \in SmtpDecision
        /\ Decision("invalid", 10, "MAILBOX_DISABLED") \in SmtpDecision
    BY DEF Decision, SmtpDecision
  <1>2. QED
    BY <1>0, <1>1, VerdictsAssumption DEF decideSmtp, Concludes, Decision

\* Whatever the lists, the typo signal and the operational condition say:
\* invalid rests on the syntax, on a domain without servers or on a conclusive
\* refusal, and valid on a conclusive acceptance.
LEMMA VerdictRests ==
    ASSUME NEW engine \in EngineResponse, NEW typo,
           NEW operational \in {Null} \cup OperationalReason,
           NEW verdict, verdict = aggregate(engine, typo, operational).verdict
    PROVE  /\ verdict = "invalid" =>
                \/ ~engine.valid
                \/ engine.mx = NoServers
                \/ Concludes(engine.smtp) /\ (~engine.smtp.mailbox_accepted \/ engine.smtp.disabled)
           /\ verdict = "valid" =>
                /\ engine.valid /\ engine.smtp # Null
                /\ engine.smtp.attempted => Concludes(engine.smtp) /\ engine.smtp.mailbox_accepted
                /\ ~engine.smtp.attempted => ~engine.smtp.error /\ ~engine.smtp.disabled
  <1>1. verdict = decide(engine, typo, operational).verdict
    BY DEF aggregate
  <1>2. PICK s : s = engine.smtp
    OBVIOUS
  <1>3. s = Null \/ s \in SmtpResult
    BY <1>2 DEF EngineResponse
  <1>4. engine.valid \in BOOLEAN
    BY DEF EngineResponse
  <1>5. CASE ~engine.valid
    BY <1>1, <1>5 DEF decide, Decision
  <1>6. CASE engine.valid /\ LookupFailed(engine)
    <2>1. CASE engine.mx = NoServers
      BY <1>1, <1>6, <2>1 DEF decide, Decision, NoServers
    <2>2. CASE engine.mx # NoServers
      BY <1>1, <1>6, <2>2 DEF decide, Decision, NoServers
    <2>3. QED
      BY <2>1, <2>2
  <1>7. CASE engine.valid /\ ~LookupFailed(engine) /\ engine.mx = NoServers
    BY <1>1, <1>7 DEF decide, Decision, NoServers
  <1>8. CASE engine.valid /\ ~LookupFailed(engine) /\ engine.mx # NoServers
    <2> DEFINE rest == IF engine.disposable THEN Decision("risky", 50, "DISPOSABLE_DOMAIN")
                       ELSE IF engine.role_account THEN Decision("risky", 60, "ROLE_ACCOUNT")
                       ELSE IF typo # Null THEN Decision("risky", 65, "POSSIBLE_TYPO")
                       ELSE IF s = Null THEN Decision("unknown", 50, "SMTP_NOT_CHECKED")
                       ELSE Decision("valid", 95, Null)
    <2>1. decide(engine, typo, operational) =
            IF operational # Null THEN Decision("unknown", 50, operational)
            ELSE IF decideSmtp(s) # Null THEN decideSmtp(s) ELSE rest
      BY <1>2, <1>8 DEF decide, NoServers
    <2>2. rest.verdict # "invalid" /\ (rest.verdict = "valid" => s # Null)
      BY DEF Decision
    <2>3. Decision("unknown", 50, operational).verdict = "unknown"
      BY DEF Decision
    <2>4. decideSmtp(Null) = Null
      BY DEF decideSmtp
    <2> HIDE DEF rest
    <2>5. CASE operational # Null
      BY <1>1, <2>1, <2>3, <2>5
    <2>6. CASE operational = Null /\ s = Null
      BY <1>1, <2>1, <2>2, <2>4, <2>6
    <2>7. CASE operational = Null /\ s # Null
      <3>1. s \in SmtpResult
        BY <1>3, <2>7
      <3>2. CASE decideSmtp(s) # Null
        BY <1>1, <1>2, <2>1, <2>7, <3>1, <3>2, SmtpRests
      <3>3. CASE decideSmtp(s) = Null
        BY <1>1, <1>2, <1>8, <2>1, <2>2, <2>7, <3>1, <3>3, SmtpRests
      <3>4. QED
        BY <3>2, <3>3
    <2>8. QED
      BY <2>5, <2>6, <2>7
  <1>9. QED
    BY <1>4, <1>5, <1>6, <1>7, <1>8

-----------------------------------------------------------------------------
(* The response so far follows what was heard.                             *)

\* The results the probe responds with, short of the reply to the mailbox.
LEMMA Responses ==
    /\ NoSmtp \in SmtpResult /\ ~NoSmtp.attempted
    /\ [NoSmtp EXCEPT !.disabled = TRUE] \in SmtpResult
    /\ ~[NoSmtp EXCEPT !.disabled = TRUE].attempted /\ [NoSmtp EXCEPT !.disabled = TRUE].disabled
    /\ [NoSmtp EXCEPT !.error = TRUE] \in SmtpResult /\ [NoSmtp EXCEPT !.error = TRUE].error
    /\ [Attempted EXCEPT !.error = TRUE] \in SmtpResult
    /\ [Attempted EXCEPT !.error = TRUE].error /\ [Attempted EXCEPT !.error = TRUE].attempted
    /\ [Attempted EXCEPT !.catch_all = TRUE] \in SmtpResult
    /\ [Attempted EXCEPT !.catch_all = TRUE].catch_all /\ [Attempted EXCEPT !.catch_all = TRUE].attempted
  BY DEF NoSmtp, Attempted, SmtpResult

\* A step inside the conversation, before a response.
Continues ==
    /\ pc' \in Stage \ {"parse", "mx", "aggregate", "done"}
    /\ smtp' = Null
    /\ pc' = "rcpt" => RandomOK'

\* A step that ends the probe without a word about the mailbox.
EndsOpen ==
    /\ pc' = "aggregate"
    /\ smtp' \in SmtpResult
    /\ smtp'.error \/ (smtp'.attempted /\ smtp'.catch_all) \/ (~smtp'.attempted /\ smtp'.disabled)

\* After either the probe's part of the invariant holds.
LEMMA ProbeStep ==
    ASSUME IndInv, Continues \/ EndsOpen, valid' = valid, mx' = mx,
           pc \in Talking \cup {"probe"}, heard'.lookup = heard.lookup
    PROVE  LookupOK' /\ ProbeOK' /\ InvalidHasEvidence' /\ ValidWasAccepted'
  <1>1. LookupOK'
    BY DEF IndInv, LookupOK, Talking, Continues, EndsOpen
  <1>2. InvalidHasEvidence' /\ ValidWasAccepted'
    BY DEF InvalidHasEvidence, ValidWasAccepted, Continues, EndsOpen
  <1>3. ProbeOK'
    <2>1. CASE Continues
      BY <2>1 DEF ProbeOK, Conclusive, Continues
    <2>2. CASE EndsOpen
      BY <2>2 DEF ProbeOK, Conclusive, EndsOpen, SmtpResult
    <2>3. QED
      BY <2>1, <2>2
  <1>4. QED
    BY <1>1, <1>2, <1>3

\* What a step of the probe leaves alone.
Asked == <<req, valid, mx>>

\* ProbeFails, NextHost and stageError, from a conversation.
LEMMA Failing ==
    ASSUME TypeOK, pc \in Talking, ProbeFails
    PROVE  EndsOpen /\ UNCHANGED <<hosts, tls>>
  <1>r. PICK r : r = [Attempted EXCEPT !.error = TRUE]
    OBVIOUS
  <1>1. smtp' = r /\ pc' = "aggregate" /\ UNCHANGED <<hosts, tls>>
    BY <1>r DEF ProbeFails, Respond
  <1>2. r \in SmtpResult
    BY <1>r, Responses
  <1>3. r.error
    BY <1>r DEF Attempted, NoSmtp
  <1>4. QED
    BY <1>1, <1>2, <1>3 DEF EndsOpen

LEMMA TailNonEmpty ==
    ASSUME NEW S, NEW s \in Seq(S), s # <<>>, Len(s) # 1
    PROVE  Tail(s) \in Seq(S) /\ Tail(s) # <<>>
  <1>1. Len(s) \in Nat \ {0} /\ Len(<<>>) = 0
    BY EmptySeq, Zenon
  <1>2. Tail(s) \in Seq(S) /\ Len(Tail(s)) = Len(s) - 1
    BY HeadTailProperties
  <1>3. Len(Tail(s)) # 0
    BY <1>1, <1>2
  <1>4. QED
    BY <1>1, <1>2, <1>3, Zenon

LEMMA Hopping ==
    ASSUME TypeOK, pc \in Talking, smtp = Null, NextHost
    PROVE  /\ EndsOpen \/ Continues
           /\ pc' \in {"dial", "aggregate"} /\ tls' \in BOOLEAN
           /\ hosts' \in Seq(1..MaxHosts) /\ (pc' = "dial" => hosts' # <<>>)
  <1>1. CASE ProbeFails
    BY <1>1, Failing DEF TypeOK, EndsOpen
  <1>2. CASE ~(ctx = "done" \/ Len(hosts) = 1) /\ ~ProbeFails
    <2>1. hosts \in Seq(1..MaxHosts) /\ hosts # <<>> /\ Len(hosts) # 1
      BY <1>2 DEF TypeOK, Talking
    <2>2. pc' = "dial" /\ hosts' = Tail(hosts) /\ tls' = TRUE /\ smtp' = smtp
      BY <1>2 DEF NextHost
    <2>3. Tail(hosts) \in Seq(1..MaxHosts) /\ Tail(hosts) # <<>>
      BY <2>1, TailNonEmpty, Zenon
    <2>4. QED
      BY <2>2, <2>3 DEF Continues, Stage
  <1>3. QED
    BY <1>1, <1>2 DEF NextHost

\* The histories that the steps write keep their type.
LEMMA HeardTyped ==
    ASSUME TypeOK
    PROVE  /\ [heard EXCEPT !.answered = TRUE] \in History
           /\ [heard EXCEPT !.answered = TRUE].lookup = heard.lookup
           /\ \A found \in Answer :
                /\ [heard EXCEPT !.lookup = found] \in History
                /\ [heard EXCEPT !.lookup = found].lookup = found
           /\ \A reply \in Reply :
                LET h == [heard EXCEPT !.mailbox = reply, !.answered = TRUE]
                IN  h \in History /\ h.lookup = heard.lookup /\ h.mailbox = reply
                    /\ h.random = heard.random
  BY DEF TypeOK, History

LEMMA InitOK == Init => IndInv
  <1> SUFFICES ASSUME Init PROVE IndInv
    OBVIOUS
  <1>1. TypeOK
    BY VerificationAssumption DEF Init, TypeOK, Talking, Stage, MxResult, History, NotHeard
  <1>2. LookupOK /\ ProbeOK
    BY DEF Init, LookupOK, ProbeOK, Conclusive
  <1>3. InvalidHasEvidence /\ ValidWasAccepted
    BY DEF Init, InvalidHasEvidence, ValidWasAccepted
  <1>4. QED
    BY <1>1, <1>2, <1>3 DEF IndInv

-----------------------------------------------------------------------------
(* One lemma per action, or per group of actions that end alike.           *)

LEMMA ParseAddressOK == IndInv /\ ParseAddress => IndInv'
  <1> SUFFICES ASSUME IndInv, ParseAddress PROVE IndInv'
    OBVIOUS
  <1>0. /\ pc = "parse" /\ smtp = Null
        /\ UNCHANGED <<ctx, req, valid, mx, hosts, tls, result, dials, heard>>
    BY DEF IndInv, ProbeOK, ParseAddress, requestVars
  <1>1. \/ valid /\ pc' = "mx" /\ smtp' = Null
        \/ ~valid /\ pc' = "aggregate" /\ smtp' = Null
        \/ ~valid /\ pc' = "aggregate" /\ smtp' = NoSmtp
    BY <1>0 DEF ParseAddress, Respond
  <1>2. TypeOK'
    BY <1>0, <1>1, Responses DEF IndInv, TypeOK, Talking, Stage
  <1>3. LookupOK' /\ InvalidHasEvidence' /\ ValidWasAccepted'
    BY <1>0, <1>1 DEF LookupOK, InvalidHasEvidence, ValidWasAccepted
  <1>4. ProbeOK'
    <2>1. CASE smtp' = Null
      BY <1>1, <2>1 DEF ProbeOK, Conclusive
    <2>2. CASE smtp' = NoSmtp
      <3>1. ~NoSmtp.attempted
        BY Responses
      <3>2. ~valid' /\ pc' = "aggregate"
        BY <1>0, <1>1, <2>2, Responses, VerdictsAssumption
      <3>3. QED
        BY <2>2, <3>1, <3>2 DEF ProbeOK, Conclusive
    <2>3. QED
      BY <1>1, <2>1, <2>2
  <1>5. QED
    BY <1>2, <1>3, <1>4 DEF IndInv

LEMMA lookupMXOK == IndInv /\ lookupMX => IndInv'
  <1> SUFFICES ASSUME IndInv, lookupMX PROVE IndInv'
    OBVIOUS
  <1>0. /\ pc = "mx" /\ smtp = Null
        /\ UNCHANGED <<ctx, req, valid, hosts, tls, smtp, result, dials>>
    BY DEF IndInv, ProbeOK, lookupMX, requestVars
  <1>1. PICK found \in Answer : mx' = mxResult(found) /\ heard' = [heard EXCEPT !.lookup = found]
    BY DEF lookupMX, Lookup, Answer
  <1>2. (pc' = "probe" /\ req.smtp) \/ pc' = "aggregate"
    BY DEF lookupMX
  <1>3. heard' \in History /\ heard'.lookup = found
    BY <1>1, HeardTyped DEF IndInv
  <1>4. mx' \in MxResult
    BY <1>1 DEF mxResult, MxResult, Answer
  <1>5. TypeOK'
    BY <1>0, <1>2, <1>3, <1>4 DEF IndInv, TypeOK, Talking, Stage
  <1>6. LookupOK'
    BY <1>1, <1>3 DEF LookupOK
  <1>7. ProbeOK' /\ InvalidHasEvidence' /\ ValidWasAccepted'
    BY <1>0, <1>2 DEF ProbeOK, Conclusive, InvalidHasEvidence, ValidWasAccepted
  <1>8. QED
    BY <1>5, <1>6, <1>7 DEF IndInv

LEMMA probeSMTPOK == IndInv /\ probeSMTP => IndInv'
  <1> SUFFICES ASSUME IndInv, probeSMTP PROVE IndInv'
    OBVIOUS
  <1>0. /\ pc = "probe" /\ smtp = Null
        /\ UNCHANGED <<ctx, req, valid, mx, tls, result, dials, heard>>
    BY DEF IndInv, ProbeOK, probeSMTP, requestVars
  <1>p. PICK a, b, c : /\ a = [NoSmtp EXCEPT !.disabled = TRUE]
                       /\ b = [NoSmtp EXCEPT !.error = TRUE]
                       /\ c = [Attempted EXCEPT !.error = TRUE]
    OBVIOUS
  <1>q. /\ a \in SmtpResult /\ ~a.attempted /\ a.disabled
        /\ b \in SmtpResult /\ b.error
        /\ c \in SmtpResult /\ c.error
    BY <1>p, Responses
  <1>1. CASE pc' = "aggregate" /\ UNCHANGED hosts /\ smtp' \in {a, b, c}
    <2>1. EndsOpen
      BY <1>1, <1>q DEF EndsOpen
    <2>2. TypeOK'
      BY <1>0, <1>1, <1>q DEF IndInv, TypeOK, Talking, Stage
    <2>3. QED
      BY <1>0, <2>1, <2>2, ProbeStep DEF IndInv
  <1>2. CASE pc' = "dial" /\ smtp' = Null /\ \E n \in 1..MaxHosts : hosts' = [i \in 1..n |-> i]
    <2>1. Continues
      BY <1>2 DEF Continues, Stage
    <2>2. hosts' \in Seq(1..MaxHosts) /\ hosts' # <<>>
      <3>1. PICK n \in 1..MaxHosts : hosts' = [i \in 1..n |-> i]
        BY <1>2
      <3>2. n \in Nat /\ n > 0 /\ \A i \in 1..n : i \in 1..MaxHosts
        BY VerificationAssumption
      <3>3. [i \in 1..n |-> i] \in Seq(1..MaxHosts) /\ Len([i \in 1..n |-> i]) = n
        BY <3>2
      <3>4. QED
        BY <3>1, <3>2, <3>3, EmptySeq
    <2>3. req.smtp /\ req.enabled
      BY <1>0, <1>2, <1>p DEF IndInv, TypeOK, probeSMTP, Respond
    <2>4. TypeOK'
      BY <1>0, <1>2, <2>2, <2>3 DEF IndInv, TypeOK, Talking, Stage
    <2>5. QED
      BY <1>0, <2>1, <2>4, ProbeStep DEF IndInv
  <1>3. QED
    BY <1>0, <1>1, <1>2, <1>p DEF probeSMTP, Respond

\* A step of the conversation that goes on or ends open keeps the invariant.
LEMMA TalkStep ==
    ASSUME IndInv, pc \in Talking, UNCHANGED <<ctx, req, valid, mx>>,
           Continues \/ EndsOpen, pc' \in Talking \cup {"aggregate"},
           hosts' \in Seq(1..MaxHosts), pc' \in Talking => hosts' # <<>>,
           tls' \in BOOLEAN, dials' \in [1..MaxHosts -> 0..MaxDials],
           heard' \in History, heard'.lookup = heard.lookup
    PROVE  IndInv'
  <1>1. smtp' \in SmtpResult \cup {Null}
    BY DEF Continues, EndsOpen
  <1>2. pc' \in Stage
    BY DEF Talking, Stage
  <1>3. req.smtp /\ req.enabled
    BY DEF IndInv, TypeOK
  <1>4. TypeOK'
    BY <1>1, <1>2, <1>3 DEF IndInv, TypeOK
  <1>5. QED
    BY <1>4, ProbeStep DEF IndInv

\* In the conversation there is a host, no result yet, and the state is typed.
LEMMA InTalk ==
    ASSUME IndInv, pc \in Talking
    PROVE  /\ smtp = Null /\ hosts # <<>> /\ hosts \in Seq(1..MaxHosts) /\ tls \in BOOLEAN
           /\ dials \in [1..MaxHosts -> 0..MaxDials] /\ heard \in History
           /\ Head(hosts) \in 1..MaxHosts
  <1>1. /\ hosts # <<>> /\ hosts \in Seq(1..MaxHosts) /\ tls \in BOOLEAN
        /\ dials \in [1..MaxHosts -> 0..MaxDials] /\ heard \in History
    BY DEF IndInv, TypeOK
  <1>2. smtp = Null
    BY DEF IndInv, ProbeOK, Talking
  <1>3. Head(hosts) \in 1..MaxHosts
    BY <1>1, HeadTailProperties, Zenon
  <1>4. QED
    BY <1>1, <1>2, <1>3

LEMMA dialOK == IndInv /\ dial => IndInv'
  <1> SUFFICES ASSUME IndInv, dial PROVE IndInv'
    OBVIOUS
  <1>0. pc = "dial" /\ pc \in Talking /\ UNCHANGED <<ctx, req, valid, mx, heard>>
    BY DEF dial, Talking, requestVars
  <1>a. PICK h \in 1..MaxHosts : h = Head(hosts)
    BY <1>0, InTalk
  <1>1. CASE /\ dials' = [dials EXCEPT ![h] = IF @ < MaxDials THEN @ + 1 ELSE @]
             /\ pc' = "greeting" /\ UNCHANGED <<hosts, tls, smtp>>
    <2>1. dials' \in [1..MaxHosts -> 0..MaxDials]
      <3>1. PICK n : n = IF dials[h] < MaxDials THEN dials[h] + 1 ELSE dials[h]
        OBVIOUS
      <3>2. dials \in [1..MaxHosts -> 0..MaxDials]
        BY <1>0, InTalk
      <3>3. n \in 0..MaxDials
        BY <3>1, <3>2, VerificationAssumption
      <3>4. dials' = [dials EXCEPT ![h] = n]
        BY <1>1, <3>1
      <3>5. QED
        BY <3>2, <3>3, <3>4
    <2>2. Continues
      BY <1>0, <1>1, InTalk DEF Continues, Stage
    <2>3. pc' \in Talking
      BY <1>1 DEF Talking
    <2>4. QED
      BY <1>0, <1>1, <2>1, <2>2, <2>3, InTalk, TalkStep
  <1>2. CASE NextHost /\ UNCHANGED dials
    <2>1. /\ EndsOpen \/ Continues
          /\ pc' \in {"dial", "aggregate"} /\ tls' \in BOOLEAN
          /\ hosts' \in Seq(1..MaxHosts) /\ (pc' = "dial" => hosts' # <<>>)
      BY <1>0, <1>2, InTalk, Hopping DEF IndInv
    <2>2. pc' \in Talking \cup {"aggregate"} /\ (pc' \in Talking => pc' = "dial")
      BY <2>1 DEF Talking
    <2>3. QED
      BY <1>0, <1>2, <2>1, <2>2, InTalk, TalkStep
  <1>3. QED
    BY <1>1, <1>2, <1>a DEF dial

\* A refusal before the recipients ends the probe open.
LEMMA Refused ==
    ASSUME IndInv, pc \in Talking, NEW reply, stageError(reply),
           UNCHANGED <<ctx, req, valid, mx, dials>>
    PROVE  IndInv'
  <1>1. EndsOpen /\ UNCHANGED <<hosts, tls>>
    BY Failing DEF stageError, IndInv
  <1>2. heard' \in History /\ heard'.lookup = heard.lookup
    BY HeardTyped DEF stageError, IndInv
  <1>3. pc' = "aggregate" /\ pc' \notin Talking
    BY <1>1 DEF EndsOpen, Talking
  <1>4. QED
    BY <1>1, <1>2, <1>3, InTalk, TalkStep

\* An accepted command goes on to a stage before the recipients.
LEMMA Accepted ==
    ASSUME IndInv, pc \in Talking, pc' \in Talking, pc' = "rcpt" => RandomOK',
           tls' \in BOOLEAN,
           UNCHANGED <<ctx, req, valid, mx, dials, hosts, smtp, heard>>
    PROVE  IndInv'
  <1>1. Continues
    BY InTalk DEF Continues, Stage, Talking
  <1>2. QED
    BY <1>1, InTalk, TalkStep

LEMMA greetingOK == IndInv /\ greeting => IndInv'
  <1> SUFFICES ASSUME IndInv, greeting PROVE IndInv'
    OBVIOUS
  <1>0. pc = "greeting" /\ pc \in Talking /\ UNCHANGED <<ctx, req, valid, mx, dials>>
    BY DEF greeting, Talking, requestVars
  <1>1. CASE pc' = "helo" /\ UNCHANGED <<hosts, tls, smtp, heard>>
    <2>1. pc' \in Talking /\ pc' # "rcpt"
      BY <1>1 DEF Talking
    <2>2. QED
      BY <1>0, <1>1, <2>1, InTalk, Accepted
  <1>2. CASE NextHost /\ UNCHANGED heard
    <2>1. /\ EndsOpen \/ Continues
          /\ pc' \in {"dial", "aggregate"} /\ tls' \in BOOLEAN
          /\ hosts' \in Seq(1..MaxHosts) /\ (pc' = "dial" => hosts' # <<>>)
      BY <1>0, <1>2, InTalk, Hopping DEF IndInv
    <2>2. pc' \in Talking \cup {"aggregate"} /\ (pc' \in Talking => pc' = "dial")
      BY <2>1 DEF Talking
    <2>3. QED
      BY <1>0, <1>2, <2>1, <2>2, InTalk, TalkStep
  <1>3. CASE \E reply \in Replies : stageError(reply)
    BY <1>0, <1>3, Refused
  <1>4. QED
    BY <1>1, <1>2, <1>3 DEF greeting

LEMMA HelloOK == IndInv /\ Hello => IndInv'
  <1> SUFFICES ASSUME IndInv, Hello PROVE IndInv'
    OBVIOUS
  <1>0. pc = "helo" /\ pc \in Talking /\ UNCHANGED <<ctx, req, valid, mx, dials>>
    BY DEF Hello, Talking, requestVars
  <1>1. CASE pc' \in {"starttls", "mail"} /\ UNCHANGED <<hosts, tls, smtp, heard>>
    <2>1. pc' \in Talking /\ pc' # "rcpt"
      BY <1>1 DEF Talking
    <2>2. QED
      BY <1>0, <1>1, <2>1, InTalk, Accepted
  <1>2. CASE \E reply \in Replies : stageError(reply)
    BY <1>0, <1>2, Refused
  <1>3. QED
    BY <1>1, <1>2 DEF Hello

LEMMA StartTLSOK == IndInv /\ StartTLS => IndInv'
  <1> SUFFICES ASSUME IndInv, StartTLS PROVE IndInv'
    OBVIOUS
  <1>0. pc = "starttls" /\ pc \in Talking /\ UNCHANGED <<ctx, req, valid, mx, dials, hosts, smtp, heard>>
    BY DEF StartTLS, Talking, requestVars
  <1>1. pc' \in Talking /\ pc' # "rcpt"
    BY DEF StartTLS, Talking
  <1>2. tls' \in BOOLEAN
    BY <1>0, InTalk DEF StartTLS
  <1>3. QED
    BY <1>0, <1>1, <1>2, Accepted

LEMMA MailOK == IndInv /\ Mail => IndInv'
  <1> SUFFICES ASSUME IndInv, Mail PROVE IndInv'
    OBVIOUS
  <1>0. pc = "mail" /\ pc \in Talking /\ UNCHANGED <<ctx, req, valid, mx, dials>>
    BY DEF Mail, Talking, requestVars
  <1>1. CASE pc' = (IF req.catch_all THEN "random" ELSE "rcpt") /\ UNCHANGED <<hosts, tls, smtp, heard>>
    <2>1. pc' \in Talking
      BY <1>1 DEF Talking
    <2>2. pc' = "rcpt" => RandomOK'
      BY <1>0, <1>1 DEF RandomOK
    <2>3. QED
      BY <1>0, <1>1, <2>1, <2>2, InTalk, Accepted
  <1>2. CASE \E reply \in Replies : stageError(reply)
    BY <1>0, <1>2, Refused
  <1>3. QED
    BY <1>1, <1>2 DEF Mail

\* What a class of replies says of the reply.
LEMMA Classified ==
    ASSUME NEW reply \in Reply
    PROVE  /\ classifyReply(reply) \in {"accepted", "temporary", "blocked", "full", "disabled",
                                        "unknown", "other"}
           /\ classifyReply(reply) = "accepted" => Accepts(reply)
           /\ classifyReply(reply) \in {"unknown", "full", "disabled"} =>
                ~Accepts(reply) /\ Refuses(reply)
  <1>1. CASE reply = Dropped
    <2>1. reply.code = 0
      BY <1>1 DEF Dropped
    <2>2. classifyReply(reply) = "other"
      BY <1>1, <2>1 DEF classifyReply
    <2>3. QED
      BY <2>2
  <1>2. CASE reply # Dropped
    <2>1. reply \in [code : Code, hints : SUBSET Hint] /\ reply # Null
      BY <1>2, ReplyAssumption DEF Reply
    <2>2. reply.code \in {250, 450, 550, 554} /\ reply.hints \subseteq Hint
      BY <2>1 DEF Code
    <2>3. CASE reply.code = 250
      <3>1. classifyReply(reply) = "accepted" /\ Accepts(reply)
        BY <1>2, <2>3 DEF classifyReply, Accepts
      <3>2. QED
        BY <3>1
    <2>4. CASE reply.code = 450
      <3>1. ~Accepts(reply)
        BY <2>4 DEF Accepts
      <3>2. classifyReply(reply) = IF "full" \in reply.hints THEN "full"
                                   ELSE IF "unknown" \in reply.hints THEN "unknown"
                                   ELSE "temporary"
        BY <1>2, <2>4 DEF classifyReply
      <3>3. QED
        BY <1>2, <2>1, <2>4, <3>1, <3>2 DEF Refuses
    <2>5. CASE reply.code \in {550, 554}
      <3>1. ~Accepts(reply)
        BY <2>5 DEF Accepts
      <3>2. classifyReply(reply) =
              IF "blocked" \in reply.hints THEN "blocked"
              ELSE IF "full" \in reply.hints THEN "full"
              ELSE IF "disabled" \in reply.hints THEN "disabled"
              ELSE IF "unknown" \in reply.hints \/ reply.code \in {550, 551, 553} THEN "unknown"
              ELSE "other"
        BY <1>2, <2>5 DEF classifyReply
      <3>3. QED
        BY <1>2, <2>1, <2>5, <3>1, <3>2 DEF Refuses
    <2>6. QED
      BY <2>2, <2>3, <2>4, <2>5
  <1>3. QED
    BY <1>1, <1>2

LEMMA MembershipIsBoolean ==
    ASSUME NEW x, NEW S
    PROVE  \E b \in BOOLEAN : b = (x \in S)
  <1>1. (x \in S) \in BOOLEAN
    OBVIOUS
  <1>2. QED
    BY <1>1, Zenon

LEMMA RepliesAreReplies == Replies \subseteq Reply
  BY DEF Replies, Reply

LEMMA RcptRandomOK == IndInv /\ RcptRandom => IndInv'
  <1> SUFFICES ASSUME IndInv, RcptRandom PROVE IndInv'
    OBVIOUS
  <1>0. pc = "random" /\ pc \in Talking /\ UNCHANGED <<ctx, req, valid, mx, hosts, tls, dials>>
    BY DEF RcptRandom, Talking, requestVars
  <1>1. PICK reply \in Reply :
          /\ heard' = [heard EXCEPT !.random = Accepts(reply), !.answered = TRUE]
          /\ \/ classifyReply(reply) = "accepted" /\ Respond([Attempted EXCEPT !.catch_all = TRUE])
             \/ classifyReply(reply) \in {"unknown", "full", "disabled"} /\ pc' = "rcpt" /\ UNCHANGED smtp
             \/ /\ classifyReply(reply) \in {"blocked", "temporary", "other"}
                /\ Respond([Attempted EXCEPT !.error = TRUE])
    BY RepliesAreReplies DEF RcptRandom
  <1>a. PICK yes \in BOOLEAN : yes = Accepts(reply)
    BY MembershipIsBoolean DEF Accepts
  <1>b. PICK h : h = [heard EXCEPT !.random = yes, !.answered = TRUE]
    OBVIOUS
  <1>c. heard \in History
    BY <1>0, InTalk
  <1>d. h \in History /\ h.lookup = heard.lookup /\ h.random = yes
    BY <1>b, <1>c DEF History
  <1>2. heard' \in History /\ heard'.lookup = heard.lookup /\ heard'.random = yes
    BY <1>1, <1>a, <1>b, <1>d
  <1>3. CASE pc' = "rcpt"
    <2>1. classifyReply(reply) \in {"unknown", "full", "disabled"} /\ UNCHANGED smtp
      BY <1>1, <1>3 DEF Respond
    <2>2. yes = FALSE
      BY <1>a, <2>1, Classified
    <2>3. RandomOK'
      BY <1>2, <2>2 DEF RandomOK
    <2>4. Continues /\ pc' \in Talking
      BY <1>0, <1>3, <2>1, <2>3, InTalk DEF Continues, Stage, Talking
    <2>5. QED
      BY <1>0, <1>2, <2>4, InTalk, TalkStep
  <1>4. CASE pc' # "rcpt"
    <2>1. PICK a, b : a = [Attempted EXCEPT !.catch_all = TRUE] /\ b = [Attempted EXCEPT !.error = TRUE]
      OBVIOUS
    <2>2. a \in SmtpResult /\ b \in SmtpResult /\ a.catch_all /\ a.attempted /\ b.error
      BY <2>1, Responses
    <2>3. pc' = "aggregate" /\ (smtp' = a \/ smtp' = b)
      BY <1>1, <1>4, <2>1 DEF Respond
    <2>4. EndsOpen
      BY <2>2, <2>3 DEF EndsOpen
    <2>5. pc' \notin Talking
      BY <2>3 DEF Talking
    <2>6. QED
      BY <1>0, <1>2, <2>3, <2>4, <2>5, InTalk, TalkStep
  <1>5. QED
    BY <1>3, <1>4

LEMMA RcptOK == IndInv /\ Rcpt => IndInv'
  <1> SUFFICES ASSUME IndInv, Rcpt PROVE IndInv'
    OBVIOUS
  <1>0. pc = "rcpt" /\ pc \in Talking /\ UNCHANGED <<ctx, req, valid, mx, hosts, tls, dials>>
    BY DEF Rcpt, Talking, requestVars
  <1>1. PICK reply \in Reply : \E kind \in {classifyReply(reply)} :
          /\ heard' = [heard EXCEPT !.mailbox = reply, !.answered = TRUE]
          /\ Respond([Attempted EXCEPT !.mailbox_accepted = (kind = "accepted"),
                                       !.full_inbox = (kind = "full"),
                                       !.disabled = (kind = "disabled"),
                                       !.error = kind \in {"blocked", "temporary", "other"}])
    BY RepliesAreReplies DEF Rcpt
  <1>p. PICK kind \in {classifyReply(reply)} :
          /\ heard' = [heard EXCEPT !.mailbox = reply, !.answered = TRUE]
          /\ Respond([Attempted EXCEPT !.mailbox_accepted = (kind = "accepted"),
                                       !.full_inbox = (kind = "full"),
                                       !.disabled = (kind = "disabled"),
                                       !.error = kind \in {"blocked", "temporary", "other"}])
    BY <1>1
  <1>2. /\ heard' \in History /\ heard'.lookup = heard.lookup /\ heard'.mailbox = reply
        /\ heard'.random = heard.random
    BY <1>p, HeardTyped DEF IndInv
  <1>3. pc' = "aggregate" /\ pc' \notin Talking
    BY <1>p DEF Respond, Talking
  <1>a. PICK acc \in BOOLEAN : acc = (kind = "accepted")
    BY Zenon
  <1>b. PICK full \in BOOLEAN : full = (kind = "full")
    BY Zenon
  <1>c. PICK dis \in BOOLEAN : dis = (kind = "disabled")
    BY Zenon
  <1>d. PICK err \in BOOLEAN : err = (kind \in {"blocked", "temporary", "other"})
    BY MembershipIsBoolean
  <1>4. PICK r : r = [Attempted EXCEPT !.mailbox_accepted = acc, !.full_inbox = full,
                                       !.disabled = dis, !.error = err]
    OBVIOUS
  <1>5. smtp' = r
    BY <1>p, <1>4, <1>a, <1>b, <1>c, <1>d DEF Respond
  <1>6. r \in SmtpResult /\ r.attempted /\ r.mailbox_accepted = acc /\ r.disabled = dis /\ r.error = err
    BY <1>4 DEF Attempted, NoSmtp, SmtpResult
  <1>8. TypeOK'
    BY <1>0, <1>2, <1>3, <1>5, <1>6 DEF IndInv, TypeOK, Stage
  <1>9. LookupOK' /\ InvalidHasEvidence' /\ ValidWasAccepted'
    BY <1>0, <1>2, <1>3 DEF IndInv, LookupOK, InvalidHasEvidence, ValidWasAccepted
  <1>10. RandomOK'
    BY <1>0, <1>2 DEF IndInv, ProbeOK, RandomOK
  <1>11. ProbeOK'
    <2>1. kind = "accepted" => Accepts(reply) /\ kind # "disabled"
      BY <1>p, Classified
    <2>2. kind # "accepted" /\ kind \notin {"blocked", "temporary", "other"} => Refuses(reply)
      BY <1>p, Classified
    <2>3. QED
      BY <1>2, <1>3, <1>5, <1>6, <1>10, <1>a, <1>c, <1>d, <2>1, <2>2 DEF ProbeOK, Conclusive
  <1>12. QED
    BY <1>8, <1>9, <1>11 DEF IndInv

LEMMA ExpireOK == IndInv /\ Expire => IndInv'
  <1> SUFFICES ASSUME IndInv, Expire PROVE IndInv'
    OBVIOUS
  <1>1. ctx' = "done" /\ UNCHANGED <<pc, req, valid, mx, hosts, tls, smtp, result, dials, heard>>
    BY DEF Expire, requestVars
  <1>2. TypeOK'
    BY <1>1 DEF IndInv, TypeOK
  <1>3. LookupOK' /\ ProbeOK'
    BY <1>1 DEF IndInv, LookupOK, ProbeOK, Conclusive, RandomOK
  <1>4. InvalidHasEvidence' /\ ValidWasAccepted'
    BY <1>1 DEF IndInv, InvalidHasEvidence, ValidWasAccepted, Verdict
  <1>5. QED
    BY <1>2, <1>3, <1>4 DEF IndInv

LEMMA AggregateOK == IndInv /\ Aggregate => IndInv'
  <1> SUFFICES ASSUME IndInv, Aggregate PROVE IndInv'
    OBVIOUS
  <1>0. /\ pc = "aggregate" /\ pc' = "done"
        /\ UNCHANGED <<ctx, req, valid, mx, hosts, tls, smtp, dials, heard>>
    BY DEF Aggregate, requestVars
  <1>1. PICK checked \in Typos, disposable \in BOOLEAN, role \in BOOLEAN,
             operational \in {Null} \cup OperationalReason :
          LET engine == [valid |-> valid, mx |-> mx, disposable |-> disposable,
                         role_account |-> role, smtp |-> smtp]
              typo == IF valid THEN checked[2] ELSE Null
          IN  result' = [aggregated |-> aggregate(engine, typo, operational),
                         domain |-> checked[1], typo |-> typo]
    BY SMTT(30) DEF Aggregate
  <1>2. PICK engine : engine = [valid |-> valid, mx |-> mx, disposable |-> disposable,
                                role_account |-> role, smtp |-> smtp]
    OBVIOUS
  <1>3. PICK typo : typo = IF valid THEN checked[2] ELSE Null
    OBVIOUS
  <1>4. PICK verdict : verdict = aggregate(engine, typo, operational).verdict
    OBVIOUS
  <1>5. Verdict' = verdict
    BY <1>1, <1>2, <1>3, <1>4 DEF Verdict
  <1>6. engine \in EngineResponse /\ engine.valid = valid /\ engine.mx = mx /\ engine.smtp = smtp
    BY <1>2 DEF IndInv, TypeOK, EngineResponse
  <1>7. /\ verdict = "invalid" =>
             \/ ~valid
             \/ mx = NoServers
             \/ Concludes(smtp) /\ (~smtp.mailbox_accepted \/ smtp.disabled)
        /\ verdict = "valid" =>
             /\ valid /\ smtp # Null
             /\ smtp.attempted => Concludes(smtp) /\ smtp.mailbox_accepted
             /\ ~smtp.attempted => ~smtp.error /\ ~smtp.disabled
    <2>1. /\ verdict = "invalid" =>
               \/ ~engine.valid
               \/ engine.mx = NoServers
               \/ Concludes(engine.smtp) /\ (~engine.smtp.mailbox_accepted \/ engine.smtp.disabled)
          /\ verdict = "valid" =>
               /\ engine.valid /\ engine.smtp # Null
               /\ engine.smtp.attempted => Concludes(engine.smtp) /\ engine.smtp.mailbox_accepted
               /\ ~engine.smtp.attempted => ~engine.smtp.error /\ ~engine.smtp.disabled
      BY <1>4, <1>6, VerdictRests
    <2>2. QED
      BY <1>6, <2>1
  <1>8. TypeOK' /\ LookupOK' /\ ProbeOK'
    <2>1. TypeOK'
      BY <1>0 DEF IndInv, TypeOK, Stage, Talking
    <2>2. LookupOK' /\ ProbeOK'
      BY <1>0 DEF IndInv, LookupOK, ProbeOK, Conclusive, RandomOK
    <2>3. QED
      BY <2>1, <2>2
  <1>9. InvalidHasEvidence'
    <2>1. SUFFICES ASSUME verdict = "invalid", valid
                   PROVE  heard.lookup \in {"none", "nxdomain"} \/ Refuses(heard.mailbox)
      BY <1>0, <1>5 DEF InvalidHasEvidence
    <2>2. CASE mx = NoServers
      <3>1. heard.lookup \in Answer /\ mx = mxResult(heard.lookup)
        BY <1>0, <2>1 DEF IndInv, LookupOK
      <3>2. mxResult("records").has_mx = TRUE /\ mxResult("failure").error = TRUE
        BY DEF mxResult
      <3>3. QED
        BY <2>2, <3>1, <3>2 DEF NoServers, Answer
    <2>3. CASE Concludes(smtp) /\ (~smtp.mailbox_accepted \/ smtp.disabled)
      BY <2>3 DEF Concludes, IndInv, ProbeOK, Conclusive
    <2>4. QED
      BY <1>7, <2>1, <2>2, <2>3
  <1>10. ValidWasAccepted'
    <2>1. SUFFICES ASSUME verdict = "valid"
                   PROVE  /\ heard.mailbox # Null /\ Accepts(heard.mailbox)
                          /\ req.catch_all => heard.random = FALSE
      BY <1>0, <1>5 DEF ValidWasAccepted
    <2>2. smtp \in SmtpResult
      BY <1>7, <2>1 DEF IndInv, TypeOK
    <2>3. smtp.attempted
      <3>1. smtp.attempted \in BOOLEAN
        BY <2>2 DEF SmtpResult
      <3>2. smtp # Null /\ ~smtp.attempted /\ valid => smtp.error \/ smtp.disabled
        BY DEF IndInv, ProbeOK
      <3>3. QED
        BY <1>7, <2>1, <3>1, <3>2
    <2>4. Conclusive /\ smtp.mailbox_accepted
      BY <1>7, <2>1, <2>3 DEF Concludes, Conclusive
    <2>5. QED
      BY <2>4, ReplyAssumption DEF IndInv, ProbeOK, RandomOK
  <1>11. QED
    BY <1>8, <1>9, <1>10 DEF IndInv

-----------------------------------------------------------------------------

\* However many mail servers a domain has and whatever they reply, drop or
\* leave to the deadline, the response follows what was heard and the verdict
\* rests on it (the engine's runVerify and probeMailbox, and aggregate).
THEOREM VerificationInductive == Spec => []IndInv
  <1>1. Init => IndInv
    BY InitOK
  <1>2. IndInv /\ [Next]_vars => IndInv'
    <2> SUFFICES ASSUME IndInv, [Next]_vars PROVE IndInv'
      OBVIOUS
    <2>1. CASE UNCHANGED vars
      <3>1. UNCHANGED <<pc, ctx, req, valid, mx, hosts, tls, smtp, result, dials, heard>>
        BY <2>1 DEF vars
      <3>2. TypeOK'
        BY <3>1 DEF IndInv, TypeOK
      <3>3. LookupOK' /\ ProbeOK'
        BY <3>1 DEF IndInv, LookupOK, ProbeOK, Conclusive, RandomOK
      <3>4. InvalidHasEvidence' /\ ValidWasAccepted'
        BY <3>1 DEF IndInv, InvalidHasEvidence, ValidWasAccepted, Verdict
      <3>5. QED
        BY <3>2, <3>3, <3>4 DEF IndInv
    <2>2. QED
      BY <2>1, ParseAddressOK, lookupMXOK, probeSMTPOK, dialOK, greetingOK, HelloOK, StartTLSOK,
         MailOK, RcptRandomOK, RcptOK, ExpireOK, AggregateOK DEF Next
  <1>3. QED
    BY <1>1, <1>2, PTL DEF Spec

\* A conversation always has a host to talk to, and the response and the
\* histories keep their types, for any number of mail servers.
THEOREM VerificationTypeCorrect == Spec => []TypeOK
  <1>1. IndInv => TypeOK
    BY DEF IndInv
  <1>2. QED
    BY <1>1, VerificationInductive, PTL

\* Not being able to look is never taken for evidence of absence: invalid rests
\* on the syntax, on an authoritative answer of the resolver or on a refusal of
\* this very mailbox.
THEOREM InvalidRestsOnEvidence == Spec => []InvalidHasEvidence
  <1>1. IndInv => InvalidHasEvidence
    BY DEF IndInv
  <1>2. QED
    BY <1>1, VerificationInductive, PTL

\* valid is given only after a server accepted the mailbox and, when the
\* catch-all test was asked for, had refused a random one.
THEOREM ValidRestsOnAcceptance == Spec => []ValidWasAccepted
  <1>1. IndInv => ValidWasAccepted
    BY DEF IndInv
  <1>2. QED
    BY <1>1, VerificationInductive, PTL

-----------------------------------------------------------------------------
(* Induction, as facts about sets.                                         *)

\* A set of naturals has a least element.
LEMMA LeastExists ==
    ASSUME NEW S, S \subseteq Nat, S # {}
    PROVE  \E n \in S : \A k \in S : n <= k
  <1>1. \E n \in S : \A k \in S : ~(<<k, n>> \in OpToRel(<, Nat))
    BY NatLessThanWellFounded, WFMin, Zenon
  <1>2. \A k, n \in S : <<k, n>> \in OpToRel(<, Nat) <=> k < n
    BY DEF OpToRel
  <1>3. PICK n \in S : \A k \in S : ~(k < n)
    BY <1>1, <1>2
  <1>4. QED
    BY <1>3

\* Step by step from lo to hi.
LEMMA Climb ==
    ASSUME NEW lo \in Nat, NEW hi \in Nat, NEW G, lo \in G,
           \A i \in lo..(hi - 1) : i \in G => i + 1 \in G
    PROVE  \A i \in lo..hi : i \in G
  <1> DEFINE Bad == {i \in lo..hi : i \notin G}
  <1>1. SUFFICES ASSUME Bad # {} PROVE FALSE
    OBVIOUS
  <1>2. PICK n \in Bad : \A k \in Bad : n <= k
    <2>1. Bad \subseteq Nat
      OBVIOUS
    <2>2. QED
      BY <1>1, <2>1, LeastExists
  <1>3. n \in lo..hi /\ n \notin G /\ n # lo
    BY <1>2
  <1>4. n - 1 \in lo..(hi - 1) /\ n - 1 \in lo..hi /\ ~(n <= n - 1)
    BY <1>3
  <1>5. n - 1 \in G
    BY <1>2, <1>4
  <1>6. (n - 1) + 1 \in G
    BY <1>4, <1>5
  <1>7. (n - 1) + 1 = n
    BY <1>3
  <1>8. QED
    BY <1>3, <1>6, <1>7

\* A family that holds every set whose proper subsets it holds, holds every
\* subset of a finite set.
LEMMA FiniteSubsets ==
    ASSUME NEW S, IsFiniteSet(S), NEW G,
           \A T \in SUBSET S : (\A u \in SUBSET T : u # T => u \in G) => T \in G
    PROVE  \A T \in SUBSET S : T \in G
  <1> DEFINE Bad == {T \in SUBSET S : T \notin G}
             Sizes == {Cardinality(T) : T \in Bad}
  <1>1. SUFFICES ASSUME Bad # {} PROVE FALSE
    OBVIOUS
  <1>2. \A T \in SUBSET S : IsFiniteSet(T) /\ Cardinality(T) \in Nat
    BY FS_Subset, FS_CardinalityType
  <1>3. Sizes \subseteq Nat /\ Sizes # {}
    BY <1>1, <1>2
  <1>4. PICK n \in Sizes : \A k \in Sizes : n <= k
    BY <1>3, LeastExists
  <1>5. PICK T \in Bad : Cardinality(T) = n
    BY <1>4
  <1>6. ASSUME NEW u \in SUBSET T, u # T
        PROVE  u \in G
    <2>1. T \in SUBSET S /\ u \in SUBSET S /\ IsFiniteSet(T)
      BY <1>2
    <2>2. Cardinality(u) <= Cardinality(T) /\ Cardinality(T) # Cardinality(u)
      BY <1>6, <2>1, FS_Subset
    <2>3. Cardinality(u) \notin Sizes
      BY <1>2, <1>4, <1>5, <2>1, <2>2
    <2>4. QED
      BY <2>1, <2>3
  <1>7. T \in G
    BY <1>6
  <1>8. QED
    BY <1>5, <1>7

-----------------------------------------------------------------------------
(* The folds of the dynamic program.  FoldLeft recurses on the set of the  *)
(* positions still to fold, taking out the last one.                       *)

Top(s) == CHOOSE n \in s : \A k \in s : n >= k

\* What a fold appends for position i: the next cell of a row (over the row
\* above it, x, for the character y), or the next row of a table (for x[i]).
Step(p, built, i) ==
    IF p.kind = "row"
    THEN Append(built, Smallest({p.x[p.at[i]] + (IF p.y = p.b[p.at[i]] THEN 0 ELSE 1),
                                 built[p.at[i]] + 1, p.x[p.at[i] + 1] + 1}))
    ELSE Append(built, NextRow(built[Len(built)], p.x[i], p.b))
Builds(f, S, base, p) ==
    f = [s \in SUBSET S |-> IF s = {} THEN base ELSE Step(p, f[s \ {Top(s)}], Top(s))]

FoldOver(S, base, p) == (CHOOSE f : Builds(f, S, base, p))[S]

RowOf(previous, character, b) == 
    [kind |-> "row", x |-> previous, y |-> character, b |-> b, at |-> [i \in DOMAIN b |-> i]]
TableOf(a, b) == [kind |-> "table", x |-> a, y |-> 0, b |-> b]

\* A row and all rows are such folds.
LEMMA RowUnfolds ==
    ASSUME NEW previous, NEW character, NEW b
    PROVE  NextRow(previous, character, b) =
             FoldOver(DOMAIN b, <<previous[1] + 1>>, RowOf(previous, character, b))
  BY DEF NextRow, FoldLeftDomain, FoldLeft, MapThenFoldSet, FoldOver, Builds, Step, RowOf, Top, Max

LEMMA TableUnfolds ==
    ASSUME NEW a, NEW b
    PROVE  Rows(a, b) =
             FoldOver(DOMAIN a, << [j \in 1..(Len(b) + 1) |-> j - 1] >>, TableOf(a, b))
  BY DEF Rows, FoldLeft, MapThenFoldSet, FoldOver, Builds, Step, TableOf, Top, Max

\* Top is the greatest of a set of positions, and taking it out shrinks the set.
LEMMA TopIsLast ==
    ASSUME NEW n \in Nat, NEW s \in SUBSET (1..n), s # {}
    PROVE  /\ Top(s) \in s /\ \A k \in s : Top(s) >= k
           /\ s \ {Top(s)} \in SUBSET s /\ s \ {Top(s)} # s
  <1> DEFINE Left == {n - k : k \in s}
  <1>0. \A k \in s : k \in 1..n
    OBVIOUS
  <1>1. Left \subseteq Nat /\ Left # {}
    BY <1>0
  <1>2. PICK l \in Left : \A k \in Left : l <= k
    BY <1>1, LeastExists
  <1>3. PICK t \in s : l = n - t
    BY <1>2
  <1>4. ASSUME NEW k \in s PROVE t >= k
    <2>1. l <= n - k
      BY <1>2
    <2>2. QED
      BY <1>3, <2>1
  <1>5. Top(s) \in s /\ \A k \in s : Top(s) >= k
    BY <1>4 DEF Top
  <1>6. QED
    BY <1>5

\* The last of the first i positions.
LEMMA TopOfSegment ==
    ASSUME NEW i \in Nat \ {0}
    PROVE  1..i # {} /\ Top(1..i) = i /\ (1..i) \ {i} = 1..(i - 1)
  <1>1. Top(1..i) \in 1..i /\ \A k \in 1..i : Top(1..i) >= k
    <2>1. PICK s : s = 1..i
      OBVIOUS
    <2>0. i \in 1..i /\ i \in Nat
      OBVIOUS
    <2>2. s # {} /\ s \in SUBSET (1..i) /\ i \in Nat
      BY <2>0, <2>1, Zenon
    <2>3. Top(s) \in s /\ \A k \in s : Top(s) >= k
      BY <2>2, TopIsLast
    <2>4. QED
      BY <2>1, <2>3
  <1>2. Top(1..i) = i
    BY <1>1
  <1>3. QED
    BY <1>2

\* The equation of a fold has at most one solution,
LEMMA BuildsUnique ==
    ASSUME NEW n \in Nat, NEW S \in SUBSET (1..n), NEW base, NEW p,
           NEW f, NEW g, Builds(f, S, base, p), Builds(g, S, base, p)
    PROVE  f = g
  <1>0. f = [s \in SUBSET S |-> f[s]] /\ g = [s \in SUBSET S |-> g[s]]
    BY DEF Builds
  <1> DEFINE G == {T \in SUBSET S : f[T] = g[T]}
  <1>1. ASSUME NEW T \in SUBSET S, \A u \in SUBSET T : u # T => u \in G
        PROVE  T \in G
    <2>1. CASE T = {}
      <3>1. f[T] = base /\ g[T] = base
        BY <2>1 DEF Builds
      <3>2. QED
        BY <3>1
    <2>2. CASE T # {}
      <3>1. PICK x, u : x = Top(T) /\ u = T \ {x}
        OBVIOUS
      <3>2. u \in SUBSET T /\ u # T
        BY <2>2, <3>1, TopIsLast
      <3>3. f[u] = g[u]
        BY <1>1, <3>2
      <3>4. f[T] = Step(p, f[u], x) /\ g[T] = Step(p, g[u], x)
        BY <2>2, <3>1 DEF Builds
      <3>5. QED
        BY <3>3, <3>4
    <2>3. QED
      BY <2>1, <2>2
  <1>2. \A T \in SUBSET S : T \in G
    <2> HIDE DEF G
    <2>1. IsFiniteSet(S)
      <3>1. IsFiniteSet(1..n)
        BY FS_Interval
      <3>2. QED
        BY <3>1, FS_Subset
    <2>2. QED
      BY <1>1, <2>1, FiniteSubsets
  <1>3. QED
    BY <1>0, <1>2

\* a solution for a set is one for its subsets,
LEMMA BuildsRestrict ==
    ASSUME NEW S, NEW T \in SUBSET S, NEW base, NEW p, NEW f, Builds(f, S, base, p),
           NEW g, g = [s \in SUBSET T |-> f[s]]
    PROVE  Builds(g, T, base, p)
  <1>1. g = [s \in SUBSET T |-> f[s]]
    OBVIOUS
  <1>2. ASSUME NEW s \in SUBSET T
        PROVE  g[s] = IF s = {} THEN base ELSE Step(p, g[s \ {Top(s)}], Top(s))
    <2>1. s \in SUBSET S /\ s \ {Top(s)} \in SUBSET T
      OBVIOUS
    <2>2. f[s] = IF s = {} THEN base ELSE Step(p, f[s \ {Top(s)}], Top(s))
      BY <2>1 DEF Builds
    <2>3. g[s] = f[s] /\ g[s \ {Top(s)}] = f[s \ {Top(s)}]
      BY <1>1, <2>1
    <2>4. QED
      BY <2>2, <2>3
  <1>3. QED
    BY <1>1, <1>2 DEF Builds

\* and there is one for every set of positions.
LEMMA BuildsExist ==
    ASSUME NEW n \in Nat, NEW S \in SUBSET (1..n), NEW base, NEW p
    PROVE  \E f : Builds(f, S, base, p)
  <1> DEFINE G == {T \in SUBSET S : \E f : Builds(f, T, base, p)}
  <1>1. ASSUME NEW T \in SUBSET S, \A u \in SUBSET T : u # T => u \in G
        PROVE  T \in G
    <2> DEFINE of(u) == (CHOOSE f : Builds(f, u, base, p))
               built(s) == IF s = {} THEN base
                           ELSE Step(p, of(s \ {Top(s)})[s \ {Top(s)}], Top(s))
    <2>0. T \in SUBSET (1..n)
      OBVIOUS
    <2>a. PICK h : h = [s \in SUBSET T |-> built(s)]
      OBVIOUS
    <2>b. \A s \in SUBSET T : h[s] = built(s)
      BY <2>a
    <2>c. h = [s \in SUBSET T |-> h[s]]
      <3> HIDE DEF built
      <3>1. QED
        BY <2>a
    <2>1. ASSUME NEW u \in SUBSET T, u # T
          PROVE  Builds(of(u), u, base, p)
      <3>1. \E f : Builds(f, u, base, p)
        BY <1>1, <2>1
      <3>2. QED
        BY <3>1
    <2>2. ASSUME NEW u \in SUBSET T, u # T
          PROVE  h[u] = of(u)[u]
      <3>1. CASE u = {}
        <4>1. PICK g : g = of(u)
          OBVIOUS
        <4>2. Builds(g, u, base, p)
          BY <2>1, <2>2, <4>1
        <4>3. g[u] = base
          BY <3>1, <4>2 DEF Builds
        <4>4. QED
          BY <2>b, <3>1, <4>1, <4>3
      <3>2. CASE u # {}
        <4>1. PICK x, v, g, k : x = Top(u) /\ v = u \ {x} /\ g = of(u) /\ k = of(v)
          OBVIOUS
        <4>2. u \in SUBSET (1..n) /\ v \in SUBSET u /\ v # u
          BY <2>0, <3>2, <4>1, TopIsLast
        <4>3. v \in SUBSET T /\ v # T /\ v \in SUBSET (1..n)
          BY <2>0, <4>2
        <4>4. Builds(g, u, base, p) /\ Builds(k, v, base, p)
          BY <2>1, <2>2, <4>1, <4>3
        <4>5. PICK r : r = [s \in SUBSET v |-> g[s]]
          OBVIOUS
        <4>6. Builds(r, v, base, p)
          <5>1. Builds(g, u, base, p) /\ v \in SUBSET u
            BY <4>2, <4>4
          <5> HIDE DEF of
          <5>2. QED
            BY <4>5, <5>1, BuildsRestrict, Zenon
        <4>7. k = r
          BY <4>3, <4>4, <4>6, BuildsUnique
        <4>8. k[v] = g[v]
          BY <4>5, <4>7
        <4>9. g[u] = Step(p, g[v], x)
          BY <3>2, <4>1, <4>4 DEF Builds
        <4>10. h[u] = Step(p, k[v], x)
          BY <2>b, <3>2, <4>1
        <4>11. QED
          BY <4>1, <4>8, <4>9, <4>10
      <3>3. QED
        BY <3>1, <3>2
    <2>3. ASSUME NEW s \in SUBSET T
          PROVE  h[s] = IF s = {} THEN base ELSE Step(p, h[s \ {Top(s)}], Top(s))
      <3>1. CASE s = {}
        BY <2>b, <3>1
      <3>2. CASE s # {}
        <4>1. PICK x, v, k : x = Top(s) /\ v = s \ {x} /\ k = of(v)
          OBVIOUS
        <4>2. v \in SUBSET T /\ v # T
          BY <2>0, <3>2, <4>1, TopIsLast
        <4>3. h[v] = k[v]
          BY <2>2, <4>1, <4>2
        <4>4. h[s] = Step(p, k[v], x)
          BY <2>b, <3>2, <4>1
        <4>5. QED
          BY <3>2, <4>1, <4>3, <4>4
      <3>3. QED
        BY <3>1, <3>2
    <2>4. \A s \in SUBSET T : h[s] = IF s = {} THEN base ELSE Step(p, h[s \ {Top(s)}], Top(s))
      BY <2>3, Zenon
    <2>5. Builds(h, T, base, p)
      BY <2>c, <2>4 DEF Builds
    <2>6. QED
      BY <2>5
  <1>2. \A T \in SUBSET S : T \in G
    <2> HIDE DEF G
    <2>1. IsFiniteSet(S)
      <3>1. IsFiniteSet(1..n)
        BY FS_Interval
      <3>2. QED
        BY <3>1, FS_Subset
    <2>2. QED
      BY <1>1, <2>1, FiniteSubsets
  <1>3. QED
    BY <1>2

\* A fold over 1..n, one position after the other: c[i] is what is built from
\* the first i.
Chain(c, n, base, p) ==
    /\ FoldOver(1..n, base, p) = c[n]
    /\ c[0] = base
    /\ \A i \in 1..n : c[i] = Step(p, c[i - 1], i)

LEMMA FoldChain ==
    ASSUME NEW n \in Nat, NEW base, NEW p
    PROVE  \E c : Chain(c, n, base, p)
  <1>1. PICK f : f = (CHOOSE g : Builds(g, 1..n, base, p))
    OBVIOUS
  <1>2. \E g : Builds(g, 1..n, base, p)
    BY BuildsExist
  <1>3. Builds(f, 1..n, base, p)
    BY <1>1, <1>2
  <1>4. PICK c : c = [i \in 0..n |-> f[1..i]]
    OBVIOUS
  <1>5. \A i \in 0..n : c[i] = f[1..i] /\ 1..i \in SUBSET (1..n)
    BY <1>4
  <1>6. c[0] = base
    <2>1. 1..0 = {} /\ {} \in SUBSET (1..n)
      OBVIOUS
    <2>2. f[{}] = base
      BY <1>3, <2>1 DEF Builds
    <2>3. QED
      BY <1>5, <2>1, <2>2
  <1>7. ASSUME NEW i \in 1..n PROVE c[i] = Step(p, c[i - 1], i)
    <2>1. i \in Nat \ {0} /\ i \in 0..n /\ i - 1 \in 0..n
      OBVIOUS
    <2>2. PICK T, u : T = 1..i /\ u = 1..(i - 1)
      OBVIOUS
    <2>3. T \in SUBSET (1..n) /\ T # {} /\ Top(T) = i /\ T \ {i} = u
      BY <1>5, <2>1, <2>2, TopOfSegment
    <2>4. f[T] = Step(p, f[u], i)
      BY <1>3, <2>3 DEF Builds
    <2>5. c[i] = f[T] /\ c[i - 1] = f[u]
      BY <1>5, <2>1, <2>2
    <2>6. QED
      BY <2>4, <2>5
  <1>8. FoldOver(1..n, base, p) = c[n]
    BY <1>1, <1>5 DEF FoldOver
  <1>9. QED
    BY <1>6, <1>7, <1>8 DEF Chain

-----------------------------------------------------------------------------
(* The rows of the dynamic program are the table of the edit distances of  *)
(* all prefixes.                                                           *)

Cost(x, y) == IF x = y THEN 0 ELSE 1

\* What Smallest picks.
LEMMA SmallestIsLeast ==
    ASSUME NEW S, S \subseteq Nat, S # {}
    PROVE  Smallest(S) \in S /\ \A k \in S : Smallest(S) <= k
  BY LeastExists DEF Smallest

LEMMA SmallestOfThree ==
    ASSUME NEW x \in Nat, NEW y \in Nat, NEW z \in Nat,
           NEW s, s = Smallest({x, y, z})
    PROVE  /\ s \in Nat /\ s <= x /\ s <= y /\ s <= z
           /\ s = x \/ s = y \/ s = z
  <1>1. PICK S : S = {x, y, z}
    OBVIOUS
  <1>2. S \subseteq Nat /\ S # {}
    BY <1>1
  <1>3. s \in S /\ \A k \in S : s <= k
    BY <1>1, <1>2, SmallestIsLeast
  <1>4. QED
    BY <1>1, <1>3

\* What is appended stays.
LEMMA Appended ==
    ASSUME NEW S, NEW s \in Seq(S), NEW x \in S, NEW t, t = Append(s, x)
    PROVE  /\ t \in Seq(S) /\ Len(t) = Len(s) + 1 /\ Len(s) \in Nat
           /\ t[Len(s) + 1] = x
           /\ \A j \in 1..Len(s) : t[j] = s[j]
  OBVIOUS

\* One row from the row above it.
RowFrom(row, previous, character, b) ==
    /\ row \in Seq(Nat) /\ Len(row) = Len(b) + 1
    /\ row[1] = previous[1] + 1
    /\ \A j \in 1..Len(b) :
         /\ row[j + 1] <= previous[j] + Cost(character, b[j])
         /\ row[j + 1] <= row[j] + 1
         /\ row[j + 1] <= previous[j + 1] + 1
         /\ \/ row[j + 1] = previous[j] + Cost(character, b[j])
            \/ row[j + 1] = row[j] + 1
            \/ row[j + 1] = previous[j + 1] + 1

\* NextRow computes such a row.
LEMMA NextRowFrom ==
    ASSUME NEW C, NEW b \in Seq(C), NEW character,
           NEW previous \in Seq(Nat), Len(previous) = Len(b) + 1
    PROVE  RowFrom(NextRow(previous, character, b), previous, character, b)
  <1>1. PICK m \in Nat : m = Len(b) /\ DOMAIN b = 1..m
    OBVIOUS
  <1>2. \A j \in 1..(m + 1) : previous[j] \in Nat
    BY <1>1
  <1>3. PICK base, p : base = <<previous[1] + 1>> /\ p = RowOf(previous, character, b)
    OBVIOUS
  <1>4. PICK c : Chain(c, m, base, p)
    BY FoldChain
  <1>5. NextRow(previous, character, b) = c[m]
    BY <1>1, <1>3, <1>4, RowUnfolds DEF Chain
  <1>6. ASSUME NEW i \in 1..m
        PROVE  c[i] = Append(c[i - 1], Smallest({previous[i] + Cost(character, b[i]),
                                                c[i - 1][i] + 1, previous[i + 1] + 1}))
    <2>1. p.kind = "row" /\ p.x = previous /\ p.y = character /\ p.b = b /\ p.at[i] = i
      BY <1>1, <1>3 DEF RowOf
    <2>2. PICK built : built = c[i - 1]
      OBVIOUS
    <2>3. Step(p, built, i) = Append(built, Smallest({previous[i] + Cost(character, b[i]),
                                                      built[i] + 1, previous[i + 1] + 1}))
      BY <2>1 DEF Step, Cost
    <2>4. QED
      BY <1>4, <2>2, <2>3 DEF Chain
  <1> DEFINE Good(i) ==
               /\ c[i] \in Seq(Nat) /\ Len(c[i]) = i + 1 /\ c[i][1] = previous[1] + 1
               /\ \A j \in 1..i :
                    /\ c[i][j + 1] <= previous[j] + Cost(character, b[j])
                    /\ c[i][j + 1] <= c[i][j] + 1
                    /\ c[i][j + 1] <= previous[j + 1] + 1
                    /\ \/ c[i][j + 1] = previous[j] + Cost(character, b[j])
                       \/ c[i][j + 1] = c[i][j] + 1
                       \/ c[i][j + 1] = previous[j + 1] + 1
             G == {i \in 0..m : Good(i)}
  <1>7. 0 \in G
    <2>1. previous[1] + 1 \in Nat
      BY <1>1, <1>2
    <2>2. base \in Seq(Nat) /\ Len(base) = 1 /\ base[1] = previous[1] + 1
      BY <1>3, <2>1
    <2>3. 1..0 = {}
      OBVIOUS
    <2>4. QED
      BY <1>1, <1>4, <2>2, <2>3 DEF Chain
  <1>8. ASSUME NEW i \in 0..(m - 1), i \in G
        PROVE  i + 1 \in G
    <2>1. PICK s, t, x : /\ s = c[i] /\ t = c[i + 1]
                         /\ x = Smallest({previous[i + 1] + Cost(character, b[i + 1]),
                                          s[i + 1] + 1, previous[(i + 1) + 1] + 1})
      OBVIOUS
    <2>2. i + 1 \in 1..m /\ (i + 1) - 1 = i /\ i + 1 \in 1..(m + 1) /\ (i + 1) + 1 \in 1..(m + 1)
          /\ i \in Nat /\ i + 1 \in 0..m
      BY <1>1
    <2>3. t = Append(s, x)
      BY <1>6, <2>1, <2>2
    <2>4. Good(i)
      BY <1>8
    <2>5. s \in Seq(Nat) /\ Len(s) = i + 1 /\ s[1] = previous[1] + 1
      BY <2>1, <2>4
    <2>6. s[i + 1] \in Nat /\ previous[i + 1] \in Nat /\ previous[(i + 1) + 1] \in Nat
          /\ Cost(character, b[i + 1]) \in Nat
      BY <1>2, <2>2, <2>5 DEF Cost
    <2>7. /\ x \in Nat /\ x <= previous[i + 1] + Cost(character, b[i + 1])
          /\ x <= s[i + 1] + 1 /\ x <= previous[(i + 1) + 1] + 1
          /\ \/ x = previous[i + 1] + Cost(character, b[i + 1])
             \/ x = s[i + 1] + 1 \/ x = previous[(i + 1) + 1] + 1
      <3>1. PICK u, v, w : /\ u = previous[i + 1] + Cost(character, b[i + 1])
                           /\ v = s[i + 1] + 1 /\ w = previous[(i + 1) + 1] + 1
        OBVIOUS
      <3>2. x = Smallest({u, v, w})
        BY <2>1, <3>1
      <3>3. u \in Nat /\ v \in Nat /\ w \in Nat
        <4>1. PICK d, e, f, k : /\ d = previous[i + 1] /\ e = s[i + 1] /\ f = previous[(i + 1) + 1]
                                /\ k = Cost(character, b[i + 1])
          OBVIOUS
        <4>2. d \in Nat /\ e \in Nat /\ f \in Nat /\ k \in Nat
          BY <2>6, <4>1, Zenon
        <4>3. u = d + k /\ v = e + 1 /\ w = f + 1
          BY <3>1, <4>1, Zenon
        <4>4. QED
          BY <4>2, <4>3
      <3>4. x \in Nat /\ x <= u /\ x <= v /\ x <= w /\ (x = u \/ x = v \/ x = w)
        BY <3>2, <3>3, SmallestOfThree
      <3>5. QED
        BY <3>1, <3>4
    <2>8. t \in Seq(Nat) /\ Len(t) = (i + 1) + 1 /\ t[(i + 1) + 1] = x
          /\ \A j \in 1..(i + 1) : t[j] = s[j]
      BY <2>3, <2>5, <2>7, Appended
    <2>9. t[1] = previous[1] + 1
      BY <2>2, <2>5, <2>8
    <2>10. ASSUME NEW j \in 1..(i + 1)
           PROVE  /\ t[j + 1] <= previous[j] + Cost(character, b[j])
                  /\ t[j + 1] <= t[j] + 1
                  /\ t[j + 1] <= previous[j + 1] + 1
                  /\ \/ t[j + 1] = previous[j] + Cost(character, b[j])
                     \/ t[j + 1] = t[j] + 1
                     \/ t[j + 1] = previous[j + 1] + 1
      <3>1. t[j] = s[j]
        BY <2>8
      <3>2. CASE j = i + 1
        BY <2>7, <2>8, <3>1, <3>2
      <3>3. CASE j # i + 1
        <4>1. j \in 1..i /\ j + 1 \in 1..(i + 1)
          BY <2>2, <3>3
        <4>2. t[j + 1] = s[j + 1]
          BY <2>8, <4>1
        <4>3. QED
          BY <2>1, <2>4, <3>1, <4>1, <4>2
      <3>4. QED
        BY <3>2, <3>3
    <2>11. Good(i + 1)
      BY <2>1, <2>8, <2>9, <2>10
    <2>12. QED
      BY <2>2, <2>11
  <1>9. m \in G
    <2> HIDE DEF G
    <2>1. \A i \in 0..m : i \in G
      BY <1>7, <1>8, Climb
    <2>2. QED
      BY <2>1
  <1>10. QED
    BY <1>1, <1>5, <1>9 DEF RowFrom

\* D[i][j]: the edits between the first i characters of a and the first j of b.
EditTable(D, a, b) ==
    /\ \A i \in 0..Len(a), j \in 0..Len(b) : D[i][j] \in Nat
    /\ \A j \in 0..Len(b) : D[0][j] = j
    /\ \A i \in 1..Len(a) : D[i][0] = D[i - 1][0] + 1
    /\ \A i \in 1..Len(a), j \in 1..Len(b) :
         /\ D[i][j] <= D[i - 1][j - 1] + Cost(a[i], b[j])
         /\ D[i][j] <= D[i][j - 1] + 1
         /\ D[i][j] <= D[i - 1][j] + 1
         /\ \/ D[i][j] = D[i - 1][j - 1] + Cost(a[i], b[j])
            \/ D[i][j] = D[i][j - 1] + 1
            \/ D[i][j] = D[i - 1][j] + 1

\* What the rows computed for a and b are.
RowsHold(rows, a, b) ==
    /\ rows \in Seq(Seq(Nat)) /\ Len(rows) = Len(a) + 1
    /\ \A i \in 1..(Len(a) + 1) : Len(rows[i]) = Len(b) + 1
    /\ \A j \in 1..(Len(b) + 1) : rows[1][j] = j - 1
    /\ \A i \in 1..Len(a) : RowFrom(rows[i + 1], rows[i], a[i], b)

\* Rows computes them.
LEMMA RowsAreRows ==
    ASSUME NEW C, NEW a \in Seq(C), NEW b \in Seq(C)
    PROVE  RowsHold(Rows(a, b), a, b)
  <1>1. PICK m \in Nat, n \in Nat : m = Len(a) /\ DOMAIN a = 1..m /\ n = Len(b)
    OBVIOUS
  <1>2. PICK first, base, p : /\ first = [j \in 1..(n + 1) |-> j - 1]
                              /\ base = <<first>> /\ p = TableOf(a, b)
    OBVIOUS
  <1>3. first \in Seq(Nat) /\ Len(first) = n + 1 /\ \A j \in 1..(n + 1) : first[j] = j - 1
    BY <1>2
  <1>4. PICK c : Chain(c, m, base, p)
    BY FoldChain
  <1>5. Rows(a, b) = c[m]
    BY <1>1, <1>2, <1>4, TableUnfolds DEF Chain
  <1>6. ASSUME NEW i \in 1..m
        PROVE  c[i] = Append(c[i - 1], NextRow(c[i - 1][Len(c[i - 1])], a[i], b))
    <2>1. p.kind = "table" /\ p.x = a /\ p.b = b
      BY <1>2 DEF TableOf
    <2>2. PICK built : built = c[i - 1]
      OBVIOUS
    <2>3. Step(p, built, i) = Append(built, NextRow(built[Len(built)], a[i], b))
      BY <2>1 DEF Step
    <2>4. QED
      BY <1>4, <2>2, <2>3 DEF Chain
  <1> DEFINE Good(i) ==
               /\ c[i] \in Seq(Seq(Nat)) /\ Len(c[i]) = i + 1
               /\ \A k \in 1..(i + 1) : Len(c[i][k]) = n + 1
               /\ \A j \in 1..(n + 1) : c[i][1][j] = j - 1
               /\ \A k \in 1..i : RowFrom(c[i][k + 1], c[i][k], a[k], b)
             G == {i \in 0..m : Good(i)}
  <1>7. 0 \in G
    <2>1. base \in Seq(Seq(Nat)) /\ Len(base) = 1 /\ base[1] = first
      BY <1>2, <1>3
    <2>2. 1..0 = {} /\ 1..(0 + 1) = {1} /\ 0 \in 0..m
      BY <1>1
    <2>3. Good(0)
      BY <1>3, <1>4, <2>1, <2>2 DEF Chain
    <2>4. QED
      BY <2>2, <2>3
  <1>8. ASSUME NEW i \in 0..(m - 1), i \in G
        PROVE  i + 1 \in G
    <2>1. PICK s, t, last, x : /\ s = c[i] /\ t = c[i + 1] /\ last = s[i + 1]
                               /\ x = NextRow(last, a[i + 1], b)
      OBVIOUS
    <2>2. i + 1 \in 1..m /\ (i + 1) - 1 = i /\ i \in Nat /\ i + 1 \in 0..m /\ i + 1 \in 1..(i + 1)
          /\ 1 \in 1..(i + 1)
      BY <1>1
    <2>4. Good(i)
      BY <1>8
    <2>5. /\ s \in Seq(Seq(Nat)) /\ Len(s) = i + 1
          /\ \A k \in 1..(i + 1) : Len(s[k]) = n + 1
          /\ \A j \in 1..(n + 1) : s[1][j] = j - 1
          /\ \A k \in 1..i : RowFrom(s[k + 1], s[k], a[k], b)
      BY <2>1, <2>4
    <2>3. t = Append(s, x)
      BY <1>6, <2>1, <2>2, <2>5
    <2>6. last \in Seq(Nat) /\ Len(last) = n + 1
      BY <2>1, <2>2, <2>5
    <2>7. RowFrom(x, last, a[i + 1], b)
      BY <1>1, <2>1, <2>6, NextRowFrom
    <2>8. x \in Seq(Nat) /\ Len(x) = n + 1
      BY <1>1, <2>7 DEF RowFrom
    <2>9. t \in Seq(Seq(Nat)) /\ Len(t) = (i + 1) + 1 /\ t[(i + 1) + 1] = x
          /\ \A j \in 1..(i + 1) : t[j] = s[j]
      BY <2>3, <2>5, <2>8, Appended
    <2>10. ASSUME NEW k \in 1..((i + 1) + 1) PROVE Len(t[k]) = n + 1
      <3>1. CASE k = (i + 1) + 1
        BY <2>8, <2>9, <3>1
      <3>2. CASE k \in 1..(i + 1)
        BY <2>5, <2>9, <3>2
      <3>3. QED
        BY <2>2, <3>1, <3>2
    <2>11. \A j \in 1..(n + 1) : t[1][j] = j - 1
      BY <2>2, <2>5, <2>9
    <2>12. ASSUME NEW k \in 1..(i + 1) PROVE RowFrom(t[k + 1], t[k], a[k], b)
      <3>1. t[k] = s[k]
        BY <2>9
      <3>2. CASE k = i + 1
        <4>1. t[k + 1] = x /\ t[k] = last
          BY <2>1, <2>9, <3>1, <3>2
        <4>2. QED
          BY <2>7, <3>2, <4>1
      <3>3. CASE k # i + 1
        <4>1. k \in 1..i /\ k + 1 \in 1..(i + 1)
          BY <2>2, <3>3
        <4>2. t[k + 1] = s[k + 1]
          BY <2>9, <4>1
        <4>3. QED
          BY <2>5, <3>1, <4>1, <4>2
      <3>4. QED
        BY <3>2, <3>3
    <2>13. Good(i + 1)
      BY <2>1, <2>9, <2>10, <2>11, <2>12
    <2>14. QED
      BY <2>2, <2>13
  <1>9. m \in G
    <2> HIDE DEF G
    <2>1. \A i \in 0..m : i \in G
      BY <1>7, <1>8, Climb
    <2>2. QED
      BY <2>1
  <1>10. QED
    BY <1>1, <1>5, <1>9 DEF RowsHold

\* The rows, seen as a table from 0 on.
LEMMA RowsAreTable ==
    ASSUME NEW C, NEW a \in Seq(C), NEW b \in Seq(C)
    PROVE  \E D : /\ EditTable(D, a, b)
                  /\ Len(Rows(a, b)) = Len(a) + 1
                  /\ \A i \in 0..Len(a) : Len(Rows(a, b)[i + 1]) = Len(b) + 1
                  /\ \A i \in 0..Len(a) : \A j \in 0..Len(b) : Rows(a, b)[i + 1][j + 1] = D[i][j]
  <1>1. PICK rows, m, n : rows = Rows(a, b) /\ m = Len(a) /\ n = Len(b)
    OBVIOUS
  <1>2. RowsHold(rows, a, b) /\ m \in Nat /\ n \in Nat
    BY <1>1, RowsAreRows
  <1>3. PICK D : D = [i \in 0..m |-> [j \in 0..n |-> rows[i + 1][j + 1]]]
    OBVIOUS
  <1>4. \A i \in 0..m, j \in 0..n : D[i][j] = rows[i + 1][j + 1]
    BY <1>3
  <1>5. /\ rows \in Seq(Seq(Nat)) /\ Len(rows) = m + 1
        /\ \A i \in 1..(m + 1) : Len(rows[i]) = n + 1
        /\ \A j \in 1..(n + 1) : rows[1][j] = j - 1
        /\ \A i \in 1..m : RowFrom(rows[i + 1], rows[i], a[i], b)
    BY <1>1, <1>2 DEF RowsHold
  <1>6. ASSUME NEW i \in 0..m PROVE Len(rows[i + 1]) = n + 1 /\ rows[i + 1] \in Seq(Nat)
    <2>1. i + 1 \in 1..(m + 1)
      BY <1>2
    <2>2. QED
      BY <1>5, <2>1
  <1>7. ASSUME NEW i \in 0..m, NEW j \in 0..n PROVE D[i][j] \in Nat
    <2>1. j + 1 \in 1..(n + 1)
      BY <1>2
    <2>2. rows[i + 1][j + 1] \in Nat
      BY <1>6, <2>1
    <2>3. QED
      BY <1>4, <2>2
  <1>8. ASSUME NEW j \in 0..n PROVE D[0][j] = j
    <2>1. j + 1 \in 1..(n + 1) /\ (j + 1) - 1 = j /\ 0 \in 0..m /\ 0 + 1 = 1
      BY <1>2
    <2>2. QED
      BY <1>4, <1>5, <2>1
  <1>9. ASSUME NEW i \in 1..m
        PROVE  /\ D[i][0] = D[i - 1][0] + 1
               /\ \A j \in 1..n :
                    /\ D[i][j] <= D[i - 1][j - 1] + Cost(a[i], b[j])
                    /\ D[i][j] <= D[i][j - 1] + 1
                    /\ D[i][j] <= D[i - 1][j] + 1
                    /\ \/ D[i][j] = D[i - 1][j - 1] + Cost(a[i], b[j])
                       \/ D[i][j] = D[i][j - 1] + 1
                       \/ D[i][j] = D[i - 1][j] + 1
    <2>1. i \in 0..m /\ i - 1 \in 0..m /\ (i - 1) + 1 = i
      BY <1>2
    <2>2. RowFrom(rows[i + 1], rows[i], a[i], b)
      BY <1>5
    <2>3. \A j \in 0..n : D[i][j] = rows[i + 1][j + 1] /\ D[i - 1][j] = rows[i][j + 1]
      BY <1>4, <2>1
    <2>4. D[i][0] = D[i - 1][0] + 1
      <3>1. 0 \in 0..n /\ 0 + 1 = 1
        BY <1>2
      <3>2. D[i][0] = rows[i + 1][1] /\ D[i - 1][0] = rows[i][1]
        BY <2>3, <3>1
      <3>3. QED
        BY <2>2, <3>2 DEF RowFrom
    <2>5. ASSUME NEW j \in 1..n
          PROVE  /\ D[i][j] = rows[i + 1][j + 1] /\ D[i - 1][j] = rows[i][j + 1]
                 /\ D[i][j - 1] = rows[i + 1][j] /\ D[i - 1][j - 1] = rows[i][j]
      <3>1. j \in 0..n /\ j - 1 \in 0..n /\ (j - 1) + 1 = j
        BY <1>2
      <3>2. QED
        BY <2>3, <3>1
    <2>6. ASSUME NEW j \in 1..n
          PROVE  LET x == rows[i + 1][j + 1]
                     o == rows[i][j]
                     l == rows[i + 1][j]
                     u == rows[i][j + 1]
                     c == Cost(a[i], b[j])
                 IN  x <= o + c /\ x <= l + 1 /\ x <= u + 1
                     /\ (x = o + c \/ x = l + 1 \/ x = u + 1)
      BY <1>1, <2>2, Zenon DEF RowFrom
    <2>7. QED
      BY <2>4, <2>5, <2>6
  <1>10. EditTable(D, a, b)
    BY <1>1, <1>7, <1>8, <1>9 DEF EditTable
  <1>11. \A i \in 0..m : \A j \in 0..n : rows[i + 1][j + 1] = D[i][j]
    BY <1>4
  <1>12. Len(rows) = m + 1 /\ \A i \in 0..m : Len(rows[i + 1]) = n + 1
    BY <1>5, <1>6
  <1>13. QED
    BY <1>1, <1>10, <1>11, <1>12

-----------------------------------------------------------------------------
(* Facts about every such table.                                           *)

\* Induction over a grid: a family that holds every position all whose
\* predecessors it holds, holds them all.
LEMMA Grid ==
    ASSUME NEW m \in Nat, NEW n \in Nat, NEW G,
           \A i \in 0..m : \A j \in 0..n :
               (\A u \in 0..i : \A v \in 0..j : u + v < i + j => <<u, v>> \in G) => <<i, j>> \in G
    PROVE  \A i \in 0..m : \A j \in 0..n : <<i, j>> \in G
  <1> DEFINE Sums == {s \in 0..(m + n) : \E i \in 0..m : \E j \in 0..n : s = i + j /\ <<i, j>> \notin G}
  <1>1. SUFFICES ASSUME NEW i0 \in 0..m, NEW j0 \in 0..n, <<i0, j0>> \notin G
                 PROVE  FALSE
    OBVIOUS
  <1>2. Sums \subseteq Nat /\ i0 + j0 \in Sums
    <2>1. PICK t : t = i0 + j0
      OBVIOUS
    <2>2. t \in 0..(m + n) /\ 0..(m + n) \subseteq Nat
      BY <2>1
    <2>3. t \in Sums
      BY <1>1, <2>1, <2>2, Zenon
    <2>4. Sums \subseteq 0..(m + n)
      BY Zenon
    <2>5. QED
      BY <2>1, <2>2, <2>3, <2>4, Zenon
  <1>3. PICK s \in Sums : \A k \in Sums : s <= k
    <2>1. Sums # {}
      BY <1>2
    <2> HIDE DEF Sums
    <2>2. QED
      BY <1>2, <2>1, LeastExists, Zenon
  <1>4. PICK i \in 0..m, j \in 0..n : s = i + j /\ <<i, j>> \notin G
    BY <1>3
  <1>5. ASSUME NEW u \in 0..i, NEW v \in 0..j, u + v < i + j
        PROVE  <<u, v>> \in G
    <2>1. PICK t : t = u + v
      OBVIOUS
    <2>2. u \in 0..m /\ v \in 0..n /\ t \in 0..(m + n) /\ ~(s <= t)
      BY <1>4, <1>5, <2>1
    <2>3. t \notin Sums
      BY <1>3, <2>2, Zenon
    <2>4. QED
      BY <2>1, <2>2, <2>3, Zenon
  <1>6. QED
    BY <1>4, <1>5

\* The empty prefix of b is i deletions away.
LEMMA FirstColumn ==
    ASSUME NEW D, NEW a, NEW b, Len(a) \in Nat, Len(b) \in Nat, EditTable(D, a, b)
    PROVE  \A i \in 0..Len(a) : D[i][0] = i
  <1> DEFINE G == {i \in 0..Len(a) : D[i][0] = i}
  <1>1. 0 \in G
    BY DEF EditTable
  <1>2. ASSUME NEW i \in 0..(Len(a) - 1), i \in G PROVE i + 1 \in G
    <2>1. i + 1 \in 1..Len(a) /\ (i + 1) - 1 = i
      OBVIOUS
    <2>2. D[i + 1][0] = D[i][0] + 1
      BY <2>1 DEF EditTable
    <2>3. QED
      BY <1>2, <2>1, <2>2
  <1>3. \A i \in 0..Len(a) : i \in G
    <2> HIDE DEF G
    <2>1. QED
      BY <1>1, <1>2, Climb
  <1>4. QED
    BY <1>3

\* An inner entry of the table, by its three predecessors.
LEMMA Inner ==
    ASSUME NEW D, NEW a, NEW b, Len(a) \in Nat, Len(b) \in Nat, EditTable(D, a, b),
           NEW i \in 1..Len(a), NEW j \in 1..Len(b)
    PROVE  /\ i \in 0..Len(a) /\ i - 1 \in 0..Len(a) /\ j \in 0..Len(b) /\ j - 1 \in 0..Len(b)
           /\ D[i][j] \in Nat /\ D[i - 1][j - 1] \in Nat /\ D[i][j - 1] \in Nat /\ D[i - 1][j] \in Nat
           /\ D[i][j] <= D[i - 1][j - 1] + Cost(a[i], b[j])
           /\ D[i][j] <= D[i][j - 1] + 1
           /\ D[i][j] <= D[i - 1][j] + 1
           /\ \/ D[i][j] = D[i - 1][j - 1] + Cost(a[i], b[j])
              \/ D[i][j] = D[i][j - 1] + 1
              \/ D[i][j] = D[i - 1][j] + 1
           /\ Cost(a[i], b[j]) = 0 \/ Cost(a[i], b[j]) = 1
  <1>1. i \in 0..Len(a) /\ i - 1 \in 0..Len(a) /\ j \in 0..Len(b) /\ j - 1 \in 0..Len(b)
    OBVIOUS
  <1>2. D[i][j] \in Nat /\ D[i - 1][j - 1] \in Nat /\ D[i][j - 1] \in Nat /\ D[i - 1][j] \in Nat
    <2>1. PICK h, k : h = i - 1 /\ k = j - 1
      OBVIOUS
    <2>2. D[i][j] \in Nat /\ D[h][k] \in Nat /\ D[i][k] \in Nat /\ D[h][j] \in Nat
      BY <1>1, <2>1, Zenon DEF EditTable
    <2>3. QED
      BY <2>1, <2>2
  <1>3. /\ D[i][j] <= D[i - 1][j - 1] + Cost(a[i], b[j])
        /\ D[i][j] <= D[i][j - 1] + 1
        /\ D[i][j] <= D[i - 1][j] + 1
        /\ \/ D[i][j] = D[i - 1][j - 1] + Cost(a[i], b[j])
           \/ D[i][j] = D[i][j - 1] + 1
           \/ D[i][j] = D[i - 1][j] + 1
    BY Zenon DEF EditTable
  <1>4. Cost(a[i], b[j]) = 0 \/ Cost(a[i], b[j]) = 1
    BY DEF Cost
  <1>5. QED
    BY <1>1, <1>2, <1>3, <1>4

\* The same with names for the entries: o above left, l left, u above.
From(x, o, l, u, c) ==
    /\ x \in Nat /\ o \in Nat /\ l \in Nat /\ u \in Nat /\ c \in Nat
    /\ x <= o + c /\ x <= l + 1 /\ x <= u + 1
    /\ x = o + c \/ x = l + 1 \/ x = u + 1
    /\ c = 0 \/ c = 1

\* An inner entry comes from its three predecessors.
LEMMA Cell ==
    ASSUME NEW D, NEW a, NEW b, Len(a) \in Nat, Len(b) \in Nat, EditTable(D, a, b),
           NEW i, NEW h \in 1..Len(a), NEW j, NEW k \in 1..Len(b), h = i + 1, k = j + 1,
           i \in Nat, j \in Nat
    PROVE  From(D[h][k], D[i][j], D[h][j], D[i][k], Cost(a[h], b[k]))
  <1>1. h - 1 = i /\ k - 1 = j
    OBVIOUS
  <1>2. /\ D[h][k] \in Nat /\ D[i][j] \in Nat /\ D[h][j] \in Nat /\ D[i][k] \in Nat
        /\ D[h][k] <= D[i][j] + Cost(a[h], b[k])
        /\ D[h][k] <= D[h][j] + 1
        /\ D[h][k] <= D[i][k] + 1
        /\ \/ D[h][k] = D[i][j] + Cost(a[h], b[k])
           \/ D[h][k] = D[h][j] + 1
           \/ D[h][k] = D[i][k] + 1
        /\ Cost(a[h], b[k]) = 0 \/ Cost(a[h], b[k]) = 1
    BY <1>1, Inner
  <1>3. Cost(a[h], b[k]) \in Nat
    BY DEF Cost
  <1>4. QED
    BY <1>2, <1>3, Zenon DEF From

\* One character more costs at most one edit less.
LEMMA RowsAreClose ==
    ASSUME NEW D, NEW a, NEW b, Len(a) \in Nat, Len(b) \in Nat, EditTable(D, a, b),
           NEW i \in 0..Len(a), NEW h \in 1..Len(a), h = i + 1
    PROVE  \A j \in 0..Len(b) : D[i][j] <= D[h][j] + 1
  <1> DEFINE G == {j \in 0..Len(b) : D[i][j] <= D[h][j] + 1}
  <1>0. h \in 0..Len(a)
    OBVIOUS
  <1>1. 0 \in G
    <2>1. D[h][0] = h /\ D[i][0] = i /\ 0 \in 0..Len(b)
      BY <1>0, FirstColumn
    <2>2. QED
      BY <2>1
  <1>2. ASSUME NEW j \in 0..(Len(b) - 1), j \in G PROVE j + 1 \in G
    <2>1. PICK k : k = j + 1
      OBVIOUS
    <2>2. k \in 1..Len(b) /\ k \in 0..Len(b) /\ j \in 0..Len(b)
      BY <2>1
    <2>0. PICK x, o, l, u, c : /\ x = D[h][k] /\ o = D[i][j] /\ l = D[h][j] /\ u = D[i][k]
                               /\ c = Cost(a[h], b[k])
      OBVIOUS
    <2>3. From(x, o, l, u, c)
      <3>1. i \in Nat /\ j \in Nat
        OBVIOUS
      <3>2. QED
        BY <2>0, <2>1, <2>2, <3>1, Cell
    <2>4. u <= o + 1
      <3>1. CASE i = 0
        <4>1. D[0][k] = k /\ D[0][j] = j
          BY <2>2, Zenon DEF EditTable
        <4>2. QED
          BY <2>0, <2>1, <3>1, <4>1
      <3>2. CASE i # 0
        <4>1. i \in 1..Len(a) /\ j = k - 1
          BY <2>1, <3>2
        <4>2. D[i][k] <= D[i][j] + 1
          BY <2>2, <4>1, Inner
        <4>3. QED
          BY <2>0, <4>2
      <3>3. QED
        BY <3>1, <3>2
    <2>5. o <= l + 1
      <3>1. D[i][j] <= D[h][j] + 1
        BY <1>2
      <3>2. QED
        BY <2>0, <3>1
    <2>6. u <= x + 1
      BY <2>3, <2>4, <2>5 DEF From
    <2>7. QED
      BY <2>0, <2>1, <2>2, <2>6
  <1>3. \A j \in 0..Len(b) : j \in G
    <2> HIDE DEF G
    <2>1. QED
      BY <1>1, <1>2, Climb
  <1>4. QED
    BY <1>3

\* The distance is at least the difference of the lengths.
LEMMA LengthBound ==
    ASSUME NEW D, NEW a, NEW b, Len(a) \in Nat, Len(b) \in Nat, EditTable(D, a, b)
    PROVE  \A i \in 0..Len(a) : \A j \in 0..Len(b) : D[i][j] >= i - j /\ D[i][j] >= j - i
  <1> DEFINE P(i, j) == D[i][j] >= i - j /\ D[i][j] >= j - i
             G == {q \in (0..Len(a)) \X (0..Len(b)) : P(q[1], q[2])}
  <1>1. ASSUME NEW i \in 0..Len(a), NEW j \in 0..Len(b),
               \A u \in 0..i : \A v \in 0..j : u + v < i + j => <<u, v>> \in G
        PROVE  <<i, j>> \in G
    <2>1. CASE i = 0
      <3>1. D[i][j] = j
        BY <2>1 DEF EditTable
      <3>2. QED
        BY <2>1, <3>1
    <2>2. CASE j = 0
      <3>1. D[i][j] = i
        BY <2>2, FirstColumn
      <3>2. QED
        BY <2>2, <3>1
    <2>3. CASE i # 0 /\ j # 0
      <3>1. i \in 1..Len(a) /\ j \in 1..Len(b)
        BY <2>3
      <3>2. i - 1 \in 0..i /\ j - 1 \in 0..j /\ i \in 0..i /\ j \in 0..j
            /\ (i - 1) + (j - 1) < i + j /\ (i - 1) + j < i + j /\ i + (j - 1) < i + j
        BY <3>1
      <3>3. <<i - 1, j - 1>> \in G /\ <<i - 1, j>> \in G /\ <<i, j - 1>> \in G
        BY <1>1, <3>2
      <3>4. P(i - 1, j - 1) /\ P(i - 1, j) /\ P(i, j - 1)
        BY <3>3
      <3>5. PICK e, f : e = i - 1 /\ f = j - 1
        OBVIOUS
      <3>6. e \in 0..Len(a) /\ f \in 0..Len(b) /\ i = e + 1 /\ j = f + 1
        BY <3>1, <3>5
      <3>0. PICK x, o, l, u, c : /\ x = D[i][j] /\ o = D[e][f] /\ l = D[i][f] /\ u = D[e][j]
                                 /\ c = Cost(a[i], b[j])
        OBVIOUS
      <3>7. From(x, o, l, u, c)
        <4>1. e \in Nat /\ f \in Nat
          BY <3>6
        <4>2. QED
          BY <3>0, <3>1, <3>6, <4>1, Cell
      <3>8. o >= e - f /\ o >= f - e /\ u >= e - j /\ u >= j - e /\ l >= i - f /\ l >= f - i
        BY <3>0, <3>4, <3>5
      <3>9. x >= i - j /\ x >= j - i
        BY <3>6, <3>7, <3>8 DEF From
      <3>10. QED
        BY <3>0, <3>9
    <2>4. QED
      BY <2>1, <2>2, <2>3
  <1>2. \A i \in 0..Len(a) : \A j \in 0..Len(b) : <<i, j>> \in G
    <2> HIDE DEF G
    <2>1. QED
      BY <1>1, Grid
  <1>3. QED
    BY <1>2

\* Once every entry of a row exceeds a limit, every later row's entries do.
LEMMA CutOff ==
    ASSUME NEW D, NEW a, NEW b, Len(a) \in Nat, Len(b) \in Nat, EditTable(D, a, b),
           NEW limit \in Nat, NEW r \in 0..Len(a), \A j \in 0..Len(b) : D[r][j] > limit
    PROVE  \A j \in 0..Len(b) : D[Len(a)][j] > limit
  <1> DEFINE R == {i \in r..Len(a) : \A j \in 0..Len(b) : D[i][j] > limit}
  <1>1. r \in R /\ r \in Nat
    OBVIOUS
  <1>2. ASSUME NEW i \in r..(Len(a) - 1), i \in R
        PROVE  i + 1 \in R
    <2>1. PICK h : h = i + 1
      OBVIOUS
    <2>2. h \in 1..Len(a) /\ h \in r..Len(a) /\ h - 1 = i /\ \A j \in 0..Len(b) : D[i][j] > limit
      BY <1>2, <2>1
    <2> DEFINE G == {j \in 0..Len(b) : D[h][j] > limit}
    <2>3. 0 \in G
      <3>1. D[h][0] = h /\ D[i][0] = i /\ D[i][0] > limit /\ 0 \in 0..Len(b)
        BY <2>2, FirstColumn
      <3>2. QED
        BY <2>2, <3>1
    <2>4. ASSUME NEW j \in 0..(Len(b) - 1), j \in G PROVE j + 1 \in G
      <3>1. PICK k : k = j + 1
        OBVIOUS
      <3>2. k \in 1..Len(b) /\ k \in 0..Len(b) /\ k - 1 = j
        BY <3>1
      <3>3. i \in 0..Len(a) /\ h = i + 1 /\ j \in 0..Len(b)
        BY <2>1
      <3>0. PICK x, o, l, u, c : /\ x = D[h][k] /\ o = D[i][j] /\ l = D[h][j] /\ u = D[i][k]
                                 /\ c = Cost(a[h], b[k])
        OBVIOUS
      <3>4. From(x, o, l, u, c)
        <4>1. i \in Nat /\ j \in Nat
          BY <3>3
        <4>2. QED
          BY <2>2, <3>0, <3>1, <3>2, <3>3, <4>1, Cell
      <3>5. D[i][j] > limit /\ D[i][k] > limit /\ D[h][j] > limit
        BY <2>2, <2>4, <3>2, <3>3
      <3>6. x > limit
        <4>1. o > limit /\ u > limit /\ l > limit
          BY <3>0, <3>5
        <4>2. QED
          BY <3>4, <4>1 DEF From
      <3>7. QED
        BY <3>0, <3>1, <3>2, <3>6
    <2>5. \A j \in 0..Len(b) : j \in G
      <3> HIDE DEF G
      <3>1. QED
        BY <2>3, <2>4, Climb
    <2>6. QED
      BY <2>1, <2>2, <2>5
  <1>3. \A i \in r..Len(a) : i \in R
    <2> HIDE DEF R
    <2>1. QED
      BY <1>1, <1>2, Climb
  <1>4. Len(a) \in R
    BY <1>3
  <1>5. QED
    BY <1>4

\* Equal sequences are no edits apart.
LEMMA Diagonal ==
    ASSUME NEW D, NEW a, Len(a) \in Nat, EditTable(D, a, a)
    PROVE  D[Len(a)][Len(a)] = 0
  <1> DEFINE G == {i \in 0..Len(a) : D[i][i] = 0}
  <1>1. 0 \in G
    BY DEF EditTable
  <1>2. ASSUME NEW i \in 0..(Len(a) - 1), i \in G PROVE i + 1 \in G
    <2>1. PICK h : h = i + 1
      OBVIOUS
    <2>2. h \in 1..Len(a) /\ h \in 0..Len(a) /\ h - 1 = i
      BY <2>1
    <2>0. PICK x, o, l, u, c : /\ x = D[h][h] /\ o = D[i][i] /\ l = D[h][i] /\ u = D[i][h]
                               /\ c = Cost(a[h], a[h])
      OBVIOUS
    <2>3. From(x, o, l, u, c)
      <3>1. i \in Nat
        OBVIOUS
      <3>2. QED
        BY <2>0, <2>1, <2>2, <3>1, Cell
    <2>4. D[h][h] = 0
      <3>1. c = 0 /\ o = 0
        BY <1>2, <2>0 DEF Cost
      <3>2. QED
        BY <2>0, <2>3, <3>1 DEF From
    <2>5. QED
      BY <2>1, <2>2, <2>4
  <1>3. \A i \in 0..Len(a) : i \in G
    <2> HIDE DEF G
    <2>1. QED
      BY <1>1, <1>2, Climb
  <1>4. QED
    BY <1>3

-----------------------------------------------------------------------------
(* One edit, position by position.                                         *)

\* z is x with x[p + 1] taken out (q = p + 1) or nothing (q = p), and a letter
\* put in its place (t = 1) or none (t = 0).
Edited(x, z, p, q, t, L) ==
    /\ p \in Nat /\ q \in Nat /\ q <= Len(x)
    /\ \/ q = p + 1 /\ t = 0
       \/ q = p /\ t = 1
       \/ q = p + 1 /\ t = 1
    /\ Len(z) = p + t + (Len(x) - q)
    /\ \A i \in 1..p : z[i] = x[i]
    /\ t = 1 => z[p + 1] \in L
    /\ \A i \in 1..(Len(x) - q) : z[p + t + i] = x[q + i]

Deletes(x, z) == \E i \in 1..Len(x) : z = SubSeq(x, 1, i - 1) \o SubSeq(x, i + 1, Len(x))
Inserts(x, z, L) ==
    \E i \in 0..Len(x) : \E c \in L : z = SubSeq(x, 1, i) \o <<c>> \o SubSeq(x, i + 1, Len(x))
Substitutes(x, z, L) ==
    \E i \in 1..Len(x) : \E c \in L : z = SubSeq(x, 1, i - 1) \o <<c>> \o SubSeq(x, i + 1, Len(x))

\* The three kinds of edits of OneEdit.
LEMMA OneEditIs ==
    ASSUME NEW x, NEW L, NEW z
    PROVE  z \in OneEdit(x, L) <=> Deletes(x, z) \/ Inserts(x, z, L) \/ Substitutes(x, z, L)
  <1> DEFINE S == {SubSeq(x, 1, i - 1) \o SubSeq(x, i + 1, Len(x)) : i \in 1..Len(x)}
             T == {SubSeq(x, 1, i) \o <<c>> \o SubSeq(x, i + 1, Len(x)) : i \in 0..Len(x), c \in L}
             U == {SubSeq(x, 1, i - 1) \o <<c>> \o SubSeq(x, i + 1, Len(x)) : i \in 1..Len(x), c \in L}
  <1>1. OneEdit(x, L) = S \cup T \cup U
    BY DEF OneEdit
  <1>2. z \in S <=> \E i \in 1..Len(x) : z = SubSeq(x, 1, i - 1) \o SubSeq(x, i + 1, Len(x))
    BY Zenon
  <1>3. z \in T <=> \E i \in 0..Len(x) : \E c \in L :
                      z = SubSeq(x, 1, i) \o <<c>> \o SubSeq(x, i + 1, Len(x))
    <2> DEFINE f(i, c) == SubSeq(x, 1, i) \o <<c>> \o SubSeq(x, i + 1, Len(x))
    <2>1. T = {f(i, c) : i \in 0..Len(x), c \in L}
      OBVIOUS
    <2> HIDE DEF f, T
    <2>2. z \in T <=> \E i \in 0..Len(x) : \E c \in L : z = f(i, c)
      BY <2>1
    <2>3. QED
      BY <2>2 DEF f
  <1>4. z \in U <=> \E i \in 1..Len(x) : \E c \in L :
                      z = SubSeq(x, 1, i - 1) \o <<c>> \o SubSeq(x, i + 1, Len(x))
    <2> DEFINE f(i, c) == SubSeq(x, 1, i - 1) \o <<c>> \o SubSeq(x, i + 1, Len(x))
    <2>1. U = {f(i, c) : i \in 1..Len(x), c \in L}
      OBVIOUS
    <2> HIDE DEF f, U
    <2>2. z \in U <=> \E i \in 1..Len(x) : \E c \in L : z = f(i, c)
      BY <2>1
    <2>3. QED
      BY <2>2 DEF f
  <1> HIDE DEF S, T, U
  <1>5. z \in OneEdit(x, L) <=> z \in S \/ z \in T \/ z \in U
    BY <1>1
  <1>6. QED
    BY <1>2, <1>3, <1>4, <1>5, Zenon DEF Deletes, Inserts, Substitutes

\* The first p characters, and those after the first q.
LEMMA FirstPart ==
    ASSUME NEW C, NEW x \in Seq(C), NEW p \in 0..Len(x)
    PROVE  /\ SubSeq(x, 1, p) \in Seq(C) /\ Len(SubSeq(x, 1, p)) = p
           /\ \A i \in 1..p : SubSeq(x, 1, p)[i] = x[i]
  <1>1. 1 \in Int /\ p \in Int /\ \A i \in 1..p : x[i] \in C
    OBVIOUS
  <1>2. /\ SubSeq(x, 1, p) \in Seq(C) /\ Len(SubSeq(x, 1, p)) = IF 1 <= p THEN p - 1 + 1 ELSE 0
        /\ \A i \in 1..(p - 1 + 1) : SubSeq(x, 1, p)[i] = x[1 + i - 1]
    BY <1>1, SubSeqProperties
  <1>3. p - 1 + 1 = p /\ (IF 1 <= p THEN p - 1 + 1 ELSE 0) = p /\ \A i \in 1..p : 1 + i - 1 = i
    OBVIOUS
  <1>4. QED
    BY <1>2, <1>3

LEMMA LastPart ==
    ASSUME NEW C, NEW x \in Seq(C), NEW q \in 0..Len(x)
    PROVE  /\ SubSeq(x, q + 1, Len(x)) \in Seq(C) /\ Len(SubSeq(x, q + 1, Len(x))) = Len(x) - q
           /\ \A i \in 1..(Len(x) - q) : SubSeq(x, q + 1, Len(x))[i] = x[q + i]
  <1>1. PICK n, m : n = Len(x) /\ m = q + 1
    OBVIOUS
  <1>2. n \in Int /\ m \in Int /\ q \in 0..n /\ \A i \in m..n : x[i] \in C
    BY <1>1
  <1>3. PICK v : v = SubSeq(x, m, n)
    OBVIOUS
  <1>4. /\ v \in Seq(C) /\ Len(v) = IF m <= n THEN n - m + 1 ELSE 0
        /\ \A i \in 1..(n - m + 1) : v[i] = x[m + i - 1]
    BY <1>2, <1>3, SubSeqProperties
  <1>5. n - m + 1 = n - q /\ (IF m <= n THEN n - m + 1 ELSE 0) = n - q
        /\ \A i \in 1..(n - q) : m + i - 1 = q + i
    BY <1>1, <1>2
  <1>6. QED
    BY <1>1, <1>3, <1>4, <1>5

\* The concatenations of OneEdit, position by position.
Joint(z, x, n, p, q, w, m) ==
    /\ Len(z) = p + m + (n - q)
    /\ \A i \in 1..p : z[i] = x[i]
    /\ \A i \in 1..m : z[p + i] = w[i]
    /\ \A i \in 1..(n - q) : z[p + m + i] = x[q + i]

LEMMA Joined ==
    ASSUME NEW C, NEW x \in Seq(C), NEW n, n = Len(x), NEW p \in 0..n, NEW q \in 0..n,
           NEW w \in Seq(C), NEW m, m = Len(w),
           NEW z, z = SubSeq(x, 1, p) \o w \o SubSeq(x, q + 1, n)
    PROVE  z \in Seq(C) /\ Joint(z, x, n, p, q, w, m)
  <1>1. PICK u, v, y : /\ u = SubSeq(x, 1, p) /\ v = SubSeq(x, q + 1, Len(x)) /\ y = u \o w
    OBVIOUS
  <1>2. n \in Nat /\ m \in Nat
    OBVIOUS
  <1>3. /\ u \in Seq(C) /\ Len(u) = p /\ \A i \in 1..p : u[i] = x[i]
        /\ v \in Seq(C) /\ Len(v) = n - q /\ \A i \in 1..(n - q) : v[i] = x[q + i]
    BY <1>1, FirstPart, LastPart
  <1>4. /\ y \in Seq(C) /\ Len(y) = p + m
        /\ \A i \in 1..(p + m) : y[i] = IF i <= p THEN u[i] ELSE w[i - p]
    <2>1. /\ u \o w \in Seq(C) /\ Len(u \o w) = Len(u) + Len(w)
          /\ \A i \in 1..(Len(u) + Len(w)) : (u \o w)[i] = IF i <= Len(u) THEN u[i] ELSE w[i - Len(u)]
      <3>1. u \in Seq(C)
        BY <1>3
      <3>2. QED
        BY <3>1, ConcatProperties, Zenon
    <2>2. QED
      BY <1>1, <1>3, <2>1
  <1>5. /\ z \in Seq(C) /\ Len(z) = (p + m) + (n - q)
        /\ \A i \in 1..((p + m) + (n - q)) : z[i] = IF i <= p + m THEN y[i] ELSE v[i - (p + m)]
    <2>1. z = y \o v
      BY <1>1
    <2>2. /\ y \o v \in Seq(C) /\ Len(y \o v) = Len(y) + Len(v)
          /\ \A i \in 1..(Len(y) + Len(v)) : (y \o v)[i] = IF i <= Len(y) THEN y[i] ELSE v[i - Len(y)]
      <3>1. y \in Seq(C) /\ v \in Seq(C)
        BY <1>3, <1>4
      <3>2. QED
        BY <3>1, ConcatProperties, Zenon
    <2>3. PICK l : l = p + m
      OBVIOUS
    <2>4. /\ z \in Seq(C) /\ Len(z) = l + (n - q)
          /\ \A i \in 1..(l + (n - q)) : z[i] = IF i <= l THEN y[i] ELSE v[i - l]
      BY <1>3, <1>4, <2>1, <2>2, <2>3
    <2>5. QED
      BY <2>3, <2>4
  <1>6. ASSUME NEW i \in 1..p PROVE z[i] = x[i]
    <2>1. i \in 1..((p + m) + (n - q)) /\ i \in 1..(p + m) /\ i <= p + m /\ i <= p
      BY <1>2
    <2>2. QED
      BY <1>3, <1>4, <1>5, <2>1
  <1>7. ASSUME NEW i \in 1..m PROVE z[p + i] = w[i]
    <2>1. PICK k : k = p + i
      OBVIOUS
    <2>2. k \in 1..((p + m) + (n - q)) /\ k \in 1..(p + m) /\ k <= p + m /\ ~(k <= p) /\ k - p = i
      BY <1>2, <2>1
    <2>3. z[k] = y[k] /\ y[k] = w[k - p]
      BY <1>4, <1>5, <2>2
    <2>4. QED
      BY <2>1, <2>2, <2>3
  <1>8. ASSUME NEW i \in 1..(n - q) PROVE z[p + m + i] = x[q + i]
    <2>1. PICK k : k = p + m + i
      OBVIOUS
    <2>2. k \in 1..((p + m) + (n - q)) /\ ~(k <= p + m) /\ k - (p + m) = i
      BY <1>2, <2>1
    <2>3. z[k] = v[k - (p + m)]
      BY <1>5, <2>2
    <2>4. QED
      BY <1>3, <2>1, <2>2, <2>3
  <1>9. QED
    BY <1>2, <1>5, <1>6, <1>7, <1>8 DEF Joint

\* What OneEdit holds is edited,
LEMMA OneEditIsEdited ==
    ASSUME NEW C, NEW x \in Seq(C), NEW L \in SUBSET C, NEW z \in OneEdit(x, L)
    PROVE  z \in Seq(C) /\ \E p, q, t : Edited(x, z, p, q, t, L)
  <1>1. PICK n \in Nat : n = Len(x)
    OBVIOUS
  <1>2. ASSUME NEW p \in 0..n, NEW q \in 0..n, NEW w \in Seq(C), NEW t, t = Len(w),
               z = SubSeq(x, 1, p) \o w \o SubSeq(x, q + 1, n),
               t = 1 => w[1] \in L,
               (q = p + 1 /\ t = 0) \/ (q = p /\ t = 1) \/ (q = p + 1 /\ t = 1)
        PROVE  z \in Seq(C) /\ Edited(x, z, p, q, t, L)
    <2>1. /\ z \in Seq(C) /\ Len(z) = p + t + (n - q)
          /\ \A k \in 1..p : z[k] = x[k]
          /\ \A k \in 1..t : z[p + k] = w[k]
          /\ \A k \in 1..(n - q) : z[p + t + k] = x[q + k]
      <3>1. z \in Seq(C) /\ Joint(z, x, n, p, q, w, t)
        BY <1>1, <1>2, Joined, Zenon
      <3>2. QED
        BY <3>1 DEF Joint
    <2>2. t = 1 => z[p + 1] \in L
      <3>1. t = 1 => 1 \in 1..t
        OBVIOUS
      <3>2. QED
        BY <1>2, <2>1, <3>1
    <2>3. p \in Nat /\ q \in Nat /\ q <= n
      BY <1>1
    <2>4. QED
      BY <1>1, <1>2, <2>1, <2>2, <2>3 DEF Edited
  <1>3. CASE \E i \in 1..n : z = SubSeq(x, 1, i - 1) \o SubSeq(x, i + 1, n)
    <2>1. PICK i \in 1..n : z = SubSeq(x, 1, i - 1) \o SubSeq(x, i + 1, n)
      BY <1>3
    <2>2. PICK p, w, u : p = i - 1 /\ w = <<>> /\ u = SubSeq(x, 1, p)
      OBVIOUS
    <2>3. p \in 0..n /\ i \in 0..n /\ w \in Seq(C) /\ Len(w) = 0 /\ i = p + 1
      BY <1>1, <2>2
    <2>4. u \in Seq(C)
      BY <1>1, <2>2, <2>3, FirstPart
    <2>5. u \o w = u
      BY <2>2, <2>4, ConcatEmptySeq
    <2>6. z = SubSeq(x, 1, p) \o w \o SubSeq(x, i + 1, n)
      BY <2>1, <2>2, <2>5
    <2>7. Edited(x, z, p, i, Len(w), L) /\ z \in Seq(C)
      <3>1. /\ Len(w) = 1 => w[1] \in L
            /\ (i = p + 1 /\ Len(w) = 0) \/ (i = p /\ Len(w) = 1) \/ (i = p + 1 /\ Len(w) = 1)
        BY <2>3
      <3>2. QED
        BY <1>2, <2>3, <2>6, <3>1, Zenon
    <2>8. QED
      BY <2>7, Zenon
  <1>4. CASE \E i \in 0..n : \E c \in L : z = SubSeq(x, 1, i) \o <<c>> \o SubSeq(x, i + 1, n)
    <2>1. PICK i \in 0..n, c \in L : z = SubSeq(x, 1, i) \o <<c>> \o SubSeq(x, i + 1, n)
      BY <1>4
    <2>2. <<c>> \in Seq(C) /\ Len(<<c>>) = 1 /\ <<c>>[1] \in L
      OBVIOUS
    <2>3. QED
      BY <1>2, <2>1, <2>2
  <1>5. CASE \E i \in 1..n : \E c \in L : z = SubSeq(x, 1, i - 1) \o <<c>> \o SubSeq(x, i + 1, n)
    <2>1. PICK i \in 1..n, c \in L : z = SubSeq(x, 1, i - 1) \o <<c>> \o SubSeq(x, i + 1, n)
      BY <1>5
    <2>2. <<c>> \in Seq(C) /\ Len(<<c>>) = 1 /\ <<c>>[1] \in L
      OBVIOUS
    <2>3. PICK p : p = i - 1
      OBVIOUS
    <2>4. p \in 0..n /\ i \in 0..n /\ i = p + 1
      BY <1>1, <2>3
    <2>5. z = SubSeq(x, 1, p) \o <<c>> \o SubSeq(x, i + 1, n)
      BY <2>1, <2>3
    <2>6. QED
      BY <1>2, <2>2, <2>4, <2>5
  <1>6. \/ \E i \in 1..n : z = SubSeq(x, 1, i - 1) \o SubSeq(x, i + 1, n)
        \/ \E i \in 0..n : \E c \in L : z = SubSeq(x, 1, i) \o <<c>> \o SubSeq(x, i + 1, n)
        \/ \E i \in 1..n : \E c \in L : z = SubSeq(x, 1, i - 1) \o <<c>> \o SubSeq(x, i + 1, n)
    <2>1. Deletes(x, z) \/ Inserts(x, z, L) \/ Substitutes(x, z, L)
      BY OneEditIs, Zenon
    <2>2. Len(x) = n
      BY <1>1
    <2>3. QED
      BY <2>1, <2>2 DEF Deletes, Inserts, Substitutes
  <1>7. QED
    BY <1>3, <1>4, <1>5, <1>6

\* and what is edited, OneEdit holds.
LEMMA EditedIsOneEdit ==
    ASSUME NEW C, NEW x \in Seq(C), NEW L \in SUBSET C, NEW z \in Seq(C),
           NEW p, NEW q, NEW t, Edited(x, z, p, q, t, L)
    PROVE  z \in OneEdit(x, L)
  <1>1. PICK n \in Nat : n = Len(x)
    OBVIOUS
  <1>2. /\ p \in 0..n /\ q \in 0..n
        /\ (q = p + 1 /\ t = 0) \/ (q = p /\ t = 1) \/ (q = p + 1 /\ t = 1)
        /\ Len(z) = p + t + (n - q)
        /\ \A i \in 1..p : z[i] = x[i]
        /\ t = 1 => z[p + 1] \in L
        /\ \A i \in 1..(n - q) : z[p + t + i] = x[q + i]
    BY <1>1 DEF Edited
  <1>3. ASSUME NEW w \in Seq(C), Len(w) = t, t = 1 => w[1] = z[p + 1]
        PROVE  z = SubSeq(x, 1, p) \o w \o SubSeq(x, q + 1, n)
    <2>1. PICK y : y = SubSeq(x, 1, p) \o w \o SubSeq(x, q + 1, n)
      OBVIOUS
    <2>2. /\ y \in Seq(C) /\ Len(y) = p + t + (n - q)
          /\ \A i \in 1..p : y[i] = x[i]
          /\ \A i \in 1..t : y[p + i] = w[i]
          /\ \A i \in 1..(n - q) : y[p + t + i] = x[q + i]
      <3>1. t = Len(w) /\ p \in 0..n /\ q \in 0..n
        BY <1>2, <1>3
      <3>2. QED
        <4>1. w \in Seq(C)
          BY <1>3
        <4>2. y \in Seq(C) /\ Joint(y, x, n, p, q, w, t)
          BY <1>1, <2>1, <3>1, <4>1, Joined, Zenon
        <4>3. QED
          BY <4>2 DEF Joint
    <2>3. ASSUME NEW i \in 1..Len(z) PROVE z[i] = y[i]
      <3>1. CASE i <= p
        BY <1>2, <2>2, <3>1
      <3>2. CASE t = 1 /\ i = p + 1
        <4>1. 1 \in 1..t
          BY <3>2
        <4>2. QED
          BY <1>3, <2>2, <3>2, <4>1
      <3>3. CASE i > p + t
        <4>1. PICK k : k = i - (p + t)
          OBVIOUS
        <4>2. k \in 1..(n - q) /\ i = p + t + k
          BY <1>2, <3>3, <4>1
        <4>3. QED
          BY <1>2, <2>2, <4>2
      <3>4. QED
        BY <1>2, <3>1, <3>2, <3>3
    <2>4. z = y
      BY <1>2, <2>2, <2>3, SeqEqual
    <2>5. QED
      BY <2>1, <2>4
  <1>4. CASE q = p + 1 /\ t = 0
    <2>1. PICK w : w = <<>>
      OBVIOUS
    <2>2. w \in Seq(C) /\ Len(w) = t
      BY <1>4, <2>1
    <2>3. z = SubSeq(x, 1, p) \o w \o SubSeq(x, q + 1, n)
      <3>1. t # 1
        BY <1>4
      <3>2. QED
        BY <1>3, <2>2, <3>1
    <2>4. PICK u : u = SubSeq(x, 1, p)
      OBVIOUS
    <2>5. u \in Seq(C)
      BY <1>1, <1>2, <2>4, FirstPart
    <2>6. u \o w = u
      BY <2>1, <2>5, ConcatEmptySeq
    <2>7. z = SubSeq(x, 1, p) \o SubSeq(x, q + 1, n)
      BY <2>3, <2>4, <2>6
    <2>8. q \in 1..n /\ p = q - 1
      BY <1>2, <1>4
    <2>9. \E i \in 1..n : z = SubSeq(x, 1, i - 1) \o SubSeq(x, i + 1, n)
      BY <2>7, <2>8
    <2>10. QED
      BY <1>1, <2>9, OneEditIs, Zenon DEF Deletes
  <1>5. CASE t = 1
    <2>1. PICK c, w : c = z[p + 1] /\ w = <<c>>
      OBVIOUS
    <2>2. c \in L /\ w \in Seq(C) /\ Len(w) = t /\ w[1] = z[p + 1]
      BY <1>2, <1>5, <2>1
    <2>3. z = SubSeq(x, 1, p) \o <<c>> \o SubSeq(x, q + 1, n)
      BY <1>3, <2>1, <2>2
    <2>4. CASE q = p
      <3>1. \E i \in 0..n : \E d \in L : z = SubSeq(x, 1, i) \o <<d>> \o SubSeq(x, i + 1, n)
        BY <1>2, <2>2, <2>3, <2>4
      <3>2. QED
        BY <1>1, <3>1, OneEditIs, Zenon DEF Inserts
    <2>5. CASE q = p + 1
      <3>1. q \in 1..n /\ p = q - 1
        BY <1>2, <2>5
      <3>2. \E i \in 1..n : \E d \in L : z = SubSeq(x, 1, i - 1) \o <<d>> \o SubSeq(x, i + 1, n)
        BY <2>2, <2>3, <3>1
      <3>3. QED
        BY <1>1, <3>2, OneEditIs, Zenon DEF Substitutes
    <2>6. QED
      BY <1>2, <2>4, <2>5
  <1>6. QED
    BY <1>2, <1>4, <1>5

-----------------------------------------------------------------------------
(* One edit changes the distance by at most one: what is within k edits is *)
(* not farther than k.                                                     *)

RowBound(R, h, Q, i, d, w) == \A j \in 0..w : R[h][j] <= Q[i][j] + d

\* If row h of a table is at most d above row i of another, so are the next
\* ones when their characters agree, and they are at most d + 1 above in any case.
LEMMA NextRows ==
    ASSUME NEW x, NEW z, NEW b, Len(x) \in Nat, Len(z) \in Nat, Len(b) \in Nat,
           NEW R, NEW Q, EditTable(R, x, b), EditTable(Q, z, b),
           NEW h \in Nat, NEW i \in Nat, NEW u \in 1..Len(x), NEW v \in 1..Len(z),
           u = h + 1, v = i + 1, NEW d \in Nat, NEW e \in Nat,
           RowBound(R, h, Q, i, d, Len(b)),
           (e = d /\ x[u] = z[v]) \/ e = d + 1
    PROVE  RowBound(R, u, Q, v, e, Len(b))
  <1> DEFINE G == {j \in 0..Len(b) : R[u][j] <= Q[v][j] + e}
  <1>1. 0 \in G
    <2>1. u \in 0..Len(x) /\ h \in 0..Len(x) /\ v \in 0..Len(z) /\ i \in 0..Len(z) /\ 0 \in 0..Len(b)
      OBVIOUS
    <2>2. R[u][0] = u /\ R[h][0] = h /\ Q[v][0] = v /\ Q[i][0] = i /\ R[h][0] <= Q[i][0] + d
      BY <2>1, FirstColumn DEF RowBound
    <2>3. u <= v + e
      BY <2>2
    <2>4. QED
      BY <2>1, <2>2, <2>3
  <1>2. ASSUME NEW j \in 0..(Len(b) - 1), j \in G PROVE j + 1 \in G
    <2>1. PICK k : k = j + 1
      OBVIOUS
    <2>2. k \in 1..Len(b) /\ k \in 0..Len(b) /\ j \in 0..Len(b) /\ j \in Nat
      BY <2>1
    <2>3. PICK y, o, l, r, c : /\ y = R[u][k] /\ o = R[h][j] /\ l = R[u][j] /\ r = R[h][k]
                               /\ c = Cost(x[u], b[k])
      OBVIOUS
    <2>4. From(y, o, l, r, c)
      BY <2>1, <2>2, <2>3, Cell
    <2>5. PICK y1, o1, l1, r1, c1 : /\ y1 = Q[v][k] /\ o1 = Q[i][j] /\ l1 = Q[v][j] /\ r1 = Q[i][k]
                                    /\ c1 = Cost(z[v], b[k])
      OBVIOUS
    <2>6. From(y1, o1, l1, r1, c1)
      BY <2>1, <2>2, <2>5, Cell
    <2>7. o <= o1 + d /\ r <= r1 + d /\ l <= l1 + e
      <3>1. R[h][j] <= Q[i][j] + d /\ R[h][k] <= Q[i][k] + d
        BY <2>2 DEF RowBound
      <3>2. R[u][j] <= Q[v][j] + e
        BY <1>2
      <3>3. QED
        BY <2>3, <2>5, <3>1, <3>2
    <2>8. (e = d /\ c = c1) \/ e = d + 1
      BY <2>3, <2>5
    <2>9. y <= y1 + e
      BY <2>4, <2>6, <2>7, <2>8 DEF From
    <2>10. QED
      BY <2>1, <2>2, <2>3, <2>5, <2>9
  <1>3. \A j \in 0..Len(b) : j \in G
    <2> HIDE DEF G
    <2>1. QED
      BY <1>1, <1>2, Climb
  <1>4. QED
    BY <1>3 DEF RowBound

\* From row to row while the characters agree.
Alongside(x, h, z, i, n) ==
    /\ h \in Nat /\ i \in Nat /\ n \in Nat /\ h + n <= Len(x) /\ i + n <= Len(z)
    /\ \A m \in 1..n : x[h + m] = z[i + m]

\* A bound between two rows holds for as long as the characters agree.
LEMMA SameRows ==
    ASSUME NEW x, NEW z, NEW b, Len(x) \in Nat, Len(z) \in Nat, Len(b) \in Nat,
           NEW R, NEW Q, EditTable(R, x, b), EditTable(Q, z, b),
           NEW h, NEW i, NEW n, Alongside(x, h, z, i, n),
           NEW d \in Nat, RowBound(R, h, Q, i, d, Len(b))
    PROVE  RowBound(R, h + n, Q, i + n, d, Len(b))
  <1>0. /\ h \in Nat /\ i \in Nat /\ n \in Nat /\ h + n <= Len(x) /\ i + n <= Len(z)
        /\ \A m \in 1..n : x[h + m] = z[i + m]
    BY DEF Alongside
  <1> DEFINE G == {m \in 0..n : RowBound(R, h + m, Q, i + m, d, Len(b))}
  <1>1. 0 \in G
    <2>1. h + 0 = h /\ i + 0 = i /\ 0 \in 0..n
      BY <1>0
    <2>2. QED
      BY <2>1
  <1>2. ASSUME NEW m \in 0..(n - 1), m \in G PROVE m + 1 \in G
    <2>1. PICK f, g, k, l : f = h + m /\ g = i + m /\ k = h + (m + 1) /\ l = i + (m + 1)
      OBVIOUS
    <2>2. /\ f \in Nat /\ g \in Nat /\ k \in 1..Len(x) /\ l \in 1..Len(z)
          /\ k = f + 1 /\ l = g + 1 /\ m + 1 \in 1..n /\ m + 1 \in 0..n
      BY <1>0, <2>1
    <2>3. RowBound(R, f, Q, g, d, Len(b))
      BY <1>2, <2>1
    <2>4. x[k] = z[l]
      BY <1>0, <2>1, <2>2
    <2>5. RowBound(R, k, Q, l, d, Len(b))
      <3>1. (d = d /\ x[k] = z[l]) \/ d = d + 1
        BY <2>4
      <3>2. QED
        BY <2>2, <2>3, <3>1, NextRows, Zenon
    <2>6. QED
      BY <2>1, <2>2, <2>5
  <1>3. \A m \in 0..n : m \in G
    <2> HIDE DEF G
    <2>1. QED
      BY <1>0, <1>1, <1>2, Climb
  <1>4. n \in G
    BY <1>0, <1>3
  <1>5. QED
    BY <1>4

\* A bound of one, from an edit on.
LEMMA OneEditCostsOne ==
    ASSUME NEW x, NEW z, NEW b, Len(x) \in Nat, Len(z) \in Nat, Len(b) \in Nat,
           NEW R, NEW Q, EditTable(R, x, b), EditTable(Q, z, b),
           NEW p, NEW q, NEW t, NEW L, Edited(x, z, p, q, t, L)
    PROVE  R[Len(x)][Len(b)] <= Q[Len(z)][Len(b)] + 1
  <1>1. PICK n, m, w : n = Len(x) /\ m = Len(z) /\ w = Len(b)
    OBVIOUS
  <1>2. /\ n \in Nat /\ m \in Nat /\ w \in Nat /\ p \in Nat /\ q \in Nat /\ q <= n
        /\ (q = p + 1 /\ t = 0) \/ (q = p /\ t = 1) \/ (q = p + 1 /\ t = 1)
        /\ m = p + t + (n - q)
        /\ \A i \in 1..p : x[i] = z[i]
        /\ \A i \in 1..(n - q) : x[q + i] = z[(p + t) + i]
    BY <1>1 DEF Edited
  <1>3. \A j \in 0..w : R[p][j] <= Q[p][j]
    <2>1. \A j \in 0..w : R[0][j] <= Q[0][j] + 0
      <3>1. \A j \in 0..w : R[0][j] = j /\ Q[0][j] = j
        BY <1>1, Zenon DEF EditTable
      <3>2. QED
        BY <1>2, <3>1
    <2>2. Alongside(x, 0, z, 0, p)
      <3>1. \A k \in 1..p : 0 + k = k
        BY <1>2
      <3>2. 0 + p = p /\ p <= n /\ p <= m /\ 0 \in Nat
        BY <1>2
      <3>3. QED
        BY <1>1, <1>2, <3>1, <3>2 DEF Alongside
    <2>3. RowBound(R, p, Q, p, 0, Len(b))
      <3>1. RowBound(R, 0, Q, 0, 0, Len(b)) /\ 0 \in Nat
        BY <1>1, <2>1 DEF RowBound
      <3>2. RowBound(R, 0 + p, Q, 0 + p, 0, Len(b))
        BY <2>2, <3>1, SameRows, Zenon
      <3>3. 0 + p = p
        BY <1>2
      <3>4. QED
        BY <3>2, <3>3
    <2>4. p \in 0..n /\ p \in 0..m
      BY <1>2
    <2>5. ASSUME NEW j \in 0..w PROVE R[p][j] <= Q[p][j]
      <3>1. R[p][j] \in Nat /\ Q[p][j] \in Nat
        BY <1>1, <2>4, Zenon DEF EditTable
      <3>2. R[p][j] <= Q[p][j] + 0
        BY <1>1, <2>3, <2>4 DEF RowBound
      <3>3. QED
        BY <3>1, <3>2
    <2>6. QED
      BY <2>5
  <1>4. \A j \in 0..w : R[q][j] <= Q[p + t][j] + 1
    <2>0. \A j \in 0..w : R[p][j] \in Nat /\ Q[p][j] \in Nat /\ R[p][j] <= Q[p][j] + 0
      <3>1. p \in 0..n /\ p \in 0..m
        BY <1>2
      <3>2. \A j \in 0..w : R[p][j] \in Nat /\ Q[p][j] \in Nat
        BY <1>1, <3>1, Zenon DEF EditTable
      <3>3. QED
        BY <1>3, <3>2
    <2>1. CASE q = p + 1 /\ t = 0
      <3>1. p + t = p /\ q \in 1..n /\ q \in 0..n /\ p = q - 1
        BY <1>2, <2>1
      <3>2. ASSUME NEW j \in 0..w PROVE R[q][j] <= R[p][j] + 1
        <4>1. CASE j = 0
          <5>1. R[q][0] = R[p][0] + 1
            BY <1>1, <3>1, Zenon DEF EditTable
          <5>2. QED
            BY <2>0, <4>1, <5>1
        <4>2. CASE j # 0
          <5>1. j \in 1..w
            BY <1>2, <4>2
          <5>2. QED
            BY <1>1, <3>1, <5>1, Inner
        <4>3. QED
          BY <4>1, <4>2
      <3>3. ASSUME NEW j \in 0..w PROVE R[q][j] <= Q[p][j] + 1
        <4>1. PICK e, f, g : e = R[q][j] /\ f = R[p][j] /\ g = Q[p][j]
          OBVIOUS
        <4>2. e \in Nat /\ f \in Nat /\ g \in Nat
          BY <1>1, <2>0, <3>1, <4>1, Zenon DEF EditTable
        <4>3. e <= f + 1 /\ f <= g
          BY <1>3, <3>2, <4>1
        <4>4. e <= g + 1
          BY <4>2, <4>3
        <4>5. QED
          BY <4>1, <4>4
      <3>4. QED
        BY <3>1, <3>3
    <2>2. CASE q = p /\ t = 1
      <3>1. PICK v : v = p + 1
        OBVIOUS
      <3>2. v \in 1..m /\ v \in 0..m /\ p \in 0..m
        BY <1>2, <2>2, <3>1
      <3>3. \A j \in 0..w : Q[p][j] <= Q[v][j] + 1
        BY <1>1, <3>1, <3>2, RowsAreClose
      <3>4. ASSUME NEW j \in 0..w PROVE R[q][j] <= Q[v][j] + 1
        <4>1. PICK e, f, g : e = R[p][j] /\ f = Q[p][j] /\ g = Q[v][j]
          OBVIOUS
        <4>2. e \in Nat /\ f \in Nat /\ g \in Nat
          BY <1>1, <2>0, <3>2, <4>1, Zenon DEF EditTable
        <4>3. e <= f /\ f <= g + 1
          BY <1>3, <3>3, <4>1
        <4>4. e <= g + 1
          BY <4>2, <4>3
        <4>5. QED
          BY <2>2, <4>1, <4>4
      <3>5. QED
        BY <2>2, <3>1, <3>4
    <2>3. CASE q = p + 1 /\ t = 1
      <3>1. q \in 1..n /\ q \in 1..m /\ 0 + 1 = 1
        BY <1>2, <2>3
      <3>2. RowBound(R, q, Q, q, 1, Len(b))
        <4>1. /\ 0 \in Nat /\ 1 \in Nat /\ q \in 1..Len(x) /\ q \in 1..Len(z) /\ q = p + 1
              /\ Len(x) \in Nat /\ Len(z) \in Nat /\ Len(b) \in Nat /\ p \in Nat
              /\ RowBound(R, p, Q, p, 0, Len(b))
          BY <1>1, <1>2, <2>0, <2>3, <3>1 DEF RowBound
        <4>2. (1 = 0 /\ x[q] = z[q]) \/ 1 = 0 + 1
          OBVIOUS
        <4>3. QED
          BY <4>1, <4>2, NextRows, Zenon
      <3>3. QED
        BY <1>1, <2>3, <3>2 DEF RowBound
    <2>4. QED
      BY <1>2, <2>1, <2>2, <2>3
  <1>5. R[n][w] <= Q[m][w] + 1
    <2>1. PICK e, f : e = n - q /\ f = p + t
      OBVIOUS
    <2>2. e \in Nat /\ f \in Nat /\ q \in Nat /\ n = q + e /\ m = f + e /\ n <= Len(x) /\ m <= Len(z)
      BY <1>1, <1>2, <2>1
    <2>3. RowBound(R, q, Q, f, 1, Len(b)) /\ Alongside(x, q, z, f, e) /\ 1 \in Nat
      <3>1. \A k \in 1..e : x[q + k] = z[f + k]
        BY <1>2, <2>1
      <3>2. RowBound(R, q, Q, f, 1, Len(b))
        BY <1>1, <1>4, <2>1 DEF RowBound
      <3>3. QED
        BY <2>2, <3>1, <3>2 DEF Alongside
    <2>4. RowBound(R, n, Q, m, 1, Len(b))
      <3>1. RowBound(R, q + e, Q, f + e, 1, Len(b))
        BY <2>3, SameRows, Zenon
      <3>2. QED
        BY <2>2, <3>1
    <2>5. Len(b) \in 0..Len(b)
      OBVIOUS
    <2>6. QED
      BY <1>1, <2>4, <2>5 DEF RowBound
  <1>6. QED
    BY <1>1, <1>5

-----------------------------------------------------------------------------
(* What the table says is within k edits, can be edited so.                *)

WithinBy(x, y, k, L) ==
    \/ x = y
    \/ k >= 1 /\ y \in OneEdit(x, L)
    \/ k >= 2 /\ \E c \in OneEdit(x, L) : y \in OneEdit(c, L)

\* The same edit of a longer sequence.
LEMMA AppendEdit ==
    ASSUME NEW C, NEW L \in SUBSET C, NEW x \in Seq(C), NEW z \in OneEdit(x, L), NEW c \in C
    PROVE  z \in Seq(C) /\ Append(z, c) \in OneEdit(Append(x, c), L)
  <1>1. z \in Seq(C) /\ \E p, q, t : Edited(x, z, p, q, t, L)
    BY OneEditIsEdited
  <1>2. PICK p, q, t : Edited(x, z, p, q, t, L)
    BY <1>1
  <1>3. PICK y, w, n, m : y = Append(x, c) /\ w = Append(z, c) /\ n = Len(x) /\ m = Len(z)
    OBVIOUS
  <1>4. /\ n \in Nat /\ m \in Nat /\ p \in Nat /\ q \in Nat /\ q <= n
        /\ (q = p + 1 /\ t = 0) \/ (q = p /\ t = 1) \/ (q = p + 1 /\ t = 1)
        /\ m = p + t + (n - q)
        /\ \A i \in 1..p : z[i] = x[i]
        /\ t = 1 => z[p + 1] \in L
        /\ \A i \in 1..(n - q) : z[p + t + i] = x[q + i]
    BY <1>1, <1>2, <1>3 DEF Edited
  <1>5. /\ y \in Seq(C) /\ Len(y) = n + 1 /\ y[n + 1] = c /\ \A i \in 1..n : y[i] = x[i]
        /\ w \in Seq(C) /\ Len(w) = m + 1 /\ w[m + 1] = c /\ \A i \in 1..m : w[i] = z[i]
    <2>1. y \in Seq(C) /\ Len(y) = n + 1 /\ y[n + 1] = c /\ \A i \in 1..n : y[i] = x[i]
      BY <1>3, Appended
    <2>2. w \in Seq(C) /\ Len(w) = m + 1 /\ w[m + 1] = c /\ \A i \in 1..m : w[i] = z[i]
      BY <1>1, <1>3, Appended
    <2>3. QED
      BY <2>1, <2>2
  <1>6. q <= n + 1 /\ m + 1 = p + t + ((n + 1) - q)
    BY <1>4
  <1>7. \A i \in 1..p : w[i] = y[i]
    <2>1. \A i \in 1..p : i \in 1..n /\ i \in 1..m
      BY <1>4
    <2>2. QED
      BY <1>4, <1>5, <2>1
  <1>8. t = 1 => w[p + 1] \in L
    <2>1. t = 1 => p + 1 \in 1..m
      BY <1>4
    <2>2. QED
      BY <1>4, <1>5, <2>1
  <1>9. ASSUME NEW i \in 1..((n + 1) - q) PROVE w[p + t + i] = y[q + i]
    <2>1. CASE i = (n + 1) - q
      <3>1. p + t + i = m + 1 /\ q + i = n + 1
        BY <1>4, <2>1
      <3>2. w[m + 1] = y[n + 1]
        BY <1>5
      <3>3. QED
        BY <3>1, <3>2, Zenon
    <2>2. CASE i # (n + 1) - q
      <3>1. PICK k, l : k = p + t + i /\ l = q + i
        OBVIOUS
      <3>2. i \in 1..(n - q) /\ k \in 1..m /\ l \in 1..n
        BY <1>4, <2>2, <3>1
      <3>3. z[k] = x[l]
        BY <1>4, <3>1, <3>2
      <3>4. QED
        BY <1>5, <3>1, <3>2, <3>3
    <2>3. QED
      BY <2>1, <2>2
  <1>10. Edited(y, w, p, q, t, L)
    BY <1>4, <1>5, <1>6, <1>7, <1>8, <1>9 DEF Edited
  <1>11. w \in OneEdit(y, L)
    BY <1>5, <1>10, EditedIsOneEdit
  <1>12. QED
    BY <1>1, <1>3, <1>11

\* The edits at the end of a sequence.
LEMMA LastEdits ==
    ASSUME NEW C, NEW L \in SUBSET C, NEW w \in Seq(C), NEW c \in C
    PROVE  /\ w \in OneEdit(Append(w, c), L)
           /\ \A d \in L : Append(w, d) \in OneEdit(w, L) /\ Append(w, d) \in OneEdit(Append(w, c), L)
  <1>1. PICK n \in Nat : n = Len(w)
    OBVIOUS
  <1>2. PICK y : y = Append(w, c)
    OBVIOUS
  <1>3. y \in Seq(C) /\ Len(y) = n + 1 /\ \A i \in 1..n : y[i] = w[i]
    BY <1>1, <1>2
  <1>4. w \in OneEdit(y, L)
    <2>1. PICK q : q = n + 1
      OBVIOUS
    <2>2. q \in Nat /\ q <= Len(y) /\ Len(w) = n + 0 + (Len(y) - q) /\ 1..(Len(y) - q) = {}
      BY <1>1, <1>3, <2>1
    <2>3. Edited(y, w, n, q, 0, L)
      BY <1>3, <2>1, <2>2 DEF Edited
    <2>4. QED
      BY <1>3, <2>3, EditedIsOneEdit
  <1>5. ASSUME NEW d \in L
        PROVE  Append(w, d) \in OneEdit(w, L) /\ Append(w, d) \in OneEdit(y, L)
    <2>1. PICK z : z = Append(w, d)
      OBVIOUS
    <2>2. z \in Seq(C) /\ Len(z) = n + 1 /\ z[n + 1] = d /\ \A i \in 1..n : z[i] = w[i]
      BY <1>1, <2>1
    <2>3. Edited(w, z, n, n, 1, L)
      <3>1. n <= Len(w) /\ Len(z) = n + 1 + (Len(w) - n) /\ 1..(Len(w) - n) = {}
        BY <1>1, <2>2
      <3>2. QED
        BY <2>2, <3>1 DEF Edited
    <2>4. Edited(y, z, n, n + 1, 1, L)
      <3>1. PICK q : q = n + 1
        OBVIOUS
      <3>2. q \in Nat /\ q <= Len(y) /\ Len(z) = n + 1 + (Len(y) - q) /\ 1..(Len(y) - q) = {}
        BY <1>3, <2>2, <3>1
      <3>3. Edited(y, z, n, q, 1, L)
        BY <1>3, <2>2, <3>1, <3>2 DEF Edited
      <3>4. QED
        BY <3>1, <3>3
    <2>5. z \in OneEdit(w, L) /\ z \in OneEdit(y, L)
      BY <1>3, <2>2, <2>3, <2>4, EditedIsOneEdit
    <2>6. QED
      BY <2>1, <2>5
  <1>6. QED
    BY <1>2, <1>4, <1>5

\* A character more at the end of both takes no more edits.
LEMMA AppendWithin ==
    ASSUME NEW C, NEW L \in SUBSET C, NEW x \in Seq(C), NEW y, NEW k,
           WithinBy(x, y, k, L), NEW c \in C
    PROVE  WithinBy(Append(x, c), Append(y, c), k, L)
  <1>1. CASE x = y
    BY <1>1 DEF WithinBy
  <1>2. CASE k >= 1 /\ y \in OneEdit(x, L)
    BY <1>2, AppendEdit DEF WithinBy
  <1>3. CASE k >= 2 /\ \E e \in OneEdit(x, L) : y \in OneEdit(e, L)
    <2>1. PICK e \in OneEdit(x, L) : y \in OneEdit(e, L)
      BY <1>3
    <2>2. e \in Seq(C) /\ Append(e, c) \in OneEdit(Append(x, c), L)
      BY <2>1, AppendEdit
    <2>3. Append(y, c) \in OneEdit(Append(e, c), L)
      BY <2>1, <2>2, AppendEdit
    <2>4. QED
      BY <1>3, <2>2, <2>3 DEF WithinBy
  <1>4. QED
    BY <1>1, <1>2, <1>3 DEF WithinBy

\* Edits after edits.
LEMMA OneMoreEdit ==
    ASSUME NEW L, NEW x, NEW y, NEW z \in OneEdit(y, L), NEW k \in 0..1, NEW l, l = k + 1,
           WithinBy(x, y, k, L)
    PROVE  WithinBy(x, z, l, L)
  <1>1. CASE x = y
    <2>1. l >= 1
      OBVIOUS
    <2>2. QED
      BY <1>1, <2>1 DEF WithinBy
  <1>2. CASE k >= 1 /\ y \in OneEdit(x, L)
    <2>1. l >= 2
      BY <1>2
    <2>2. QED
      BY <1>2, <2>1 DEF WithinBy
  <1>3. ~(k >= 2)
    OBVIOUS
  <1>4. QED
    BY <1>1, <1>2, <1>3 DEF WithinBy

\* One character more of a prefix.
LEMMA LongerPrefix ==
    ASSUME NEW C, NEW a \in Seq(C), NEW h \in Nat, NEW i \in 1..Len(a), i = h + 1
    PROVE  /\ SubSeq(a, 1, h) \in Seq(C) /\ a[i] \in C
           /\ SubSeq(a, 1, i) = Append(SubSeq(a, 1, h), a[i])
  <1>1. PICK u, v, w : u = SubSeq(a, 1, h) /\ v = SubSeq(a, 1, i) /\ w = Append(u, a[i])
    OBVIOUS
  <1>2. h \in 0..Len(a) /\ i \in 0..Len(a) /\ a[i] \in C
    OBVIOUS
  <1>3. u \in Seq(C) /\ Len(u) = h /\ \A k \in 1..h : u[k] = a[k]
    BY <1>1, <1>2, FirstPart
  <1>4. v \in Seq(C) /\ Len(v) = i /\ \A k \in 1..i : v[k] = a[k]
    BY <1>1, <1>2, FirstPart
  <1>5. w \in Seq(C) /\ Len(w) = i /\ w[i] = a[i] /\ \A k \in 1..h : w[k] = u[k]
    BY <1>1, <1>2, <1>3
  <1>6. \A k \in 1..i : k \in 1..h \/ k = i
    OBVIOUS
  <1>7. \A k \in 1..Len(v) : v[k] = w[k]
    BY <1>3, <1>4, <1>5, <1>6
  <1>8. v = w
    BY <1>4, <1>5, <1>7, SeqEqual
  <1>9. QED
    BY <1>1, <1>2, <1>3, <1>8

\* Every entry of a table of at most two is the number of edits it takes.
LEMMA TableIsSound ==
    ASSUME NEW C, NEW a \in Seq(C), NEW b \in Seq(C), NEW D, EditTable(D, a, b)
    PROVE  \A k \in 0..2 : D[Len(a)][Len(b)] <= k => WithinBy(a, b, k, Letters(b))
  <1>1. PICK L : L = Letters(b)
    OBVIOUS
  <1>2. L \in SUBSET C /\ \A j \in 1..Len(b) : b[j] \in L
    BY <1>1 DEF Letters
  <1>3. Len(a) \in Nat /\ Len(b) \in Nat
    OBVIOUS
  <1> DEFINE A(i) == SubSeq(a, 1, i)
             B(j) == SubSeq(b, 1, j)
             Ok(i, j) == \A k \in 0..2 : D[i][j] <= k => WithinBy(A(i), B(j), k, L)
             G == {r \in (0..Len(a)) \X (0..Len(b)) : Ok(r[1], r[2])}
  <1>4. ASSUME NEW i \in 0..Len(a), NEW g \in 0..Len(b), NEW j \in 1..Len(b), j = g + 1,
               D[i][j] = D[i][g] + 1, D[i][g] \in Nat, Ok(i, g)
        PROVE  Ok(i, j)
    <2>1. SUFFICES ASSUME NEW k \in 0..2, D[i][j] <= k PROVE WithinBy(A(i), B(j), k, L)
      OBVIOUS
    <2>2. PICK l : l = k - 1
      OBVIOUS
    <2>3. l \in 0..1 /\ l \in 0..2 /\ k = l + 1 /\ D[i][g] <= l
      BY <1>4, <2>1, <2>2
    <2>4. WithinBy(A(i), B(g), l, L)
      BY <1>4, <2>3
    <2>5. B(g) \in Seq(C) /\ b[j] \in C /\ B(j) = Append(B(g), b[j])
      <3>1. g \in Nat
        OBVIOUS
      <3>2. QED
        BY <1>4, <3>1, LongerPrefix
    <2>6. B(j) \in OneEdit(B(g), L)
      <3>1. PICK w, c : w = B(g) /\ c = b[j]
        OBVIOUS
      <3>2. w \in Seq(C) /\ c \in C /\ c \in L
        BY <1>2, <2>5, <3>1
      <3>3. Append(w, c) \in OneEdit(w, L)
        BY <1>2, <3>2, LastEdits
      <3>4. QED
        BY <2>5, <3>1, <3>3
    <2> HIDE DEF A, B
    <2>7. QED
      BY <2>3, <2>4, <2>6, OneMoreEdit
  <1>5. ASSUME NEW h \in 0..Len(a), NEW i \in 1..Len(a), i = h + 1, NEW j \in 0..Len(b),
               D[i][j] = D[h][j] + 1, D[h][j] \in Nat, Ok(h, j)
        PROVE  Ok(i, j)
    <2>1. SUFFICES ASSUME NEW k \in 0..2, D[i][j] <= k PROVE WithinBy(A(i), B(j), k, L)
      OBVIOUS
    <2>2. PICK l : l = k - 1
      OBVIOUS
    <2>3. l \in 0..1 /\ l \in 0..2 /\ k = l + 1 /\ D[h][j] <= l
      BY <1>5, <2>1, <2>2
    <2>4. WithinBy(A(h), B(j), l, L)
      BY <1>5, <2>3
    <2>5. A(h) \in Seq(C) /\ a[i] \in C /\ A(i) = Append(A(h), a[i])
      <3>1. h \in Nat
        OBVIOUS
      <3>2. QED
        BY <1>5, <3>1, LongerPrefix
    <2>6. B(j) \in Seq(C)
      BY FirstPart
    <2>7. PICK y : y = Append(B(j), a[i])
      OBVIOUS
    <2>8. WithinBy(A(i), y, l, L)
      BY <1>2, <2>4, <2>5, <2>7, AppendWithin
    <2>9. B(j) \in OneEdit(y, L)
      BY <1>2, <2>5, <2>6, <2>7, LastEdits
    <2> HIDE DEF A, B
    <2>10. QED
      BY <2>3, <2>8, <2>9, OneMoreEdit
  <1>6. ASSUME NEW h \in 0..Len(a), NEW i \in 1..Len(a), i = h + 1,
               NEW g \in 0..Len(b), NEW j \in 1..Len(b), j = g + 1,
               D[i][j] = D[h][g] + Cost(a[i], b[j]), D[h][g] \in Nat, Ok(h, g)
        PROVE  Ok(i, j)
    <2>1. SUFFICES ASSUME NEW k \in 0..2, D[i][j] <= k PROVE WithinBy(A(i), B(j), k, L)
      OBVIOUS
    <2>2. /\ A(h) \in Seq(C) /\ a[i] \in C /\ A(i) = Append(A(h), a[i])
          /\ B(g) \in Seq(C) /\ b[j] \in C /\ B(j) = Append(B(g), b[j])
      <3>1. h \in Nat /\ g \in Nat
        OBVIOUS
      <3>2. QED
        BY <1>6, <3>1, LongerPrefix
    <2>3. CASE a[i] = b[j]
      <3>1. D[h][g] <= k
        BY <1>6, <2>1, <2>3 DEF Cost
      <3>2. WithinBy(A(h), B(g), k, L)
        BY <1>6, <3>1
      <3> HIDE DEF A, B
      <3>3. QED
        BY <1>2, <2>2, <2>3, <3>2, AppendWithin
    <2>4. CASE a[i] # b[j]
      <3>1. PICK l : l = k - 1
        OBVIOUS
      <3>2. D[i][j] = D[h][g] + 1
        BY <1>6, <2>4 DEF Cost
      <3>3. l \in 0..1 /\ l \in 0..2 /\ k = l + 1 /\ D[h][g] <= l
        BY <1>6, <2>1, <3>1, <3>2
      <3>4. WithinBy(A(h), B(g), l, L)
        BY <1>6, <3>3
      <3> HIDE DEF A, B
      <3>5. PICK y : y = Append(B(g), a[i])
        OBVIOUS
      <3>6. WithinBy(A(i), y, l, L)
        BY <1>2, <2>2, <3>4, <3>5, AppendWithin
      <3>7. B(j) \in OneEdit(y, L)
        BY <1>2, <2>2, <3>5, LastEdits
      <3>8. QED
        BY <3>3, <3>6, <3>7, OneMoreEdit
    <2>5. QED
      BY <2>3, <2>4
  <1>7. ASSUME NEW i \in 0..Len(a), NEW j \in 0..Len(b),
               \A u \in 0..i : \A v \in 0..j : u + v < i + j => <<u, v>> \in G
        PROVE  <<i, j>> \in G
    <2>1. CASE i = 0 /\ j = 0
      <3>1. A(0) = <<>> /\ B(0) = <<>>
        BY SubSeqEmpty
      <3>2. WithinBy(A(0), B(0), 0, L) /\ \A k \in 0..2 : WithinBy(A(0), B(0), k, L)
        BY <3>1 DEF WithinBy
      <3>3. QED
        BY <2>1, <3>2
    <2>2. PICK h, g : h = i - 1 /\ g = j - 1
      OBVIOUS
    <2> HIDE DEF A, B
    <2>3. CASE i = 0 /\ j # 0
      <3>1. /\ g \in 0..Len(b) /\ j \in 1..Len(b) /\ j = g + 1 /\ i \in 0..i /\ g \in 0..j
            /\ i + g < i + j
        BY <2>2, <2>3
      <3>2. Ok(i, g)
        BY <1>7, <3>1
      <3>3. D[0][j] = j /\ D[0][g] = g
        BY <3>1, Zenon DEF EditTable
      <3>4. D[i][j] = D[i][g] + 1 /\ D[i][g] \in Nat
        BY <2>3, <3>1, <3>3
      <3> HIDE DEF Ok
      <3>5. Ok(i, j)
        BY <1>4, <3>1, <3>2, <3>4
      <3>6. QED
        BY <3>5
    <2>4. CASE i # 0 /\ j = 0
      <3>1. /\ h \in 0..Len(a) /\ i \in 1..Len(a) /\ i = h + 1 /\ j \in 0..j /\ h \in 0..i
            /\ h + j < i + j
        BY <2>2, <2>4
      <3>2. Ok(h, j)
        BY <1>7, <3>1
      <3>3. D[i][0] = i /\ D[h][0] = h
        BY <1>3, <3>1, FirstColumn
      <3>4. D[i][j] = D[h][j] + 1 /\ D[h][j] \in Nat
        BY <2>4, <3>1, <3>3
      <3> HIDE DEF Ok
      <3>5. Ok(i, j)
        BY <1>5, <3>1, <3>2, <3>4
      <3>6. QED
        BY <3>5
    <2>5. CASE i # 0 /\ j # 0
      <3>1. /\ h \in 0..Len(a) /\ i \in 1..Len(a) /\ i = h + 1 /\ h \in 0..i /\ i \in 0..i
            /\ g \in 0..Len(b) /\ j \in 1..Len(b) /\ j = g + 1 /\ g \in 0..j /\ j \in 0..j
            /\ h + g < i + j /\ h + j < i + j /\ i + g < i + j /\ h \in Nat /\ g \in Nat
        BY <2>2, <2>5
      <3>2. Ok(h, g) /\ Ok(h, j) /\ Ok(i, g)
        BY <1>7, <3>1
      <3> HIDE DEF Ok
      <3>3. From(D[i][j], D[h][g], D[i][g], D[h][j], Cost(a[i], b[j]))
        BY <1>3, <3>1, Cell
      <3>4. /\ D[h][g] \in Nat /\ D[h][j] \in Nat /\ D[i][g] \in Nat
            /\ \/ D[i][j] = D[h][g] + Cost(a[i], b[j])
               \/ D[i][j] = D[i][g] + 1
               \/ D[i][j] = D[h][j] + 1
        BY <3>3, Zenon DEF From
      <3>5. Ok(i, j)
        <4>1. CASE D[i][j] = D[h][g] + Cost(a[i], b[j])
          BY <1>6, <3>1, <3>2, <3>4, <4>1
        <4>2. CASE D[i][j] = D[i][g] + 1
          BY <1>4, <3>1, <3>2, <3>4, <4>2
        <4>3. CASE D[i][j] = D[h][j] + 1
          BY <1>5, <3>1, <3>2, <3>4, <4>3
        <4>4. QED
          BY <3>4, <4>1, <4>2, <4>3
      <3>6. QED
        BY <3>5
    <2>6. QED
      BY <2>1, <2>3, <2>4, <2>5
  <1>8. \A i \in 0..Len(a) : \A j \in 0..Len(b) : <<i, j>> \in G
    <2> HIDE DEF G
    <2>1. QED
      BY <1>3, <1>7, Grid
  <1>9. Len(a) \in 0..Len(a) /\ Len(b) \in 0..Len(b)
    OBVIOUS
  <1>10. Ok(Len(a), Len(b))
    BY <1>8, <1>9
  <1>11. A(Len(a)) = a /\ B(Len(b)) = b
    BY SubSeqFull
  <1>12. QED
    BY <1>1, <1>10, <1>11

\* And what can be edited so, the table says is within k edits.
LEMMA TableIsComplete ==
    ASSUME NEW C, NEW a \in Seq(C), NEW b \in Seq(C), NEW D, EditTable(D, a, b)
    PROVE  \A k \in 0..2 : WithinBy(a, b, k, Letters(b)) => D[Len(a)][Len(b)] <= k
  <1>1. PICK L : L = Letters(b)
    OBVIOUS
  <1>2. L \in SUBSET C
    BY <1>1 DEF Letters
  <1>3. Len(a) \in Nat /\ Len(b) \in Nat
    OBVIOUS
  <1>4. ASSUME NEW x \in Seq(C) PROVE \E R : EditTable(R, x, b)
    BY RowsAreTable
  <1>5. ASSUME NEW x \in Seq(C), NEW z \in OneEdit(x, L), NEW R, NEW Q,
               EditTable(R, x, b), EditTable(Q, z, b)
        PROVE  /\ z \in Seq(C) /\ R[Len(x)][Len(b)] \in Nat /\ Q[Len(z)][Len(b)] \in Nat
               /\ R[Len(x)][Len(b)] <= Q[Len(z)][Len(b)] + 1
    <2>1. z \in Seq(C) /\ \E p, q, t : Edited(x, z, p, q, t, L)
      BY <1>2, OneEditIsEdited
    <2>2. PICK p, q, t : Edited(x, z, p, q, t, L)
      BY <2>1
    <2>3. /\ Len(x) \in Nat /\ Len(z) \in Nat /\ Len(x) \in 0..Len(x) /\ Len(z) \in 0..Len(z)
          /\ Len(b) \in 0..Len(b)
      BY <2>1
    <2>4. R[Len(x)][Len(b)] <= Q[Len(z)][Len(b)] + 1
      BY <1>3, <1>5, <2>2, <2>3, OneEditCostsOne
    <2>5. R[Len(x)][Len(b)] \in Nat /\ Q[Len(z)][Len(b)] \in Nat
      BY <1>5, <2>3, Zenon DEF EditTable
    <2>6. QED
      BY <2>1, <2>4, <2>5
  <1>6. PICK Z : EditTable(Z, b, b)
    BY <1>4
  <1>7. Z[Len(b)][Len(b)] = 0
    BY <1>3, <1>6, Diagonal
  <1>8. SUFFICES ASSUME NEW k \in 0..2, WithinBy(a, b, k, L) PROVE D[Len(a)][Len(b)] <= k
    BY <1>1
  <1>9. CASE a = b
    <2>1. EditTable(D, b, b)
      BY <1>9
    <2>2. D[Len(b)][Len(b)] = 0
      BY <1>3, <2>1, Diagonal
    <2>3. QED
      BY <1>9, <2>2
  <1>10. CASE k >= 1 /\ b \in OneEdit(a, L)
    <2>1. D[Len(a)][Len(b)] \in Nat /\ D[Len(a)][Len(b)] <= Z[Len(b)][Len(b)] + 1
      BY <1>5, <1>6, <1>10
    <2>2. QED
      BY <1>7, <1>10, <2>1
  <1>11. CASE k >= 2 /\ \E c \in OneEdit(a, L) : b \in OneEdit(c, L)
    <2>1. PICK c \in OneEdit(a, L) : b \in OneEdit(c, L)
      BY <1>11
    <2>2. c \in Seq(C)
      BY <1>2, <2>1, OneEditIsEdited
    <2>3. PICK R : EditTable(R, c, b)
      BY <1>4, <2>2
    <2>4. /\ D[Len(a)][Len(b)] \in Nat /\ R[Len(c)][Len(b)] \in Nat
          /\ D[Len(a)][Len(b)] <= R[Len(c)][Len(b)] + 1
      BY <1>5, <2>1, <2>3
    <2>5. R[Len(c)][Len(b)] <= Z[Len(b)][Len(b)] + 1
      BY <1>5, <1>6, <2>1, <2>2, <2>3
    <2>6. PICK d, r : d = D[Len(a)][Len(b)] /\ r = R[Len(c)][Len(b)]
      OBVIOUS
    <2>7. d \in Nat /\ r \in Nat /\ d <= r + 1 /\ r <= 1
      BY <1>7, <2>4, <2>5, <2>6
    <2>8. d <= k
      BY <1>11, <2>7
    <2>9. QED
      BY <2>6, <2>8
  <1>12. QED
    BY <1>8, <1>9, <1>10, <1>11 DEF WithinBy

\* For any two strings, a limit of one or two edits and any k within it:
\* levenshtein answers at most k exactly when k edits (Within) turn the one
\* into the other, so its early exits, the length test and the row cut-off,
\* never change what a caller that compares with the limit sees.
THEOREM LevenshteinCorrect ==
    ASSUME NEW C, NEW a \in Seq(C), NEW b \in Seq(C), NEW limit \in 1..2, NEW k \in 0..limit
    PROVE  /\ levenshtein(a, b, limit) \in Nat
           /\ levenshtein(a, b, limit) <= k <=> Within(a, b, k)
  <1>1. PICK D : /\ EditTable(D, a, b)
                 /\ Len(Rows(a, b)) = Len(a) + 1
                 /\ \A i \in 0..Len(a) : Len(Rows(a, b)[i + 1]) = Len(b) + 1
                 /\ \A i \in 0..Len(a) : \A j \in 0..Len(b) : Rows(a, b)[i + 1][j + 1] = D[i][j]
    BY RowsAreTable
  <1>2. PICK m, n, rows, d : /\ m = Len(a) /\ n = Len(b) /\ rows = Rows(a, b)
                             /\ d = D[m][n]
    OBVIOUS
  <1>3. d \in Nat /\ m \in Nat /\ n \in Nat /\ m \in 0..m /\ n \in 0..n
    <2>1. m \in Nat /\ n \in Nat /\ m \in 0..m /\ n \in 0..n
      BY <1>2
    <2>2. QED
      BY <1>1, <1>2, <2>1, Zenon DEF EditTable
  <1>4. k \in 0..2 /\ limit \in Nat
    OBVIOUS
  <1>5. d <= k <=> Within(a, b, k)
    <2>1. Within(a, b, k) <=> WithinBy(a, b, k, Letters(b))
      BY Zenon DEF Within, WithinBy
    <2>2. D[Len(a)][Len(b)] <= k => WithinBy(a, b, k, Letters(b))
      BY <1>1, <1>4, TableIsSound
    <2>3. WithinBy(a, b, k, Letters(b)) => D[Len(a)][Len(b)] <= k
      BY <1>1, <1>4, TableIsComplete
    <2>4. QED
      BY <1>2, <2>1, <2>2, <2>3
  <1>6. CASE a = b
    <2>1. levenshtein(a, b, limit) = 0
      BY <1>6 DEF levenshtein
    <2>2. Within(a, b, k)
      BY <1>6 DEF Within
    <2>3. QED
      BY <1>4, <2>1, <2>2
  <1>7. CASE a # b /\ (TooLong(a, b, limit) \/ \E i \in 2..Len(rows) : Exceeds(rows[i], limit))
    <2>1. levenshtein(a, b, limit) = limit + 1
      BY <1>2, <1>7 DEF levenshtein
    <2>2. d > limit
      <3>1. CASE TooLong(a, b, limit)
        <4>1. m - n > limit \/ n - m > limit
          BY <1>2, <3>1 DEF TooLong
        <4>2. d >= m - n /\ d >= n - m
          BY <1>1, <1>2, <1>3, LengthBound
        <4>3. QED
          BY <1>3, <1>4, <4>1, <4>2
      <3>2. CASE \E i \in 2..Len(rows) : Exceeds(rows[i], limit)
        <4>1. PICK i \in 2..Len(rows) : Exceeds(rows[i], limit)
          BY <3>2
        <4>2. PICK r : r = i - 1
          OBVIOUS
        <4>3. r \in 0..Len(a) /\ i = r + 1
          BY <1>1, <1>2, <4>2
        <4>4. \A j \in 0..Len(b) : D[r][j] > limit
          <5>1. SUFFICES ASSUME NEW j \in 0..Len(b) PROVE D[r][j] > limit
            OBVIOUS
          <5>2. j + 1 \in 1..(Len(b) + 1) /\ Len(rows[i]) = Len(b) + 1
            BY <1>1, <1>2, <4>3
          <5>3. rows[i][j + 1] > limit
            BY <4>1, <5>2 DEF Exceeds
          <5>4. QED
            BY <1>1, <1>2, <4>3, <5>3
        <4>5. \A j \in 0..Len(b) : D[Len(a)][j] > limit
          <5>1. Len(a) \in Nat /\ Len(b) \in Nat
            OBVIOUS
          <5>2. QED
            BY <1>1, <1>4, <4>3, <4>4, <5>1, CutOff, Zenon
        <4>6. QED
          BY <1>2, <1>3, <4>5
      <3>3. QED
        BY <1>7, <3>1, <3>2
    <2>3. ~(d <= k) /\ ~(limit + 1 <= k) /\ limit + 1 \in Nat
      BY <1>3, <1>4, <2>2
    <2>4. QED
      BY <1>5, <2>1, <2>3
  <1>8. CASE a # b /\ ~TooLong(a, b, limit) /\ ~\E i \in 2..Len(rows) : Exceeds(rows[i], limit)
    <2>1. levenshtein(a, b, limit) = rows[Len(rows)][Len(b) + 1]
      BY <1>2, <1>8 DEF levenshtein
    <2>2. levenshtein(a, b, limit) = d
      BY <1>1, <1>2, <1>3, <2>1
    <2>3. QED
      BY <1>3, <1>5, <2>2
  <1>9. QED
    BY <1>6, <1>7, <1>8

-----------------------------------------------------------------------------
(* The suggestion.                                                         *)

\* closestKnownDomain picks the earliest of the closest, when it is in reach.
LEMMA Closest ==
    ASSUME NEW d \in Seq(STRING), Len(d) >= MIN_LENGTH_FOR_DISTANCE_MATCH,
           NEW typo, typo = closestKnownDomain(d)
    PROVE  /\ \/ typo = NoTypo
              \/ typo \in KNOWN_SET /\ Within(d, typo, MaxDistance(d))
           /\ \A i \in 1..Len(KNOWN_PROVIDER_DOMAINS), k \in 0..MaxDistance(d) :
                Within(d, KNOWN_PROVIDER_DOMAINS[i], k) =>
                  \E j \in 1..Len(KNOWN_PROVIDER_DOMAINS) :
                    /\ typo = KNOWN_PROVIDER_DOMAINS[j]
                    /\ Within(d, typo, k)
                    /\ j <= i \/ \E l \in 0..(k - 1) : Within(d, typo, l)
  <1>1. PICK known, n, limit : /\ known = KNOWN_PROVIDER_DOMAINS
                               /\ n = Len(KNOWN_PROVIDER_DOMAINS) /\ limit = MaxDistance(d)
    OBVIOUS
  <1>2. n \in Nat /\ \A i \in 1..n : known[i] \in Seq(STRING)
    BY <1>1, DomainTypoAssumption
  <1>3. limit \in 1..2
    BY <1>1 DEF MaxDistance
  <1>4. PICK distance : distance = [i \in 1..n |-> levenshtein(d, known[i], limit)]
    OBVIOUS
  <1>5. ASSUME NEW i \in 1..n, NEW k \in 0..limit
        PROVE  distance[i] \in Nat /\ (distance[i] <= k <=> Within(d, known[i], k))
    <2>1. distance[i] = levenshtein(d, known[i], limit)
      BY <1>4
    <2>2. /\ levenshtein(d, known[i], limit) \in Nat
          /\ levenshtein(d, known[i], limit) <= k <=> Within(d, known[i], k)
      BY <1>2, <1>3, LevenshteinCorrect
    <2>3. QED
      BY <2>1, <2>2
  <1>6. \A i \in 1..n : distance[i] \in Nat
    <2>1. 0 \in 0..limit
      BY <1>3
    <2>2. QED
      BY <1>5, <2>1
  <1>7. PICK S, best, T, first : /\ S = {distance[i] : i \in 1..n} /\ best = Smallest(S)
                                 /\ T = {i \in 1..n : distance[i] = best} /\ first = Smallest(T)
    OBVIOUS
  <1>8. typo = IF n > 0 /\ best <= limit THEN known[first] ELSE NoTypo
    <2>1. DOMAIN distance = 1..n
      BY <1>4
    <2>2. S = {distance[i] : i \in DOMAIN distance} /\ T = {i \in DOMAIN distance : distance[i] = best}
      BY <1>7, <2>1
    <2>3. /\ best = Smallest({distance[i] : i \in DOMAIN distance})
          /\ first = Smallest({i \in DOMAIN distance : distance[i] = best})
      BY <1>7, <2>2
    <2>4. distance = [i \in 1..Len(KNOWN_PROVIDER_DOMAINS) |->
                        levenshtein(d, KNOWN_PROVIDER_DOMAINS[i], MaxDistance(d))]
      BY <1>1, <1>4
    <2>5. typo = IF /\ Len(d) >= MIN_LENGTH_FOR_DISTANCE_MATCH /\ Len(KNOWN_PROVIDER_DOMAINS) > 0
                    /\ best <= MaxDistance(d)
                 THEN KNOWN_PROVIDER_DOMAINS[first] ELSE NoTypo
      BY <2>3, <2>4, Zenon DEF closestKnownDomain
    <2>6. QED
      BY <1>1, <2>5
  <1>9. CASE n = 0
    <2>1. typo = NoTypo /\ 1..n = {}
      BY <1>8, <1>9
    <2>2. QED
      BY <1>1, <2>1
  <1>10. CASE n # 0
    <2>1. best \in S /\ best \in Nat /\ \A i \in 1..n : best <= distance[i]
      <3>1. distance[1] \in S
        BY <1>2, <1>7, <1>10
      <3>2. S \subseteq Nat /\ S # {}
        BY <1>6, <1>7, <3>1
      <3>3. best \in S /\ \A k \in S : best <= k
        BY <1>7, <3>2, SmallestIsLeast
      <3>4. QED
        BY <1>7, <3>2, <3>3
    <2>2. first \in 1..n /\ distance[first] = best /\ \A i \in 1..n : distance[i] = best => first <= i
      <3>1. T \subseteq Nat /\ T # {}
        <4>1. PICK i \in 1..n : distance[i] = best
          BY <1>7, <2>1
        <4>2. i \in T
          BY <1>7, <4>1
        <4>3. T \subseteq Nat
          BY <1>7
        <4>4. QED
          BY <4>2, <4>3
      <3>2. first \in T /\ \A k \in T : first <= k
        BY <1>7, <3>1, SmallestIsLeast
      <3>3. QED
        BY <1>7, <3>2
    <2>3. CASE best <= limit
      <3>1. typo = known[first]
        BY <1>2, <1>8, <1>10, <2>3
      <3>2. \A k \in 0..limit : best <= k => Within(d, typo, k)
        BY <1>5, <2>2, <3>1
      <3>3. Within(d, typo, limit)
        <4>1. limit \in 0..limit
          BY <1>3
        <4>2. QED
          BY <2>3, <3>2, <4>1
      <3>4. typo \in KNOWN_SET
        BY <1>1, <2>2, <3>1 DEF KNOWN_SET
      <3>5. ASSUME NEW i \in 1..n, NEW k \in 0..limit, Within(d, known[i], k)
            PROVE  /\ typo = known[first] /\ Within(d, typo, k)
                   /\ first <= i \/ \E l \in 0..(k - 1) : Within(d, typo, l)
        <4>1. distance[i] <= k /\ distance[i] \in Nat /\ best <= distance[i]
          BY <1>5, <2>1, <3>5
        <4>2. k \in Nat /\ best <= k
          BY <1>3, <2>1, <4>1
        <4>3. CASE distance[i] = best
          BY <2>2, <3>1, <3>2, <4>2, <4>3
        <4>4. CASE distance[i] # best
          <5>1. best \in 0..(k - 1) /\ best \in 0..limit /\ best <= best
            BY <1>3, <2>1, <2>3, <4>1, <4>4
          <5>2. Within(d, typo, best)
            BY <3>2, <5>1
          <5>3. QED
            BY <3>1, <3>2, <4>2, <5>1, <5>2
        <4>5. QED
          BY <4>3, <4>4
      <3>6. QED
        BY <1>1, <2>2, <3>3, <3>4, <3>5
    <2>4. CASE ~(best <= limit)
      <3>1. typo = NoTypo
        BY <1>8, <2>4
      <3>2. ASSUME NEW i \in 1..n, NEW k \in 0..limit PROVE ~Within(d, known[i], k)
        <4>1. distance[i] \in Nat /\ best <= distance[i] /\ ~(distance[i] <= k)
          BY <1>3, <1>6, <2>1, <2>4
        <4>2. QED
          BY <1>5, <4>1
      <3>3. QED
        BY <1>1, <3>1, <3>2
    <2>5. QED
      BY <2>3, <2>4
  <1>11. QED
    BY <1>9, <1>10

\* detectTypo suggests only what GoodSuggestion allows, for any domain and any
\* tables.
LEMMA SuggestionIsGood ==
    ASSUME NEW d \in Seq(STRING), NEW typo, typo = detectTypo(d)
    PROVE  typo \in KNOWN_SET \cup {NoTypo} /\ GoodSuggestion(d, typo)
  <1> DEFINE listed == d \in KNOWN_SET \cup NEVER_CORRECT
             mapped == d \in DOMAIN STATIC_TYPO_MAP \/ repairTld(d) # NoTypo
             long == Len(d) >= MIN_LENGTH_FOR_DISTANCE_MATCH
             near == \A i \in 1..Len(KNOWN_PROVIDER_DOMAINS), k \in 0..MaxDistance(d) :
                       Within(d, KNOWN_PROVIDER_DOMAINS[i], k) =>
                         \E j \in 1..Len(KNOWN_PROVIDER_DOMAINS) :
                           /\ typo = KNOWN_PROVIDER_DOMAINS[j]
                           /\ Within(d, typo, k)
                           /\ j <= i \/ \E l \in 0..(k - 1) : Within(d, typo, l)
  <1>1. SUFFICES /\ typo \in KNOWN_SET \cup {NoTypo}
                 /\ typo # NoTypo => ~listed
                 /\ ~listed /\ ~mapped /\ long =>
                      near /\ (typo # NoTypo => Within(d, typo, MaxDistance(d)))
    BY DEF GoodSuggestion
  <1> HIDE DEF near
  <1>2. CASE listed
    BY <1>2 DEF detectTypo
  <1>3. CASE ~listed /\ mapped
    <2>1. CASE d = <<>>
      BY <1>3, <2>1 DEF detectTypo
    <2>2. CASE d # <<>> /\ d \in DOMAIN STATIC_TYPO_MAP
      <3>1. typo = STATIC_TYPO_MAP[d]
        BY <1>3, <2>2 DEF detectTypo
      <3>2. QED
        BY <1>3, <2>2, <3>1, DomainTypoAssumption
    <2>3. CASE d # <<>> /\ d \notin DOMAIN STATIC_TYPO_MAP
      <3>1. PICK r : r = repairTld(d)
        OBVIOUS
      <3>2. typo = r
        BY <1>3, <2>3, <3>1 DEF detectTypo
      <3>3. r = NoTypo \/ r \in KNOWN_SET
        BY <3>1 DEF repairTld
      <3>4. QED
        BY <1>3, <3>2, <3>3
    <2>4. QED
      BY <2>1, <2>2, <2>3
  <1>4. CASE ~listed /\ ~mapped
    <2>1. CASE long
      <3>1. d # <<>>
        <4>1. MIN_LENGTH_FOR_DISTANCE_MATCH \in Nat \ {0} /\ Len(<<>>) = 0
          BY DomainTypoAssumption
        <4>2. QED
          BY <2>1, <4>1
      <3>2. typo = closestKnownDomain(d)
        BY <1>4, <3>1 DEF detectTypo
      <3>3. /\ typo = NoTypo \/ (typo \in KNOWN_SET /\ Within(d, typo, MaxDistance(d)))
            /\ near
        BY <2>1, <3>2, Closest DEF near
      <3>4. QED
        BY <1>4, <3>3
    <2>2. CASE ~long
      <3>1. typo = NoTypo
        <4>1. closestKnownDomain(d) = NoTypo
          BY <2>2 DEF closestKnownDomain
        <4>2. QED
          BY <1>4, <4>1 DEF detectTypo
      <3>2. QED
        BY <2>2, <3>1
    <2>3. QED
      BY <2>1, <2>2
  <1>5. QED
    BY <1>2, <1>3, <1>4

\* Only Aggregate reaches the end, and nothing leaves it.
LEMMA OnlyAggregateEnds ==
    ASSUME Next, ~Aggregate
    PROVE  pc' # "done"
  <1>1. ASSUME NextHost PROVE pc' # "done"
    BY <1>1 DEF NextHost, ProbeFails, Respond
  <1>2. ASSUME NEW reply, stageError(reply) PROVE pc' # "done"
    BY <1>2 DEF stageError, ProbeFails, Respond
  <1>3. CASE ParseAddress
    BY <1>3 DEF ParseAddress, Respond
  <1>4. CASE lookupMX
    BY <1>4 DEF lookupMX
  <1>5. CASE probeSMTP
    BY <1>5 DEF probeSMTP, Respond
  <1>6. CASE dial
    BY <1>1, <1>6 DEF dial
  <1>7. CASE greeting
    BY <1>1, <1>2, <1>7 DEF greeting
  <1>8. CASE Hello
    BY <1>2, <1>8 DEF Hello
  <1>9. CASE StartTLS
    BY <1>9 DEF StartTLS
  <1>10. CASE Mail
    BY <1>2, <1>10 DEF Mail
  <1>11. CASE RcptRandom
    BY <1>11 DEF RcptRandom, Respond
  <1>12. CASE Rcpt
    BY <1>12 DEF Rcpt, Respond
  <1>13. CASE Expire
    BY <1>13 DEF Expire
  <1>14. QED
    BY <1>3, <1>4, <1>5, <1>6, <1>7, <1>8, <1>9, <1>10, <1>11, <1>12, <1>13 DEF Next

\* For any table of providers and any domain, the suggestion that comes with a
\* verdict is a known provider, never given for a known or a protected domain;
\* a guess by distance is within the allowed edits, no known domain is closer
\* and none as close is listed earlier (detectTypo, closestKnownDomain,
\* levenshtein: its rows, its row cut-off and its length test).
THEOREM SuggestionIsClosest == Spec => []TypoIsClosest
  <1>1. Init => TypoIsClosest
    BY DEF Init, TypoIsClosest
  <1>2. TypoIsClosest /\ [Next]_vars => TypoIsClosest'
    <2> SUFFICES ASSUME TypoIsClosest, [Next]_vars PROVE TypoIsClosest'
      OBVIOUS
    <2>1. CASE Aggregate
      <3>1. SUFFICES ASSUME valid' PROVE <<result'.domain, result'.typo>> \in GoodSuggestions
        BY DEF TypoIsClosest
      <3>2. valid
        BY <2>1, <3>1 DEF Aggregate, requestVars
      <3>3. PICK checked \in Typos :
              \E a : result' = [aggregated |-> a, domain |-> checked[1], typo |-> checked[2]]
        BY <2>1, <3>2 DEF Aggregate
      <3>4. PICK d \in DomainName : checked = <<d, detectTypo(d)>>
        BY DEF Typos
      <3>5. PICK typo : typo = detectTypo(d)
        OBVIOUS
      <3>6. d \in Seq(STRING)
        BY VerificationAssumption
      <3>7. typo \in KNOWN_SET \cup {NoTypo} /\ GoodSuggestion(d, typo)
        BY <3>5, <3>6, SuggestionIsGood
      <3>8. result'.domain = d /\ result'.typo = typo
        BY <3>3, <3>4, <3>5
      <3>9. <<d, typo>> \in GoodSuggestions
        BY <3>7 DEF GoodSuggestions
      <3>10. QED
        BY <3>8, <3>9
    <2>2. CASE Next /\ ~Aggregate
      BY <2>2, OnlyAggregateEnds DEF TypoIsClosest
    <2>3. CASE UNCHANGED vars
      BY <2>3 DEF vars, requestVars, TypoIsClosest
    <2>4. QED
      BY <2>1, <2>2, <2>3
  <1>3. QED
    BY <1>1, <1>2, PTL DEF Spec

=============================================================================
