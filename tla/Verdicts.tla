------------------------------ MODULE Verdicts ------------------------------
(***************************************************************************)
(* The customer-facing verdict: one engine response, the typo signal and   *)
(* the worker's operational condition become a verdict, a score and        *)
(* reason codes.  aggregate is pure; the rules run in strict order.        *)
(***************************************************************************)
EXTENDS Integers, Sequences

CONSTANT Null       \* null: no probe asked for, lookup failed, no reason, no typo

\* The engine's response, with texts reduced to whether they are empty.
MxResult == [has_mx : BOOLEAN \cup {Null}, error : BOOLEAN]
SmtpResult == [attempted : BOOLEAN, mailbox_accepted : BOOLEAN, catch_all : BOOLEAN,
               full_inbox : BOOLEAN, disabled : BOOLEAN, error : BOOLEAN]
EngineResponse == [valid : BOOLEAN, mx : MxResult, disposable : BOOLEAN,
                   role_account : BOOLEAN, smtp : SmtpResult \cup {Null}]
OperationalReason == {"SMTP_DISABLED", "CIRCUIT_OPEN"}

Decision(verdict, score, reason) ==
    [verdict |-> verdict, score |-> score, reason |-> reason]

\* What the rules about the probe may decide.
SmtpDecision ==
    [verdict : {"invalid", "risky", "unknown"}, score : 0..100,
     reason : {"CATCH_ALL_DOMAIN", "SMTP_UNAVAILABLE", "SMTP_NOT_CHECKED", "MAILBOX_REJECTED",
               "MAILBOX_FULL", "MAILBOX_DISABLED"}]

ASSUME VerdictsAssumption == Null \notin SmtpResult /\ Null \notin SmtpDecision

LookupFailed(engine) == engine.mx.error \/ engine.mx.has_mx = Null

\* The rules about the probe, and Null when none applies.
decideSmtp(smtp) ==
    IF smtp = Null THEN Null
    ELSE IF smtp.catch_all THEN Decision("unknown", 50, "CATCH_ALL_DOMAIN")
    ELSE IF smtp.error THEN Decision("unknown", 50, "SMTP_UNAVAILABLE")
    ELSE IF ~smtp.attempted /\ smtp.disabled THEN Decision("unknown", 50, "SMTP_NOT_CHECKED")
    ELSE IF ~smtp.attempted THEN Null
    ELSE IF ~smtp.mailbox_accepted /\ ~smtp.disabled
         THEN Decision("invalid", 10, "MAILBOX_REJECTED")
    ELSE IF smtp.full_inbox THEN Decision("risky", 45, "MAILBOX_FULL")
    ELSE IF smtp.disabled THEN Decision("invalid", 10, "MAILBOX_DISABLED")
    ELSE Null

decide(engine, typo, operational) ==
    CASE ~engine.valid -> Decision("invalid", 0, "SYNTAX_INVALID")
      [] engine.valid /\ LookupFailed(engine) ->
           IF typo # Null THEN Decision("risky", 65, "POSSIBLE_TYPO")
           ELSE Decision("unknown", 50, "MX_LOOKUP_UNAVAILABLE")
      [] engine.valid /\ engine.mx = [has_mx |-> FALSE, error |-> FALSE] ->
           Decision("invalid", 5, "DOMAIN_NO_MX")
      [] OTHER ->
           IF operational # Null THEN Decision("unknown", 50, operational)
           ELSE IF decideSmtp(engine.smtp) # Null THEN decideSmtp(engine.smtp)
           ELSE IF engine.disposable THEN Decision("risky", 50, "DISPOSABLE_DOMAIN")
           ELSE IF engine.role_account THEN Decision("risky", 60, "ROLE_ACCOUNT")
           ELSE IF typo # Null THEN Decision("risky", 65, "POSSIBLE_TYPO")
           ELSE IF engine.smtp = Null THEN Decision("unknown", 50, "SMTP_NOT_CHECKED")
           ELSE Decision("valid", 95, Null)

RefusedByPolicy(smtp) == smtp # Null /\ ~smtp.attempted /\ smtp.disabled

\* The cautions added to risky and unknown results, as a set: their order is
\* fixed by the list of candidates.
secondaryReasons(engine, typo, decision) ==
    IF decision.verdict \notin {"risky", "unknown"} THEN {}
    ELSE {code \in {"MX_LOOKUP_UNAVAILABLE", "DISPOSABLE_DOMAIN", "ROLE_ACCOUNT",
                    "POSSIBLE_TYPO", "SMTP_NOT_CHECKED"} :
            /\ code # decision.reason
            /\ code = "MX_LOOKUP_UNAVAILABLE" => LookupFailed(engine)
            /\ code = "DISPOSABLE_DOMAIN" => engine.disposable
            /\ code = "ROLE_ACCOUNT" => engine.role_account
            /\ code = "POSSIBLE_TYPO" => typo # Null
            /\ code = "SMTP_NOT_CHECKED" => engine.smtp = Null \/ RefusedByPolicy(engine.smtp)}

aggregate(engine, typo, operational) ==
    LET decision == decide(engine, typo, operational) IN
    [verdict |-> decision.verdict, score |-> decision.score, reason |-> decision.reason,
     cautions |-> IF decision.reason = Null THEN {}
                  ELSE secondaryReasons(engine, typo, decision)]
=============================================================================
