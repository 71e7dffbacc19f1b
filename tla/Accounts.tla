------------------------------ MODULE Accounts ------------------------------
(***************************************************************************)
(* Accounts, dashboard sessions, multi-factor enrolment and API keys: the  *)
(* /internal handlers, the tables they write and the dashboard pages that  *)
(* call them.  The tabs of one browser share its cookie, but each keeps    *)
(* the CSRF token of the session it was loaded with, and each has at most  *)
(* one request in flight.                                                  *)
(*                                                                         *)
(* A session is stateless: it is the sealed cookie.  A request carries the *)
(* cookie it was sent with, so sessions replaced or cleared meanwhile are  *)
(* still at work.  A handler reads the database, then commits one          *)
(* transaction; between the two anything may happen.  Signup creates the   *)
(* organisation's only user, an admin: a user is named by the              *)
(* organisation.                                                           *)
(***************************************************************************)
EXTENDS Integers, Sequences, FiniteSets

CONSTANTS
    Org, Email, Key, Tab,
    MaxSessions,    \* bound: sessions signed in
    MaxSecrets,     \* bound: enrolments
    None            \* no session, no user, no key, no request

VARIABLES
    org,        \* org[o]: "none", "active", "deleted" or "purged"
    user,       \* user[o]: the row of its admin
    key,        \* key[k]: the row of an API key
    revocations,\* revocations[k]: api_key.revoked audit events of the key
    cookie,     \* the browser's session
    tab,        \* tab[t]: the page shown and the token held in memory
    req,        \* req[t]: the request in flight
    owner,      \* the organisations of the sessions issued; a token indexes it
    secrets,    \* enrolments so far; each generates a secret and a recovery code
    proven,     \* history: tokens of sessions in which a code was accepted
    spent,      \* history: spent[s]: how often the recovery code of s was accepted
    trespass    \* history: what was wrong with a request that took effect

database == <<org, user, key, revocations>>
history == <<proven, spent, trespass>>
vars == <<org, user, key, revocations, cookie, tab, req, owner, secrets, history>>

Token == 0..MaxSessions             \* 0: no token
Secret == 1..MaxSecrets
SessionData == [org : Org, token : 1..MaxSessions, mfaVerified : BOOLEAN]
\* mfaSecret is 0 when null; the unused recovery codes are named by the secret
\* they were generated with.
User == [email : Email, mfaSecret : 0..MaxSecrets, mfaRecoveryCodes : SUBSET Secret]
KeyRow == [org : Org, status : {"active", "revoked", "gone"}]
Page == {"login", "mfa_setup", "mfa_challenge", "shell"}
\* What the user types: a current code of some secret's authenticator, or the
\* recovery code shown with it.
Code == {"totp", "recovery"} \X Secret
Op == {"signup", "login", "enroll", "verify", "me", "logout",
       "create_key", "revoke_key", "delete_org"}
\* A request whose handler is at work, and one that is answered.
Asked == [op : Op, arg : Email \cup Key \cup Code \cup {None},
          step : {"sent", "insert", "update", "consume"},
          session : SessionData \cup {None}, token : Token, late : BOOLEAN,
          read : {None} \cup SUBSET Secret]
Answered == [op : Op, step : {"answered"}, ok : BOOLEAN,
             session : SessionData \cup {None}, setsCookie : BOOLEAN]

ASSUME AccountsAssumption ==
    /\ MaxSessions \in Nat /\ MaxSecrets \in Nat
    /\ None \notin Org /\ None \notin Email /\ None \notin Key
    /\ None \notin User /\ None \notin KeyRow /\ None \notin SessionData

-----------------------------------------------------------------------------
(* The API client of the dashboard.                                        *)

\* A request: the operation, its argument, the step its handler has reached,
\* the cookie and the token it was sent with, whether its organisation was
\* already gone then, and what the handler read.
Request(t, op, arg) ==
    [op |-> op, arg |-> arg, step |-> "sent", session |-> cookie, token |-> tab[t].token,
     late |-> cookie # None /\ org[cookie.org] # "active", read |-> None]

SendFrom(t, page, op, arg) ==
    /\ req[t] = None
    /\ req' = [req EXCEPT ![t] = Request(t, op, arg)]
    /\ tab' = [tab EXCEPT ![t].page = page]
    /\ UNCHANGED <<database, cookie, owner, secrets, history>>
Send(t, op, arg) == SendFrom(t, tab[t].page, op, arg)

\* The login and the signup page can be opened at any time.
submitSignup(t) == \E e \in Email : SendFrom(t, "login", "signup", e)
submitLogin(t) == \E e \in Email : SendFrom(t, "login", "login", e)
\* MfaEnroll begins as soon as it is rendered.
beginEnrollment(t) == tab[t].page = "mfa_setup" /\ Send(t, "enroll", None)
submitCode(t) ==
    /\ tab[t].page \in {"mfa_setup", "mfa_challenge"}
    /\ \E c \in Code : c[2] <= secrets /\ Send(t, "verify", c)
loadShell(t) == Send(t, "me", None)
logout(t) == tab[t].page = "shell" /\ Send(t, "logout", None)
createKey(t) == tab[t].page = "shell" /\ Send(t, "create_key", None)
revokeKey(t) == tab[t].page = "shell" /\ \E k \in Key : Send(t, "revoke_key", k)
deleteOrg(t) == tab[t].page = "shell" /\ Send(t, "delete_org", None)

-----------------------------------------------------------------------------
(* Handlers: shared parts.                                                 *)

At(t, op, step) == req[t] # None /\ req[t].op = op /\ req[t].step = step

\* An answer: whether it is a success, the session it tells the page of, and
\* whether it replaces the cookie with it (None clears the cookie).
Reply(t, ok, session, setsCookie) ==
    req' = [req EXCEPT ![t] = [op |-> req[t].op, step |-> "answered", ok |-> ok,
                               session |-> session, setsCookie |-> setsCookie]]
Answer(t) == Reply(t, TRUE, None, FALSE)
writeSession(t, session) == Reply(t, TRUE, session, TRUE)
clearSession(t) == Reply(t, TRUE, None, TRUE)
Refuse(t) == Reply(t, FALSE, None, FALSE) /\ UNCHANGED <<database, owner, secrets, history>>
Advance(t, step, read) == req' = [req EXCEPT ![t] = [@ EXCEPT !.step = step,
                                                              !.read = read]]
                          /\ UNCHANGED <<database, owner, secrets, history>>

\* Wrong on purpose: any token will do.
requireSessionAnyToken(session, token, mfa, csrf) ==
    /\ session # None
    /\ org[session.org] = "active"
    /\ mfa => session.mfaVerified

\* Wrong on purpose: a sealed cookie is good until it expires.
requireSessionUnchecked(session, token, mfa, csrf) ==
    /\ session # None
    /\ mfa => session.mfaVerified
    /\ csrf => token = session.token

requireSession(session, token, mfa, csrf) ==
    /\ session # None
    /\ org[session.org] = "active"
    /\ mfa => session.mfaVerified
    /\ csrf => token = session.token

\* A request without a session in good standing is refused; the cookie of a
\* deleted organisation is cleared.
Unauthorized(t, mfa, csrf) ==
    LET r == req[t] IN
    /\ ~requireSession(r.session, r.token, mfa, csrf)
    /\ Reply(t, FALSE, None, r.session # None /\ org[r.session.org] # "active")
    /\ UNCHANGED <<database, owner, secrets, history>>

Authorized(t, mfa, csrf) == requireSession(req[t].session, req[t].token, mfa, csrf)

\* A new session: the next token.
CanIssue == Len(owner) < MaxSessions
NewSession(o) == [org |-> o, token |-> Len(owner) + 1, mfaVerified |-> FALSE]

\* A transaction of tab t's request changed rows of organisation o: the page
\* must belong to o, and the request must not have been sent after its end.
Note(t, o) ==
    trespass' = trespass \cup {w \in {"late", "stray"} :
                                 /\ w = "late" => req[t].late
                                 /\ w = "stray" => req[t].token = 0 \/ owner[req[t].token] # o}

-----------------------------------------------------------------------------
(* Signup and login.                                                       *)

\* The user of an address, whether or not the organisation is still active.
findUserForLogin(e) == {o \in Org : user[o] # None /\ user[o].email = e}

EmailTaken(e) == findUserForLogin(e) # {}

signupSelect(t) ==
    /\ At(t, "signup", "sent")
    /\ IF EmailTaken(req[t].arg) THEN Refuse(t) ELSE Advance(t, "insert", None)
    /\ UNCHANGED <<cookie, tab>>

CreateAccount(t, o) ==
    /\ org' = [org EXCEPT ![o] = "active"]
    /\ user' = [user EXCEPT ![o] = [email |-> req[t].arg, mfaSecret |-> 0,
                                    mfaRecoveryCodes |-> {}]]
    /\ owner' = Append(owner, o)
    /\ writeSession(t, NewSession(o))

\* The organisation and its user are inserted together; the unique index on
\* users.email refuses the slower of two signups, which rolls back.
signupInsert(t) ==
    /\ At(t, "signup", "insert")
    /\ \/ /\ ~EmailTaken(req[t].arg) /\ CanIssue
          /\ \E o \in Org : org[o] = "none" /\ CreateAccount(t, o)
          /\ UNCHANGED <<key, revocations, secrets, history>>
       \/ EmailTaken(req[t].arg) /\ Refuse(t)
    /\ UNCHANGED <<cookie, tab>>

\* Wrong on purpose: a user without a second factor is signed in at once.
loginTrusting(t) ==
    /\ At(t, "login", "sent")
    /\ CanIssue
    /\ \E o \in findUserForLogin(req[t].arg) :
         /\ org[o] = "active"
         /\ owner' = Append(owner, o)
         /\ writeSession(t, [NewSession(o) EXCEPT !.mfaVerified = user[o].mfaSecret = 0])
    /\ UNCHANGED <<database, cookie, tab, secrets, history>>

\* A wrong password is refused like an unknown address.
login(t) ==
    /\ At(t, "login", "sent")
    /\ \/ /\ CanIssue
          /\ \E o \in findUserForLogin(req[t].arg) :
               /\ org[o] = "active"
               /\ owner' = Append(owner, o)
               /\ writeSession(t, NewSession(o))
          /\ UNCHANGED <<database, secrets, history>>
       \/ Refuse(t)
    /\ UNCHANGED <<cookie, tab>>

-----------------------------------------------------------------------------
(* Multi-factor authentication.                                            *)

\* Enrolment is refused once there is a secret; the check comes before the
\* transaction that stores one.
enrollCheck(t) ==
    /\ At(t, "enroll", "sent")
    /\ \/ Unauthorized(t, FALSE, TRUE)
       \/ /\ Authorized(t, FALSE, TRUE)
          /\ IF user[req[t].session.org] # None /\ user[req[t].session.org].mfaSecret = 0
             THEN Advance(t, "update", None) ELSE Refuse(t)
    /\ UNCHANGED <<cookie, tab>>

\* The UPDATE does not look at the secret again: the slower of two enrolments
\* replaces the secret and the codes of the other.
enrollMfa(t) ==
    LET o == req[t].session.org IN
    /\ At(t, "enroll", "update")
    /\ secrets < MaxSecrets /\ secrets' = secrets + 1
    /\ user' = [user EXCEPT ![o] = [@ EXCEPT !.mfaSecret = secrets',
                                             !.mfaRecoveryCodes = {secrets'}]]
    /\ Answer(t)
    /\ Note(t, o)
    /\ UNCHANGED <<org, key, revocations, cookie, tab, owner, proven, spent>>

\* The request's session, now verified, is sealed again.
Verified(t) ==
    /\ writeSession(t, [req[t].session EXCEPT !.mfaVerified = TRUE])
    /\ proven' = proven \cup {req[t].session.token}

\* The user is read once; a code of the secret read then is accepted, any
\* other is tried as a recovery code.
verifyTotp(t) ==
    /\ At(t, "verify", "sent")
    /\ \/ Unauthorized(t, FALSE, TRUE)
       \/ /\ Authorized(t, FALSE, TRUE)
          /\ LET u == user[req[t].session.org] IN
             IF u = None \/ u.mfaSecret = 0 THEN Refuse(t)
             ELSE IF req[t].arg = <<"totp", u.mfaSecret>>
             THEN /\ Verified(t) /\ Note(t, req[t].session.org)
                  /\ UNCHANGED <<database, owner, secrets, spent>>
             ELSE Advance(t, "consume", u.mfaRecoveryCodes)
    /\ UNCHANGED <<cookie, tab>>

\* Wrong on purpose: the codes read with the user are trusted.
consumeStale(t) ==
    LET o == req[t].session.org
        s == req[t].arg[2]
    IN
    /\ At(t, "verify", "consume")
    /\ req[t].arg[1] = "recovery" /\ s \in req[t].read /\ user[o] # None
    /\ user' = [user EXCEPT ![o].mfaRecoveryCodes = @ \ {s}]
    /\ spent' = [spent EXCEPT ![s] = @ + 1]
    /\ Verified(t) /\ Note(t, o)
    /\ UNCHANGED <<org, key, revocations, cookie, tab, owner, secrets>>

\* The row is locked and read again: the code must still be there.
consumeRecoveryCode(t) ==
    LET o == req[t].session.org
        s == req[t].arg[2]
        unused == user[o] # None /\ req[t].arg[1] = "recovery"
                  /\ s \in user[o].mfaRecoveryCodes
    IN
    /\ At(t, "verify", "consume")
    /\ \/ /\ unused
          /\ user' = [user EXCEPT ![o].mfaRecoveryCodes = @ \ {s}]
          /\ spent' = [spent EXCEPT ![s] = @ + 1]
          /\ Verified(t) /\ Note(t, o)
          /\ UNCHANGED <<org, key, revocations, owner, secrets>>
       \/ ~unused /\ Refuse(t)
    /\ UNCHANGED <<cookie, tab>>
-----------------------------------------------------------------------------
(* The session itself, keys and the end of an organisation.                *)

me(t) ==
    /\ At(t, "me", "sent")
    /\ \/ Unauthorized(t, FALSE, FALSE)
       \/ /\ Authorized(t, FALSE, FALSE)
          /\ Reply(t, TRUE, req[t].session, FALSE)
          /\ UNCHANGED <<database, owner, secrets, history>>
    /\ UNCHANGED <<cookie, tab>>

logoutHandler(t) ==
    /\ At(t, "logout", "sent")
    /\ \/ Unauthorized(t, FALSE, TRUE)
       \/ /\ Authorized(t, FALSE, TRUE)
          /\ clearSession(t)
          /\ Note(t, req[t].session.org)
          /\ UNCHANGED <<database, owner, secrets, proven, spent>>
    /\ UNCHANGED <<cookie, tab>>

\* The session and, in the transaction, the organisation are read; neither row
\* is locked when the key is inserted.
createKeyCheck(t) ==
    /\ At(t, "create_key", "sent")
    /\ \/ Unauthorized(t, TRUE, TRUE)
       \/ Authorized(t, TRUE, TRUE) /\ Advance(t, "insert", None)
    /\ UNCHANGED <<cookie, tab>>

InsertKey(k, o) ==
    key[k] = None /\ key' = [key EXCEPT ![k] = [org |-> o, status |-> "active"]]

createApiKeyForOrg(t) ==
    /\ At(t, "create_key", "insert")
    /\ \E k \in Key : InsertKey(k, req[t].session.org)
    /\ Answer(t)
    /\ Note(t, req[t].session.org)
    /\ UNCHANGED <<org, user, revocations, cookie, tab, owner, secrets, proven, spent>>

\* The command line names the organisation itself.
createKeyCommand ==
    /\ \E k \in Key, o \in Org : org[o] = "active" /\ InsertKey(k, o)
    /\ UNCHANGED <<org, user, revocations, cookie, tab, req, owner, secrets, history>>

\* The key must be one of the organisation's.
revokeKeyCheck(t) ==
    /\ At(t, "revoke_key", "sent")
    /\ \/ Unauthorized(t, TRUE, TRUE)
       \/ /\ Authorized(t, TRUE, TRUE)
          /\ LET row == key[req[t].arg] IN
             IF row # None /\ row.org = req[t].session.org /\ row.status # "gone"
             THEN Advance(t, "update", None) ELSE Refuse(t)
    /\ UNCHANGED <<cookie, tab>>

\* Wrong on purpose: the UPDATE also matches a revoked key.
revokeAgain(k) ==
    /\ key[k] # None
    /\ key' = [key EXCEPT ![k].status = "revoked"]
    /\ revocations' = [revocations EXCEPT ![k] = @ + 1]

\* The UPDATE matches an active key only; the audit event goes with it.
revokeApiKeyById(k) ==
    IF key[k] # None /\ key[k].status = "active"
    THEN /\ key' = [key EXCEPT ![k].status = "revoked"]
         /\ revocations' = [revocations EXCEPT ![k] = @ + 1]
    ELSE UNCHANGED <<key, revocations>>

revokeKeyUpdate(t) ==
    /\ At(t, "revoke_key", "update")
    /\ revokeApiKeyById(req[t].arg)
    /\ Answer(t)
    /\ Note(t, req[t].session.org)
    /\ UNCHANGED <<org, user, cookie, tab, owner, secrets, proven, spent>>

revokeKeyCommand ==
    /\ \E k \in Key : key[k] # None /\ revokeApiKeyById(k)
    /\ UNCHANGED <<org, user, cookie, tab, req, owner, secrets, history>>

\* What a /v1 request finds out about the key it carries.  No operation gives a
\* key an expiry.
findActiveApiKeyByHash(k) ==
    IF key[k] = None \/ key[k].status = "gone" THEN "unknown_key"
    ELSE IF key[k].status = "revoked" THEN "revoked_key"
    ELSE IF org[key[k].org] # "active" THEN "org_deleted" ELSE "ok"

\* The preHandler: a missing or malformed header (None) and every failed lookup
\* is the same refusal; otherwise the request acts for the key's organisation.
authPlugin(bearer) == bearer # None /\ findActiveApiKeyByHash(bearer) = "ok"

\* The name typed is compared with the settings read.
deleteOrgCheck(t) ==
    /\ At(t, "delete_org", "sent")
    /\ \/ Unauthorized(t, TRUE, TRUE)
       \/ Authorized(t, TRUE, TRUE) /\ (Advance(t, "update", None) \/ Refuse(t))
    /\ UNCHANGED <<cookie, tab>>

\* The UPDATE matches an active organisation only.
softDeleteOrganization(t) ==
    LET o == req[t].session.org IN
    /\ At(t, "delete_org", "update")
    /\ org' = [org EXCEPT ![o] = IF @ = "active" THEN "deleted" ELSE @]
    /\ clearSession(t)
    /\ Note(t, o)
    /\ UNCHANGED <<user, key, revocations, cookie, tab, owner, secrets, proven, spent>>

\* Thirty days later: requests and sessions of the organisation are long gone.
hardDeleteOrganizationData(o) ==
    /\ org[o] = "deleted"
    /\ cookie # None => cookie.org # o
    /\ \A t \in Tab : req[t] = None
    /\ org' = [org EXCEPT ![o] = "purged"]
    /\ user' = [user EXCEPT ![o] = None]
    /\ key' = [k \in Key |-> IF key[k] # None /\ key[k].org = o
                             THEN [key[k] EXCEPT !.status = "gone"] ELSE key[k]]
    /\ UNCHANGED <<revocations, cookie, tab, req, owner, secrets, history>>

-----------------------------------------------------------------------------
(* The browser.                                                            *)

\* Where an answered request takes its page.
NextPage(t) ==
    LET r == req[t]
        enrolled == user[r.session.org] # None /\ user[r.session.org].mfaSecret # 0
    IN CASE r.op = "signup" /\ r.ok -> "mfa_setup"
         [] r.op = "login" /\ r.ok -> IF enrolled THEN "mfa_challenge" ELSE "mfa_setup"
         [] r.op = "verify" /\ r.ok -> "shell"
         [] r.op = "me" -> IF r.ok /\ r.session.mfaVerified THEN "shell" ELSE "login"
         [] r.op = "logout" -> "login"
         [] r.op = "delete_org" /\ r.ok -> "login"
         [] OTHER -> tab[t].page

\* The token of a new session, and the one /internal/me tells the shell.
NextToken(t) ==
    LET r == req[t] IN
    IF r.ok /\ (r.op \in {"signup", "login"} \/ (r.op = "me" /\ r.session.mfaVerified))
    THEN r.session.token ELSE tab[t].token

\* The answer arrives: its Set-Cookie header is the browser's cookie from now
\* on, whatever was stored since the request was sent.
receive(t) ==
    /\ req[t] # None /\ req[t].step = "answered"
    /\ cookie' = IF req[t].setsCookie THEN req[t].session ELSE cookie
    /\ tab' = [tab EXCEPT ![t] = [page |-> NextPage(t), token |-> NextToken(t)]]
    /\ req' = [req EXCEPT ![t] = None]
    /\ UNCHANGED <<database, owner, secrets, history>>

\* The seal and the cookie have the same lifetime.
sessionExpires ==
    /\ cookie # None /\ cookie' = None
    /\ UNCHANGED <<database, tab, req, owner, secrets, history>>

Init ==
    /\ org = [o \in Org |-> "none"]
    /\ user = [o \in Org |-> None]
    /\ key = [k \in Key |-> None]
    /\ revocations = [k \in Key |-> 0]
    /\ cookie = None
    /\ tab = [t \in Tab |-> [page |-> "login", token |-> 0]]
    /\ req = [t \in Tab |-> None]
    /\ owner = <<>>
    /\ secrets = 0
    /\ proven = {}
    /\ spent = [s \in Secret |-> 0]
    /\ trespass = {}

Handle(t) ==
    \/ signupSelect(t) \/ signupInsert(t) \/ login(t)
    \/ enrollCheck(t) \/ enrollMfa(t) \/ verifyTotp(t) \/ consumeRecoveryCode(t)
    \/ me(t) \/ logoutHandler(t)
    \/ createKeyCheck(t) \/ createApiKeyForOrg(t)
    \/ revokeKeyCheck(t) \/ revokeKeyUpdate(t)
    \/ deleteOrgCheck(t) \/ softDeleteOrganization(t)

Use(t) ==
    \/ submitSignup(t) \/ submitLogin(t) \/ beginEnrollment(t) \/ submitCode(t)
    \/ loadShell(t) \/ logout(t) \/ createKey(t) \/ revokeKey(t) \/ deleteOrg(t)

Next ==
    \/ \E t \in Tab : Use(t) \/ Handle(t) \/ receive(t)
    \/ createKeyCommand \/ revokeKeyCommand \/ sessionExpires
    \/ \E o \in Org : hardDeleteOrganizationData(o)

Spec == Init /\ [][Next]_vars

-----------------------------------------------------------------------------
(* Properties.                                                             *)

Pending == {req[t] : t \in {t \in Tab : req[t] # None}}
\* The sessions in the browser, in requests and in answers under way.
Sessions == ({cookie} \cup {r.session : r \in Pending}) \ {None}

\* Rows, sessions, requests and pages keep their types.
TypeOK ==
    /\ org \in [Org -> {"none", "active", "deleted", "purged"}]
    /\ user \in [Org -> User \cup {None}]
    /\ key \in [Key -> KeyRow \cup {None}]
    /\ revocations \in [Key -> Nat]
    /\ cookie \in SessionData \cup {None}
    /\ tab \in [Tab -> [page : Page, token : Token]]
    /\ req \in [Tab -> Asked \cup Answered \cup {None}]
    /\ owner \in Seq(Org) /\ Len(owner) <= MaxSessions
    /\ secrets \in 0..MaxSecrets
    /\ proven \subseteq 1..MaxSessions
    /\ spent \in [Secret -> Nat]
    /\ trespass \subseteq {"late", "stray"}

\* A page never changes the account another tab signed in to after the page was
\* loaded: what a request changes belongs to the session whose token its page
\* holds (the CSRF check of requireSession).
TabKeepsItsAccount == "stray" \notin trespass

\* A request sent after its organisation was deleted changes nothing, although
\* its cookie is still sealed (requireSession reads the organisation again).
DeletedOrgIsClosed == "late" \notin trespass

\* A verified session, wherever it travels, is one in which a code was accepted,
\* and its user has a second factor (login, signup, verify).
VerifiedHasProof ==
    \A s \in Sessions : s.mfaVerified =>
        s.token \in proven /\ (user[s.org] # None => user[s.org].mfaSecret # 0)

\* A recovery code is accepted once, also by two requests at a time, and the
\* codes kept are those of the secret kept, also after two enrolments at a time
\* (consumeRecoveryCode, enrollMfa).
RecoveryCodes ==
    /\ \A s \in Secret : spent[s] <= 1
    /\ \A o \in Org : user[o] # None =>
         \A s \in user[o].mfaRecoveryCodes : s = user[o].mfaSecret /\ spent[s] = 0

\* A key has exactly one revocation event once it is revoked and none before,
\* whoever revokes it how often (revokeApiKeyById); and it opens /v1 exactly as
\* long as there is no such event and its organisation is active, also when it
\* was inserted after the organisation's end (authPlugin).
RevokedOnce ==
    \A k \in Key : /\ revocations[k] <= 1
                   /\ key[k] # None /\ key[k].status # "gone" =>
                        (key[k].status = "revoked" <=> revocations[k] = 1)
                   /\ authPlugin(k) <=> /\ key[k] # None /\ revocations[k] = 0
                                        /\ org[key[k].org] = "active"

-----------------------------------------------------------------------------
(* What makes the safety properties inductive.                             *)

\* A session was issued for an organisation that exists since, and is verified
\* only with a proof and a second factor.
SessionOK(s) ==
    /\ s.token <= Len(owner) /\ owner[s.token] = s.org
    /\ org[s.org] # "none"
    /\ s.mfaVerified => /\ s.token \in proven
                        /\ user[s.org] # None => user[s.org].mfaSecret # 0

\* Past its check a request has a session, the token of that session and an
\* organisation that was there when it was sent.
Checked(r) ==
    r.step \in {"update", "consume"} \/ (r.step = "insert" /\ r.op = "create_key")

AskedOK(r) ==
    /\ r.token <= Len(owner)
    /\ r.late => r.session # None /\ org[r.session.org] \in {"deleted", "purged"}
    /\ Checked(r) => r.session # None /\ ~r.late /\ r.token = r.session.token
    /\ r.op = "enroll" /\ r.step = "update" => user[r.session.org] # None
    /\ r.op \in {"signup", "login"} => r.arg \in Email
    /\ r.op = "verify" => r.arg \in Code
    /\ r.op = "revoke_key" => r.arg \in Key

RequestOK(r) ==
    r # None =>
      /\ r.session # None => SessionOK(r.session)
      /\ r.step # "answered" => AskedOK(r)
      /\ r.step = "answered" /\ r.ok /\ r.op \in {"signup", "login", "me"} => r.session # None

BrowserOK ==
    /\ cookie # None => SessionOK(cookie)
    /\ \A t \in Tab : tab[t].token <= Len(owner) /\ RequestOK(req[t])

\* Secrets are drawn once: none is shared, none of the future is spent.
SecretsOK ==
    /\ \A o \in Org : user[o] # None => user[o].mfaSecret <= secrets
    /\ \A o, p \in Org :
         (/\ user[o] # None /\ user[p] # None
          /\ user[o].mfaSecret = user[p].mfaSecret /\ user[o].mfaSecret # 0) => o = p
    /\ \A s \in Secret : s > secrets => spent[s] = 0

KeyOK(k) ==
    /\ key[k] = None => revocations[k] = 0
    /\ key[k] # None =>
         /\ key[k].status = "active" => revocations[k] = 0
         /\ key[k].status = "revoked" => revocations[k] = 1
         /\ key[k].status = "gone" => revocations[k] <= 1 /\ org[key[k].org] = "purged"

IndInv ==
    /\ TypeOK
    /\ BrowserOK
    /\ trespass = {}
    /\ SecretsOK
    /\ RecoveryCodes
    /\ \A k \in Key : KeyOK(k)
=============================================================================
