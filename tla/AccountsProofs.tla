--------------------------- MODULE AccountsProofs ---------------------------
(***************************************************************************)
(* Accounts for any number of organisations, addresses, keys, tabs,        *)
(* sessions and enrolments: what a request changes belongs to the account  *)
(* of its page, a deleted organisation is closed, a verified session has   *)
(* its proof, a recovery code is used once and a key is revoked once.      *)
(*                                                                         *)
(* The argument: what happens beside a session or a request under way can  *)
(* only confirm it (Frame), so it is enough to look at the session and the *)
(* request a step writes (Browser), and at the rows it writes.             *)
(***************************************************************************)
EXTENDS Accounts, TLAPS

\* The rows, the counters and the history stay as they are.
Quiet == UNCHANGED <<database, owner, secrets, history>>

\* What one request may do to the rest: sessions are only added, an
\* organisation moves on, and a user is created with its organisation only.
Monotone ==
    /\ Len(owner) <= Len(owner)' /\ \A i \in 1..Len(owner) : owner'[i] = owner[i]
    /\ \A o \in Org : org[o] # "none" => org'[o] # "none"
    /\ \A o \in Org : org[o] \in {"deleted", "purged"} => org'[o] \in {"deleted", "purged"}
    /\ \A o \in Org : org[o] = "purged" => org'[o] = "purged"
    /\ proven \subseteq proven'
    /\ \A o \in Org : user'[o] # None =>
         \/ org[o] = "none"
         \/ user[o] # None /\ (user[o].mfaSecret # 0 => user'[o].mfaSecret # 0)

\* The transactions that change rows, and their handlers' answers.
SignedUp(t) ==
    /\ req[t] # None /\ req[t].step = "insert" /\ req[t].op = "signup" /\ CanIssue
    /\ \E o \in Org : org[o] = "none" /\ CreateAccount(t, o)
    /\ UNCHANGED <<key, revocations, secrets, history>>
SignedIn(t) ==
    /\ req[t] # None /\ req[t].step = "sent" /\ req[t].op = "login" /\ CanIssue
    /\ \E o \in Org : /\ org[o] = "active"
                      /\ owner' = Append(owner, o) /\ writeSession(t, NewSession(o))
    /\ UNCHANGED <<database, secrets, history>>
CodeAccepted(t) ==
    /\ At(t, "verify", "sent") /\ Authorized(t, FALSE, TRUE)
    /\ user[req[t].session.org] # None /\ user[req[t].session.org].mfaSecret # 0
    /\ Verified(t) /\ Note(t, req[t].session.org)
    /\ UNCHANGED <<database, owner, secrets, spent>>
RecoveryAccepted(t) ==
    LET o == req[t].session.org
        s == req[t].arg[2]
    IN  /\ At(t, "verify", "consume")
        /\ user[o] # None /\ s \in user[o].mfaRecoveryCodes
        /\ user' = [user EXCEPT ![o].mfaRecoveryCodes = @ \ {s}]
        /\ spent' = [spent EXCEPT ![s] = @ + 1]
        /\ Verified(t) /\ Note(t, o)
        /\ UNCHANGED <<org, key, revocations, owner, secrets>>
LoggedOut(t) ==
    /\ At(t, "logout", "sent") /\ Authorized(t, FALSE, TRUE)
    /\ clearSession(t) /\ Note(t, req[t].session.org)
    /\ UNCHANGED <<database, owner, secrets, proven, spent>>

\* A handler that changes no row goes on or answers: with the session it came
\* with, as GET /internal/me does, or with none.
GoesOn(t) ==
    /\ req[t] # None /\ req[t].step = "sent"
    /\ \E step \in {"insert", "update", "consume"}, read \in {None} \cup SUBSET Secret :
         /\ req' = [req EXCEPT ![t] = [@ EXCEPT !.step = step, !.read = read]]
         /\ \/ req[t].op = "signup" /\ step = "insert"
            \/ /\ Authorized(t, FALSE, TRUE)
               /\ req[t].op = "enroll" => user[req[t].session.org] # None
    /\ Quiet
Answers(t) ==
    /\ req[t] # None /\ req[t].step # "answered"
    /\ \E ok, setsCookie \in BOOLEAN :
         \/ Reply(t, FALSE, None, setsCookie)
         \/ req[t].op = "me" /\ req[t].session # None
            /\ Reply(t, ok, req[t].session, setsCookie)
    /\ Quiet

\* Every handler is one of these.
LEMMA HandleCases ==
    ASSUME IndInv, NEW t \in Tab, Handle(t)
    PROVE  /\ cookie' = cookie /\ tab' = tab
           /\ \/ GoesOn(t) \/ Answers(t) \/ SignedUp(t) \/ SignedIn(t) \/ CodeAccepted(t)
              \/ RecoveryAccepted(t) \/ LoggedOut(t)
              \/ enrollMfa(t) \/ createApiKeyForOrg(t) \/ revokeKeyUpdate(t)
              \/ softDeleteOrganization(t)
  <1>f. Refuse(t) /\ req[t] # None /\ req[t].step # "answered" => Answers(t)
    BY DEF Refuse, Answers, Quiet
  <1>u. ASSUME NEW mfa, NEW csrf, Unauthorized(t, mfa, csrf), req[t] # None, req[t].step = "sent"
        PROVE  Answers(t)
    <2> DEFINE c == req[t].session # None /\ org[req[t].session.org] # "active"
    <2>1. c \in BOOLEAN /\ Reply(t, FALSE, None, c)
      BY <1>u DEF Unauthorized
    <2>2. QED
      BY <1>u, <2>1 DEF Unauthorized, Answers, Quiet
  <1>a. ASSUME NEW step \in {"insert", "update", "consume"}, NEW read \in {None} \cup SUBSET Secret,
               Advance(t, step, read), req[t] # None, req[t].step = "sent",
               \/ req[t].op = "signup" /\ step = "insert"
               \/ /\ Authorized(t, FALSE, TRUE)
                  /\ req[t].op = "enroll" => user[req[t].session.org] # None
        PROVE  GoesOn(t)
    BY <1>a DEF Advance, GoesOn, Quiet
  <1>v. ASSUME Authorized(t, TRUE, TRUE)
        PROVE  Authorized(t, FALSE, TRUE)
    BY <1>v DEF Authorized, requireSession
  <1>1. CASE signupSelect(t)
    BY <1>1, <1>f, <1>a DEF signupSelect, At
  <1>2. CASE signupInsert(t)
    BY <1>2, <1>f DEF signupInsert, At, SignedUp
  <1>3. CASE login(t)
    BY <1>3, <1>f DEF login, At, SignedIn, findUserForLogin
  <1>4. CASE enrollCheck(t)
    BY <1>4, <1>f, <1>u, <1>a DEF enrollCheck, At
  <1>5. CASE enrollMfa(t)
    BY <1>5 DEF enrollMfa
  <1>6. CASE verifyTotp(t)
    <2>1. CASE Unauthorized(t, FALSE, TRUE)
      BY <1>6, <1>u, <2>1 DEF verifyTotp, At
    <2>2. CASE Authorized(t, FALSE, TRUE)
      <3> DEFINE u == user[req[t].session.org]
      <3>1. CASE Refuse(t)
        BY <1>6, <1>f, <3>1 DEF verifyTotp, At
      <3>2. CASE /\ u # None /\ u.mfaSecret # 0 /\ Verified(t) /\ Note(t, req[t].session.org)
                 /\ UNCHANGED <<database, owner, secrets, spent>>
        BY <1>6, <2>2, <3>2 DEF verifyTotp, CodeAccepted
      <3>3. CASE u # None /\ Advance(t, "consume", u.mfaRecoveryCodes)
        <4>1. req[t].session.org \in Org
          BY <1>6, <2>2 DEF IndInv, TypeOK, verifyTotp, At, Authorized, requireSession, Asked, Answered,
                            SessionData
        <4>2. u.mfaRecoveryCodes \in SUBSET Secret
          BY <3>3, <4>1 DEF IndInv, TypeOK, User
        <4>3. QED
          BY <1>6, <1>a, <2>2, <3>3, <4>2 DEF verifyTotp, At
      <3>4. QED
        BY <1>6, <2>2, <3>1, <3>2, <3>3 DEF verifyTotp, Unauthorized, Authorized
    <2>3. QED
      BY <1>6, <2>1, <2>2 DEF verifyTotp
  <1>7. CASE consumeRecoveryCode(t)
    BY <1>7, <1>f DEF consumeRecoveryCode, At, RecoveryAccepted
  <1>8. CASE me(t)
    <2>1. CASE Authorized(t, FALSE, FALSE) /\ Reply(t, TRUE, req[t].session, FALSE) /\ Quiet
      <3>1. req[t].session # None /\ req[t] # None /\ req[t].op = "me" /\ req[t].step # "answered"
        BY <1>8, <2>1 DEF Authorized, requireSession, me, At
      <3>2. QED
        BY <1>8, <2>1, <3>1 DEF me, Answers
    <2>2. QED
      BY <1>8, <1>u, <2>1 DEF me, At, Quiet
  <1>9. CASE logoutHandler(t)
    BY <1>9, <1>u DEF logoutHandler, At, LoggedOut
  <1>10. CASE createKeyCheck(t)
    BY <1>10, <1>u, <1>a, <1>v DEF createKeyCheck, At
  <1>11. CASE createApiKeyForOrg(t)
    BY <1>11 DEF createApiKeyForOrg
  <1>12. CASE revokeKeyCheck(t)
    BY <1>12, <1>f, <1>u, <1>a, <1>v DEF revokeKeyCheck, At
  <1>13. CASE revokeKeyUpdate(t)
    BY <1>13 DEF revokeKeyUpdate
  <1>14. CASE deleteOrgCheck(t)
    BY <1>14, <1>f, <1>u, <1>a, <1>v DEF deleteOrgCheck, At
  <1>15. CASE softDeleteOrganization(t)
    BY <1>15 DEF softDeleteOrganization
  <1>16. QED
    BY <1>1, <1>2, <1>3, <1>4, <1>5, <1>6, <1>7, <1>8, <1>9, <1>10, <1>11, <1>12, <1>13, <1>14,
       <1>15 DEF Handle

\* A request at work has the type of one, and one past its check or in good
\* standing has a session.
LEMMA AtWork ==
    ASSUME IndInv, NEW t \in Tab, req[t] # None, req[t].step # "answered"
    PROVE  /\ req[t] \in Asked /\ AskedOK(req[t])
           /\ req[t].session # None => req[t].session \in SessionData /\ SessionOK(req[t].session)
           /\ Checked(req[t]) \/ Authorized(t, FALSE, TRUE) =>
                /\ req[t].session \in SessionData
                /\ req[t].token = req[t].session.token /\ ~req[t].late
                /\ req[t].session.token \in 1..Len(owner)
                /\ req[t].session.org \in Org
                /\ owner[req[t].session.token] = req[t].session.org
  <1>1. req[t] \in Asked /\ AskedOK(req[t]) /\ RequestOK(req[t])
    BY DEF IndInv, TypeOK, BrowserOK, RequestOK, Answered
  <1>2. req[t].session # None => req[t].session \in SessionData /\ SessionOK(req[t].session)
    BY <1>1 DEF Asked, RequestOK
  <1>3. Checked(req[t]) \/ Authorized(t, FALSE, TRUE) =>
          req[t].session # None /\ req[t].token = req[t].session.token /\ ~req[t].late
    BY <1>1, <1>2 DEF AskedOK, Authorized, requireSession, Asked
  <1>4. \A s \in SessionData :
          SessionOK(s) => s.token \in 1..Len(owner) /\ s.org \in Org /\ owner[s.token] = s.org
    BY AccountsAssumption DEF SessionData, SessionOK, IndInv, TypeOK
  <1>5. QED
    BY <1>1, <1>2, <1>3, <1>4

\* A request in good standing that changes rows of its own organisation is
\* nothing to note.
LEMMA NothingNoted ==
    ASSUME IndInv, NEW t \in Tab, req[t] # None, req[t].step # "answered",
           Checked(req[t]) \/ Authorized(t, FALSE, TRUE), Note(t, req[t].session.org)
    PROVE  trespass' = {}
  <1>1. ~req[t].late /\ req[t].token \in 1..Len(owner) /\ owner[req[t].token] = req[t].session.org
    BY AtWork
  <1>2. req[t].token # 0 /\ trespass = {}
    BY <1>1 DEF IndInv, TypeOK
  <1>3. QED
    BY <1>1, <1>2 DEF Note

\* Using a page sends one request and shows a page.
LEMMA UseCases ==
    ASSUME IndInv, NEW t \in Tab, Use(t)
    PROVE  \E page \in Page, op \in Op, arg \in Email \cup Key \cup Code \cup {None} :
             /\ SendFrom(t, page, op, arg)
             /\ op \in {"signup", "login"} => arg \in Email
             /\ op = "verify" => arg \in Code
             /\ op = "revoke_key" => arg \in Key
  <1>1. tab[t].page \in Page /\ "login" \in Page
    BY DEF IndInv, TypeOK, Page
  <1>2. CASE submitSignup(t)
    BY <1>1, <1>2 DEF submitSignup, Op
  <1>3. CASE submitLogin(t)
    BY <1>1, <1>3 DEF submitLogin, Op
  <1>4. CASE beginEnrollment(t)
    BY <1>1, <1>4 DEF beginEnrollment, Send, Op
  <1>5. CASE submitCode(t)
    BY <1>1, <1>5 DEF submitCode, Send, Op
  <1>6. CASE loadShell(t)
    BY <1>1, <1>6 DEF loadShell, Send, Op
  <1>7. CASE logout(t)
    BY <1>1, <1>7 DEF logout, Send, Op
  <1>8. CASE createKey(t)
    BY <1>1, <1>8 DEF createKey, Send, Op
  <1>9. CASE revokeKey(t)
    BY <1>1, <1>9 DEF revokeKey, Send, Op
  <1>10. CASE deleteOrg(t)
    BY <1>1, <1>10 DEF deleteOrg, Send, Op
  <1>11. QED
    BY <1>2, <1>3, <1>4, <1>5, <1>6, <1>7, <1>8, <1>9, <1>10 DEF Use

\* A new session is one of the next token.
LEMMA IssuedSession ==
    ASSUME IndInv, NEW o \in Org, CanIssue
    PROVE  /\ NewSession(o) \in SessionData
           /\ Append(owner, o) \in Seq(Org)
           /\ Len(Append(owner, o)) = Len(owner) + 1 /\ Len(owner) + 1 <= MaxSessions
           /\ \A i \in 1..Len(owner) : Append(owner, o)[i] = owner[i]
           /\ Append(owner, o)[Len(owner) + 1] = o
  BY AccountsAssumption DEF IndInv, TypeOK, CanIssue, NewSession, SessionData

\* Whatever happens confirms what was there: Monotone.
LEMMA Frame ==
    ASSUME IndInv, Next
    PROVE  Monotone
  <1> USE DEF IndInv
  <1>q. ASSUME UNCHANGED <<owner, org, proven, user>>
        PROVE  Monotone
    BY <1>q DEF Monotone, TypeOK
  <1>i. ASSUME NEW t \in Tab, Handle(t)
        PROVE  Monotone
    <2>1. CASE GoesOn(t) \/ Answers(t)
      BY <1>q, <2>1 DEF GoesOn, Answers, Quiet, database, history
    <2>2. CASE SignedUp(t)
      <3>1. PICK o \in Org : org[o] = "none" /\ CreateAccount(t, o)
        BY <2>2 DEF SignedUp
      <3>2. Len(owner) <= Len(owner)' /\ \A i \in 1..Len(owner) : owner'[i] = owner[i]
        BY <2>2, <3>1, IssuedSession DEF SignedUp, CreateAccount, TypeOK
      <3>3. QED
        BY <2>2, <3>1, <3>2 DEF SignedUp, CreateAccount, Monotone, TypeOK, history
    <2>3. CASE SignedIn(t)
      <3>1. PICK o \in Org : owner' = Append(owner, o)
        BY <2>3 DEF SignedIn
      <3>2. Len(owner) <= Len(owner)' /\ \A i \in 1..Len(owner) : owner'[i] = owner[i]
        BY <2>3, <3>1, IssuedSession DEF SignedIn, TypeOK
      <3>3. QED
        BY <2>3, <3>2 DEF SignedIn, Monotone, TypeOK, history, database
    <2>4. CASE CodeAccepted(t)
      BY <2>4 DEF CodeAccepted, Verified, Monotone, TypeOK, database
    <2>5. CASE RecoveryAccepted(t)
      <3>1. \A p \in Org : user'[p] # None => user[p] # None /\ user'[p].mfaSecret = user[p].mfaSecret
        BY <2>5 DEF RecoveryAccepted, TypeOK, User
      <3>2. QED
        BY <2>5, <3>1 DEF RecoveryAccepted, Verified, Monotone, TypeOK
    <2>6. CASE LoggedOut(t) \/ createApiKeyForOrg(t) \/ revokeKeyUpdate(t)
      BY <1>q, <2>6 DEF LoggedOut, createApiKeyForOrg, revokeKeyUpdate, database
    <2>7. CASE enrollMfa(t)
      <3>0. /\ req[t] # None /\ req[t].step = "update" /\ req[t].op = "enroll"
            /\ AskedOK(req[t])
        BY <2>7, AtWork DEF enrollMfa, At
      <3>1. /\ req[t].session.org \in Org /\ user[req[t].session.org] # None
            /\ secrets + 1 # 0
        <4>1. req[t].session.org \in Org
          BY <3>0, AtWork DEF Checked
        <4>2. user[req[t].session.org] # None
          BY <3>0 DEF AskedOK
        <4>3. QED
          BY <4>1, <4>2 DEF TypeOK
      <3>2. \A p \in Org : user'[p] # None =>
              user[p] # None /\ (user[p].mfaSecret # 0 => user'[p].mfaSecret # 0)
        BY <2>7, <3>1 DEF enrollMfa, TypeOK, User
      <3>3. QED
        BY <2>7, <3>2 DEF enrollMfa, Monotone, TypeOK
    <2>8. CASE softDeleteOrganization(t)
      BY <2>8 DEF softDeleteOrganization, Monotone, TypeOK
    <2>9. QED
      BY <1>i, <2>1, <2>2, <2>3, <2>4, <2>5, <2>6, <2>7, <2>8, HandleCases
  <1>1. ASSUME NEW t \in Tab, Use(t) \/ receive(t)
        PROVE  Monotone
    <2>1. UNCHANGED <<owner, org, proven, user>>
      BY <1>1, UseCases DEF SendFrom, receive, database, history
    <2>2. QED
      BY <1>q, <2>1
  <1>2. CASE createKeyCommand \/ revokeKeyCommand \/ sessionExpires
    BY <1>q, <1>2 DEF createKeyCommand, revokeKeyCommand, sessionExpires, database, history
  <1>3. ASSUME NEW o \in Org, hardDeleteOrganizationData(o)
        PROVE  Monotone
    BY <1>3 DEF hardDeleteOrganizationData, Monotone, TypeOK, history
  <1>4. QED
    BY <1>i, <1>1, <1>2, <1>3 DEF Next

\* A session that was in order stays in order.
LEMMA SessionKept ==
    ASSUME IndInv, Monotone, NEW s \in SessionData, SessionOK(s)
    PROVE  SessionOK(s)'
  BY DEF Monotone, SessionOK, SessionData, IndInv, TypeOK

ReqType == [Tab -> Asked \cup Answered \cup {None}]

\* An answer written for a request at work, whatever it says, is in order if
\* its session is.
LEMMA ReplyOK ==
    ASSUME IndInv, NEW t \in Tab, req[t] \in Asked,
           NEW ok \in BOOLEAN, NEW s \in SessionData \cup {None}, NEW c \in BOOLEAN,
           Reply(t, ok, s, c), s # None => SessionOK(s)',
           ok /\ req[t].op \in {"signup", "login", "me"} => s # None
    PROVE  /\ req' \in ReqType
           /\ \A u \in Tab \ {t} : req'[u] = req[u]
           /\ RequestOK(req[t])'
  <1> DEFINE a == [op |-> req[t].op, step |-> "answered", ok |-> ok, session |-> s,
                   setsCookie |-> c]
  <1>1. a \in Answered
    BY DEF Answered, Asked
  <1>2. req' = [req EXCEPT ![t] = a]
    BY DEF Reply
  <1>3. req' \in ReqType /\ req'[t] = a /\ \A u \in Tab \ {t} : req'[u] = req[u]
    <2> HIDE DEF a
    <2>1. QED
      BY <1>1, <1>2 DEF IndInv, TypeOK, ReqType
  <1>4. /\ req'[t].session = s /\ req'[t].step = "answered"
        /\ req'[t].ok = ok /\ req'[t].op = req[t].op
    BY <1>3
  <1>5. RequestOK(req[t])'
    BY <1>4 DEF RequestOK
  <1>6. QED
    BY <1>3, <1>5

\* The handlers write the request of their tab, and write it in order.
LEMMA HandlerRequest ==
    ASSUME IndInv, Monotone, NEW t \in Tab, Handle(t)
    PROVE  /\ req' \in ReqType
           /\ \A u \in Tab \ {t} : req'[u] = req[u]
           /\ RequestOK(req[t])'
  <1> DEFINE Goal == /\ req' \in ReqType
                     /\ \A u \in Tab \ {t} : req'[u] = req[u]
                     /\ RequestOK(req[t])'
  <1>n. ASSUME req[t] # None, req[t].step # "answered", NEW ok \in BOOLEAN, NEW c \in BOOLEAN,
               ok => req[t].op \notin {"signup", "login", "me"}, Reply(t, ok, None, c)
        PROVE  Goal
    BY <1>n, AtWork, ReplyOK
  <1>1. CASE GoesOn(t)
    <2>1. PICK step \in {"insert", "update", "consume"}, read \in {None} \cup SUBSET Secret :
            /\ req' = [req EXCEPT ![t] = [@ EXCEPT !.step = step, !.read = read]]
            /\ \/ req[t].op = "signup" /\ step = "insert"
               \/ /\ Authorized(t, FALSE, TRUE)
                  /\ req[t].op = "enroll" => user[req[t].session.org] # None
      BY <1>1 DEF GoesOn
    <2> DEFINE r == req[t]
               a == [r EXCEPT !.step = step, !.read = read]
    <2>2. /\ req[t] # None /\ req[t].step = "sent" /\ req[t] \in Asked /\ AskedOK(req[t])
          /\ RequestOK(req[t])
          /\ UNCHANGED <<org, user, owner, proven>>
      BY <1>1, AtWork DEF GoesOn, Quiet, database, history, IndInv, BrowserOK
    <2>3. /\ a \in Asked /\ a.step = step /\ a.session = r.session /\ a.token = r.token
          /\ a.late = r.late /\ a.op = r.op /\ a.arg = r.arg
      BY <2>2 DEF Asked
    <2>4. req' \in ReqType /\ req'[t] = a /\ \A u \in Tab \ {t} : req'[u] = req[u]
      <3>1. req' = [req EXCEPT ![t] = a]
        BY <2>1
      <3> HIDE DEF a
      <3>2. QED
        BY <2>3, <3>1 DEF IndInv, TypeOK, ReqType
    <2>5. Checked(a) => r.session # None /\ ~r.late /\ r.token = r.session.token
      <3>1. CASE Authorized(t, FALSE, TRUE)
        BY <2>2, <3>1, AtWork DEF Authorized, requireSession
      <3>2. CASE r.op = "signup" /\ step = "insert"
        BY <2>3, <3>2 DEF Checked
      <3>3. QED
        BY <2>1, <3>1, <3>2
    <2>6. a.op = "enroll" /\ a.step = "update" => user[a.session.org] # None
      BY <2>1, <2>3
    <2>7. AskedOK(a)
      <3> HIDE DEF a, r
      <3>1. QED
        BY <2>2, <2>3, <2>5, <2>6 DEF AskedOK, r
    <2>8. AskedOK(req[t])'
      <3> HIDE DEF a
      <3>1. QED
        BY <2>2, <2>4, <2>7 DEF AskedOK, Checked
    <2>9. req'[t].session # None => SessionOK(req[t].session)'
      <3> HIDE DEF a
      <3>1. a.session # None => SessionOK(a.session)
        BY <2>2, <2>3, AtWork
      <3>2. QED
        BY <2>2, <2>4, <3>1 DEF SessionOK
    <2>10. QED
      BY <2>3, <2>4, <2>8, <2>9 DEF RequestOK
  <1>2. CASE Answers(t)
    <2>1. PICK ok \in BOOLEAN, c \in BOOLEAN :
            \/ Reply(t, FALSE, None, c)
            \/ req[t].op = "me" /\ req[t].session # None /\ Reply(t, ok, req[t].session, c)
      BY <1>2 DEF Answers
    <2>2. req[t] # None /\ req[t].step # "answered"
      BY <1>2 DEF Answers
    <2>3. CASE Reply(t, FALSE, None, c)
      BY <1>n, <2>2, <2>3
    <2>4. CASE req[t].session # None /\ Reply(t, ok, req[t].session, c)
      <3> DEFINE s == req[t].session
      <3>1. req[t] \in Asked /\ s \in SessionData /\ SessionOK(s)
        BY <2>2, <2>4, AtWork
      <3>2. PICK z : z = s
        OBVIOUS
      <3>3. SessionOK(z)'
        BY <3>1, <3>2, SessionKept
      <3>4. Reply(t, ok, z, c) /\ z \in SessionData
        BY <2>4, <3>1, <3>2
      <3>5. QED
        BY <2>4, <3>1, <3>2, <3>3, <3>4, ReplyOK
    <2>5. QED
      BY <2>1, <2>3, <2>4
  <1>i. ASSUME NEW o \in Org, CanIssue, req[t] # None, req[t].step # "answered",
               owner' = Append(owner, o), org'[o] # "none", writeSession(t, NewSession(o))
        PROVE  Goal
    <2>1. PICK z : z = NewSession(o)
      OBVIOUS
    <2>2. z \in SessionData /\ z.token = Len(owner) + 1 /\ z.org = o /\ ~z.mfaVerified
      BY <1>i, <2>1, IssuedSession DEF NewSession
    <2>3. SessionOK(z)'
      BY <1>i, <2>2, IssuedSession DEF SessionOK
    <2>4. Reply(t, TRUE, z, TRUE) /\ req[t] \in Asked
      BY <1>i, <2>1, AtWork DEF writeSession
    <2>5. QED
      BY <1>i, <2>2, <2>3, <2>4, ReplyOK, AccountsAssumption
  <1>3. CASE SignedUp(t)
    <2>1. PICK o \in Org : org[o] = "none" /\ CreateAccount(t, o)
      BY <1>3 DEF SignedUp
    <2>2. QED
      BY <1>3, <1>i, <2>1 DEF SignedUp, CreateAccount, IndInv, TypeOK
  <1>4. CASE SignedIn(t)
    BY <1>4, <1>i DEF SignedIn, database
  <1>v. ASSUME req[t] # None, req[t].step # "answered", req[t].op = "verify",
               Checked(req[t]) \/ Authorized(t, FALSE, TRUE),
               user'[req[t].session.org].mfaSecret # 0,
               Verified(t)
        PROVE  Goal
    <2>1. PICK z : z = [req[t].session EXCEPT !.mfaVerified = TRUE]
      OBVIOUS
    <2>2. req[t] \in Asked /\ req[t].session \in SessionData /\ SessionOK(req[t].session)
      BY <1>v, AtWork DEF Checked, Authorized, requireSession, AskedOK
    <2>3. z \in SessionData /\ z.org = req[t].session.org /\ z.token = req[t].session.token
      BY <2>1, <2>2 DEF SessionData
    <2>4. PICK y : y = req[t].session
      OBVIOUS
    <2>5. SessionOK(y)' /\ y.token \in proven'
      BY <1>v, <2>2, <2>4, SessionKept DEF Verified
    <2>6. SessionOK(z)'
      BY <1>v, <2>3, <2>4, <2>5 DEF SessionOK
    <2>7. Reply(t, TRUE, z, TRUE)
      BY <1>v, <2>1 DEF Verified, writeSession
    <2>8. QED
      BY <1>v, <2>2, <2>3, <2>6, <2>7, ReplyOK
  <1>5. CASE CodeAccepted(t)
    BY <1>5, <1>v DEF CodeAccepted, At, database
  <1>6. CASE RecoveryAccepted(t)
    <2>1. req[t] # None /\ req[t].step = "consume" /\ req[t].op = "verify" /\ Checked(req[t])
      BY <1>6 DEF RecoveryAccepted, At, Checked
    <2>2. req[t].session.org \in Org
      BY <2>1, AtWork
    <2>3. user[req[t].session.org] # None /\ user[req[t].session.org].mfaSecret # 0
      <3>1. user[req[t].session.org] \in User
        BY <1>6, <2>2 DEF RecoveryAccepted, IndInv, TypeOK
      <3>2. req[t].arg[2] \in Secret /\ req[t].arg[2] = user[req[t].session.org].mfaSecret
        BY <1>6, <2>2, <3>1 DEF RecoveryAccepted, IndInv, RecoveryCodes, User
      <3>3. QED
        BY <1>6, <3>2 DEF RecoveryAccepted, Secret
    <2>4. user'[req[t].session.org].mfaSecret = user[req[t].session.org].mfaSecret
      BY <1>6, <2>2, <2>3 DEF RecoveryAccepted, IndInv, TypeOK, User
    <2>5. QED
      BY <1>6, <1>v, <2>1, <2>3, <2>4 DEF RecoveryAccepted
  <1>7. CASE LoggedOut(t)
    BY <1>7, <1>n DEF LoggedOut, At, clearSession
  <1>8. CASE enrollMfa(t)
    BY <1>8, <1>n DEF enrollMfa, At, Answer
  <1>9. CASE createApiKeyForOrg(t)
    BY <1>9, <1>n DEF createApiKeyForOrg, At, Answer
  <1>10. CASE revokeKeyUpdate(t)
    BY <1>10, <1>n DEF revokeKeyUpdate, At, Answer
  <1>11. CASE softDeleteOrganization(t)
    BY <1>11, <1>n DEF softDeleteOrganization, At, clearSession
  <1>12. QED
    BY <1>1, <1>2, <1>3, <1>4, <1>5, <1>6, <1>7, <1>8, <1>9, <1>10, <1>11, HandleCases

UserType == [Org -> User \cup {None}]

\* Nobody loses the user row under a request: a purge finds no request at work.
LEMMA UsersStay ==
    ASSUME IndInv, Next
    PROVE  /\ user' \in UserType
           /\ \/ \A t \in Tab : req[t] = None
              \/ \A o \in Org : user[o] # None => user'[o] # None
  <1> DEFINE Goal == /\ user' \in UserType
                     /\ \A o \in Org : user[o] # None => user'[o] # None
  <1>q. user' = user => Goal
    BY DEF IndInv, TypeOK, UserType
  <1>1. ASSUME NEW t \in Tab, Handle(t)
        PROVE  Goal
    <2>1. CASE user' = user
      BY <1>q, <2>1
    <2>2. CASE SignedUp(t)
      <3>1. PICK o \in Org : CreateAccount(t, o)
        BY <2>2 DEF SignedUp
      <3>2. [email |-> req[t].arg, mfaSecret |-> 0, mfaRecoveryCodes |-> {}] \in User
        <4>1. req[t].arg \in Email
          BY <2>2, AtWork DEF SignedUp, AskedOK
        <4>2. 0 \in 0..MaxSecrets
          BY AccountsAssumption
        <4>3. QED
          BY <4>1, <4>2 DEF User
      <3> DEFINE row == [email |-> req[t].arg, mfaSecret |-> 0, mfaRecoveryCodes |-> {}]
      <3>3. user' = [user EXCEPT ![o] = row]
        BY <3>1 DEF CreateAccount
      <3>4. QED
        <4>1. row # None
          BY <3>2, AccountsAssumption
        <4>2. row \in User
          BY <3>2
        <4> HIDE DEF row
        <4>3. QED
          BY <3>3, <4>1, <4>2 DEF IndInv, TypeOK, UserType
    <2>3. ASSUME NEW o \in Org, user[o] # None, NEW row \in User, user' = [user EXCEPT ![o] = row]
          PROVE  Goal
      BY <2>3, AccountsAssumption DEF IndInv, TypeOK, UserType
    <2>4. CASE RecoveryAccepted(t)
      <3> DEFINE o == req[t].session.org
                 row == [user[o] EXCEPT !.mfaRecoveryCodes = @ \ {req[t].arg[2]}]
      <3>1. o \in Org /\ user[o] # None /\ user[o] \in User
        BY <2>4, AtWork DEF RecoveryAccepted, At, Checked, IndInv, TypeOK
      <3>2. row \in User /\ user' = [user EXCEPT ![o] = row]
        BY <2>4, <3>1 DEF RecoveryAccepted, User
      <3>3. QED
        BY <2>3, <3>1, <3>2
    <2>5. CASE enrollMfa(t)
      <3> DEFINE o == req[t].session.org
                 row == [user[o] EXCEPT !.mfaSecret = secrets', !.mfaRecoveryCodes = {secrets'}]
      <3>1. o \in Org /\ AskedOK(req[t])
        BY <2>5, AtWork DEF enrollMfa, At, Checked
      <3>2. user[o] # None /\ user[o] \in User
        BY <2>5, <3>1 DEF enrollMfa, At, AskedOK, IndInv, TypeOK
      <3>3. secrets' \in Secret
        <4>1. secrets' = secrets + 1 /\ secrets < MaxSecrets
          BY <2>5 DEF enrollMfa
        <4>2. QED
          BY <4>1, AccountsAssumption DEF IndInv, TypeOK, Secret
      <3>4. row \in User /\ user' = [user EXCEPT ![o] = row]
        <4>1. secrets' \in 0..MaxSecrets
          BY <3>3, AccountsAssumption DEF Secret
        <4>2. row \in User
          BY <3>2, <3>3, <4>1 DEF User
        <4>3. user' = [user EXCEPT ![o] = row]
          BY <2>5 DEF enrollMfa
        <4>4. QED
          BY <4>2, <4>3
      <3>5. QED
        BY <2>3, <3>1, <3>2, <3>4
    <2>6. QED
      BY <1>1, <2>1, <2>2, <2>4, <2>5, HandleCases
         DEF GoesOn, Answers, Quiet, SignedIn, CodeAccepted, LoggedOut, createApiKeyForOrg,
             revokeKeyUpdate, softDeleteOrganization, database
  <1>2. ASSUME NEW t \in Tab, Use(t) \/ receive(t)
        PROVE  Goal
    BY <1>2, <1>q, UseCases DEF SendFrom, receive, database
  <1>3. CASE createKeyCommand \/ revokeKeyCommand \/ sessionExpires
    BY <1>3, <1>q DEF createKeyCommand, revokeKeyCommand, sessionExpires, database
  <1>4. ASSUME NEW o \in Org, hardDeleteOrganizationData(o)
        PROVE  user' \in UserType /\ \A t \in Tab : req[t] = None
    BY <1>4 DEF hardDeleteOrganizationData, IndInv, TypeOK, UserType
  <1>5. QED
    BY <1>1, <1>2, <1>3, <1>4 DEF Next

\* A request nobody works on stays in order, too.
LEMMA RequestKept ==
    ASSUME IndInv, Next, NEW u \in Tab, req'[u] = req[u]
    PROVE  RequestOK(req[u])'
  <1>0. Monotone
    BY Frame
  <1>1. SUFFICES ASSUME req[u] # None
                 PROVE  RequestOK(req[u])'
    BY DEF RequestOK
  <1>2. \A o \in Org : user[o] # None => user'[o] # None
    BY <1>1, UsersStay
  <1>3. RequestOK(req[u]) /\ req[u] \in Asked \cup Answered
    BY <1>1 DEF IndInv, BrowserOK, TypeOK
  <1>4. PICK z : z = req[u].session
    OBVIOUS
  <1>5. z # None => z \in SessionData /\ SessionOK(z)
    BY <1>1, <1>3, <1>4 DEF RequestOK, Asked, Answered
  <1>6. z # None => SessionOK(z)'
    BY <1>0, <1>5, SessionKept
  <1>7. PICK r : r = req[u]
    OBVIOUS
  <1>8. ASSUME r.step # "answered"
        PROVE  AskedOK(r)'
    <2>1. r \in Asked /\ AskedOK(r)
      BY <1>1, <1>7, <1>8, AtWork
    <2>2. (r.token <= Len(owner))'
      BY <1>0, <2>1 DEF AskedOK, Asked, Token, Monotone, IndInv, TypeOK
    <2>3. r.late => r.session # None /\ org'[r.session.org] \in {"deleted", "purged"}
      BY <1>0, <2>1 DEF AskedOK, Monotone, Asked, SessionData
    <2>4. r.op = "enroll" /\ r.step = "update" => user'[r.session.org] # None
      <3>1. SUFFICES ASSUME r.op = "enroll", r.step = "update"
                     PROVE  user'[r.session.org] # None
        OBVIOUS
      <3>2. r.session.org \in Org /\ user[r.session.org] # None
        BY <1>1, <1>7, <1>8, <2>1, <3>1, AtWork DEF AskedOK, Checked
      <3>3. QED
        BY <1>2, <3>2
    <2>5. QED
      BY <2>1, <2>2, <2>3, <2>4 DEF AskedOK, Checked
  <1>9. QED
    BY <1>3, <1>4, <1>6, <1>7, <1>8 DEF RequestOK

\* The browser's part of the invariant: the cookie, the pages and the requests.
LEMMA BrowserStep ==
    ASSUME IndInv, Next
    PROVE  /\ BrowserOK'
           /\ cookie' \in SessionData \cup {None}
           /\ tab' \in [Tab -> [page : Page, token : Token]]
           /\ req' \in ReqType
  <1> DEFINE TabType == [Tab -> [page : Page, token : Token]]
             TabsKept == \A t \in Tab : tab'[t].token <= Len(owner)'
             CookieKept == /\ cookie' \in SessionData \cup {None}
                           /\ cookie' # None => SessionOK(cookie)'
             RequestsKept == req' \in ReqType /\ \A u \in Tab : RequestOK(req[u])'
  <1>s. SUFFICES CookieKept /\ tab' \in TabType /\ TabsKept /\ RequestsKept
    BY DEF BrowserOK
  <1>0. Monotone
    BY Frame
  <1>c. cookie' = cookie => CookieKept
    <2>1. PICK z : z = cookie
      OBVIOUS
    <2>2. z \in SessionData \cup {None} /\ (z # None => SessionOK(z))
      BY <2>1 DEF IndInv, TypeOK, BrowserOK
    <2>3. z # None => SessionOK(z)'
      BY <1>0, <2>2, SessionKept
    <2>4. QED
      BY <2>1, <2>2, <2>3
  <1>t. tab' = tab => tab' \in TabType /\ TabsKept
    BY <1>0 DEF Monotone, IndInv, TypeOK, BrowserOK, Token
  <1>r. req' = req => RequestsKept
    <2>1. req' = req => req' \in ReqType
      BY DEF IndInv, TypeOK, ReqType
    <2>2. QED
      BY <2>1, RequestKept
  <1>1. ASSUME NEW t \in Tab, Use(t)
        PROVE  CookieKept /\ tab' \in TabType /\ TabsKept /\ RequestsKept
    <2>1. PICK page \in Page, op \in Op, arg \in Email \cup Key \cup Code \cup {None} :
            /\ SendFrom(t, page, op, arg)
            /\ op \in {"signup", "login"} => arg \in Email
            /\ op = "verify" => arg \in Code
            /\ op = "revoke_key" => arg \in Key
      BY <1>1, UseCases
    <2>2. /\ tab' = [tab EXCEPT ![t].page = page] /\ cookie' = cookie /\ UNCHANGED <<owner, org>>
          /\ req' = [req EXCEPT ![t] = Request(t, op, arg)]
      BY <2>1 DEF SendFrom, database
    <2>3. tab' \in TabType /\ TabsKept
      BY <1>0, <2>2 DEF IndInv, TypeOK, BrowserOK
    <2>4. PICK a : a = Request(t, op, arg)
      OBVIOUS
    <2>5. /\ a.op = op /\ a.arg = arg /\ a.step = "sent" /\ a.session = cookie
          /\ a.token = tab[t].token
          /\ a.late = (cookie # None /\ org[cookie.org] # "active")
          /\ a \in Asked
      BY <2>4 DEF Request, Asked, IndInv, TypeOK
    <2>6. req' \in ReqType /\ req'[t] = a /\ \A u \in Tab \ {t} : req'[u] = req[u]
      BY <2>2, <2>4, <2>5 DEF IndInv, TypeOK, ReqType
    <2>7. AskedOK(a)'
      <3>1. a.late => a.session # None /\ org'[a.session.org] \in {"deleted", "purged"}
        <4>1. SUFFICES ASSUME a.late
                       PROVE  cookie # None /\ org[cookie.org] \in {"deleted", "purged"}
          BY <2>2, <2>5
        <4>2. cookie # None /\ org[cookie.org] # "active" /\ SessionOK(cookie) /\ cookie.org \in Org
          BY <2>5, <4>1 DEF IndInv, BrowserOK, TypeOK, SessionData
        <4>3. QED
          BY <4>2 DEF SessionOK, IndInv, TypeOK
      <3>2. a.token <= Len(owner)'
        BY <2>2, <2>5 DEF IndInv, BrowserOK
      <3>3. QED
        BY <2>1, <2>5, <3>1, <3>2 DEF AskedOK, Checked
    <2>8. RequestOK(req[t])'
      <3>1. cookie' # None => SessionOK(cookie)'
        BY <1>c, <2>2
      <3>2. QED
        BY <2>2, <2>5, <2>6, <2>7, <3>1 DEF RequestOK
    <2>9. RequestsKept
      BY <2>6, <2>8, RequestKept
    <2>10. QED
      BY <1>c, <2>2, <2>3, <2>9
  <1>2. ASSUME NEW t \in Tab, Handle(t)
        PROVE  CookieKept /\ tab' \in TabType /\ TabsKept /\ RequestsKept
    <2>1. tab' = tab /\ cookie' = cookie
      BY <1>2, HandleCases
    <2>2. /\ req' \in ReqType /\ RequestOK(req[t])'
          /\ \A u \in Tab \ {t} : req'[u] = req[u]
      BY <1>0, <1>2, HandlerRequest
    <2>3. RequestsKept
      BY <2>2, RequestKept
    <2>4. QED
      BY <1>c, <1>t, <2>1, <2>3
  <1>3. ASSUME NEW t \in Tab, receive(t)
        PROVE  CookieKept /\ tab' \in TabType /\ TabsKept /\ RequestsKept
    <2>1. /\ req[t] \in Answered /\ req[t] # None /\ RequestOK(req[t]) /\ UNCHANGED owner
          /\ req' = [req EXCEPT ![t] = None]
      BY <1>3 DEF receive, IndInv, TypeOK, BrowserOK, Asked
    <2>2. PICK z : z = req[t].session
      OBVIOUS
    <2>3. /\ z \in SessionData \cup {None} /\ (z # None => SessionOK(z))
          /\ z # None => SessionOK(z)'
      <3>1. z \in SessionData \cup {None} /\ (z # None => SessionOK(z))
        BY <2>1, <2>2 DEF Answered, RequestOK
      <3>2. QED
        BY <1>0, <3>1, SessionKept
    <2>4. CookieKept
      <3>1. CASE req[t].setsCookie
        BY <1>3, <2>2, <2>3, <3>1 DEF receive
      <3>2. CASE ~req[t].setsCookie
        BY <1>3, <1>c, <3>2 DEF receive
      <3>3. QED
        BY <3>1, <3>2
    <2>5. tab[t].page \in Page /\ tab[t].token \in Token /\ tab[t].token <= Len(owner)
      BY DEF IndInv, TypeOK, BrowserOK
    <2>6. NextPage(t) \in Page
      BY <2>5 DEF NextPage, Page
    <2>7. NextToken(t) \in Token /\ NextToken(t) <= Len(owner)
      <3>1. CASE NextToken(t) = tab[t].token
        BY <2>5, <3>1
      <3>2. CASE /\ NextToken(t) = z.token
                 /\ req[t].ok /\ req[t].op \in {"signup", "login", "me"}
        <4>1. z # None
          BY <1>3, <2>1, <2>2, <3>2 DEF RequestOK, receive
        <4>2. z.token \in Token /\ z.token <= Len(owner)
          BY <2>3, <4>1 DEF SessionOK, SessionData, Token
        <4>3. QED
          BY <3>2, <4>2
      <3>3. QED
        BY <2>2, <3>1, <3>2 DEF NextToken
    <2>8. tab' \in TabType /\ TabsKept
      <3>1. tab' = [tab EXCEPT ![t] = [page |-> NextPage(t), token |-> NextToken(t)]]
        BY <1>3 DEF receive
      <3>2. QED
        BY <2>1, <2>6, <2>7, <3>1 DEF IndInv, TypeOK, BrowserOK
    <2>9. RequestsKept
      <3>1. req' \in ReqType /\ req'[t] = None /\ \A u \in Tab \ {t} : req'[u] = req[u]
        BY <2>1 DEF IndInv, TypeOK, ReqType
      <3>2. RequestOK(req[t])'
        BY <3>1 DEF RequestOK
      <3>3. QED
        BY <3>1, <3>2, RequestKept
    <2>10. QED
      BY <2>4, <2>8, <2>9
  <1>4. CASE createKeyCommand \/ revokeKeyCommand \/ \E o \in Org : hardDeleteOrganizationData(o)
    <2>1. cookie' = cookie /\ tab' = tab /\ req' = req
      BY <1>4 DEF createKeyCommand, revokeKeyCommand, hardDeleteOrganizationData
    <2> HIDE DEF CookieKept, TabType, TabsKept, RequestsKept
    <2>2. QED
      BY <1>c, <1>t, <1>r, <2>1
  <1>5. CASE sessionExpires
    <2>1. cookie' = None /\ tab' = tab /\ req' = req
      BY <1>5 DEF sessionExpires
    <2>2. CookieKept
      BY <2>1
    <2> HIDE DEF CookieKept, TabType, TabsKept, RequestsKept
    <2>3. QED
      BY <1>t, <1>r, <2>1, <2>2
  <1>6. QED
    <2> HIDE DEF CookieKept, TabType, TabsKept, RequestsKept
    <2>1. QED
      BY <1>1, <1>2, <1>3, <1>4, <1>5 DEF Next

\* The keys' part: two revocations of one key are told apart by its status.
LEMMA KeysStep ==
    ASSUME IndInv, Next
    PROVE  /\ key' \in [Key -> KeyRow \cup {None}]
           /\ revocations' \in [Key -> Nat]
           /\ \A k \in Key : KeyOK(k)'
  <1> DEFINE Goal == /\ key' \in [Key -> KeyRow \cup {None}]
                     /\ revocations' \in [Key -> Nat]
                     /\ \A k \in Key : KeyOK(k)'
  <1>s. SUFFICES Goal
    OBVIOUS
  <1>0. /\ key \in [Key -> KeyRow \cup {None}] /\ revocations \in [Key -> Nat]
        /\ \A k \in Key : KeyOK(k)
        /\ \A o \in Org : org[o] = "purged" => org'[o] = "purged"
    BY Frame DEF IndInv, TypeOK, Monotone
  <1>q. ASSUME UNCHANGED <<key, revocations>>
        PROVE  Goal
    BY <1>0, <1>q DEF KeyOK, KeyRow
  <1>n. ASSUME NEW k \in Key, NEW o \in Org, InsertKey(k, o), UNCHANGED revocations
        PROVE  Goal
    <2>1. PICK row : row = [org |-> o, status |-> "active"]
      OBVIOUS
    <2>2. row \in KeyRow /\ row # None /\ row.status = "active"
      BY <2>1, AccountsAssumption DEF KeyRow
    <2>3. key' = [key EXCEPT ![k] = row] /\ key[k] = None
      BY <1>n, <2>1 DEF InsertKey
    <2>4. KeyOK(k)'
      BY <1>0, <1>n, <2>2, <2>3 DEF KeyOK
    <2>5. \A j \in Key \ {k} : KeyOK(j)'
      BY <1>0, <1>n, <2>3 DEF KeyOK, KeyRow
    <2>6. QED
      BY <1>0, <1>n, <2>2, <2>3, <2>4, <2>5
  <1>v. ASSUME NEW k \in Key, revokeApiKeyById(k)
        PROVE  Goal
    <2>1. CASE ~(key[k] # None /\ key[k].status = "active")
      BY <1>v, <1>q, <2>1 DEF revokeApiKeyById
    <2>2. CASE key[k] # None /\ key[k].status = "active"
      <3>1. PICK row : row = [key[k] EXCEPT !.status = "revoked"]
        OBVIOUS
      <3>2. row \in KeyRow /\ row # None /\ row.status = "revoked"
        BY <1>0, <2>2, <3>1, AccountsAssumption DEF KeyRow
      <3>3. key' = [key EXCEPT ![k] = row] /\ revocations' = [revocations EXCEPT ![k] = 1]
        BY <1>0, <1>v, <2>2, <3>1 DEF revokeApiKeyById, KeyOK
      <3>4. KeyOK(k)'
        BY <1>0, <3>2, <3>3 DEF KeyOK
      <3>5. \A j \in Key \ {k} : KeyOK(j)'
        BY <1>0, <3>3 DEF KeyOK, KeyRow
      <3>6. QED
        BY <1>0, <3>2, <3>3, <3>4, <3>5
    <2>3. QED
      BY <2>1, <2>2
  <1>1. ASSUME NEW t \in Tab, Handle(t)
        PROVE  Goal
    <2>1. CASE createApiKeyForOrg(t)
      <3>1. req[t].session.org \in Org
        BY <2>1, AtWork DEF createApiKeyForOrg, At, Checked
      <3>2. QED
        BY <1>n, <2>1, <3>1 DEF createApiKeyForOrg
    <2>2. CASE revokeKeyUpdate(t)
      <3>1. req[t].arg \in Key
        BY <2>2, AtWork DEF revokeKeyUpdate, At, AskedOK
      <3>2. QED
        BY <1>v, <2>2, <3>1 DEF revokeKeyUpdate
    <2>3. CASE UNCHANGED <<key, revocations>>
      BY <1>q, <2>3
    <2>4. createApiKeyForOrg(t) \/ revokeKeyUpdate(t) \/ UNCHANGED <<key, revocations>>
      BY <1>1, HandleCases
         DEF GoesOn, Answers, Quiet, SignedUp, SignedIn, CodeAccepted, RecoveryAccepted, LoggedOut,
             enrollMfa, softDeleteOrganization, database
    <2> HIDE DEF Goal
    <2>5. QED
      BY <2>1, <2>2, <2>3, <2>4
  <1>2. ASSUME NEW t \in Tab, Use(t) \/ receive(t)
        PROVE  Goal
    BY <1>2, <1>q, UseCases DEF SendFrom, receive, database
  <1>3. CASE createKeyCommand
    BY <1>3, <1>n DEF createKeyCommand
  <1>4. CASE revokeKeyCommand
    BY <1>4, <1>v DEF revokeKeyCommand
  <1>5. CASE sessionExpires
    BY <1>5, <1>q DEF sessionExpires, database
  <1>6. ASSUME NEW o \in Org, hardDeleteOrganizationData(o)
        PROVE  Goal
    <2>1. /\ key' = [k \in Key |-> IF key[k] # None /\ key[k].org = o
                                   THEN [key[k] EXCEPT !.status = "gone"] ELSE key[k]]
          /\ revocations' = revocations /\ org'[o] = "purged"
      BY <1>6 DEF hardDeleteOrganizationData, IndInv, TypeOK
    <2>2. ASSUME NEW k \in Key, key[k] # None, key[k].org = o
          PROVE  KeyOK(k)' /\ key'[k] \in KeyRow
      <3>1. key[k] \in KeyRow
        BY <1>0, <2>2
      <3>2. key'[k] \in KeyRow /\ key'[k].status = "gone" /\ key'[k].org = o /\ key'[k] # None
        BY <2>1, <2>2, <3>1, AccountsAssumption DEF KeyRow
      <3>3. revocations[k] <= 1
        BY <1>0, <2>2, <3>1 DEF KeyOK, KeyRow
      <3>4. QED
        BY <2>1, <3>2, <3>3 DEF KeyOK
    <2>3. ASSUME NEW k \in Key, ~(key[k] # None /\ key[k].org = o)
          PROVE  KeyOK(k)' /\ key'[k] \in KeyRow \cup {None}
      BY <1>0, <2>1, <2>3 DEF KeyOK, KeyRow
    <2>4. QED
      BY <1>0, <2>1, <2>2, <2>3
  <1>7. QED
    <2> HIDE DEF Goal
    <2>1. QED
      BY <1>1, <1>2, <1>3, <1>4, <1>5, <1>6 DEF Next

\* The second factors' part: a secret belongs to one user, so a recovery code is
\* in one row, which is locked while the code is taken out of it.
LEMMA SecretsStep ==
    ASSUME IndInv, Next
    PROVE  /\ secrets' \in 0..MaxSecrets /\ spent' \in [Secret -> Nat]
           /\ SecretsOK' /\ RecoveryCodes'
  <1> DEFINE Goal == /\ secrets' \in 0..MaxSecrets /\ spent' \in [Secret -> Nat]
                     /\ SecretsOK' /\ RecoveryCodes'
  <1>s. SUFFICES Goal
    OBVIOUS
  <1>0. /\ user \in UserType /\ secrets \in 0..MaxSecrets /\ spent \in [Secret -> Nat]
        /\ SecretsOK /\ RecoveryCodes
    BY DEF IndInv, TypeOK, UserType
  <1>q. ASSUME UNCHANGED <<user, secrets, spent>>
        PROVE  Goal
    BY <1>0, <1>q DEF SecretsOK, RecoveryCodes
  <1>1. ASSUME NEW t \in Tab, SignedUp(t)
        PROVE  Goal
    <2>1. PICK o \in Org : CreateAccount(t, o)
      BY <1>1 DEF SignedUp
    <2>2. /\ user'[o].mfaSecret = 0 /\ user'[o].mfaRecoveryCodes = {}
          /\ \A p \in Org \ {o} : user'[p] = user[p]
          /\ UNCHANGED <<secrets, spent>>
      BY <1>0, <1>1, <2>1 DEF SignedUp, CreateAccount, UserType, history
    <2>3. SecretsOK'
      <3>1. \A p \in Org : user'[p] # None => user'[p].mfaSecret <= secrets
        BY <1>0, <2>2 DEF SecretsOK
      <3>2. \A p \in Org : user'[p] # None /\ user'[p].mfaSecret # 0 => user[p] = user'[p]
        BY <2>2
      <3>3. QED
        BY <1>0, <2>2, <3>1, <3>2 DEF SecretsOK
    <2>4. RecoveryCodes'
      BY <1>0, <2>2 DEF RecoveryCodes
    <2>5. QED
      BY <1>0, <2>2, <2>3, <2>4
  <1>2. ASSUME NEW t \in Tab, enrollMfa(t)
        PROVE  Goal
    <2>1. PICK o : o = req[t].session.org
      OBVIOUS
    <2>2. o \in Org /\ user[o] # None /\ user[o] \in User
      <3>1. o \in Org /\ AskedOK(req[t])
        BY <1>2, <2>1, AtWork DEF enrollMfa, At, Checked
      <3>2. user[o] # None
        BY <1>2, <2>1, <3>1 DEF enrollMfa, At, AskedOK
      <3>3. QED
        BY <1>0, <3>1, <3>2 DEF UserType
    <2>3. PICK n : n = secrets + 1
      OBVIOUS
    <2>4. secrets' = n /\ n \in Secret /\ n > secrets /\ spent' = spent /\ n \in 0..MaxSecrets
      <3>1. secrets' = n /\ secrets < MaxSecrets /\ spent' = spent
        BY <1>2, <2>3 DEF enrollMfa
      <3>2. QED
        BY <1>0, <2>3, <3>1, AccountsAssumption DEF Secret
    <2>5. PICK row : row = [user[o] EXCEPT !.mfaSecret = n, !.mfaRecoveryCodes = {n}]
      OBVIOUS
    <2>6. row.mfaSecret = n /\ row.mfaRecoveryCodes = {n} /\ user' = [user EXCEPT ![o] = row]
      <3>1. user' = [user EXCEPT ![o] = row]
        BY <1>2, <2>1, <2>4, <2>5 DEF enrollMfa
      <3>2. row.mfaSecret = n /\ row.mfaRecoveryCodes = {n}
        BY <2>2, <2>5 DEF User
      <3>3. QED
        BY <3>1, <3>2
    <2>7. user'[o] = row /\ \A p \in Org \ {o} : user'[p] = user[p]
      BY <1>0, <2>2, <2>6 DEF UserType
    <2>8. \A p \in Org : user[p] # None => user[p].mfaSecret \in Nat /\ user[p].mfaSecret < n
      BY <1>0, <2>4 DEF SecretsOK, UserType, User
    <2>9. SecretsOK'
      <3>1. \A p \in Org : user'[p] # None => user'[p].mfaSecret <= n
        BY <2>4, <2>6, <2>7, <2>8 DEF Secret
      <3>2. \A p, q \in Org :
              (/\ user'[p] # None /\ user'[q] # None
               /\ user'[p].mfaSecret = user'[q].mfaSecret /\ user'[p].mfaSecret # 0) => p = q
        BY <1>0, <2>4, <2>6, <2>7, <2>8 DEF SecretsOK
      <3>3. \A r \in Secret : r > n => spent'[r] = 0
        BY <1>0, <2>4 DEF SecretsOK, Secret
      <3>4. QED
        BY <2>4, <3>1, <3>2, <3>3 DEF SecretsOK
    <2>10. RecoveryCodes'
      <3>1. spent'[n] = 0
        BY <1>0, <2>4 DEF SecretsOK
      <3>2. \A p \in Org \ {o} : user'[p] # None =>
              \A r \in user'[p].mfaRecoveryCodes : r = user'[p].mfaSecret /\ spent'[r] = 0
        BY <1>0, <2>4, <2>7 DEF RecoveryCodes
      <3>3. QED
        BY <1>0, <2>4, <2>6, <2>7, <3>1, <3>2 DEF RecoveryCodes
    <2>11. QED
      BY <1>0, <2>4, <2>9, <2>10
  <1>3. ASSUME NEW t \in Tab, RecoveryAccepted(t)
        PROVE  Goal
    <2>1. PICK o, c : o = req[t].session.org /\ c = req[t].arg[2]
      OBVIOUS
    <2>2. o \in Org /\ user[o] # None /\ user[o] \in User /\ c \in user[o].mfaRecoveryCodes
      <3>1. o \in Org
        BY <1>3, <2>1, AtWork DEF RecoveryAccepted, At, Checked
      <3>2. QED
        BY <1>0, <1>3, <2>1, <3>1 DEF RecoveryAccepted, UserType
    <2>3. c \in Secret /\ c = user[o].mfaSecret /\ spent[c] = 0 /\ c # 0 /\ c <= secrets
      <3>1. c \in Secret
        BY <2>2 DEF User
      <3>2. QED
        BY <1>0, <2>2, <3>1 DEF RecoveryCodes, SecretsOK, Secret
    <2>4. PICK row : row = [user[o] EXCEPT !.mfaRecoveryCodes = @ \ {c}]
      OBVIOUS
    <2>5. /\ row.mfaSecret = user[o].mfaSecret
          /\ row.mfaRecoveryCodes = user[o].mfaRecoveryCodes \ {c}
      BY <2>2, <2>4 DEF User
    <2>6. /\ user' = [user EXCEPT ![o] = row] /\ secrets' = secrets
          /\ spent' = [spent EXCEPT ![c] = 1]
      <3>1. user' = [user EXCEPT ![o] = row] /\ secrets' = secrets
        BY <1>3, <2>1, <2>4 DEF RecoveryAccepted
      <3>2. spent' = [spent EXCEPT ![c] = @ + 1]
        BY <1>3, <2>1 DEF RecoveryAccepted
      <3>3. QED
        BY <1>0, <2>3, <3>1, <3>2
    <2>7. user'[o] = row /\ \A p \in Org \ {o} : user'[p] = user[p]
      BY <1>0, <2>2, <2>6 DEF UserType
    <2>8. \A p \in Org : user'[p] # None =>
            /\ user[p] # None /\ user'[p].mfaSecret = user[p].mfaSecret
            /\ user'[p].mfaRecoveryCodes \subseteq user[p].mfaRecoveryCodes
            /\ c \notin user'[p].mfaRecoveryCodes
      <3>1. SUFFICES ASSUME NEW p \in Org, p # o, user[p] # None,
                            c \in user[p].mfaRecoveryCodes
                     PROVE  FALSE
        BY <2>2, <2>5, <2>7
      <3>2. user[p].mfaSecret = c
        BY <1>0, <3>1 DEF RecoveryCodes
      <3>3. QED
        BY <1>0, <2>2, <2>3, <3>1, <3>2 DEF SecretsOK
    <2>9. /\ spent' \in [Secret -> Nat] /\ spent'[c] = 1
          /\ \A r \in Secret \ {c} : spent'[r] = spent[r]
      BY <1>0, <2>3, <2>6
    <2>10. SecretsOK'
      <3>1. \A r \in Secret : r > secrets => spent'[r] = 0
        BY <1>0, <2>3, <2>9 DEF SecretsOK, Secret
      <3>2. QED
        BY <1>0, <2>6, <2>8, <3>1 DEF SecretsOK
    <2>11. RecoveryCodes'
      <3>1. \A p \in Org : user'[p] # None => user[p].mfaRecoveryCodes \subseteq Secret
        BY <1>0, <2>8 DEF UserType, User
      <3>2. \A r \in Secret : spent'[r] <= 1
        BY <1>0, <2>9 DEF RecoveryCodes
      <3>3. ASSUME NEW p \in Org, user'[p] # None, NEW r \in user'[p].mfaRecoveryCodes
            PROVE  r = user'[p].mfaSecret /\ spent'[r] = 0
        <4>1. user[p] # None /\ r \in user[p].mfaRecoveryCodes /\ r # c /\ r \in Secret
          BY <2>8, <3>1, <3>3
        <4>2. QED
          BY <1>0, <2>8, <2>9, <3>3, <4>1 DEF RecoveryCodes
      <3>4. QED
        BY <3>2, <3>3 DEF RecoveryCodes
    <2>12. QED
      BY <1>0, <2>6, <2>9, <2>10, <2>11
  <1>4. ASSUME NEW t \in Tab, Handle(t)
        PROVE  Goal
    <2>1. CASE UNCHANGED <<user, secrets, spent>>
      BY <1>q, <2>1
    <2>2. \/ SignedUp(t) \/ enrollMfa(t) \/ RecoveryAccepted(t)
          \/ UNCHANGED <<user, secrets, spent>>
      BY <1>4, HandleCases
         DEF GoesOn, Answers, Quiet, SignedIn, CodeAccepted, LoggedOut, createApiKeyForOrg,
             revokeKeyUpdate, softDeleteOrganization, database, history
    <2> HIDE DEF Goal
    <2>3. QED
      BY <1>1, <1>2, <1>3, <2>1, <2>2
  <1>5. ASSUME NEW t \in Tab, Use(t) \/ receive(t)
        PROVE  Goal
    BY <1>5, <1>q, UseCases DEF SendFrom, receive, database, history
  <1>6. CASE createKeyCommand \/ revokeKeyCommand \/ sessionExpires
    BY <1>6, <1>q DEF createKeyCommand, revokeKeyCommand, sessionExpires, database, history
  <1>7. ASSUME NEW o \in Org, hardDeleteOrganizationData(o)
        PROVE  Goal
    <2>1. \A p \in Org : user'[p] # None => user'[p] = user[p]
      BY <1>0, <1>7 DEF hardDeleteOrganizationData, UserType
    <2>2. UNCHANGED <<secrets, spent>>
      BY <1>7 DEF hardDeleteOrganizationData, history
    <2>3. SecretsOK'
      BY <1>0, <2>1, <2>2 DEF SecretsOK
    <2>4. RecoveryCodes'
      BY <1>0, <2>1, <2>2 DEF RecoveryCodes
    <2>5. QED
      BY <1>0, <2>2, <2>3, <2>4
  <1>8. QED
    <2> HIDE DEF Goal
    <2>1. QED
      BY <1>4, <1>5, <1>6, <1>7 DEF Next

\* The rest: organisations, the sessions issued, the proofs, and nothing to note.
LEMMA RestStep ==
    ASSUME IndInv, Next
    PROVE  /\ org' \in [Org -> {"none", "active", "deleted", "purged"}]
           /\ owner' \in Seq(Org) /\ Len(owner)' <= MaxSessions
           /\ proven' \subseteq 1..MaxSessions
           /\ trespass' = {}
  <1> DEFINE Goal == /\ org' \in [Org -> {"none", "active", "deleted", "purged"}]
                     /\ owner' \in Seq(Org) /\ Len(owner)' <= MaxSessions
                     /\ proven' \subseteq 1..MaxSessions
                     /\ trespass' = {}
  <1>s. SUFFICES Goal
    OBVIOUS
  <1>0. /\ org \in [Org -> {"none", "active", "deleted", "purged"}]
        /\ owner \in Seq(Org) /\ Len(owner) <= MaxSessions
        /\ proven \subseteq 1..MaxSessions
        /\ trespass = {}
    BY DEF IndInv, TypeOK
  <1>q. ASSUME UNCHANGED <<org, owner, proven, trespass>>
        PROVE  Goal
    BY <1>0, <1>q
  <1>1. ASSUME NEW t \in Tab, Handle(t)
        PROVE  Goal
    <2>1. CASE GoesOn(t) \/ Answers(t)
      BY <1>q, <2>1 DEF GoesOn, Answers, Quiet, database, history
    <2>2. CASE SignedUp(t)
      <3>1. PICK o \in Org : CreateAccount(t, o)
        BY <2>2 DEF SignedUp
      <3>2. owner' \in Seq(Org) /\ Len(owner)' <= MaxSessions
        BY <2>2, <3>1, IssuedSession DEF SignedUp, CreateAccount
      <3>3. QED
        BY <1>0, <2>2, <3>1, <3>2 DEF SignedUp, CreateAccount, history
    <2>3. CASE SignedIn(t)
      <3>1. PICK o \in Org : owner' = Append(owner, o)
        BY <2>3 DEF SignedIn
      <3>2. owner' \in Seq(Org) /\ Len(owner)' <= MaxSessions
        BY <2>3, <3>1, IssuedSession DEF SignedIn
      <3>3. QED
        BY <1>0, <2>3, <3>2 DEF SignedIn, database, history
    <2>v. ASSUME req[t] # None, req[t].step # "answered", Verified(t),
                 Checked(req[t]) \/ Authorized(t, FALSE, TRUE)
          PROVE  proven' \subseteq 1..MaxSessions
      <3>1. req[t].session \in SessionData
        BY <2>v, AtWork
      <3>2. QED
        BY <1>0, <2>v, <3>1 DEF Verified, SessionData
    <2>4. CASE CodeAccepted(t)
      <3>1. proven' \subseteq 1..MaxSessions /\ trespass' = {}
        BY <2>4, <2>v, NothingNoted DEF CodeAccepted, At
      <3>2. QED
        BY <1>0, <2>4, <3>1 DEF CodeAccepted, database
    <2>5. CASE RecoveryAccepted(t)
      <3>1. proven' \subseteq 1..MaxSessions /\ trespass' = {}
        BY <2>5, <2>v, NothingNoted DEF RecoveryAccepted, At, Checked
      <3>2. QED
        BY <1>0, <2>5, <3>1 DEF RecoveryAccepted
    <2>6. CASE LoggedOut(t)
      <3>1. trespass' = {}
        BY <2>6, NothingNoted DEF LoggedOut, At
      <3>2. QED
        BY <1>0, <2>6, <3>1 DEF LoggedOut, database
    <2>7. CASE enrollMfa(t)
      <3>1. trespass' = {}
        BY <2>7, NothingNoted DEF enrollMfa, At, Checked
      <3>2. QED
        BY <1>0, <2>7, <3>1 DEF enrollMfa
    <2>8. CASE createApiKeyForOrg(t)
      <3>1. trespass' = {}
        BY <2>8, NothingNoted DEF createApiKeyForOrg, At, Checked
      <3>2. QED
        BY <1>0, <2>8, <3>1 DEF createApiKeyForOrg
    <2>9. CASE revokeKeyUpdate(t)
      <3>1. trespass' = {}
        BY <2>9, NothingNoted DEF revokeKeyUpdate, At, Checked
      <3>2. QED
        BY <1>0, <2>9, <3>1 DEF revokeKeyUpdate
    <2>10. CASE softDeleteOrganization(t)
      <3>1. trespass' = {}
        BY <2>10, NothingNoted DEF softDeleteOrganization, At, Checked
      <3>2. QED
        BY <1>0, <2>10, <3>1 DEF softDeleteOrganization
    <2> HIDE DEF Goal
    <2>11. QED
      BY <1>1, <2>1, <2>2, <2>3, <2>4, <2>5, <2>6, <2>7, <2>8, <2>9, <2>10, HandleCases
  <1>2. ASSUME NEW t \in Tab, Use(t) \/ receive(t)
        PROVE  Goal
    BY <1>2, <1>q, UseCases DEF SendFrom, receive, database, history
  <1>3. CASE createKeyCommand \/ revokeKeyCommand \/ sessionExpires
    BY <1>3, <1>q DEF createKeyCommand, revokeKeyCommand, sessionExpires, database, history
  <1>4. ASSUME NEW o \in Org, hardDeleteOrganizationData(o)
        PROVE  Goal
    BY <1>0, <1>4 DEF hardDeleteOrganizationData, history
  <1>5. QED
    <2> HIDE DEF Goal
    <2>1. QED
      BY <1>1, <1>2, <1>3, <1>4 DEF Next

-----------------------------------------------------------------------------
(* The theorems.                                                           *)

\* The invariant that carries the others is kept by every handler, every page
\* and both commands, in any interleaving.
THEOREM AccountsInductive == Spec => []IndInv
  <1>1. Init => IndInv
    <2> SUFFICES ASSUME Init
                 PROVE  IndInv
      OBVIOUS
    <2>1. TypeOK
      BY AccountsAssumption DEF Init, TypeOK, Page, Token
    <2>2. BrowserOK
      BY DEF Init, BrowserOK, RequestOK
    <2>3. SecretsOK /\ RecoveryCodes
      BY DEF Init, SecretsOK, RecoveryCodes
    <2>4. \A k \in Key : KeyOK(k)
      BY DEF Init, KeyOK
    <2>5. QED
      BY <2>1, <2>2, <2>3, <2>4 DEF IndInv, Init
  <1>2. IndInv /\ [Next]_vars => IndInv'
    <2> SUFFICES ASSUME IndInv, [Next]_vars
                 PROVE  IndInv'
      OBVIOUS
    <2>1. CASE Next
      <3>1. TypeOK'
        BY <2>1, BrowserStep, UsersStay, KeysStep, SecretsStep, RestStep
           DEF TypeOK, ReqType, UserType
      <3>2. QED
        BY <2>1, <3>1, BrowserStep, KeysStep, SecretsStep, RestStep DEF IndInv
    <2>2. CASE UNCHANGED vars
      <3>0. UNCHANGED <<org, user, key, revocations, cookie, tab, req, owner, secrets, proven,
                        spent, trespass>>
        BY <2>2 DEF vars, history
      <3>1. TypeOK'
        BY <3>0 DEF IndInv, TypeOK
      <3>2. BrowserOK'
        BY <3>0 DEF IndInv, BrowserOK, RequestOK, AskedOK, SessionOK, Checked
      <3>3. SecretsOK' /\ RecoveryCodes'
        BY <3>0 DEF IndInv, SecretsOK, RecoveryCodes
      <3>4. \A k \in Key : KeyOK(k)'
        BY <3>0 DEF IndInv, KeyOK
      <3>5. QED
        BY <3>0, <3>1, <3>2, <3>3, <3>4 DEF IndInv
    <2>3. QED
      BY <2>1, <2>2
  <1>3. QED
    BY <1>1, <1>2, PTL DEF Spec

\* Rows, sessions, requests and pages keep their types.
THEOREM AccountsTypeCorrect == Spec => []TypeOK
  <1>1. IndInv => TypeOK
    BY DEF IndInv
  <1>2. QED
    BY <1>1, AccountsInductive, PTL

\* What a request changes belongs to the session whose token its page holds, for
\* any number of tabs and sessions (the CSRF check of requireSession).
THEOREM TabsKeepTheirAccounts == Spec => []TabKeepsItsAccount
  <1>1. IndInv => TabKeepsItsAccount
    BY DEF IndInv, TabKeepsItsAccount
  <1>2. QED
    BY <1>1, AccountsInductive, PTL

\* A request sent after its organisation was deleted changes nothing
\* (requireSession reads the organisation again).
THEOREM DeletedOrgsAreClosed == Spec => []DeletedOrgIsClosed
  <1>1. IndInv => DeletedOrgIsClosed
    BY DEF IndInv, DeletedOrgIsClosed
  <1>2. QED
    BY <1>1, AccountsInductive, PTL

\* A verified session, in the browser or under way, is one in which a code was
\* accepted, and its user has a second factor (login, signup, verify).
THEOREM VerifiedSessionsHaveProof == Spec => []VerifiedHasProof
  <1>1. IndInv => VerifiedHasProof
    <2> SUFFICES ASSUME IndInv, NEW s \in Sessions, s.mfaVerified
                 PROVE  s.token \in proven /\ (user[s.org] # None => user[s.org].mfaSecret # 0)
      BY DEF VerifiedHasProof
    <2>1. CASE s = cookie /\ s # None
      BY <2>1 DEF IndInv, BrowserOK, SessionOK
    <2>2. ASSUME NEW t \in Tab, req[t] # None, s = req[t].session, s # None
          PROVE  SessionOK(s)
      BY <2>2 DEF IndInv, BrowserOK, RequestOK
    <2>3. QED
      BY <2>1, <2>2 DEF Sessions, Pending, SessionOK
  <1>2. QED
    BY <1>1, AccountsInductive, PTL

\* A recovery code is accepted once, also by two requests at a time, and the
\* codes kept are those of the secret kept (consumeRecoveryCode, enrollMfa).
THEOREM RecoveryCodesAreSpentOnce == Spec => []RecoveryCodes
  <1>1. IndInv => RecoveryCodes
    BY DEF IndInv
  <1>2. QED
    BY <1>1, AccountsInductive, PTL

\* A revoked key has exactly one revocation event, whoever revokes it how often,
\* and opens nothing (revokeApiKeyById, authPlugin).
THEOREM KeysAreRevokedOnce == Spec => []RevokedOnce
  <1>1. IndInv => RevokedOnce
    <2> SUFFICES ASSUME IndInv, NEW k \in Key
                 PROVE  /\ revocations[k] <= 1
                        /\ key[k] # None /\ key[k].status # "gone" =>
                             (key[k].status = "revoked" <=> revocations[k] = 1)
                        /\ authPlugin(k) <=> /\ key[k] # None /\ revocations[k] = 0
                                             /\ org[key[k].org] = "active"
      BY DEF RevokedOnce
    <2>1. KeyOK(k) /\ k # None /\ (key[k] # None => key[k] \in KeyRow) /\ revocations[k] \in Nat
      BY AccountsAssumption DEF IndInv, TypeOK
    <2>2. QED
      BY <2>1 DEF KeyOK, authPlugin, findActiveApiKeyByHash, KeyRow
  <1>2. QED
    BY <1>1, AccountsInductive, PTL
=============================================================================
