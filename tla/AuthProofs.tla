----------------------------- MODULE AuthProofs -----------------------------
(***************************************************************************)
(* Types, and the store under the handlers, for every set of requests,     *)
(* browsers, users, credentials and tickets, with or without faults.       *)
(*                                                                         *)
(* A handler's local variables are set on the way to the point where they  *)
(* are used, so AuthTypeOK says by program counter what a request has      *)
(* there.  It is inductive together with Shaped, and it is what makes a    *)
(* handler's store call one that StoreSpec allows.  Hence every behaviour  *)
(* of the plugin is one of the store with any callers, and what            *)
(* MemoryStoreProofs proves of the store holds under the handlers.         *)
(***************************************************************************)
EXTENDS Auth, MemoryStoreProofs

\* There is a slot for each request, with all the local variables.
Shaped ==
    DOMAIN req = Requests /\ \A r \in Requests : DOMAIN req[r] = DOMAIN Idle

RequestsOK == Shaped /\ \A r \in Requests : RequestOK(req[r])

ChallengesOK == challenges \in [ChallengeIDs -> {NoChallenge} \cup Challenge]

\* AuthTypeOK and Shaped.
Typed ==
    /\ TypeOK
    /\ RequestsOK
    /\ jar \in [Browsers -> SessionIDs \cup {None}]
    /\ now \in 0 .. MaxNow
    /\ resets \in [UserIDs -> Nat]
    /\ ChallengesOK

-----------------------------------------------------------------------------
(* Requests: moves that many handlers share.                               *)

\* A step of one request changes no other.
LEMMA OneMoves ==
  ASSUME RequestsOK, NEW r \in Requests, NEW q, req' = [req EXCEPT ![r] = q],
         DOMAIN q = DOMAIN Idle, RequestOK(q)
  PROVE  RequestsOK'
  BY DEF RequestsOK, Shaped, RequestOK

\* A refusal, from any point.
LEMMA RefuseOK ==
  ASSUME RequestsOK, NEW r \in Requests, Refuse(r), req[r].pc # "idle"
  PROVE  RequestsOK'
<1> DEFINE q == [Idle EXCEPT !.pc = "reply", !.op = req[r].op, !.by = req[r].by]
<1>1. /\ q.pc = "reply" /\ q.op = req[r].op /\ q.by = req[r].by /\ q.cookie = None
      /\ q.given = None /\ q.since = None /\ q.user = None /\ q.level = None
      /\ q.seen = None /\ q.set = None /\ q.ok = FALSE /\ DOMAIN q = DOMAIN Idle
  BY DEF Idle
<1>2. req' = [req EXCEPT ![r] = q]
  BY DEF Refuse
<1> HIDE DEF q
<1>3. RequestOK(req[r])
  BY DEF RequestsOK
<1>4. req[r].op \in Points["reply"]
  BY <1>3 DEF RequestOK, Points, After, Gated, Logins, RouteFeature, Routes
<1>5. RequestOK(q)
  BY <1>1, <1>3, <1>4 DEF RequestOK, UserKnown, LevelKnown, Points
<1> QED BY <1>1, <1>2, <1>5, OneMoves

\* A reply, from any point of a handler.
LEMMA ReplyOK ==
  ASSUME RequestsOK, NEW r \in Requests, NEW set \in SessionIDs \cup {None, "clear"},
         Reply(r, set), req[r].pc \notin {"idle", "reply"}
  PROVE  RequestsOK'
<1> DEFINE q == [req[r] EXCEPT !.pc = "reply", !.since = None, !.user = None, !.level = None,
               !.seen = None, !.ok = TRUE, !.set = set]
<1>1. /\ q.pc = "reply" /\ q.op = req[r].op /\ q.by = req[r].by /\ q.cookie = req[r].cookie
      /\ q.given = req[r].given /\ q.since = None /\ q.user = None /\ q.level = None
      /\ q.seen = None /\ q.set = set /\ q.ok = TRUE /\ DOMAIN q = DOMAIN Idle
  BY DEF Idle, RequestsOK, Shaped
<1>2. req' = [req EXCEPT ![r] = q]
  BY DEF Reply
<1> HIDE DEF q
<1>3. RequestOK(req[r])
  BY DEF RequestsOK
<1>4. req[r].op \in Points["reply"]
  BY <1>3 DEF RequestOK, Points, After, Gated, Logins, RouteFeature, Routes
<1>5. RequestOK(q)
  BY <1>1, <1>3, <1>4 DEF RequestOK, UserKnown, LevelKnown, Points
<1> QED BY <1>1, <1>2, <1>5, OneMoves

\* A request that arrives has its input, its cookie and nothing else.
LEMMA ArriveOK ==
  ASSUME RequestsOK, resets \in [UserIDs -> Nat], jar \in [Browsers -> SessionIDs \cup {None}],
         NEW r \in Requests, NEW op, NEW b \in Browsers, NEW given \in Given(op), NEW pc,
         Arrive(r, op, b, given, pc),
         pc \in {"session", "level", "logout", "register", "lookup", "code_lookup",
                 "attempt", "challenge", "take"},
         op \in Points[pc], pc = "take" => op = "login_passkey"
  PROVE  RequestsOK'
<1> DEFINE q == [Idle EXCEPT !.pc = pc, !.op = op, !.by = b, !.cookie = jar[b],
                  !.given = given, !.since = resets]
<1>1. /\ q.pc = pc /\ q.op = op /\ q.by = b /\ q.cookie = jar[b]
      /\ q.given = given /\ q.since = resets /\ q.user = None /\ q.level = None
      /\ q.seen = None /\ q.set = None /\ q.ok = FALSE /\ DOMAIN q = DOMAIN Idle
  BY DEF Idle
<1>2. req' = [req EXCEPT ![r] = q]
  BY DEF Arrive
<1> HIDE DEF q
<1>5. RequestOK(q)
  <2>1. pc \in DOMAIN Points /\ pc \notin UserKnown \cup LevelKnown
    BY DEF Points, UserKnown, LevelKnown
  <2> QED BY <1>1, <2>1, UnsetAssumption DEF RequestOK
<1> QED BY <1>1, <1>2, <1>5, OneMoves

\* A slot that is free.
LEMMA IdleOK == RequestOK(Idle)
<1> USE UnsetAssumption DEF Levels, Routes, RouteFeature
<1>1. None \in Given(None)
  BY DEF Given
<1> HIDE UnsetAssumption DEF Levels, Routes, RouteFeature
<1>2. Idle.pc = "idle" /\ Idle.op = None /\ Idle.by = None /\ Idle.cookie = None
      /\ Idle.given = None /\ Idle.user = None /\ Idle.level = None /\ Idle.set = None /\ Idle.ok = FALSE
  BY DEF Idle
<1>3. "idle" \in DOMAIN Points /\ Points["idle"] = {None}
  BY DEF Points
<1> QED BY <1>1, <1>2, <1>3 DEF RequestOK, UserKnown, LevelKnown

\* What the client sends, by route.
LEMMA GivenValues ==
  /\ Given("totp_confirm") = Secrets /\ Given("login_totp") = Secrets
  /\ Given("register") = Credentials /\ Given("login") = Credentials
  /\ Given("login_recovery") = RecoveryCodes
  /\ Given("request_code") = CodeRequest
  /\ Given("verify_code") = CodeAnswer
  /\ Given("passkey_finish") = Attestation
  /\ Given("login_passkey") = Assertion
  /\ Given("level") = Levels \cup {""}
  /\ \A op \in {"visit", "logout", "totp_setup", "passkey_begin", "login_passkey_begin"} : Given(op) = {None}
  BY DEF Given

-----------------------------------------------------------------------------
(* Requests: each step of each handler.                                    *)

\* The session guards, createSession, logout and the reply.
LEMMA SessionsStepOK ==
  ASSUME RequestsOK, TypeOK, now \in 0 .. MaxNow, NEW r \in Requests, SessionsStep(r)
  PROVE  RequestsOK'
<1>0. RequestOK(req[r])
  BY DEF RequestsOK
<1> USE NoneAssumption, UnsetAssumption DEF Levels, Routes, RouteFeature, At, Goto, RequestOK, UserKnown, LevelKnown
<1>1. CASE ReadSession(r)
  <2>1. CASE ~SessionRead(req[r].cookie)
    BY <1>1, <2>1, RefuseOK DEF ReadSession
  <2>2. CASE SessionRead(req[r].cookie)
    <3>1. sessions[req[r].cookie] \in Session
      BY <2>2 DEF SessionRead, SessionLive, TypeOK
    <3>2. sessions[req[r].cookie].user \in UserIDs /\ sessions[req[r].cookie].level \in Levels
      BY <3>1 DEF Session
    <3> QED BY <1>0, <1>1, <2>2, <3>2 DEF RequestsOK, Shaped, ReadSession, Idle, Points
  <2> QED BY <2>1, <2>2
<1>2. CASE ReadUser(r)
  BY <1>0, <1>2, RefuseOK DEF RequestsOK, Shaped, ReadUser, Idle, Points, After, Gated
<1>3. CASE DropDisabled(r)
  BY <1>0, <1>3, RefuseOK DEF RequestsOK, DropDisabled
<1>4. CASE Gate(r)
  BY <1>0, <1>4, RefuseOK DEF RequestsOK, Shaped, Gate, Idle, Points, After, Gated
<1>5. CASE ReadAgain(r)
  BY <1>0, <1>5, RefuseOK DEF RequestsOK, Shaped, ReadAgain, Idle, Points
<1>6. CASE ReadLevel(r)
  BY <1>0, <1>6, RefuseOK DEF RequestsOK, Shaped, ReadLevel, Idle, Points
<1>7. CASE EndServing(r)
  BY <1>0, <1>7, ReplyOK DEF EndServing
<1>8. CASE RotateOld(r)
  BY <1>0, <1>8, SessionsAssumption DEF RequestsOK, Shaped, RotateOld, Idle, Points, Logins
<1>9. CASE CreateNew(r)
  BY <1>0, <1>9 DEF RequestsOK, Shaped, CreateNew, Fresh, Idle, Points, Logins
<1>10. CASE SetCookie(r)
  BY <1>0, <1>10, ReplyOK DEF SetCookie
<1>11. CASE Logout(r)
  BY <1>0, <1>11, ReplyOK DEF Logout
<1>12. CASE Deliver(r)
  BY <1>12, IdleOK, OneMoves DEF Deliver
<1> QED BY <1>1, <1>2, <1>3, <1>4, <1>5, <1>6, <1>7, <1>8, <1>9, <1>10, <1>11, <1>12 DEF SessionsStep

\* Registration and password login.
LEMMA PasswordStepOK ==
  ASSUME RequestsOK, TypeOK, NEW r \in Requests, PasswordStep(r)
  PROVE  RequestsOK'
<1>0. RequestOK(req[r])
  BY DEF RequestsOK
<1> USE NoneAssumption, UnsetAssumption DEF Levels, At, Goto, RequestOK, UserKnown, LevelKnown
<1>1. CASE CreateAccount(r)
  BY <1>0, <1>1, ReplyOK, RefuseOK DEF CreateAccount
<1>2. CASE LookupIdentifier(r)
  BY <1>0, <1>2, RefuseOK DEF RequestsOK, Shaped, LookupIdentifier, UserExists, Idle, Points
<1>3. CASE VerifyPassword(r)
  BY <1>0, <1>3, RefuseOK DEF RequestsOK, Shaped, VerifyPassword, Idle, Points
<1>4. CASE CheckHash(r)
  BY <1>0, <1>4 DEF RequestsOK, Shaped, CheckHash, Idle, Points, Logins
<1>5. CASE Rehash(r)
  BY <1>0, <1>5 DEF RequestsOK, Shaped, Rehash, Idle, Points, Logins
<1> QED BY <1>1, <1>2, <1>3, <1>4, <1>5 DEF PasswordStep

\* Enrolment and the two ways to complete a login.
LEMMA TOTPStepOK ==
  ASSUME RequestsOK, TypeOK, NEW r \in Requests, TOTPStep(r)
  PROVE  RequestsOK'
<1>0. RequestOK(req[r])
  BY DEF RequestsOK
<1> USE NoneAssumption, UnsetAssumption DEF Levels, At, Goto, RequestOK, UserKnown, LevelKnown
<1>1. CASE SetupTOTP(r)
  BY <1>0, <1>1, ReplyOK DEF SetupTOTP
<1>2. CASE ReadUnconfirmed(r)
  <2>1. CASE ~TOTPValid(req[r].user, FALSE, req[r].given)
    BY <1>0, <1>2, <2>1, RefuseOK DEF ReadUnconfirmed
  <2>2. CASE TOTPValid(req[r].user, FALSE, req[r].given)
    <3>1. req[r].op = "totp_confirm" /\ req[r].pc = "read_totp"
      BY <1>0, <1>2 DEF ReadUnconfirmed, Points
    <3>3. req[r].given \in Secrets
      BY <1>0, <3>1, GivenValues
    <3>2. totp[req[r].user] \in TOTPCredential
      BY <2>2, <3>3 DEF TOTPValid, TOTPCredential
    <3> QED BY <1>0, <1>2, <2>2, <3>2 DEF RequestsOK, Shaped, ReadUnconfirmed, Idle, Points
  <2> QED BY <2>1, <2>2
<1>3. CASE ConfirmTOTP(r)
  BY <1>0, <1>3 DEF RequestsOK, Shaped, ConfirmTOTP, Idle, Points
<1>4. CASE StoreRecoveryCodes(r)
  <2>1. PICK set : req' = [req EXCEPT ![r].pc = "reply", ![r].ok = TRUE,
                            ![r].since = None, ![r].seen = set]
    BY <1>4 DEF StoreRecoveryCodes
  <2>2. req[r].op \in Routes /\ req[r].pc = "recovery"
    BY <1>0, <1>4 DEF StoreRecoveryCodes, Points, Routes, RouteFeature
  <2> DEFINE q == [req[r] EXCEPT !.pc = "reply", !.ok = TRUE, !.since = None, !.seen = set]
  <2>3. req' = [req EXCEPT ![r] = q]
    BY <2>1
  <2>4. /\ q.pc = "reply" /\ q.op = req[r].op /\ q.by = req[r].by /\ q.cookie = req[r].cookie
        /\ q.given = req[r].given /\ q.user = req[r].user /\ q.level = req[r].level
        /\ q.set = req[r].set /\ q.ok = TRUE /\ DOMAIN q = DOMAIN Idle
    BY DEF Idle, RequestsOK, Shaped
  <2> HIDE DEF q
  <2>5. q.pc \in DOMAIN Points /\ q.op \in Points[q.pc]
    BY <2>2, <2>4 DEF Points
  <2>6. RequestOK(q)
    BY <1>0, <2>2, <2>4, <2>5
  <2> QED BY <2>3, <2>4, <2>6, OneMoves
<1>5. CASE CheckTOTP(r)
  <2>1. CASE Refuse(r)
    BY <1>0, <1>5, <2>1, RefuseOK DEF CheckTOTP
  <2>2. CASE req' = [req EXCEPT ![r].pc = "rotate", ![r].level = "mfa"]
    BY <1>0, <1>5, <2>2 DEF RequestsOK, Shaped, CheckTOTP, Idle, Points, Logins
  <2> QED BY <1>5, <2>1, <2>2 DEF CheckTOTP
<1>6. CASE ConsumeRecovery(r)
  BY <1>0, <1>6, RefuseOK DEF RequestsOK, Shaped, ConsumeRecovery, Idle, Points, Logins
<1> QED BY <1>1, <1>2, <1>3, <1>4, <1>5, <1>6 DEF TOTPStep

\* One-time codes.
LEMMA CodesStepOK ==
  ASSUME RequestsOK, TypeOK, NEW r \in Requests, CodesStep(r)
  PROVE  RequestsOK'
<1>0. RequestOK(req[r])
  BY DEF RequestsOK
<1> USE NoneAssumption, UnsetAssumption DEF Levels, At, Goto, RequestOK, UserKnown, LevelKnown
<1>1. CASE LookupRecipient(r)
  BY <1>0, <1>1 DEF RequestsOK, Shaped, LookupRecipient, UserExists, Idle, Points
<1>2. CASE SaveNewCode(r)
  BY <1>0, <1>2 DEF RequestsOK, Shaped, SaveNewCode, Fresh, Idle, Points
<1>3. CASE AnswerRequest(r)
  BY <1>0, <1>3, ReplyOK DEF AnswerRequest
<1>4. CASE SendCode(r)
  BY <1>0, <1>4 DEF RequestsOK, Shaped, SendCode, Idle, Points
<1>5. CASE WithdrawCode(r)
  BY <1>0, <1>5 DEF RequestsOK, Shaped, WithdrawCode, Idle, Points
<1>6. CASE SpendAttempt(r)
  <2> DEFINE g == req[r].given
             redeemed == /\ CodeLive(g.id, now) /\ CodeMatches(g.id, ProofOf(g))
                         /\ Redeems(g.id, g.purpose)
  <2>1. CASE ~redeemed
    BY <1>0, <1>6, <2>1, RefuseOK DEF SpendAttempt
  <2>2. CASE redeemed
    <3>0. req[r].op = "verify_code" /\ req[r].pc = "attempt"
      BY <1>0, <1>6 DEF SpendAttempt, Points
    <3>1. g.id \in CodeIDs
      <4>1. g \in CodeAnswer
        BY <1>0, <3>0, GivenValues
      <4> QED BY <4>1 DEF CodeAnswer
    <3>2. codes[g.id] \in OneTimeCode
      BY <2>2, <3>1 DEF CodeLive, TypeOK
    <3>3. codes[g.id].user \in UserIDs
      BY <2>2, <3>2 DEF Redeems, OneTimeCode
    <3>4. req' = [req EXCEPT ![r].pc = "code_user", ![r].user = codes[g.id].user]
      BY <1>6, <2>2 DEF SpendAttempt
    <3> HIDE DEF g, redeemed
    <3> QED BY <1>0, <1>6, <3>3, <3>4 DEF RequestsOK, Shaped, SpendAttempt, Idle, Points
  <2> QED BY <2>1, <2>2
<1>7. CASE ReadCodeUser(r)
  BY <1>0, <1>7, RefuseOK DEF RequestsOK, Shaped, ReadCodeUser, Idle, Points
<1>8. CASE ApplyLogin(r)
  BY <1>0, <1>8 DEF RequestsOK, Shaped, ApplyLogin, Idle, Points, Logins
<1>9. CASE ApplyVerification(r)
  BY <1>0, <1>9, ReplyOK DEF ApplyVerification
<1>10. CASE ApplyReset(r)
  BY <1>0, <1>10, RefuseOK DEF RequestsOK, Shaped, ApplyReset, Idle, Points
<1>11. CASE RevokeAfterReset(r)
  BY <1>0, <1>11, ReplyOK DEF RevokeAfterReset
<1> QED BY <1>1, <1>2, <1>3, <1>4, <1>5, <1>6, <1>7, <1>8, <1>9, <1>10, <1>11 DEF CodesStep

\* The ceremonies.
LEMMA PasskeysStepOK ==
  ASSUME RequestsOK, TypeOK, NEW r \in Requests, PasskeysStep(r)
  PROVE  RequestsOK'
<1>0. RequestOK(req[r])
  BY DEF RequestsOK
<1> USE NoneAssumption, UnsetAssumption DEF Levels, At, Goto, RequestOK, UserKnown, LevelKnown
<1>1. CASE SavePasskeyChallenge(r)
  BY <1>0, <1>1, ReplyOK DEF SavePasskeyChallenge
<1>2. CASE TakePasskeyChallenge(r)
  BY <1>0, <1>2, RefuseOK DEF RequestsOK, Shaped, TakePasskeyChallenge, Fits, Idle, Points
<1>3. CASE StorePasskey(r)
  BY <1>0, <1>3, ReplyOK, RefuseOK DEF StorePasskey
<1>4. CASE LookupHandle(r)
  BY <1>0, <1>4, RefuseOK DEF RequestsOK, Shaped, LookupHandle, UserExists, Idle, Points
<1>5. CASE CheckAssertion(r)
  BY <1>0, <1>5, RefuseOK DEF RequestsOK, Shaped, CheckAssertion, Idle, Points
<1>6. CASE FindPasskey(r)
  <2>1. req[r].user \in UserIDs /\ \A k \in passkeys[req[r].user] : k.signCount \in Counts
    BY <1>0, <1>6 DEF FindPasskey, TypeOK, Passkey
  <2> QED BY <1>0, <1>6, <2>1, RefuseOK DEF RequestsOK, Shaped, FindPasskey, Idle, Points
<1>7. CASE SwapCounter(r)
  BY <1>0, <1>7, RefuseOK DEF RequestsOK, Shaped, SwapCounter, Idle, Points, Logins
<1> QED BY <1>1, <1>2, <1>3, <1>4, <1>5, <1>6, <1>7 DEF PasskeysStep

\* Every route is entered at its first point with input of its type.
LEMMA CallOK ==
  ASSUME RequestsOK, resets \in [UserIDs -> Nat], jar \in [Browsers -> SessionIDs \cup {None}],
         NEW r \in Requests, Call(r)
  PROVE  RequestsOK'
<1> USE GivenValues
<1>1. CASE SessionsCall(r)
  BY <1>1, ArriveOK DEF SessionsCall, Points, After, Levels
<1>2. CASE PasswordCall(r)
  BY <1>2, ArriveOK DEF PasswordCall, Points
<1>3. CASE TOTPCall(r)
  BY <1>3, ArriveOK DEF TOTPCall, Points, After
<1>4. CASE CodesCall(r)
  BY <1>4, ArriveOK DEF CodesCall, Points
<1>5. CASE PasskeysCall(r)
  BY <1>5, ArriveOK DEF PasskeysCall, Points, After
<1> QED BY <1>1, <1>2, <1>3, <1>4, <1>5 DEF Call

\* A refusal by a policy.
LEMMA DeniedOK ==
  ASSUME RequestsOK, NEW r \in Requests, Denied(r)
  PROVE  RequestsOK'
  BY RefuseOK DEF Denied, PasswordDenied, TOTPDenied, CodesDenied, PasskeysDenied, Deny

\* A call that fails.
LEMMA FaultOK ==
  ASSUME RequestsOK, now \in 0 .. MaxNow, NEW r \in Requests, Fault(r)
  PROVE  RequestsOK'
<1>0. RequestOK(req[r])
  BY DEF RequestsOK
<1>1. CASE \E pcs : "idle" \notin pcs /\ Fail(r, pcs)
  BY <1>1, RefuseOK DEF Fail
<1>2. CASE IgnoreError(r)
  <2>1. CASE At(r, "rotate") /\ req' = [req EXCEPT ![r].pc = "create", ![r].seen = now + SessionLifetime]
    BY <1>0, <2>1, SessionsAssumption DEF RequestsOK, Shaped, At, Idle, Points, Logins, RequestOK, UserKnown, LevelKnown
  <2> QED BY <1>2, <2>1, ReplyOK, RefuseOK DEF IgnoreError, At
<1>3. CASE CookieFails(r)
  BY <1>3, RefuseOK DEF CookieFails, At
<1> QED BY <1>1, <1>2, <1>3 DEF Fault, SessionsFault, PasswordFault, TOTPFault, CodesFault, PasskeysFault

-----------------------------------------------------------------------------
(* The store: each step is a call that StoreNext allows, or none.          *)

StoreStep == StoreNext \/ UNCHANGED storeVars

\* A cookie that is not there is looked up, or revoked, without effect.
LEMMA SessionArgument ==
  ASSUME TypeOK, now \in 0 .. MaxNow, NEW s \in SessionIDs \cup {None},
         SessionByID(s, now) \/ RevokeSession(s)
  PROVE  StoreStep
<1>1. CASE s = None
  <2>1. sessions' = [t \in SessionIDs |-> sessions[t]] /\ UNCHANGED <<accounts, credentials, codes>>
    BY <1>1, NoneAssumption DEF SessionByID, RevokeSession
  <2> QED BY <2>1 DEF StoreStep, TypeOK, storeVars, accounts, credentials
<1>2. CASE s \in SessionIDs
  <2>1. now \in Times
    BY SessionsAssumption
  <2> QED BY <1>2, <2>1 DEF StoreStep, StoreNext, SessionCall
<1> QED BY <1>1, <1>2

\* The guards, createSession and logout, faults included.
LEMMA SessionsStore ==
  ASSUME Typed, NEW r \in Requests, SessionsStep(r) \/ SessionsFault(r)
  PROVE  StoreStep
<1>0. RequestOK(req[r])
  BY DEF Typed, RequestsOK
<1> USE DEF At, Typed, RequestOK, UserKnown, LevelKnown
<1>1. req[r].cookie \in SessionIDs \cup {None} /\ (At(r, "cookie") => req[r].set \in SessionIDs)
  BY <1>0
<1>2. CASE ReadSession(r) \/ ReadAgain(r) \/ ReadLevel(r) \/ DropDisabled(r) \/ RotateOld(r) \/ Logout(r)
  BY <1>1, <1>2, SessionArgument DEF ReadSession, ReadAgain, ReadLevel, DropDisabled, RotateOld, Rotated, Logout
<1>3. CASE ReadUser(r) \/ Gate(r) \/ EndServing(r) \/ SetCookie(r)
  BY <1>3 DEF ReadUser, Gate, EndServing, SetCookie, Local, StoreStep
<1>4. CASE Deliver(r)
  BY <1>4 DEF Deliver, StoreStep
<1>5. CASE CreateNew(r)
  <2>1. NewSession(r) \in Session
    BY <1>0, <1>5, SessionsAssumption DEF CreateNew, NewSession, Session
  <2> QED BY <1>5, <2>1 DEF CreateNew, Fresh, StoreStep, StoreNext, SessionCall
<1>6. CASE SessionsFault(r)
  BY <1>1, <1>6, SessionArgument DEF SessionsFault, Fail, IgnoreError, CookieFails, Local, StoreStep
<1> QED BY <1>2, <1>3, <1>4, <1>5, <1>6 DEF SessionsStep

\* The handlers of handlers_password.go.
LEMMA PasswordStore ==
  ASSUME Typed, NEW r \in Requests, PasswordStep(r)
  PROVE  StoreStep
<1>0. RequestOK(req[r])
  BY DEF Typed, RequestsOK
<1> USE DEF At, RequestOK, UserKnown, StoreStep
<1>1. CASE CreateAccount(r)
  <2>1. req[r].op = "register" /\ req[r].pc = "register"
    BY <1>0, <1>1 DEF CreateAccount, Points
  <2>2. req[r].given \in Credentials
    BY <1>0, <2>1, GivenValues
  <2>3. req[r].given.identifier \in Identifiers
        /\ [password |-> req[r].given.password, legacy |-> FALSE] \in Hash
    BY <2>2 DEF Credentials, Hash
  <2> QED BY <1>1, <2>3 DEF CreateAccount, Fresh, StoreNext, AccountCall
<1>2. CASE LookupIdentifier(r) \/ VerifyPassword(r) \/ CheckHash(r)
  BY <1>2 DEF LookupIdentifier, VerifyPassword, CheckHash, Local
<1>3. CASE Rehash(r)
  <2>1. req[r].op = "login" /\ req[r].pc = "rehash"
    BY <1>0, <1>3 DEF Rehash, Points
  <2>2. req[r].given \in Credentials
    BY <1>0, <2>1, GivenValues
  <2>3. req[r].user \in UserIDs
        /\ [password |-> req[r].given.password, legacy |-> FALSE] \in Hash
    BY <1>0, <2>1, <2>2 DEF Credentials, Hash
  <2> QED BY <1>3, <2>3 DEF Rehash, StoreNext, CredentialCall
<1> QED BY <1>1, <1>2, <1>3 DEF PasswordStep

\* The handlers of handlers_totp.go.
LEMMA TOTPStore ==
  ASSUME Typed, NEW r \in Requests, TOTPStep(r)
  PROVE  StoreStep
<1>0. RequestOK(req[r])
  BY DEF Typed, RequestsOK
<1> USE DEF At, RequestOK, UserKnown, StoreStep
<1>1. CASE SetupTOTP(r)
  BY <1>0, <1>1 DEF SetupTOTP, Fresh, TOTPCredential, StoreNext, CredentialCall
<1>2. CASE ReadUnconfirmed(r) \/ CheckTOTP(r)
  BY <1>2 DEF ReadUnconfirmed, CheckTOTP, Local
<1>3. CASE ConfirmTOTP(r)
  <2>1. req[r].user \in UserIDs /\ req[r].seen \in TOTPCredential
    BY <1>0, <1>3 DEF ConfirmTOTP
  <2>2. [req[r].seen EXCEPT !.confirmed = TRUE] \in TOTPCredential
    BY <2>1 DEF TOTPCredential
  <2> QED BY <1>3, <2>1, <2>2 DEF ConfirmTOTP, StoreNext, CredentialCall
<1>4. CASE StoreRecoveryCodes(r)
  BY <1>0, <1>4 DEF StoreRecoveryCodes, Fresh, StoreNext, CredentialCall
<1>5. CASE ConsumeRecovery(r)
  <2>1. req[r].op = "login_recovery" /\ req[r].pc = "consume"
    BY <1>0, <1>5 DEF ConsumeRecovery, Points
  <2>2. req[r].given \in RecoveryCodes /\ req[r].user \in UserIDs
    BY <1>0, <2>1, GivenValues
  <2> QED BY <1>5, <2>2 DEF ConsumeRecovery, StoreNext, CredentialCall
<1> QED BY <1>1, <1>2, <1>3, <1>4, <1>5 DEF TOTPStep

\* The handlers of handlers_codes.go.
LEMMA CodesStore ==
  ASSUME Typed, NEW r \in Requests, CodesStep(r)
  PROVE  StoreStep
<1>0. RequestOK(req[r])
  BY DEF Typed, RequestsOK
<1>00. now \in Nat /\ now \in Times /\ now + CodeLifetime \in Times
  BY SessionsAssumption, CodesAssumption DEF Typed
<1> USE DEF At, RequestOK, UserKnown, StoreStep
<1>1. CASE LookupRecipient(r) \/ AnswerRequest(r) \/ SendCode(r) \/ ReadCodeUser(r) \/ ApplyLogin(r)
  BY <1>1 DEF LookupRecipient, AnswerRequest, SendCode, ReadCodeUser, ApplyLogin, Local
<1>2. CASE SaveNewCode(r)
  <2>1. req[r].op = "request_code" /\ req[r].pc = "save_code"
    BY <1>0, <1>2 DEF SaveNewCode, Points
  <2>2. req[r].given \in CodeRequest
    BY <1>0, <2>1, GivenValues
  <2>3. req[r].given.purpose \in Purposes
    BY <2>2 DEF CodeRequest
  <2>4. NewCode(r) \in OneTimeCode /\ NewCode(r).attempts = 0
    BY <1>0, <1>00, <2>3, NumbersAssumption DEF NewCode, OneTimeCode, Proof
  <2> QED BY <1>2, <2>4 DEF SaveNewCode, Fresh, StoreNext, CodeCall
<1>3. CASE WithdrawCode(r)
  BY <1>0, <1>3 DEF WithdrawCode, StoreNext, CodeCall
<1>4. CASE SpendAttempt(r)
  <2>1. req[r].op = "verify_code" /\ req[r].pc = "attempt"
    BY <1>0, <1>4 DEF SpendAttempt, Points
  <2>2. req[r].given \in CodeAnswer
    BY <1>0, <2>1, GivenValues
  <2>3. req[r].given.id \in CodeIDs /\ ProofOf(req[r].given) \in Proof
    BY <2>2 DEF CodeAnswer, ProofOf, Proof
  <2> QED BY <1>00, <1>4, <2>3 DEF SpendAttempt, StoreNext, CodeCall
<1>5. CASE ApplyVerification(r)
  BY <1>0, <1>5 DEF ApplyVerification, StoreNext, AccountCall
<1>6. CASE ApplyReset(r)
  <2>1. req[r].op = "verify_code" /\ req[r].pc = "apply"
    BY <1>0, <1>6 DEF ApplyReset, Points
  <2>2. req[r].given \in CodeAnswer /\ req[r].user \in UserIDs
    BY <1>0, <2>1, GivenValues
  <2>3. CASE ResetsPassword(req[r].given)
    <3>1. NewHash(req[r].given.password) \in Hash
      BY <2>2, <2>3 DEF ResetsPassword, NewHash, CodeAnswer, Hash
    <3> QED BY <1>6, <2>2, <2>3, <3>1 DEF ApplyReset, StoreNext, CredentialCall
  <2> QED BY <1>6, <2>3 DEF ApplyReset
<1>7. CASE RevokeAfterReset(r)
  BY <1>0, <1>7 DEF RevokeAfterReset, EndsSessions, StoreNext, SessionCall
<1> QED BY <1>1, <1>2, <1>3, <1>4, <1>5, <1>6, <1>7 DEF CodesStep

\* The handlers of handlers_passkey.go.
LEMMA PasskeysStore ==
  ASSUME Typed, NEW r \in Requests, PasskeysStep(r)
  PROVE  StoreStep
<1>0. RequestOK(req[r])
  BY DEF Typed, RequestsOK
<1> USE DEF At, RequestOK, UserKnown, StoreStep
<1>1. CASE SavePasskeyChallenge(r) \/ TakePasskeyChallenge(r)
  BY <1>1 DEF SavePasskeyChallenge, TakePasskeyChallenge
<1>2. CASE LookupHandle(r) \/ CheckAssertion(r) \/ FindPasskey(r)
  BY <1>2 DEF LookupHandle, CheckAssertion, FindPasskey, Local
<1>3. CASE StorePasskey(r)
  <2>1. req[r].op = "passkey_finish" /\ req[r].pc = "save"
    BY <1>0, <1>3 DEF StorePasskey, Points
  <2>2. req[r].given \in Attestation /\ req[r].user \in UserIDs
    BY <1>0, <2>1, GivenValues
  <2>3. [id |-> req[r].given.id, signCount |-> req[r].given.count] \in Passkey
    BY <2>2 DEF Attestation, Passkey
  <2> QED BY <1>3, <2>2, <2>3 DEF StorePasskey, StoreNext, CredentialCall
<1>4. CASE SwapCounter(r)
  <2>1. req[r].op = "login_passkey" /\ req[r].pc = "update"
    BY <1>0, <1>4 DEF SwapCounter, Points
  <2>2. req[r].given \in Assertion /\ req[r].user \in UserIDs /\ req[r].seen \in Counts
    BY <1>0, <2>1, GivenValues
  <2>3. [id |-> req[r].given.id, signCount |-> req[r].given.count] \in Passkey
    BY <2>2 DEF Assertion, Passkey
  <2> QED BY <1>4, <2>2, <2>3 DEF SwapCounter, StoreNext, CredentialCall
<1> QED BY <1>1, <1>2, <1>3, <1>4 DEF PasskeysStep

\* The application created an account.
Added == \E i \in Identifiers, hash \in Hash \cup {None} : AddAccount(i, hash)

\* A call that fails, as opposed to one whose error is dropped, has no effect.
LEMMA NextStore == Typed /\ [Next]_vars => StoreStep
<1> SUFFICES ASSUME Typed, [Next]_vars PROVE StoreStep
  OBVIOUS
<1>1. ASSUME NEW r \in Requests, Call(r) PROVE StoreStep
  BY <1>1 DEF Call, SessionsCall, PasswordCall, TOTPCall, CodesCall, PasskeysCall,
              Arrive, StoreStep
<1>2. ASSUME NEW r \in Requests, Step(r) PROVE StoreStep
  BY <1>2, SessionsStore, PasswordStore, TOTPStore, CodesStore, PasskeysStore DEF Step
<1>3. ASSUME NEW r \in Requests, Denied(r) PROVE StoreStep
  BY <1>3 DEF Denied, PasswordDenied, TOTPDenied, CodesDenied, PasskeysDenied, Deny,
              Local, StoreStep
<1>4. ASSUME NEW r \in Requests, Fault(r) PROVE StoreStep
  BY <1>4, SessionsStore DEF Fault, PasswordFault, TOTPFault, CodesFault, PasskeysFault,
              Fail, Local, StoreStep
<1>5. CASE Environment
  <2>1. CASE Added
    <3>1. PICK i \in Identifiers, hash \in Hash \cup {None} : AddAccount(i, hash)
      BY <2>1 DEF Added
    <3>2. \E u \in UserIDs, w \in WebAuthnIDs :
             \/ CreateUser(u, i, w)
             \/ hash \in Hash /\ CreatePasswordUser(u, i, w, hash)
      BY <3>1 DEF AddAccount, Fresh
    <3> QED BY <3>2 DEF StoreStep, StoreNext, AccountCall
  <2>2. CASE ~Added
    BY <1>5, <2>2 DEF Environment, Added, Tick, Rest, RevokeAll, Disable, vars, StoreStep,
                StoreNext, SessionCall, AccountCall
  <2> QED BY <2>1, <2>2
<1> QED BY <1>1, <1>2, <1>3, <1>4, <1>5 DEF Next, vars, StoreStep

-----------------------------------------------------------------------------
(* The type invariant.                                                     *)

LEMMA RequestsKept == Typed /\ Next => RequestsOK'
<1> SUFFICES ASSUME Typed, Next PROVE RequestsOK'
  OBVIOUS
<1> USE DEF Typed
<1>1. ASSUME NEW r \in Requests, Step(r) PROVE RequestsOK'
  BY <1>1, SessionsStepOK, PasswordStepOK, TOTPStepOK, CodesStepOK, PasskeysStepOK DEF Step
<1>2. CASE Environment
  <2>1. UNCHANGED req
    BY <1>2 DEF Environment, Tick, Rest, RevokeAll, Disable, AddAccount, sessionVars, vars
  <2> QED BY <2>1 DEF RequestsOK, Shaped
<1> QED BY <1>1, <1>2, CallOK, DeniedOK, FaultOK DEF Next

\* Which steps change what.
Changes ==
    /\ UNCHANGED jar \/ \E r \in Requests : Deliver(r)
    /\ UNCHANGED now \/ Tick
    /\ drawn \subseteq drawn'
    /\ \/ drawn' \subseteq drawn \cup UserIDs \cup WebAuthnIDs \cup Secrets \cup SessionIDs
       \/ \E r \in Requests : \/ SaveNewCode(r) \/ StoreRecoveryCodes(r)
                              \/ SavePasskeyChallenge(r)
    /\ UNCHANGED resets \/ \E r \in Requests : RevokeAfterReset(r)
    /\ \/ UNCHANGED challenges
       \/ \E r \in Requests : SavePasskeyChallenge(r) \/ TakePasskeyChallenge(r)
    /\ UNCHANGED begun \/ \E r \in Requests : SavePasskeyChallenge(r)
    /\ UNCHANGED tries \/ \E r \in Requests : SpendAttempt(r)
    /\ \/ UNCHANGED accepts
       \/ \E r \in Requests : SpendAttempt(r) \/ ConsumeRecovery(r) \/ TakePasskeyChallenge(r)
    /\ \/ /\ UNCHANGED origin
          /\ \A s \in SessionIDs : sessions'[s] \in {None, sessions[s]}
       \/ \E r \in Requests : CreateNew(r)
    /\ UNCHANGED identifiers \/ Added \/ \E r \in Requests : CreateAccount(r)
    /\ \/ UNCHANGED passwords \/ Added
       \/ \E r \in Requests : CreateAccount(r) \/ Rehash(r) \/ ApplyReset(r)
    /\ UNCHANGED totp \/ \E r \in Requests : SetupTOTP(r) \/ ConfirmTOTP(r)
    /\ \/ UNCHANGED recovery
       \/ \E r \in Requests : StoreRecoveryCodes(r) \/ ConsumeRecovery(r)
    /\ \/ UNCHANGED codes
       \/ \E r \in Requests : SaveNewCode(r) \/ WithdrawCode(r) \/ SpendAttempt(r)

LEMMA NextChanges == Next => Changes
<1> USE DEF Local, Elsewhere, history, storeVars, accounts, credentials, Changes, Fresh
<1>1. ASSUME NEW r \in Requests, Call(r) PROVE Changes
  BY <1>1 DEF Call, SessionsCall, PasswordCall, TOTPCall, CodesCall, PasskeysCall, Arrive
<1>2. ASSUME NEW r \in Requests, Denied(r) \/ Fault(r) PROVE Changes
  BY <1>2 DEF Denied, PasswordDenied, TOTPDenied, CodesDenied, PasskeysDenied, Deny,
              Fault, SessionsFault, PasswordFault, TOTPFault, CodesFault, PasskeysFault,
              Fail, IgnoreError, CookieFails, RevokeSession
<1>3. CASE Environment
  BY <1>3 DEF Environment, Tick, Rest, RevokeAll, Disable, sessionVars, vars,
              RevokeUserSessions, SetUserDisabled, Added, AddAccount, CreateUser,
              CreatePasswordUser, AddUser
<1>4. ASSUME NEW r \in Requests, SessionsStep(r) PROVE Changes
  BY <1>4 DEF SessionsStep, ReadSession, ReadUser, DropDisabled, Gate, ReadAgain, ReadLevel,
              EndServing, RotateOld, CreateNew, SetCookie, Logout, Deliver,
              SessionByID, RevokeSession, CreateSession
<1>5. ASSUME NEW r \in Requests, PasswordStep(r) \/ TOTPStep(r) PROVE Changes
  BY <1>5 DEF PasswordStep, CreateAccount, LookupIdentifier, VerifyPassword, CheckHash,
              Rehash, TOTPStep, SetupTOTP, ReadUnconfirmed, ConfirmTOTP,
              StoreRecoveryCodes, CheckTOTP, ConsumeRecovery, CreatePasswordUser,
              SetPassword, SetTOTP, SetRecoveryCodes, ConsumeRecoveryCode
<1>6. ASSUME NEW r \in Requests, CodesStep(r) PROVE Changes
  BY <1>6 DEF CodesStep, LookupRecipient, SaveNewCode, AnswerRequest, SendCode,
              WithdrawCode, SpendAttempt, ReadCodeUser, ApplyLogin, ApplyVerification,
              ApplyReset, RevokeAfterReset, SaveCode, DeleteCode, AttemptCode,
              SetUserVerified, SetPassword, RevokeUserSessions
<1>7. ASSUME NEW r \in Requests, PasskeysStep(r) PROVE Changes
  BY <1>7 DEF PasskeysStep, SavePasskeyChallenge, TakePasskeyChallenge, StorePasskey,
              LookupHandle, CheckAssertion, FindPasskey, SwapCounter, SavePasskey,
              UpdatePasskey
<1> QED BY <1>1, <1>2, <1>3, <1>4, <1>5, <1>6, <1>7 DEF Next, Step

LEMMA ChallengesKept ==
  ASSUME Typed, NEW r \in Requests, SavePasskeyChallenge(r) \/ TakePasskeyChallenge(r)
  PROVE  ChallengesOK'
<1>1. CASE SavePasskeyChallenge(r)
  <2> DEFINE challenge == [kind |-> Kind(req[r].op), user |-> req[r].user,
                           expires |-> now + ChallengeLifetime]
  <2>1. req[r].user \in UserIDs \cup {None}
    BY DEF Typed, RequestsOK, RequestOK
  <2>2. challenge \in Challenge
    BY <2>1, ChallengeAssumption, SessionsAssumption DEF Typed, Kind, Challenge
  <2> HIDE DEF challenge
  <2>3. \E c \in ChallengeIDs : challenges' = [challenges EXCEPT ![c] = challenge]
    BY <1>1 DEF SavePasskeyChallenge, Put, Fresh, challenge
  <2> QED BY <2>2, <2>3 DEF Typed, ChallengesOK
<1>2. CASE TakePasskeyChallenge(r)
  BY <1>2 DEF TakePasskeyChallenge, Take, Typed, ChallengesOK
<1> QED BY <1>1, <1>2

LEMMA InitTyped == Init => Typed
<1> SUFFICES ASSUME Init PROVE Typed
  OBVIOUS
<1>1. TypeOK
  BY InitType DEF Init
<1>2. RequestsOK
  BY IdleOK DEF Init, SessionsInit, RequestsOK, Shaped
<1> QED BY <1>1, <1>2, SessionsAssumption DEF Init, SessionsInit, ChallengesInit, Typed, ChallengesOK

LEMMA TypedKept == Typed /\ [Next]_vars => Typed'
<1> SUFFICES ASSUME Typed, [Next]_vars PROVE Typed'
  OBVIOUS
<1>1. TypeOK'
  BY NextStore, StoreTypeKept DEF StoreStep, Typed
<1>2. CASE UNCHANGED vars
  BY <1>1, <1>2 DEF vars, sessionVars, history, Typed, RequestsOK, Shaped, ChallengesOK
<1>3. CASE Next
  <2>1. jar' \in [Browsers -> SessionIDs \cup {None}]
    <3>1. ASSUME NEW r \in Requests, Deliver(r)
          PROVE  jar' \in [Browsers -> SessionIDs \cup {None}]
      BY <3>1 DEF Deliver, Typed, RequestsOK, RequestOK
    <3> QED BY <1>3, <3>1, NextChanges DEF Changes, Typed
  <2>2. now' \in 0 .. MaxNow
    BY <1>3, NextChanges, SessionsAssumption DEF Changes, Typed, Tick
  <2>3. resets' \in [UserIDs -> Nat]
    BY <1>3, NextChanges DEF Changes, Typed, RevokeAfterReset
  <2>4. ChallengesOK'
    BY <1>3, NextChanges, ChallengesKept DEF Changes, Typed, ChallengesOK
  <2> QED BY <1>1, <1>3, <2>1, <2>2, <2>3, <2>4, RequestsKept DEF Typed
<1> QED BY <1>2, <1>3

LEMMA AlwaysTyped == Spec => []Typed
  BY InitTyped, TypedKept, PTL DEF Spec

\* At every point of every handler the variables it uses there are set to
\* values of their types, whatever other requests do and whatever fails.
THEOREM AuthTypeCorrect == Spec => []AuthTypeOK
<1>1. Typed => AuthTypeOK
  BY DEF Typed, RequestsOK, ChallengesOK, AuthTypeOK
<1> QED BY <1>1, AlwaysTyped, PTL

\* The handlers use the store as any caller may: the plugin implements
\* StoreSpec.
THEOREM ImplementsStore == Spec => StoreSpec
<1>1. Init => StoreInit
  BY DEF Init
<1>2. Typed /\ [Next]_vars => [StoreNext]_storeVars
  BY NextStore DEF StoreStep
<1> QED BY <1>1, <1>2, AlwaysTyped, PTL DEF Spec, StoreSpec

\* Under the handlers, too, the indexes and the rows agree, every credential
\* belongs to an account, no credential ID is used twice, and a code or a
\* session is never replaced.
THEOREM StoreUnderHandlers ==
  Spec => [](IndexesAgree /\ CredentialsOwned /\ PasskeyIDsUnique) /\ TicketsOnlyAge
  BY ImplementsStore, StoreInvariant, TicketsAge

-----------------------------------------------------------------------------
(* How a request moves.                                                    *)

\* The level each kind of login grants.
Grants == [login |-> "password", login_totp |-> "mfa", login_recovery |-> "mfa",
           login_passkey |-> "passkey", verify_code |-> "code"]

\* A request arrives.
Begins(r) ==
    /\ At(r, "idle") /\ Served(req'[r].op)
    /\ \E b \in Browsers : req'[r].cookie = jar[b]
    /\ req'[r].since = resets /\ req'[r].user = None /\ req'[r].level = None
    /\ req'[r].set = None /\ ~req'[r].ok
    /\ req'[r].pc \in {"session", "level", "logout", "register", "lookup", "code_lookup",
                       "attempt", "challenge", "take"}

\* The reply is delivered.
Delivered(r) == At(r, "reply") /\ req'[r] = Idle

\* The handler gives up: no fault, no refusal once it has confirmed a second
\* factor or reset a password.
Refused(r) ==
    /\ req'[r].pc = "reply" /\ req'[r].op = req[r].op /\ ~req'[r].ok
    /\ req'[r].cookie = None /\ req'[r].set = None /\ req'[r].user = None
    /\ FaultsHappen \/ req[r].pc \notin {"recovery", "revoke_user"}

\* The handler succeeds; a cookie goes out with the reply to a login or logout.
Answered(r) ==
    /\ req'[r].pc = "reply" /\ req'[r].op = req[r].op /\ req'[r].ok
    /\ req'[r].cookie = req[r].cookie /\ req'[r].given = req[r].given
    /\ \/ req'[r].set = None
       \/ req[r].pc \in {"cookie", "recovery"} /\ req'[r].set = req[r].set
       \/ At(r, "logout") /\ req'[r].set = "clear" /\ (FaultsHappen \/ Logout(r))
    /\ At(r, "recovery") => StoreRecoveryCodes(r)
    /\ At(r, "revoke_user") => RevokeAfterReset(r)
    /\ req[r].op = "register" => CreateAccount(r)

\* A request goes on to a later point with its input and its cookie, and
\* with what the step before that point found out.
GoesOn(r) ==
    LET q == req[r]
        p == req'[r]
    IN
    /\ p.op = q.op /\ p.cookie = q.cookie /\ p.given = q.given
    /\ p.since = q.since /\ p.ok = q.ok
    /\ p.pc = "cookie" => CreateNew(r)
    /\ p.pc # "cookie" => p.set = q.set
    /\ p.pc \notin {"user", "verify", "save_code", "code_user", "assertion"} => p.user = q.user
    /\ p.pc \notin {"user", "rehash", "rotate"} => p.level = q.level
    /\ p.pc = "user" => /\ SessionRead(q.cookie) /\ p.user = sessions[q.cookie].user
                        /\ p.level = sessions[q.cookie].level
    /\ p.pc \in {"gate", "drop", "again", "setup", "read_totp", "check_totp", "consume",
                 "challenge", "take"} => q.pc \in {"user", "gate"}
    /\ p.pc = "serving" => ReadAgain(r) \/ ReadLevel(r)
    /\ p.pc = "rehash" => p.level = Grants[q.op]
    /\ p.pc = "rotate" => p.level = IF q.pc = "rehash" THEN q.level ELSE Grants[q.op]
    /\ p.pc = "rotate" =>
          \/ q.pc \in {"check_hash", "rehash", "apply", "update"}
          \/ q.pc \in {"check_totp", "consume"} /\ PasswordSession(r)
    /\ p.pc = "create" => q.pc = "rotate" /\ (FaultsHappen \/ RotateOld(r))
    /\ p.pc = "verify" => UserExists(p.user)
    /\ p.pc = "check_hash" => q.pc = "verify" /\ PasswordValid(q.user, q.given.password)
    /\ p.pc = "rehash" => /\ q.pc = "check_hash"
                          /\ \/ FaultsHappen
                             \/ NeedsRehash(q.user)
    /\ q.pc = "check_hash" /\ p.pc = "rotate" => ~NeedsRehash(q.user)
    /\ q.pc = "rehash" => Rehash(r)
    /\ q.pc = "consume" => ConsumeRecovery(r)
    /\ p.pc = "confirm" => q.pc = "read_totp"
    /\ p.pc = "recovery" => ConfirmTOTP(r)
    /\ p.pc = "revoke_user" => ApplyReset(r)
    /\ p.pc = "code_user" => SpendAttempt(r)
    /\ p.pc \in {"save", "handle"} => TakePasskeyChallenge(r)
    /\ p.pc = "apply" => q.pc = "code_user"
    /\ p.pc = "assertion" => q.pc = "handle"
    /\ p.pc = "find" => q.pc = "assertion"
    /\ p.pc = "update" => q.pc = "find"
    /\ p.pc \notin {"session", "level", "logout", "register", "lookup", "code_lookup",
                    "attempt", "reply", "idle"}
    /\ q.pc \notin {"idle", "reply", "cookie", "recovery", "revoke_user"}

\* All that one step does to the requests.
Moves(r) ==
    /\ \A o \in Requests \ {r} : req'[o] = req[o]
    /\ Begins(r) \/ Delivered(r) \/ Refused(r) \/ Answered(r) \/ GoesOn(r)

\* The shared moves: refuse, reply, go on, arrive.
LEMMA RefuseMoves ==
  ASSUME RequestsOK, NEW r \in Requests, Refuse(r),
         FaultsHappen \/ req[r].pc \notin {"recovery", "revoke_user"}
  PROVE  Moves(r)
  BY DEF Refuse, Moves, Refused, RequestsOK, Shaped, Idle

LEMMA ReplyMoves ==
  ASSUME RequestsOK, NEW r \in Requests, NEW set, Reply(r, set),
         \/ set = None
         \/ At(r, "cookie") /\ set = req[r].set
         \/ At(r, "logout") /\ set = "clear" /\ (FaultsHappen \/ Logout(r)),
         At(r, "recovery") => StoreRecoveryCodes(r),
         At(r, "revoke_user") => RevokeAfterReset(r),
         req[r].op = "register" => CreateAccount(r)
  PROVE  Moves(r)
<1>1. /\ \A o \in Requests \ {r} : req'[o] = req[o]
      /\ req'[r].pc = "reply" /\ req'[r].op = req[r].op /\ req'[r].ok
      /\ req'[r].cookie = req[r].cookie /\ req'[r].given = req[r].given /\ req'[r].set = set
  BY DEF Reply, RequestsOK, Shaped, Idle
<1> QED BY <1>1 DEF Moves, Answered, At

LEMMA GotoMoves ==
  ASSUME RequestsOK, NEW r \in Requests, NEW pc, Goto(r, pc)
  PROVE  /\ \A o \in Requests \ {r} : req'[o] = req[o]
         /\ req'[r].pc = pc /\ req'[r].op = req[r].op /\ req'[r].cookie = req[r].cookie
         /\ req'[r].given = req[r].given /\ req'[r].since = req[r].since
         /\ req'[r].ok = req[r].ok /\ req'[r].set = req[r].set /\ req'[r].user = req[r].user
         /\ req'[r].level = req[r].level
  BY DEF Goto, RequestsOK, Shaped, Idle

LEMMA ArriveMoves ==
  ASSUME RequestsOK, NEW r \in Requests, NEW op, NEW b \in Browsers, NEW given, NEW pc,
         Arrive(r, op, b, given, pc),
         pc \in {"session", "level", "logout", "register", "lookup", "code_lookup",
                 "attempt", "challenge", "take"}
  PROVE  Moves(r)
  BY DEF Arrive, Moves, Begins, RequestsOK, Shaped, Idle, At

\* The guards, createSession, logout and the reply.
LEMMA SessionsMoves ==
  ASSUME Typed, NEW r \in Requests, SessionsStep(r)
  PROVE  Moves(r)
<1>0. RequestsOK /\ RequestOK(req[r])
  BY DEF Typed, RequestsOK
<1> USE DEF At
<1>1. CASE ReadSession(r)
  BY <1>0, <1>1, RefuseMoves DEF ReadSession, Moves, GoesOn, RequestsOK, Shaped, Idle
<1>2. CASE ReadUser(r)
  BY <1>0, <1>2, RefuseMoves, GotoMoves DEF ReadUser, Moves, GoesOn, After, Gated, RequestOK, Points
<1>3. CASE DropDisabled(r)
  BY <1>0, <1>3, RefuseMoves DEF DropDisabled
<1>4. CASE Gate(r)
  BY <1>0, <1>4, RefuseMoves, GotoMoves DEF Gate, Moves, GoesOn, After, Gated, RequestOK, Points
<1>5. CASE ReadAgain(r)
  BY <1>0, <1>5, RefuseMoves, GotoMoves DEF ReadAgain, Moves, GoesOn
<1>6. CASE ReadLevel(r)
  BY <1>0, <1>6, RefuseMoves, GotoMoves DEF ReadLevel, Moves, GoesOn
<1>7. CASE EndServing(r)
  BY <1>0, <1>7, ReplyMoves DEF EndServing, RequestOK, Points
<1>8. CASE RotateOld(r)
  BY <1>0, <1>8 DEF RotateOld, Moves, GoesOn, RequestsOK, Shaped, Idle
<1>9. CASE CreateNew(r)
  <2>1. PICK s \in SessionIDs : req' = [req EXCEPT ![r].pc = "cookie", ![r].set = s]
    BY <1>9 DEF CreateNew, Fresh
  <2>2. At(r, "create")
    BY <1>9 DEF CreateNew
  <2> QED BY <1>0, <1>9, <2>1, <2>2 DEF Moves, GoesOn, RequestsOK, Shaped, Idle
<1>10. CASE SetCookie(r)
  BY <1>0, <1>10, ReplyMoves DEF SetCookie, RequestOK, Points, Logins
<1>11. CASE Logout(r)
  BY <1>0, <1>11, ReplyMoves DEF Logout, RequestOK, Points
<1>12. CASE Deliver(r)
  BY <1>0, <1>12 DEF Deliver, Moves, Delivered, RequestsOK, Shaped
<1> QED BY <1>1, <1>2, <1>3, <1>4, <1>5, <1>6, <1>7, <1>8, <1>9, <1>10, <1>11, <1>12 DEF SessionsStep

\* handlers_password.go.
LEMMA PasswordMoves ==
  ASSUME Typed, NEW r \in Requests, PasswordStep(r)
  PROVE  Moves(r)
<1>0. RequestsOK /\ RequestOK(req[r])
  BY DEF Typed, RequestsOK
<1> USE DEF At
<1>1. CASE CreateAccount(r)
  BY <1>0, <1>1, RefuseMoves, ReplyMoves DEF CreateAccount
<1>2. CASE LookupIdentifier(r)
  BY <1>0, <1>2, RefuseMoves DEF LookupIdentifier, Moves, GoesOn, RequestsOK, Shaped, Idle
<1>3. CASE VerifyPassword(r)
  BY <1>0, <1>3, RefuseMoves, GotoMoves DEF VerifyPassword, Moves, GoesOn
<1>4. CASE CheckHash(r)
  <2>1. req[r].op = "login"
    BY <1>0, <1>4 DEF CheckHash, RequestOK, Points
  <2>2. PICK stale \in BOOLEAN :
          /\ stale => FaultsHappen \/ NeedsRehash(req[r].user)
          /\ ~stale => ~NeedsRehash(req[r].user)
          /\ req' = [req EXCEPT ![r].pc = IF stale THEN "rehash" ELSE "rotate",
                                ![r].level = "password"]
    BY <1>4 DEF CheckHash, NeedsRehash
  <2>3. At(r, "check_hash")
    BY <1>4 DEF CheckHash
  <2>4. CASE stale
    BY <1>0, <2>1, <2>2, <2>3, <2>4 DEF Moves, GoesOn, RequestsOK, Shaped, Idle, Grants
  <2>5. CASE ~stale
    BY <1>0, <2>1, <2>2, <2>3, <2>5 DEF Moves, GoesOn, RequestsOK, Shaped, Idle, Grants
  <2> QED BY <2>4, <2>5
<1>5. CASE Rehash(r)
  <2>1. req[r].op = "login" /\ req[r].pc = "rehash" /\ Goto(r, "rotate")
    BY <1>0, <1>5 DEF Rehash, RequestOK, Points
  <2> QED BY <1>0, <1>5, <2>1, GotoMoves DEF Moves, GoesOn, Grants
<1> QED BY <1>1, <1>2, <1>3, <1>4, <1>5 DEF PasswordStep

\* handlers_totp.go.
LEMMA TOTPMoves ==
  ASSUME Typed, NEW r \in Requests, TOTPStep(r)
  PROVE  Moves(r)
<1>0. RequestsOK /\ RequestOK(req[r])
  BY DEF Typed, RequestsOK
<1> USE DEF At
<1>1. CASE SetupTOTP(r)
  BY <1>0, <1>1, ReplyMoves DEF SetupTOTP, RequestOK, Points
<1>2. CASE ReadUnconfirmed(r)
  <2>1. At(r, "read_totp")
    BY <1>2 DEF ReadUnconfirmed
  <2>2. CASE Refuse(r)
    BY <1>0, <2>1, <2>2, RefuseMoves
  <2>3. CASE req' = [req EXCEPT ![r].pc = "confirm", ![r].seen = totp[req[r].user]]
    BY <1>0, <2>1, <2>3 DEF Moves, GoesOn, RequestsOK, Shaped, Idle
  <2> QED BY <1>2, <2>2, <2>3 DEF ReadUnconfirmed
<1>3. CASE ConfirmTOTP(r)
  BY <1>0, <1>3, GotoMoves DEF ConfirmTOTP, Moves, GoesOn
<1>4. CASE StoreRecoveryCodes(r)
  <2>1. PICK set : req' = [req EXCEPT ![r].pc = "reply", ![r].ok = TRUE,
                            ![r].since = None, ![r].seen = set]
    BY <1>4 DEF StoreRecoveryCodes
  <2>2. req[r].op = "totp_confirm" /\ req[r].pc = "recovery"
    BY <1>0, <1>4 DEF StoreRecoveryCodes, RequestOK, Points
  <2> QED BY <1>0, <1>4, <2>1, <2>2 DEF Moves, Answered, RequestsOK, Shaped, Idle
<1>5. CASE CheckTOTP(r)
  <2>1. req[r].op = "login_totp" /\ req[r].pc = "check_totp"
    BY <1>0, <1>5 DEF CheckTOTP, RequestOK, Points
  <2>2. CASE Refuse(r)
    BY <1>0, <2>1, <2>2, RefuseMoves
  <2>3. CASE PasswordSession(r) /\ req' = [req EXCEPT ![r].pc = "rotate", ![r].level = "mfa"]
    BY <1>0, <2>1, <2>3 DEF Moves, GoesOn, RequestsOK, Shaped, Idle, Grants
  <2> QED BY <1>5, <2>2, <2>3 DEF CheckTOTP
<1>6. CASE ConsumeRecovery(r)
  <2>1. req[r].op = "login_recovery" /\ req[r].pc = "consume"
    BY <1>0, <1>6 DEF ConsumeRecovery, RequestOK, Points
  <2> QED BY <1>0, <1>6, <2>1, RefuseMoves DEF ConsumeRecovery, Moves, GoesOn, RequestsOK, Shaped, Idle, Grants
<1> QED BY <1>1, <1>2, <1>3, <1>4, <1>5, <1>6 DEF TOTPStep

\* handlers_codes.go.
LEMMA CodesMoves ==
  ASSUME Typed, NEW r \in Requests, CodesStep(r)
  PROVE  Moves(r)
<1>0. RequestsOK /\ RequestOK(req[r])
  BY DEF Typed, RequestsOK
<1> USE DEF At
<1>1. CASE LookupRecipient(r)
  BY <1>0, <1>1 DEF LookupRecipient, Moves, GoesOn, RequestsOK, Shaped, Idle
<1>2. CASE SaveNewCode(r)
  BY <1>0, <1>2 DEF SaveNewCode, Moves, GoesOn, RequestsOK, Shaped, Idle
<1>3. CASE AnswerRequest(r)
  BY <1>0, <1>3, ReplyMoves DEF AnswerRequest, RequestOK, Points
<1>4. CASE SendCode(r)
  BY <1>0, <1>4, GotoMoves DEF SendCode, Moves, GoesOn
<1>5. CASE WithdrawCode(r)
  BY <1>0, <1>5, GotoMoves DEF WithdrawCode, Moves, GoesOn
<1>6. CASE SpendAttempt(r)
  <2>1. \/ Refuse(r)
        \/ req' = [req EXCEPT ![r].pc = "code_user", ![r].user = codes[req[r].given.id].user]
    BY <1>6 DEF SpendAttempt
  <2>2. At(r, "attempt")
    BY <1>6 DEF SpendAttempt
  <2> QED BY <1>0, <1>6, <2>1, <2>2, RefuseMoves DEF Moves, GoesOn, RequestsOK, Shaped, Idle
<1>7. CASE ReadCodeUser(r)
  BY <1>0, <1>7, RefuseMoves, GotoMoves DEF ReadCodeUser, Moves, GoesOn
<1>8. CASE ApplyLogin(r)
  <2>1. req[r].op = "verify_code" /\ req[r].pc = "apply"
    BY <1>0, <1>8 DEF ApplyLogin, RequestOK, Points
  <2> QED BY <1>0, <1>8, <2>1 DEF ApplyLogin, Moves, GoesOn, RequestsOK, Shaped, Idle, Grants
<1>9. CASE ApplyVerification(r)
  BY <1>0, <1>9, ReplyMoves DEF ApplyVerification, RequestOK, Points
<1>10. CASE ApplyReset(r)
  BY <1>0, <1>10, RefuseMoves, GotoMoves DEF ApplyReset, Moves, GoesOn
<1>11. CASE RevokeAfterReset(r)
  <2>1. req[r].op = "verify_code" /\ req[r].pc = "revoke_user" /\ Reply(r, None)
    BY <1>0, <1>11 DEF RevokeAfterReset, RequestOK, Points
  <2> QED BY <1>0, <1>11, <2>1, ReplyMoves
<1> QED BY <1>1, <1>2, <1>3, <1>4, <1>5, <1>6, <1>7, <1>8, <1>9, <1>10, <1>11 DEF CodesStep

\* handlers_passkey.go.
LEMMA PasskeysMoves ==
  ASSUME Typed, NEW r \in Requests, PasskeysStep(r)
  PROVE  Moves(r)
<1>0. RequestsOK /\ RequestOK(req[r])
  BY DEF Typed, RequestsOK
<1> USE DEF At
<1>1. CASE SavePasskeyChallenge(r)
  BY <1>0, <1>1, ReplyMoves DEF SavePasskeyChallenge, RequestOK, Points
<1>2. CASE TakePasskeyChallenge(r)
  BY <1>0, <1>2, RefuseMoves, GotoMoves DEF TakePasskeyChallenge, Moves, GoesOn
<1>3. CASE StorePasskey(r)
  BY <1>0, <1>3, ReplyMoves, RefuseMoves DEF StorePasskey, RequestOK, Points
<1>4. CASE LookupHandle(r)
  BY <1>0, <1>4, RefuseMoves DEF LookupHandle, Moves, GoesOn, RequestsOK, Shaped, Idle
<1>5. CASE CheckAssertion(r)
  BY <1>0, <1>5, RefuseMoves, GotoMoves DEF CheckAssertion, Moves, GoesOn
<1>6. CASE FindPasskey(r)
  BY <1>0, <1>6, RefuseMoves DEF FindPasskey, Moves, GoesOn, RequestsOK, Shaped, Idle
<1>7. CASE SwapCounter(r)
  <2>1. req[r].op = "login_passkey" /\ req[r].pc = "update"
    BY <1>0, <1>7 DEF SwapCounter, RequestOK, Points
  <2> QED BY <1>0, <1>7, <2>1, RefuseMoves DEF SwapCounter, Moves, GoesOn, RequestsOK, Shaped, Idle, Grants
<1> QED BY <1>1, <1>2, <1>3, <1>4, <1>5, <1>6, <1>7 DEF PasskeysStep

\* Arrivals, refusals and faults.
LEMMA OtherMoves ==
  ASSUME Typed, NEW r \in Requests, Call(r) \/ Denied(r) \/ Fault(r)
  PROVE  Moves(r)
<1>0. RequestsOK /\ RequestOK(req[r])
  BY DEF Typed, RequestsOK
<1>1. CASE Call(r)
  BY <1>0, <1>1, ArriveMoves DEF Call, SessionsCall, PasswordCall, TOTPCall, CodesCall, PasskeysCall
<1>2. CASE Denied(r)
  BY <1>0, <1>2, RefuseMoves DEF Denied, PasswordDenied, TOTPDenied, CodesDenied, PasskeysDenied, Deny
<1>3. CASE FaultsHappen /\ Refuse(r)
  BY <1>0, <1>3, RefuseMoves
<1>4. CASE IgnoreError(r)
  <2>1. CASE At(r, "rotate") /\ req' = [req EXCEPT ![r].pc = "create", ![r].seen = now + SessionLifetime]
    BY <1>0, <1>4, <2>1 DEF IgnoreError, At, Moves, GoesOn, RequestsOK, Shaped, Idle
  <2>2. CASE At(r, "logout") /\ Reply(r, "clear")
    BY <1>0, <1>4, <2>2, ReplyMoves DEF IgnoreError, At, RequestOK, Points
  <2> QED BY <1>0, <1>4, <2>1, <2>2, RefuseMoves DEF IgnoreError
<1> QED BY <1>1, <1>2, <1>3, <1>4 DEF Fault, SessionsFault, PasswordFault, TOTPFault,
           CodesFault, PasskeysFault, Fail, CookieFails

\* One request moves at a time.
LEMMA NextMoves == Typed /\ [Next]_vars => UNCHANGED req \/ \E r \in Requests : Moves(r)
  BY SessionsMoves, PasswordMoves, TOTPMoves, CodesMoves, PasskeysMoves, OtherMoves
     DEF Next, Step, Environment, Tick, Rest, RevokeAll, Disable, AddAccount, sessionVars, vars
=============================================================================
