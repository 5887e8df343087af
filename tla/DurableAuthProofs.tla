-------------------------- MODULE DurableAuthProofs --------------------------
(***************************************************************************)
(* The plugin over the store of the demo, for every set of requests, users *)
(* and tickets and any number of failed writes and restarts.               *)
(*                                                                         *)
(* First, that it is one of the behaviours of JsonStore, so that what      *)
(* JsonStoreProofs shows of any callers holds under the handlers.  Then    *)
(* the sessions and the one-shot tickets: each is followed on both sides,  *)
(* in memory and on file, since a restart makes the one of the other.      *)
(***************************************************************************)
EXTENDS DurableAuth, AuthTicketProofs, JsonStoreProofs

-----------------------------------------------------------------------------
(* Calls and writes.                                                       *)

\* The accounts are changed by a registration and a verification only.
LEMMA UsersChange ==
  ASSUME NEW r \in Requests, Step(r)
  PROVE  UNCHANGED users \/ CreateAccount(r) \/ ApplyVerification(r)
<1> USE DEF Local, Elsewhere, history, storeVars, accounts, credentials
<1>1. CASE SessionsStep(r)
  BY <1>1 DEF SessionsStep, ReadSession, ReadUser, DropDisabled, Gate, ReadAgain, ReadLevel,
              EndServing, RotateOld, CreateNew, SetCookie, Logout, Deliver,
              SessionByID, RevokeSession, CreateSession
<1>2. CASE PasswordStep(r) \/ TOTPStep(r)
  BY <1>2 DEF PasswordStep, LookupIdentifier, VerifyPassword, CheckHash,
              Rehash, TOTPStep, SetupTOTP, ReadUnconfirmed, ConfirmTOTP,
              StoreRecoveryCodes, CheckTOTP, ConsumeRecovery,
              SetPassword, SetTOTP, SetRecoveryCodes, ConsumeRecoveryCode
<1>3. CASE CodesStep(r)
  BY <1>3 DEF CodesStep, LookupRecipient, SaveNewCode, AnswerRequest, SendCode,
              WithdrawCode, SpendAttempt, ReadCodeUser, ApplyLogin,
              ApplyReset, RevokeAfterReset, SaveCode, DeleteCode, AttemptCode,
              SetPassword, RevokeUserSessions
<1>4. CASE PasskeysStep(r)
  BY <1>4 DEF PasskeysStep, SavePasskeyChallenge, TakePasskeyChallenge, StorePasskey,
              LookupHandle, CheckAssertion, FindPasskey, SwapCounter, SavePasskey,
              UpdatePasskey
<1> QED BY <1>1, <1>2, <1>3, <1>4 DEF Step

\* A call that changes something, but no account, is written or not.
LEMMA CallSaved ==
  ASSUME TypeOK, StoreNext, storeVars' # storeVars, UNCHANGED users, Saved
  PROVE  JsonNext
<1>1. CASE AccountCall
  <2>1. ASSUME NEW u \in UserIDs, NEW i \in Identifiers, NEW w \in WebAuthnIDs, AddUser(u, i, w)
        PROVE  FALSE
    <3> DEFINE row == [identifier |-> i, webAuthnID |-> w, verified |-> FALSE, disabled |-> FALSE]
    <3>1. row \in User
      BY DEF User
    <3>2. row # None
      BY <3>1, RowAssumption
    <3> QED BY <2>1, <3>2 DEF AddUser, CanCreateUser, TypeOK
  <2>2. ASSUME NEW u \in UserIDs, NEW b \in BOOLEAN, SetUserDisabled(u, b)
        PROVE  FALSE
    BY <2>2 DEF SetUserDisabled, storeVars, accounts, credentials
  <2> QED BY <1>1, <2>1, <2>2 DEF AccountCall, CreateUser, CreatePasswordUser, JsonNext, JsonAccountCall
<1>2. CASE CredentialCall
  <2>1. ASSUME NEW u \in UserIDs, NEW id \in PasskeyIDs, DeletePasskey(u, id)
        PROVE  \E k \in Passkey : k \in passkeys[u] /\ DeletePasskey(u, k.id)
    <3>1. CASE \E k \in passkeys[u] : k.id = id
      BY <2>1, <3>1 DEF TypeOK
    <3>2. CASE \A k \in passkeys[u] : k.id # id
      <4>1. {p \in passkeys[u] : p.id # id} = passkeys[u]
        BY <3>2
      <4>2. passkeys' = passkeys
        BY <2>1, <4>1 DEF DeletePasskey, TypeOK
      <4> QED BY <2>1, <4>2 DEF DeletePasskey, storeVars, accounts, credentials
    <3> QED BY <3>1, <3>2
  <2> QED BY <1>2, <2>1 DEF CredentialCall, JsonNext, JsonCredentialCall, JsonAccountCall
<1>3. CASE CodeCall
  <2>1. ASSUME NEW c \in CodeIDs, NEW p \in Proof, NEW t \in Times, AttemptCode(c, p, t)
        PROVE  codes[c] # None
    <3>1. SUFFICES ASSUME codes[c] = None PROVE FALSE
      OBVIOUS
    <3>2. codes' = codes
      BY <2>1, <3>1 DEF AttemptCode, Spent, CodeLive, TypeOK
    <3> QED BY <2>1, <3>2 DEF AttemptCode, storeVars, accounts, credentials
  <2> QED BY <1>3, <2>1 DEF CodeCall, JsonNext, JsonCodeCall
<1>4. CASE SessionCall
  <2>1. ASSUME NEW s \in SessionIDs, NEW t \in Times, SessionByID(s, t)
        PROVE  sessions[s] # None /\ ~SessionLive(s, t)
    <3>1. SUFFICES ASSUME sessions[s] = None \/ SessionLive(s, t) PROVE FALSE
      OBVIOUS
    <3>2. sessions' = sessions
      BY <2>1, <3>1 DEF SessionByID, TypeOK
    <3> QED BY <2>1, <3>2 DEF SessionByID, storeVars, accounts, credentials
  <2> QED BY <1>4, <2>1 DEF SessionCall, JsonNext, JsonSessionCall
<1> QED BY <1>1, <1>2, <1>3, <1>4 DEF StoreNext

\* The step that a handler makes at a point where it always writes.
LEMMA StepAt ==
  ASSUME NEW r \in Requests, Step(r)
  PROVE  /\ At(r, "drop") => DropDisabled(r)
         /\ At(r, "rotate") => RotateOld(r)
         /\ At(r, "logout") => Logout(r)
         /\ At(r, "create") => CreateNew(r)
         /\ At(r, "revoke_user") => RevokeAfterReset(r)
         /\ At(r, "withdraw") => WithdrawCode(r)
         /\ At(r, "rehash") => Rehash(r)
         /\ At(r, "confirm") => ConfirmTOTP(r)
         /\ At(r, "apply") => ApplyLogin(r) \/ ApplyVerification(r) \/ ApplyReset(r)
<1> USE DEF At
<1>1. CASE SessionsStep(r)
  BY <1>1 DEF SessionsStep, ReadSession, ReadUser, DropDisabled, Gate, ReadAgain, ReadLevel,
              EndServing, RotateOld, CreateNew, SetCookie, Logout, Deliver
<1>2. CASE PasswordStep(r) \/ TOTPStep(r)
  BY <1>2 DEF PasswordStep, LookupIdentifier, VerifyPassword, CheckHash, CreateAccount,
              Rehash, TOTPStep, SetupTOTP, ReadUnconfirmed, ConfirmTOTP,
              StoreRecoveryCodes, CheckTOTP, ConsumeRecovery
<1>3. CASE CodesStep(r)
  BY <1>3 DEF CodesStep, LookupRecipient, SaveNewCode, AnswerRequest, SendCode,
              WithdrawCode, SpendAttempt, ReadCodeUser, ApplyLogin, ApplyVerification,
              ApplyReset, RevokeAfterReset
<1>4. CASE PasskeysStep(r)
  BY <1>4 DEF PasskeysStep, SavePasskeyChallenge, TakePasskeyChallenge, StorePasskey,
              LookupHandle, CheckAssertion, FindPasskey, SwapCounter
<1> QED BY <1>1, <1>2, <1>3, <1>4 DEF Step

\* A call that writes although it changes nothing.
LEMMA WritesSaved ==
  ASSUME Typed, NEW r \in Requests, Step(r), Writes(r), UNCHANGED storeVars, Saved
  PROVE  JsonNext
<1>0. RequestOK(req[r]) /\ ~FaultsHappen
  BY DurableAssumption DEF Typed, RequestsOK
<1>1. CASE req[r].pc \in {"drop", "rotate", "logout"} /\ req[r].cookie # None
  <2>1. RevokeSession(req[r].cookie) /\ req[r].cookie \in SessionIDs
    BY <1>0, <1>1, StepAt DEF At, DropDisabled, RotateOld, Rotated, Logout, RequestOK
  <2> QED BY <2>1 DEF JsonNext, JsonSessionCall
<1>2. CASE At(r, "revoke_user")
  <2>1. RevokeUserSessions(req[r].user) /\ req[r].user \in UserIDs
    BY <1>0, <1>2, StepAt DEF At, RevokeAfterReset, EndsSessions, RequestOK, UserKnown
  <2> QED BY <2>1 DEF JsonNext, JsonSessionCall
<1>3. CASE At(r, "withdraw")
  <2>1. DeleteCode(req[r].seen) /\ req[r].seen \in CodeIDs
    BY <1>0, <1>3, StepAt DEF At, WithdrawCode, RequestOK
  <2> QED BY <2>1 DEF JsonNext, JsonCodeCall
<1>4. CASE At(r, "rehash") /\ UserExists(req[r].user)
  <2>1. req[r].op = "login" /\ req[r].user \in UserIDs
    BY <1>0, <1>4 DEF At, RequestOK, UserKnown, Points
  <2>2. req[r].given.password \in Passwords
    BY <1>0, <1>4, <2>1, GivenValues DEF RequestOK, Credentials, At
  <2>3. [password |-> req[r].given.password, legacy |-> FALSE] \in Hash
    BY <2>2 DEF Hash
  <2>4. SetPassword(req[r].user, [password |-> req[r].given.password, legacy |-> FALSE])
    BY <1>0, <1>4, StepAt DEF Rehash
  <2> QED BY <2>1, <2>3, <2>4 DEF JsonNext, JsonAccountCall
<1>5. CASE At(r, "confirm")
  <2>1. req[r].seen \in TOTPCredential /\ req[r].user \in UserIDs
    BY <1>0, <1>5 DEF At, RequestOK, UserKnown
  <2>2. [req[r].seen EXCEPT !.confirmed = TRUE] \in TOTPCredential
    BY <2>1 DEF TOTPCredential
  <2>3. SetTOTP(req[r].user, [req[r].seen EXCEPT !.confirmed = TRUE])
    BY <1>5, StepAt DEF ConfirmTOTP
  <2> QED BY <2>1, <2>2, <2>3 DEF JsonNext, JsonCredentialCall
<1>6. CASE At(r, "apply") /\ (\/ req[r].given.purpose = "verify_account"
                             \/ ResetsPassword(req[r].given))
  <2>1. req[r].op = "verify_code" /\ req[r].user \in UserIDs
    BY <1>0, <1>6 DEF At, RequestOK, UserKnown, Points
  <2>2. req[r].given \in CodeAnswer
    BY <1>0, <1>6, <2>1, GivenValues DEF RequestOK, At
  <2>3. CASE req[r].given.purpose = "verify_account"
    <3>1. SetUserVerified(req[r].user, TRUE)
      BY <1>6, <2>3, StepAt DEF ApplyLogin, ApplyVerification, ApplyReset
    <3> QED BY <2>1, <3>1 DEF JsonNext, JsonAccountCall
  <2>4. CASE ResetsPassword(req[r].given)
    <3>1. SetPassword(req[r].user, NewHash(req[r].given.password))
      BY <1>6, <2>4, StepAt DEF ApplyLogin, ApplyVerification, ApplyReset, ResetsPassword
    <3>2. NewHash(req[r].given.password) \in Hash
      BY <2>2, <2>4 DEF CodeAnswer, ResetsPassword, NewHash, Hash
    <3> QED BY <2>1, <3>1, <3>2 DEF JsonNext, JsonAccountCall
  <2> QED BY <1>6, <2>3, <2>4
<1> QED BY <1>1, <1>2, <1>3, <1>4, <1>5, <1>6 DEF Writes, At

\* A handler's step, with its write, is a call of JsonStore or none.
LEMMA ServeFiled ==
  ASSUME Typed, NEW r \in Requests, Serve(r)
  PROVE  [JsonNext]_jsonVars
<1>0. Step(r) /\ [Next]_vars /\ (IF Writes(r) THEN Persist ELSE UNCHANGED file)
  BY DEF Serve, Next
<1>1. CASE UNCHANGED storeVars
  BY <1>0, <1>1, WritesSaved DEF Saved, jsonVars
<1>2. CASE storeVars' # storeVars
  <2>1. Persist /\ StoreNext /\ TypeOK
    BY <1>0, <1>2, NextStore DEF Writes, StoreStep, Typed
  <2>2. CASE UNCHANGED users
    BY <1>2, <2>1, <2>2, CallSaved DEF Saved
  <2>3. CASE CreateAccount(r)
    <3>1. req[r].op = "register" /\ req[r].pc = "register" /\ RequestOK(req[r])
      BY <2>3 DEF CreateAccount, At, Typed, RequestsOK, RequestOK, Points
    <3>2. req[r].given \in Credentials
      BY <3>1, GivenValues DEF RequestOK
    <3>3. [password |-> req[r].given.password, legacy |-> FALSE] \in Hash
      BY <3>2 DEF Credentials, Hash
    <3>4. PICK u \in UserIDs, w \in WebAuthnIDs :
             CreatePasswordUser(u, req[r].given.identifier, w,
                                [password |-> req[r].given.password, legacy |-> FALSE])
      BY <1>2, <2>3 DEF CreateAccount, Fresh
    <3> QED BY <2>1, <3>2, <3>3, <3>4 DEF Credentials, JsonNext, JsonAccountCall
  <2>4. CASE ApplyVerification(r)
    <3>1. SetUserVerified(req[r].user, TRUE) /\ req[r].user \in UserIDs
      BY <2>4 DEF ApplyVerification, SetUserVerified, UserExists
    <3> QED BY <2>1, <3>1 DEF Saved, JsonNext, JsonAccountCall
  <2> QED BY <1>0, <2>2, <2>3, <2>4, UsersChange
<1> QED BY <1>1, <1>2

\* So is one whose write failed and that goes on.
LEMMA GoesFiled ==
  ASSUME Typed, NEW r \in Requests, Goes(r)
  PROVE  [JsonNext]_jsonVars
<1>0. Step(r) /\ [Next]_vars /\ UNCHANGED file /\ req[r].pc \in Dropped
  BY DEF Goes, Next
<1>1. CASE UNCHANGED storeVars
  BY <1>0, <1>1 DEF jsonVars
<1>2. CASE storeVars' # storeVars
  <2>1. StoreNext /\ TypeOK
    BY <1>0, <1>2, NextStore DEF StoreStep, Typed
  <2>2. UNCHANGED users
    BY <1>0, UsersChange DEF Dropped, CreateAccount, ApplyVerification, At
  <2> QED BY <1>0, <1>2, <2>1, <2>2, CallSaved DEF Saved
<1> QED BY <1>1, <1>2

\* And what a handler that gives up has left in memory.
LEMMA LeavesFiled ==
  ASSUME Typed, NEW r \in Requests, Leaves(r), UNCHANGED file
  PROVE  JsonNext
<1> DEFINE u == req[r].user
           g == req[r].given
<1>0. RequestOK(req[r]) /\ Saved
  BY DEF Typed, RequestsOK, Saved
<1>1. CASE At(r, "register") /\ \E v \in Fresh(UserIDs), w \in Fresh(WebAuthnIDs) :
                                   CreateUserFails(v, g.identifier, w) /\ Draw({v, w})
  <2>1. req[r].op = "register" /\ req[r].pc = "register"
    BY <1>0, <1>1 DEF At, RequestOK, Points
  <2>2. g \in Credentials
    BY <1>0, <2>1, GivenValues DEF RequestOK
  <2> QED BY <1>1, <2>2 DEF Credentials, Fresh, JsonNext, JsonAccountCall
<1>2. CASE At(r, "setup") /\ \E x \in Fresh(Secrets) :
                                SetTOTP(u, [secret |-> x, confirmed |-> FALSE]) /\ Draw({x})
  <2>1. PICK x \in Secrets : SetTOTP(u, [secret |-> x, confirmed |-> FALSE])
    BY <1>2 DEF Fresh
  <2>2. [secret |-> x, confirmed |-> FALSE] \in TOTPCredential
    BY DEF TOTPCredential
  <2>3. u \in UserIDs
    BY <2>1 DEF SetTOTP, UserExists
  <2> QED BY <1>0, <2>1, <2>2, <2>3 DEF JsonNext, JsonCredentialCall
<1>3. CASE At(r, "confirm") /\ SetTOTP(u, [req[r].seen EXCEPT !.confirmed = TRUE])
  <2>1. req[r].seen \in TOTPCredential /\ u \in UserIDs
    BY <1>0, <1>3 DEF At, RequestOK, UserKnown
  <2>2. [req[r].seen EXCEPT !.confirmed = TRUE] \in TOTPCredential
    BY <2>1 DEF TOTPCredential
  <2> QED BY <1>0, <1>3, <2>1, <2>2 DEF JsonNext, JsonCredentialCall
<1>4. CASE At(r, "recovery") /\ \E set \in SUBSET Fresh(RecoveryCodes) : SetRecoveryCodes(u, set)
  <2>1. PICK set \in SUBSET RecoveryCodes : SetRecoveryCodes(u, set)
    BY <1>4 DEF Fresh
  <2>2. u \in UserIDs
    BY <2>1 DEF SetRecoveryCodes, UserExists
  <2> QED BY <1>0, <2>1, <2>2 DEF JsonNext, JsonCredentialCall
<1>5. CASE At(r, "consume") /\ ConsumeRecoveryCode(u, g)
  <2>1. req[r].op = "login_recovery" /\ req[r].pc = "consume" /\ u \in UserIDs
    BY <1>0, <1>5 DEF At, RequestOK, Points, UserKnown
  <2>2. g \in RecoveryCodes
    BY <1>0, <2>1, GivenValues DEF RequestOK
  <2> QED BY <1>0, <1>5, <2>1, <2>2 DEF JsonNext, JsonCredentialCall
<1>6. CASE At(r, "save_code") /\ \E c \in Fresh(CodeIDs) : SaveCode(c, NewCode(r)) /\ Draw({c})
  <2>1. NewCode(r) \in OneTimeCode /\ NewCode(r).attempts = 0
    BY <1>6, NewCodeTyped
  <2> QED BY <1>0, <1>6, <2>1 DEF Fresh, JsonNext, JsonCodeCall
<1>7. CASE /\ At(r, "attempt") /\ codes[g.id] # None
           /\ AttemptCode(g.id, ProofOf(g), now) /\ Draw({})
  <2>1. req[r].op = "verify_code" /\ req[r].pc = "attempt"
    BY <1>0, <1>7 DEF At, RequestOK, Points
  <2>2. g \in CodeAnswer
    BY <1>0, <2>1, GivenValues DEF RequestOK
  <2>3. g.id \in CodeIDs /\ ProofOf(g) \in Proof /\ now \in Times
    BY <2>2, SessionsAssumption DEF CodeAnswer, ProofOf, Proof, Typed
  <2> QED BY <1>0, <1>7, <2>3 DEF JsonNext, JsonCodeCall
<1>8. CASE SetUserVerified(u, TRUE)
  <2>1. u \in UserIDs
    BY <1>8 DEF SetUserVerified, UserExists
  <2> QED BY <1>0, <1>8, <2>1 DEF JsonNext, JsonAccountCall
<1>9. CASE At(r, "apply") /\ ResetsPassword(g) /\ SetPassword(u, NewHash(g.password))
  <2>1. req[r].op = "verify_code" /\ req[r].pc = "apply"
    BY <1>0, <1>9 DEF At, RequestOK, Points
  <2>2. g \in CodeAnswer
    BY <1>0, <2>1, GivenValues DEF RequestOK
  <2>3. NewHash(g.password) \in Hash /\ u \in UserIDs
    BY <1>9, <2>2 DEF CodeAnswer, ResetsPassword, NewHash, Hash, SetPassword, UserExists
  <2> QED BY <1>0, <1>9, <2>3 DEF JsonNext, JsonAccountCall
<1>10. CASE At(r, "create") /\ \E s \in Fresh(SessionIDs) : CreateSession(s, NewSession(r)) /\ Draw({s})
  <2>1. NewSession(r) \in Session
    BY <1>0, <1>10, SessionsAssumption DEF At, RequestOK, UserKnown, LevelKnown, NewSession, Session
  <2> QED BY <1>0, <1>10, <2>1 DEF Fresh, JsonNext, JsonSessionCall
<1> QED BY <1>1, <1>2, <1>3, <1>4, <1>5, <1>6, <1>7, <1>8, <1>9, <1>10 DEF Leaves

\* A handler that gives up, and a restart, leave the types.
LEMMA GivesUpTyped ==
  ASSUME Typed, TypeOK', NEW r \in Requests, GivesUp(r)
  PROVE  Typed'
<1>1. req[r].pc # "idle"
  BY DEF GivesUp, Leaves, At
<1>2. RequestsOK'
  BY <1>1, RefuseOK DEF GivesUp, Typed
<1> QED BY <1>2 DEF GivesUp, Typed, ChallengesOK, history

LEMMA RestartTyped ==
  ASSUME Typed, TypeOK', Restart
  PROVE  Typed'
<1>1. RequestsOK'
  BY IdleOK DEF Restart, RequestsOK, Shaped
<1> QED BY <1>1 DEF Restart, Typed, ChallengesOK, history

\* Every step is a call of JsonStore or none, and keeps the types.
LEMMA StepFiled ==
  ASSUME Typed, JsonTypeOK, [DurableNext]_durableVars
  PROVE  [JsonNext]_jsonVars /\ Typed' /\ JsonTypeOK'
<1>0. (JsonTypeOK => TypeOK)'
  BY MemoryTyped, PTL DEF JsonTypeOK
<1>1. CASE UNCHANGED durableVars
  <2>1. UNCHANGED vars /\ UNCHANGED jsonVars
    BY <1>1 DEF durableVars, vars, jsonVars
  <2> QED BY <2>1, TypedKept, JsonTypeKept
<1>2. ASSUME NEW r \in Requests, Serve(r) \/ Goes(r)
      PROVE  [JsonNext]_jsonVars /\ Typed' /\ JsonTypeOK'
  <2>1. [Next]_vars
    BY <1>2 DEF Serve, Goes, Next
  <2> QED BY <1>2, <2>1, ServeFiled, GoesFiled, TypedKept, JsonTypeKept
<1>3. ASSUME NEW r \in Requests, GivesUp(r)
      PROVE  [JsonNext]_jsonVars /\ Typed' /\ JsonTypeOK'
  <2>1. JsonNext
    BY <1>3, LeavesFiled DEF GivesUp
  <2> QED BY <1>0, <1>3, <2>1, GivesUpTyped, JsonTypeKept
<1>4. CASE Restart
  <2>1. JsonNext
    BY <1>4 DEF Restart, JsonNext
  <2> QED BY <1>0, <1>4, <2>1, RestartTyped, JsonTypeKept
<1>5. CASE Quietly(Tick) \/ Quietly(Rest)
  <2>1. [Next]_vars /\ UNCHANGED storeVars /\ UNCHANGED file
    BY <1>5 DEF Quietly, Next, Environment, Tick, Rest, vars
  <2>2. UNCHANGED jsonVars
    BY <2>1 DEF jsonVars
  <2> QED BY <2>1, <2>2, TypedKept, JsonTypeKept
<1>6. ASSUME NEW r \in Requests, Quietly(Call(r)) \/ Quietly(Denied(r))
      PROVE  [JsonNext]_jsonVars /\ Typed' /\ JsonTypeOK'
  <2>1. [Next]_vars /\ UNCHANGED storeVars /\ UNCHANGED file
    BY <1>6 DEF Quietly, Next, Call, SessionsCall, PasswordCall, TOTPCall, CodesCall,
                PasskeysCall, Arrive, Denied, PasswordDenied, TOTPDenied, CodesDenied,
                PasskeysDenied, Deny, Local
  <2>2. UNCHANGED jsonVars
    BY <2>1 DEF jsonVars
  <2> QED BY <2>1, <2>2, TypedKept, JsonTypeKept
<1> QED BY <1>1, <1>2, <1>3, <1>4, <1>5, <1>6 DEF DurableNext, WriteFails

LEMMA InitFiled == DurableInit => JsonInit /\ Typed /\ JsonTypeOK
<1> SUFFICES ASSUME DurableInit PROVE JsonInit /\ Typed /\ JsonTypeOK
  OBVIOUS
<1>1. JsonInit /\ Typed
  BY InitTyped DEF DurableInit, Init, JsonInit
<1> QED BY <1>1, MemoryTyped, WrittenTyped DEF Typed, JsonInit, JsonTypeOK

LEMMA AlwaysFiled == DurableSpec => [](Typed /\ JsonTypeOK)
  BY InitFiled, StepFiled, PTL DEF DurableSpec

\* Whatever writes fail and whenever the process is started again, the
\* handlers use the demo's store as any caller may.
THEOREM ImplementsJsonStore == DurableSpec => JsonSpec
  BY InitFiled, StepFiled, AlwaysFiled, PTL DEF DurableSpec, JsonSpec

\* So under the handlers, too, a restart loads consistent maps of the types
\* the code declares, with the accounts that were answered and no other.
THEOREM DurableTypeCorrect == DurableSpec => []JsonTypeOK
  BY ImplementsJsonStore, JsonTypeCorrect, PTL

THEOREM DurableSameAccounts == DurableSpec => []SameAccounts
  BY ImplementsJsonStore, SameAccountsAlways, PTL

THEOREM DurableFileConsistent == DurableSpec => []FileConsistent
  BY ImplementsJsonStore, FileAlwaysConsistent, PTL

-----------------------------------------------------------------------------
(* Sessions.                                                               *)

\* Cookies and new sessions move along with their requests.
LEMMA IDsMove ==
  ASSUME Typed, [Next]_vars, NEW r \in Requests
  PROVE  /\ \/ req'[r].cookie \in {None, req[r].cookie}
            \/ \E b \in Browsers : req'[r].cookie = jar[b]
         /\ req'[r].set \in SessionIDs => req'[r].set = req[r].set \/ CreateNew(r)
<1>0. None \notin SessionIDs /\ "clear" \notin SessionIDs
  BY NoneAssumption, UnsetAssumption
<1>1. CASE req'[r] = req[r]
  BY <1>1
<1>2. CASE Moves(r)
  <2>1. CASE Begins(r)
    BY <1>0, <2>1 DEF Begins
  <2>2. CASE Delivered(r)
    BY <1>0, <2>2 DEF Delivered, Idle
  <2>3. CASE Refused(r)
    BY <1>0, <2>3 DEF Refused
  <2>4. CASE Answered(r)
    BY <1>0, <2>4 DEF Answered
  <2>5. CASE GoesOn(r)
    BY <2>5 DEF GoesOn
  <2> QED BY <1>2, <2>1, <2>2, <2>3, <2>4, <2>5 DEF Moves
<1>3. ASSUME NEW o \in Requests \ {r}, Moves(o) PROVE req'[r] = req[r]
  BY <1>3 DEF Moves
<1> QED BY <1>1, <1>2, <1>3, NextMoves

\* And from a reply into a jar.
LEMMA JarMoves ==
  ASSUME Typed, [Next]_vars, NEW b \in Browsers
  PROVE  \/ jar'[b] \in {None, jar[b]}
         \/ \E r \in Requests : jar'[b] = req[r].set /\ req[r].set \in SessionIDs
<1>1. ASSUME NEW r \in Requests, Deliver(r)
      PROVE  \/ jar'[b] \in {None, jar[b]}
             \/ jar'[b] = req[r].set /\ req[r].set \in SessionIDs
  <2>1. req[r].set \in SessionIDs \cup {None, "clear"}
    BY DEF Typed, RequestsOK, RequestOK
  <2>2. jar \in [Browsers -> SessionIDs \cup {None}]
    BY DEF Typed
  <2> QED BY <1>1, <2>1, <2>2 DEF Deliver
<1> QED BY <1>1, NextChanges DEF Changes, vars, sessionVars

\* Every session ID in use was drawn.
Known ==
    /\ \A b \in Browsers : jar[b] # None => jar[b] \in drawn
    /\ \A r \in Requests :
          /\ req[r].cookie # None => req[r].cookie \in drawn
          /\ req[r].set \in SessionIDs => req[r].set \in drawn

\* A session is the same in memory and on file, where it is on both sides.
SessionsFiled ==
    \A s \in SessionIDs :
        /\ sessions[s] # None \/ file.sessions[s] # None => s \in drawn
        /\ sessions[s] # None /\ file.sessions[s] # None => sessions[s] = file.sessions[s]

\* A step of the handlers or around them, with its write if it has one.
Runs ==
    /\ \/ \E r \in Requests : Serve(r)
       \/ UNCHANGED ended /\ \E r \in Requests : Goes(r) \/ GivesUp(r)
       \/ [Next]_vars /\ UNCHANGED <<storeVars, drawn, history, file, ended>>
    /\ Saved

\* A restart is the only other one.
LEMMA RunsOrRestarts ==
  ASSUME [DurableNext]_durableVars
  PROVE  Runs \/ Restart
<1>1. CASE UNCHANGED durableVars
  <2>1. UNCHANGED <<vars, file, ended>>
    BY <1>1 DEF durableVars
  <2> QED BY <2>1 DEF vars, sessionVars, Runs, Saved
<1>2. ASSUME NEW r \in Requests, Serve(r) \/ (UNCHANGED ended /\ (Goes(r) \/ GivesUp(r)))
      PROVE  Runs
  BY <1>2 DEF Runs, Serve, Goes, GivesUp, Saved
<1>3. CASE Quietly(Tick) \/ Quietly(Rest)
  BY <1>3 DEF Quietly, Next, Environment, Tick, Rest, vars, sessionVars, Runs, Saved
<1>4. ASSUME NEW r \in Requests, Quietly(Call(r)) \/ Quietly(Denied(r)) PROVE Runs
  BY <1>4 DEF Quietly, Next, Call, SessionsCall, PasswordCall, TOTPCall, CodesCall,
              PasskeysCall, Arrive, Denied, PasswordDenied, TOTPDenied, CodesDenied,
              PasskeysDenied, Deny, Local, Runs, Saved
<1> QED BY <1>1, <1>2, <1>3, <1>4 DEF DurableNext, WriteFails

\* What a call left behind is one map changed, and one kind of value drawn.
LEMMA LeavesSessions ==
  ASSUME Typed, NEW r \in Requests, Leaves(r)
  PROVE  /\ drawn \subseteq drawn'
         /\ \/ UNCHANGED sessions
            \/ \E s \in SessionIDs \ drawn :
                  /\ s \in drawn'
                  /\ \A t \in SessionIDs \ {s} : sessions'[t] = sessions[t]
<1>1. drawn \subseteq drawn'
  BY DEF Leaves, Draw
<1>2. CASE \E s \in Fresh(SessionIDs) : CreateSession(s, NewSession(r)) /\ Draw({s})
  BY <1>1, <1>2 DEF CreateSession, Fresh, Draw, Typed, TypeOK
<1>3. CASE UNCHANGED sessions
  BY <1>1, <1>3
<1> QED BY <1>2, <1>3 DEF Leaves, CreateUserFails, SetTOTP, SetRecoveryCodes, ConsumeRecoveryCode,
              SaveCode, AttemptCode, SetUserVerified, SetPassword

\* While the process runs a session only goes, unless its ID is just drawn.
LEMMA SessionsRun ==
  ASSUME Typed, Runs
  PROVE  /\ drawn \subseteq drawn'
         /\ file'.sessions = file.sessions \/ file'.sessions = sessions'
         /\ \A s \in SessionIDs : \/ sessions'[s] \in {None, sessions[s]}
                                  \/ s \in drawn' /\ s \notin drawn
<1>1. file'.sessions = file.sessions \/ file'.sessions = sessions'
  <2>1. (Written.sessions = sessions)'
    BY WrittenFields, PTL
  <2> QED BY <2>1 DEF Runs, Saved, Persist
<1>2. ASSUME [Next]_vars
      PROVE  /\ drawn \subseteq drawn'
             /\ \A s \in SessionIDs : \/ sessions'[s] \in {None, sessions[s]}
                                      \/ s \in drawn' /\ s \notin drawn
  <2>1. ASSUME NEW r \in Requests, CreateNew(r), NEW s \in SessionIDs
        PROVE  sessions'[s] = sessions[s] \/ (s \in drawn' /\ s \notin drawn)
    BY <2>1 DEF CreateNew, CreateSession, Fresh, Typed, TypeOK
  <2>2. drawn \subseteq drawn'
    BY <1>2, NextChanges DEF Changes, vars, sessionVars
  <2> QED BY <1>2, <2>1, <2>2, NextChanges DEF Changes, vars, storeVars
<1>3. ASSUME NEW r \in Requests, Serve(r) \/ Goes(r) PROVE [Next]_vars
  BY <1>3 DEF Serve, Goes, Next
<1> QED BY <1>1, <1>2, <1>3, LeavesSessions DEF Runs, GivesUp

LEMMA KnownKept ==
  ASSUME Typed, Known, Runs \/ Restart
  PROVE  Known'
<1>0. None \notin SessionIDs
  BY NoneAssumption
<1>1. CASE Restart
  BY <1>0, <1>1 DEF Restart, Known, Idle
<1>2. CASE [Next]_vars
  <2>1. drawn \subseteq drawn'
    BY <1>2, NextChanges DEF Changes, vars, sessionVars
  <2>2. ASSUME NEW b \in Browsers PROVE jar'[b] # None => jar'[b] \in drawn'
    BY <1>2, <2>1, JarMoves DEF Known
  <2>3. ASSUME NEW r \in Requests PROVE req'[r].cookie # None => req'[r].cookie \in drawn'
    BY <1>2, <2>1, IDsMove DEF Known
  <2>4. ASSUME NEW r \in Requests, CreateNew(r) PROVE req'[r].set \in drawn'
    BY <2>4 DEF CreateNew, Typed, RequestsOK, Shaped, Idle
  <2>5. ASSUME NEW r \in Requests PROVE req'[r].set \in SessionIDs => req'[r].set \in drawn'
    BY <1>2, <2>1, <2>4, IDsMove DEF Known
  <2> QED BY <2>2, <2>3, <2>5 DEF Known
<1>3. ASSUME NEW r \in Requests, GivesUp(r) PROVE Known'
  <2>1. drawn \subseteq drawn' /\ UNCHANGED jar
    BY <1>3, LeavesSessions DEF GivesUp
  <2>2. ASSUME NEW o \in Requests
        PROVE  req'[o] = req[o] \/ (req'[o].cookie = None /\ req'[o].set = None)
    BY <1>3 DEF GivesUp, Refuse, Typed, RequestsOK, Shaped, Idle
  <2> QED BY <1>0, <2>1, <2>2 DEF Known
<1>4. ASSUME NEW r \in Requests, Serve(r) \/ Goes(r) PROVE [Next]_vars
  BY <1>4 DEF Serve, Goes, Next
<1> QED BY <1>1, <1>2, <1>3, <1>4 DEF Runs

LEMMA SessionsFiledKept ==
  ASSUME Typed, SessionsFiled, Runs \/ Restart
  PROVE  SessionsFiled'
<1>1. CASE Restart
  BY <1>1 DEF Restart, Reopen, Load, SessionsFiled
<1>2. CASE Runs
  BY <1>2, SessionsRun DEF SessionsFiled
<1> QED BY <1>1, <1>2

\* Where a step tells the end of a session, the session is gone, on both sides.
LEMMA EndsWritten ==
  ASSUME Typed, Known, SessionsFiled, NEW r \in Requests, Serve(r), NEW s \in Ends(r)
  PROVE  s \in SessionIDs /\ s \in drawn /\ sessions'[s] = None /\ file'.sessions[s] = None
<1>0. RequestOK(req[r]) /\ ~FaultsHappen /\ (Written.sessions = sessions)'
  <2>1. (Written.sessions = sessions)'
    BY WrittenFields, PTL
  <2> QED BY <2>1, DurableAssumption DEF Typed, RequestsOK
<1>1. CASE req[r].pc \in {"drop", "rotate", "logout"}
  <2>1. s = req[r].cookie /\ s # None /\ s \in SessionIDs /\ s \in drawn
    <3>1. Ends(r) = {req[r].cookie} \ {None}
      BY <1>1 DEF Ends, At
    <3> QED BY <1>0, <3>1 DEF Known, RequestOK
  <2>2. RevokeSession(s)
    BY <1>1, <2>1, StepAt DEF Serve, At, DropDisabled, RotateOld, Rotated, Logout
  <2>3. Persist
    BY <1>1, <2>1 DEF Serve, Writes
  <2> QED BY <1>0, <2>1, <2>2, <2>3 DEF RevokeSession, Persist
<1>2. CASE At(r, "revoke_user")
  <2>1. /\ s \in SessionIDs
        /\ \/ sessions[s] # None /\ sessions[s].user = req[r].user
           \/ file.sessions[s] # None /\ file.sessions[s].user = req[r].user
    BY <1>2 DEF Ends, At, memory
  <2>2. s \in drawn /\ (sessions[s] = None \/ sessions[s].user = req[r].user)
    BY <2>1 DEF SessionsFiled
  <2>3. RevokeUserSessions(req[r].user) /\ Persist
    BY <1>0, <1>2, StepAt DEF Serve, Writes, RevokeAfterReset, EndsSessions, At
  <2> QED BY <1>0, <2>1, <2>2, <2>3 DEF RevokeUserSessions, Persist
<1> QED BY <1>1, <1>2 DEF Ends

\* A session that was ended is gone on both sides, and its ID is taken.
EndedGone == EndedForGood /\ \A s \in ended : s \in SessionIDs /\ s \in drawn

LEMMA EndedGoneKept ==
  ASSUME Typed, Known, SessionsFiled, EndedGone, Runs \/ Restart
  PROVE  EndedGone'
<1>1. CASE Restart
  BY <1>1 DEF Restart, Reopen, Load, EndedGone, EndedForGood
<1>2. CASE Runs
  <2>1. \A s \in ended : /\ sessions'[s] = None /\ file'.sessions[s] = None
                         /\ s \in SessionIDs /\ s \in drawn'
    BY <1>2, SessionsRun DEF EndedGone, EndedForGood
  <2>2. CASE UNCHANGED ended
    BY <2>1, <2>2 DEF EndedGone, EndedForGood
  <2>3. ASSUME NEW r \in Requests, Serve(r) PROVE EndedGone'
    <3>1. drawn \subseteq drawn' /\ ended' = ended \cup Ends(r)
      BY <1>2, <2>3, SessionsRun DEF Serve
    <3> QED BY <2>1, <2>3, <3>1, EndsWritten DEF EndedGone, EndedForGood
  <2> QED BY <1>2, <2>2, <2>3 DEF Runs
<1> QED BY <1>1, <1>2

\* A session that is created and answered changes the maps.
LEMMA CreateChanges ==
  ASSUME Typed, NEW r \in Requests, CreateNew(r)
  PROVE  storeVars' # storeVars /\ req'[r] # req[r] /\ At(r, "create")
<1>1. PICK s \in SessionIDs : CreateSession(s, NewSession(r))
  BY DEF CreateNew, Fresh
<1>2. NewSession(r) \in Session
  BY SessionsAssumption DEF CreateNew, At, Typed, RequestsOK, RequestOK, UserKnown,
                            LevelKnown, NewSession, Session
<1>3. sessions'[s] # sessions[s]
  BY <1>1, <1>2, RowAssumption DEF CreateSession, CanCreateSession, Typed, TypeOK
<1>4. storeVars' # storeVars
  BY <1>3 DEF storeVars
<1> QED BY <1>4 DEF CreateNew, At, Typed, RequestsOK, Shaped, Idle

\* A cookie that is sent names a session that is on file as in memory.
LEMMA SentOnFileKept ==
  ASSUME Typed, Known, SentOnFile, Runs \/ Restart
  PROVE  SentOnFile'
<1>0. None \notin SessionIDs
  BY NoneAssumption
<1>1. CASE Restart
  BY <1>0, <1>1 DEF Restart, SentOnFile, Idle
<1>2. ASSUME Runs, NEW r \in Requests, req'[r].set = req[r].set, req'[r].set \in SessionIDs,
             sessions'[req'[r].set] # None
      PROVE  file'.sessions[req'[r].set] = sessions'[req'[r].set]
  <2> DEFINE s == req[r].set
  <2>1. s \in SessionIDs /\ s \in drawn
    BY <1>2 DEF Known
  <2>2. sessions'[s] = sessions[s] /\ file.sessions[s] = sessions[s]
    BY <1>2, <2>1, SessionsRun DEF SentOnFile
  <2> QED BY <1>2, <2>2, SessionsRun
<1>3. ASSUME NEW o \in Requests, Serve(o) \/ Goes(o), NEW r \in Requests, CreateNew(r)
      PROVE  file'.sessions = sessions'
  <2>1. Moves(o) /\ storeVars' # storeVars /\ req'[r] # req[r] /\ At(r, "create")
    BY <1>3, CreateChanges, SessionsMoves, PasswordMoves, TOTPMoves, CodesMoves, PasskeysMoves
       DEF Serve, Goes, Step
  <2>2. Serve(o)
    BY <1>3, <2>1 DEF Moves, Goes, Dropped, At
  <2>3. (Written.sessions = sessions)'
    BY WrittenFields, PTL
  <2> QED BY <2>1, <2>2, <2>3 DEF Serve, Writes, Persist
<1>4. ASSUME Runs, NEW o \in Requests, Serve(o) \/ Goes(o) PROVE SentOnFile'
  <2>1. [Next]_vars
    BY <1>4 DEF Serve, Goes, Next
  <2> QED BY <1>2, <1>3, <1>4, <2>1, IDsMove DEF SentOnFile
<1>5. ASSUME Runs, NEW o \in Requests, GivesUp(o) PROVE SentOnFile'
  <2>1. ASSUME NEW r \in Requests PROVE req'[r] = req[r] \/ req'[r].set = None
    BY <1>5 DEF GivesUp, Refuse, Typed, RequestsOK, Shaped, Idle
  <2> QED BY <1>0, <1>2, <1>5, <2>1 DEF SentOnFile
<1>6. ASSUME Runs, [Next]_vars, UNCHANGED storeVars PROVE SentOnFile'
  <2>1. \A r \in Requests : ~CreateNew(r)
    BY <1>6, CreateChanges
  <2> QED BY <1>2, <1>6, <2>1, IDsMove DEF SentOnFile
<1> QED BY <1>1, <1>4, <1>5, <1>6 DEF Runs

\* All of it, for the sessions.
SessionsSafe == Known /\ SessionsFiled /\ EndedGone /\ SentOnFile

LEMMA InitSafe == DurableInit => SessionsSafe
<1> SUFFICES ASSUME DurableInit PROVE SessionsSafe
  OBVIOUS
<1>1. file.sessions = sessions
  BY WrittenFields DEF DurableInit
<1> QED BY <1>1, NoneAssumption DEF DurableInit, Init, StoreInit, SessionsInit, Idle, SessionsSafe,
           Known, SessionsFiled, EndedGone, EndedForGood, SentOnFile

LEMMA AlwaysSafe == DurableSpec => []SessionsSafe
<1>1. Typed /\ SessionsSafe /\ [DurableNext]_durableVars => SessionsSafe'
  BY RunsOrRestarts, KnownKept, SessionsFiledKept, EndedGoneKept, SentOnFileKept DEF SessionsSafe
<1> QED BY <1>1, InitSafe, AlwaysFiled, PTL DEF DurableSpec

\* A session whose end was told stays ended after any failed write and any
\* restart: memory and file forget it together or one after the other, and
\* neither brings it back to the other.
THEOREM EndedStayEnded == DurableSpec => []EndedForGood
  BY AlwaysSafe, PTL DEF SessionsSafe, EndedGone

\* A cookie that is sent names a session that a restart will find.
THEOREM SentStayOnFile == DurableSpec => []SentOnFile
  BY AlwaysSafe, PTL DEF SessionsSafe

-----------------------------------------------------------------------------
(* One-time codes.                                                         *)

\* A handler that goes on after a failed write has compared nothing.
LEMMA GoesQuietly ==
  ASSUME NEW r \in Requests, Goes(r)
  PROVE  UNCHANGED <<tries, accepts, recovery, drawn>>
<1> USE DEF Goes, Dropped, At, Local, Elsewhere, history, storeVars, accounts, credentials
<1>1. CASE SessionsStep(r)
  BY <1>1 DEF SessionsStep, ReadSession, ReadUser, DropDisabled, Gate, ReadAgain, ReadLevel,
              EndServing, RotateOld, CreateNew, SetCookie, Logout, Deliver,
              SessionByID, RevokeSession
<1>2. CASE PasswordStep(r) \/ TOTPStep(r)
  BY <1>2 DEF PasswordStep, LookupIdentifier, VerifyPassword, CheckHash, CreateAccount,
              Rehash, TOTPStep, SetupTOTP, ReadUnconfirmed, ConfirmTOTP,
              StoreRecoveryCodes, CheckTOTP, ConsumeRecovery, SetPassword
<1>3. CASE CodesStep(r)
  BY <1>3 DEF CodesStep, LookupRecipient, SaveNewCode, AnswerRequest, SendCode,
              WithdrawCode, SpendAttempt, ReadCodeUser, ApplyLogin, ApplyVerification,
              ApplyReset, RevokeAfterReset, DeleteCode, RevokeUserSessions
<1>4. CASE PasskeysStep(r)
  BY <1>4 DEF PasskeysStep, SavePasskeyChallenge, TakePasskeyChallenge, StorePasskey,
              LookupHandle, CheckAssertion, FindPasskey, SwapCounter
<1> QED BY <1>1, <1>2, <1>3, <1>4 DEF Step

\* What a step does to the codes when it compares no answer that is told:
\* they stay, go, come from the file, are new, or have attempts counted.
CodesAge ==
    /\ UNCHANGED tries /\ \A c \in CodeIDs : accepts'[c] = accepts[c]
    /\ file'.codes = file.codes \/ file'.codes = codes'
    /\ \A c \in CodeIDs :
          \/ codes'[c] \in {None, codes[c], file.codes[c]} /\ (c \in drawn' <=> c \in drawn)
          \/ /\ codes[c] # None /\ codes'[c] # None /\ (c \in drawn' <=> c \in drawn)
             /\ codes'[c].attempts = codes[c].attempts + 1
          \/ /\ c \notin drawn /\ c \in drawn'
             /\ codes'[c] # None /\ codes'[c].attempts = 0

\* And when it does: the outcome is written, whole.
CodesSpend ==
    /\ file'.codes = codes' /\ drawn' \cap CodeIDs = drawn \cap CodeIDs
    /\ \E c \in CodeIDs, right \in BOOLEAN :
          /\ codes[c] # None
          /\ tries' = [tries EXCEPT ![c] = @ + 1]
          /\ accepts'[c] = IF right THEN accepts[c] + 1 ELSE accepts[c]
          /\ \A d \in CodeIDs \ {c} : accepts'[d] = accepts[d]
          /\ codes' = IF right \/ LastAttempt(c) THEN [codes EXCEPT ![c] = None]
                      ELSE [codes EXCEPT ![c].attempts = @ + 1]

LEMMA CodesServed ==
  ASSUME Typed, CountersOK, Runs, NEW r \in Requests, Serve(r) \/ Goes(r)
  PROVE  CodesAge \/ CodesSpend
<1>0. /\ codes \in [CodeIDs -> OneTimeCode \cup {None}] /\ tries \in [CodeIDs -> Nat]
      /\ [Next]_vars /\ (Written.codes = codes)'
      /\ file'.codes = file.codes \/ file'.codes = codes'
  <2>1. (Written.codes = codes)'
    BY WrittenFields, PTL
  <2> QED BY <2>1 DEF Typed, TypeOK, CountersOK, Serve, Goes, Next, Runs, Saved, Persist
<1>1. ASSUME NEW c \in CodeIDs \ drawn, NEW row \in OneTimeCode, row.attempts = 0,
             codes' = [codes EXCEPT ![c] = row],
             drawn' \cap CodeIDs = (drawn \cap CodeIDs) \cup {c},
             UNCHANGED tries, \A d \in CodeIDs : accepts'[d] = accepts[d]
      PROVE  CodesAge
  BY <1>0, <1>1, RowAssumption DEF CodesAge
<1>2. ASSUME NEW c \in CodeIDs, codes' = [codes EXCEPT ![c] = None],
             drawn' \cap CodeIDs = drawn \cap CodeIDs,
             UNCHANGED tries, \A d \in CodeIDs : accepts'[d] = accepts[d]
      PROVE  CodesAge
  BY <1>0, <1>2 DEF CodesAge
<1>3. ASSUME NEW c \in CodeIDs, NEW right \in BOOLEAN,
             codes[c] # None, tries' = [tries EXCEPT ![c] = @ + 1],
             accepts'[c] = IF right THEN accepts[c] + 1 ELSE accepts[c],
             \A d \in CodeIDs \ {c} : accepts'[d] = accepts[d],
             codes' = IF right \/ LastAttempt(c) THEN [codes EXCEPT ![c] = None]
                      ELSE [codes EXCEPT ![c].attempts = @ + 1],
             drawn' \cap CodeIDs = drawn \cap CodeIDs
      PROVE  CodesSpend
  <2>1. tries' # tries
    BY <1>0, <1>3
  <2>2. Serve(r)
    BY <2>1, GoesQuietly
  <2>3. codes' # codes
    <3>1. codes[c] \in OneTimeCode /\ codes[c].attempts \in Nat
      BY <1>0, <1>3, NumbersAssumption DEF OneTimeCode
    <3>2. CASE right \/ LastAttempt(c)
      BY <1>0, <1>3, <3>2
    <3>3. CASE ~(right \/ LastAttempt(c))
      <4>1. codes'[c].attempts = codes[c].attempts + 1
        BY <1>0, <1>3, <3>1, <3>3 DEF OneTimeCode
      <4> QED BY <3>1, <4>1
    <3> QED BY <3>2, <3>3
  <2>4. Persist
    BY <2>2, <2>3 DEF Serve, Writes, storeVars
  <2> QED BY <1>0, <1>3, <2>4 DEF CodesSpend, Persist
<1>4. ASSUME UNCHANGED <<codes, tries>>, \A d \in CodeIDs : accepts'[d] = accepts[d],
             drawn' \cap CodeIDs = drawn \cap CodeIDs
      PROVE  CodesAge
  BY <1>0, <1>4 DEF CodesAge
<1> QED BY <1>0, <1>1, <1>2, <1>3, <1>4, CodeSteps DEF CodeStep

LEMMA CodesLeft ==
  ASSUME Typed, NEW r \in Requests, GivesUp(r)
  PROVE  CodesAge
<1>0. /\ codes \in [CodeIDs -> OneTimeCode \cup {None}] /\ RequestOK(req[r])
      /\ UNCHANGED <<tries, accepts, file>> /\ Leaves(r)
  BY DEF Typed, TypeOK, RequestsOK, GivesUp, history
<1>1. CASE At(r, "save_code") /\ \E c \in Fresh(CodeIDs) : SaveCode(c, NewCode(r)) /\ Draw({c})
  <2>1. PICK c \in CodeIDs \ drawn : SaveCode(c, NewCode(r)) /\ Draw({c})
    BY <1>1 DEF Fresh
  <2>2. NewCode(r) # None /\ NewCode(r).attempts = 0
    BY <1>1, NewCodeTyped, RowAssumption
  <2> QED BY <1>0, <2>1, <2>2 DEF SaveCode, Draw, CodesAge
<1>2. CASE /\ At(r, "attempt") /\ codes[req[r].given.id] # None
           /\ AttemptCode(req[r].given.id, ProofOf(req[r].given), now) /\ Draw({})
  <2>1. req[r].op = "verify_code" /\ req[r].pc = "attempt"
    BY <1>0, <1>2 DEF At, RequestOK, Points
  <2>2. req[r].given \in CodeAnswer
    BY <1>0, <2>1, GivenValues DEF RequestOK
  <2>3. PICK c \in CodeIDs : c = req[r].given.id
    BY <2>2 DEF CodeAnswer
  <2>4. codes[c] \in OneTimeCode /\ codes[c].attempts \in Nat
    BY <1>0, <1>2, <2>3, NumbersAssumption DEF OneTimeCode
  <2>5. drawn' = drawn
    BY <1>2 DEF Draw
  <2>6. CASE codes' = [codes EXCEPT ![c] = None]
    BY <1>0, <2>5, <2>6 DEF CodesAge
  <2>7. CASE codes' = [codes EXCEPT ![c].attempts = @ + 1] /\ ~LastAttempt(c)
    <3>1. codes'[c] # None /\ codes'[c].attempts = codes[c].attempts + 1
      <4>1. codes'[c] = [codes[c] EXCEPT !.attempts = @ + 1]
        BY <1>0, <2>7
      <4>2. codes[c].attempts + 1 \in 0 .. MaxAttempts - 1
        BY <2>4, <2>7, NumbersAssumption DEF LastAttempt
      <4>3. codes'[c] \in OneTimeCode /\ codes'[c].attempts = codes[c].attempts + 1
        BY <2>4, <4>1, <4>2 DEF OneTimeCode
      <4> QED BY <4>3, RowAssumption
    <3> QED BY <1>0, <1>2, <2>3, <2>5, <2>7, <3>1 DEF CodesAge
  <2> QED BY <1>2, <2>3, <2>6, <2>7 DEF AttemptCode, Spent
<1>3. CASE UNCHANGED codes /\ drawn' \cap CodeIDs = drawn \cap CodeIDs
  BY <1>0, <1>3 DEF CodesAge
<1>4. ASSUME NEW new, new \cap CodeIDs = {}, Draw(new), UNCHANGED codes PROVE CodesAge
  <2>1. drawn' \cap CodeIDs = drawn \cap CodeIDs
    BY <1>4 DEF Draw
  <2> QED BY <1>3, <1>4, <2>1
<1>5. ASSUME NEW x \in UserIDs \cup WebAuthnIDs, NEW y \in UserIDs \cup WebAuthnIDs
      PROVE  {x, y} \cap CodeIDs = {}
  BY KindsAssumption
<1>6. ASSUME NEW x \in Secrets \cup SessionIDs PROVE {x} \cap CodeIDs = {}
  BY KindsAssumption DEF Tickets
<1>7. ASSUME NEW set \in SUBSET RecoveryCodes PROVE set \cap CodeIDs = {}
  BY KindsAssumption
<1>8. {} \cap CodeIDs = {}
  OBVIOUS
<1> QED BY <1>0, <1>1, <1>2, <1>4, <1>5, <1>6, <1>7, <1>8 DEF Leaves, CreateUserFails, SetTOTP,
           SetRecoveryCodes, ConsumeRecoveryCode, CreateSession, SetUserVerified, SetPassword, Fresh
LEMMA CodesMove ==
  ASSUME Typed, CountersOK, Runs \/ Restart
  PROVE  CodesAge \/ CodesSpend
<1>1. CASE Restart
  BY <1>1 DEF Restart, Reopen, Load, CodesAge, history
<1>2. CASE UNCHANGED <<storeVars, drawn, history, file>>
  BY <1>2 DEF CodesAge, storeVars, history
<1> QED BY <1>1, <1>2, CodesServed, CodesLeft DEF Runs

\* Either side has an attempt counted for every answer that was told, and
\* neither has a code that was accepted.
CountsIn(m, c) == m.codes[c] # None =>
    c \in drawn /\ tries[c] <= m.codes[c].attempts /\ accepts[c] = 0

CodesFiled ==
    \A c \in CodeIDs :
        /\ CountsIn(memory, c) /\ CountsIn(file, c)
        /\ c \notin drawn => tries[c] = 0 /\ accepts[c] = 0

CodeOpen(c) == codes[c] # None \/ file.codes[c] # None

LEMMA CodesFiledKept ==
  ASSUME Typed, JsonTypeOK, CountersOK, CodesFiled, CodesAge \/ CodesSpend
  PROVE  CodesFiled'
<1>0. /\ codes \in [CodeIDs -> OneTimeCode \cup {None}] /\ tries \in [CodeIDs -> Nat]
      /\ file.codes \in [CodeIDs -> OneTimeCode \cup {None}]
      /\ \A row \in OneTimeCode : row.attempts \in Nat
      /\ memory.codes = codes /\ memory'.codes = codes'
  BY NumbersAssumption DEF Typed, TypeOK, CountersOK, JsonTypeOK, StateType, memory, OneTimeCode
<1>1. CASE CodesAge
  <2> SUFFICES ASSUME NEW c \in CodeIDs
               PROVE  /\ codes'[c] # None =>
                            c \in drawn' /\ tries'[c] <= codes'[c].attempts /\ accepts'[c] = 0
                      /\ file'.codes[c] # None =>
                            c \in drawn' /\ tries'[c] <= file'.codes[c].attempts /\ accepts'[c] = 0
                      /\ c \notin drawn' => tries'[c] = 0 /\ accepts'[c] = 0
    BY <1>0 DEF CodesFiled, CountsIn
  <2>1. tries'[c] = tries[c] /\ accepts'[c] = accepts[c] /\ tries[c] \in Nat
    BY <1>0, <1>1 DEF CodesAge
  <2>2. /\ codes[c] # None =>
              /\ c \in drawn /\ tries[c] <= codes[c].attempts /\ accepts[c] = 0
              /\ codes[c].attempts \in Nat
        /\ file.codes[c] # None =>
              c \in drawn /\ tries[c] <= file.codes[c].attempts /\ accepts[c] = 0
        /\ c \notin drawn => tries[c] = 0 /\ accepts[c] = 0
    BY <1>0 DEF CodesFiled, CountsIn
  <2>3. codes'[c] # None => c \in drawn' /\ tries[c] <= codes'[c].attempts /\ accepts[c] = 0
    BY <1>1, <2>1, <2>2 DEF CodesAge
  <2>4. c \in drawn => c \in drawn'
    BY <1>1 DEF CodesAge
  <2>5. file'.codes[c] = file.codes[c] \/ file'.codes[c] = codes'[c]
    BY <1>1 DEF CodesAge
  <2> QED BY <2>1, <2>2, <2>3, <2>4, <2>5
<1>2. CASE CodesSpend
  <2>1. PICK c \in CodeIDs, right \in BOOLEAN :
          /\ codes[c] # None
          /\ tries' = [tries EXCEPT ![c] = @ + 1]
          /\ accepts'[c] = IF right THEN accepts[c] + 1 ELSE accepts[c]
          /\ \A d \in CodeIDs \ {c} : accepts'[d] = accepts[d]
          /\ codes' = IF right \/ LastAttempt(c) THEN [codes EXCEPT ![c] = None]
                      ELSE [codes EXCEPT ![c].attempts = @ + 1]
    BY <1>2 DEF CodesSpend
  <2>2. /\ \A d \in CodeIDs : d \in drawn' <=> d \in drawn
        /\ file'.codes = codes'
    BY <1>2 DEF CodesSpend
  <2>3. c \in drawn /\ tries[c] <= codes[c].attempts /\ accepts[c] = 0
    BY <1>0, <2>1 DEF CodesFiled, CountsIn
  <2>4. codes'[c] # None => tries'[c] <= codes'[c].attempts /\ accepts'[c] = 0
    <3>1. codes[c] \in OneTimeCode /\ codes[c].attempts \in Nat /\ tries'[c] = tries[c] + 1
      BY <1>0, <2>1
    <3>2. codes'[c] # None => ~right /\ codes'[c].attempts = codes[c].attempts + 1
      BY <1>0, <2>1, <3>1 DEF OneTimeCode
    <3> QED BY <1>0, <2>1, <2>3, <3>1, <3>2
  <2>5. \A d \in CodeIDs \ {c} : codes'[d] = codes[d] /\ tries'[d] = tries[d]
    BY <1>0, <2>1
  <2> QED BY <1>0, <2>1, <2>2, <2>3, <2>4, <2>5 DEF CodesFiled, CountsIn
<1> QED BY <1>1, <1>2

\* What gives up some codes and issues others replaces the ones by the others.
LEMMA CodesAgeIsTicket ==
  ASSUME Typed, JsonTypeOK, CodesFiled, CodesAge
  PROVE  DurableCodeTickets!Next
<1> DEFINE st == [c \in CodeIDs |-> IF c \notin drawn THEN "new"
                        ELSE IF codes[c] # None \/ file.codes[c] # None THEN "open" ELSE "closed"]
           ac == [c \in CodeIDs |-> accepts[c]]
<1>1. PICK new \in SUBSET CodeIDs : new = {c \in CodeIDs : c \notin drawn /\ c \in drawn'}
  OBVIOUS
<1>2. PICK old \in SUBSET CodeIDs :
         old = {c \in CodeIDs : CodeOpen(c) /\ codes'[c] = None /\ file'.codes[c] = None}
  OBVIOUS
<1>3. \A c \in CodeIDs : CodeOpen(c) => c \in drawn
  BY DEF CodesFiled, CountsIn, CodeOpen, memory
<1>4. ac' = ac /\ UNCHANGED tries
  BY DEF CodesAge
<1>5. ASSUME NEW c \in CodeIDs
      PROVE  st'[c] = IF c \in new THEN "open" ELSE IF c \in old THEN "closed" ELSE st[c]
  <2>1. /\ c \in drawn => c \in drawn'
        /\ c \in new => codes'[c] # None
        /\ c \notin new => /\ c \in drawn' <=> c \in drawn
                           /\ codes'[c] # None => CodeOpen(c)
        /\ file'.codes[c] = file.codes[c] \/ file'.codes[c] = codes'[c]
    BY <1>1 DEF CodesAge, CodeOpen
  <2>2. st'[c] = IF c \notin drawn' THEN "new"
                 ELSE IF codes'[c] # None \/ file'.codes[c] # None THEN "open" ELSE "closed"
    OBVIOUS
  <2>3. CASE c \in new
    BY <1>1, <2>1, <2>2, <2>3
  <2>4. CASE c \notin new
    BY <1>1, <1>2, <1>3, <2>1, <2>2, <2>4 DEF CodeOpen
  <2> QED BY <2>3, <2>4
<1>6. (\A c \in new : st[c] = "new") /\ (\A c \in old : st[c] = "open")
  BY <1>1, <1>2, <1>3 DEF CodeOpen
<1>7. DurableCodeTickets!Replace(new, old)
  BY <1>4, <1>5, <1>6 DEF DurableCodeTickets!Replace
<1> QED BY <1>7 DEF DurableCodeTickets!Next

\* An answer that is told was counted on both sides; writing it gives up what
\* memory had given up before.
LEMMA CodesSpendIsTicket ==
  ASSUME Typed, JsonTypeOK, CountersOK, CodesFiled, CodesSpend
  PROVE  DurableCodeTickets!Next
<1> DEFINE st == [c \in CodeIDs |-> IF c \notin drawn THEN "new"
                        ELSE IF codes[c] # None \/ file.codes[c] # None THEN "open" ELSE "closed"]
           ac == [c \in CodeIDs |-> accepts[c]]
<1>0. codes \in [CodeIDs -> OneTimeCode \cup {None}] /\ tries \in [CodeIDs -> Nat]
  BY DEF Typed, TypeOK, CountersOK
<1>1. PICK c \in CodeIDs, right \in BOOLEAN :
          /\ codes[c] # None
          /\ tries' = [tries EXCEPT ![c] = @ + 1]
          /\ accepts'[c] = IF right THEN accepts[c] + 1 ELSE accepts[c]
          /\ \A d \in CodeIDs \ {c} : accepts'[d] = accepts[d]
          /\ codes' = IF right \/ LastAttempt(c) THEN [codes EXCEPT ![c] = None]
                      ELSE [codes EXCEPT ![c].attempts = @ + 1]
  BY DEF CodesSpend
<1>2. PICK old \in SUBSET CodeIDs : old = {d \in CodeIDs : CodeOpen(d) /\ codes'[d] = None}
  OBVIOUS
<1>3. \A d \in CodeIDs : CodeOpen(d) => d \in drawn
  BY DEF CodesFiled, CountsIn, CodeOpen, memory
<1>4. codes[c] \in OneTimeCode /\ c \in drawn /\ tries[c] <= codes[c].attempts
  BY <1>0, <1>1 DEF CodesFiled, CountsIn, memory
<1>5. right \/ tries'[c] >= MaxAttempts => c \in old
  <2>1. codes[c].attempts \in Nat /\ tries[c] \in Nat /\ tries'[c] = tries[c] + 1
    BY <1>0, <1>1, <1>4, NumbersAssumption DEF OneTimeCode
  <2>2. right \/ tries'[c] >= MaxAttempts => right \/ LastAttempt(c)
    BY <1>4, <2>1, NumbersAssumption DEF LastAttempt
  <2> QED BY <1>0, <1>1, <1>2, <2>2 DEF CodeOpen
<1>6. \A d \in CodeIDs \ {c} : codes'[d] = codes[d]
  BY <1>0, <1>1
<1>7. ac' = [ac EXCEPT ![c] = IF right THEN @ + 1 ELSE @]
  BY <1>1
<1>8. ASSUME NEW d \in CodeIDs
      PROVE  st'[d] = IF d \in old THEN "closed" ELSE st[d]
  <2>1. (d \in drawn' <=> d \in drawn) /\ file'.codes[d] = codes'[d]
    BY DEF CodesSpend
  <2>2. st'[d] = IF d \notin drawn' THEN "new"
                 ELSE IF codes'[d] # None \/ file'.codes[d] # None THEN "open" ELSE "closed"
    OBVIOUS
  <2>3. codes'[d] # None => codes[d] # None
    BY <1>1, <1>6
  <2> QED BY <1>2, <1>3, <2>1, <2>2, <2>3 DEF CodeOpen
<1>9. st[c] = "open" /\ \A d \in old : st[d] = "open"
  BY <1>1, <1>2, <1>3, <1>4 DEF CodeOpen
<1>10. DurableCodeTickets!Answer(c, right, old)
  BY <1>1, <1>5, <1>7, <1>8, <1>9 DEF DurableCodeTickets!Answer
<1> QED BY <1>10 DEF DurableCodeTickets!Next

LEMMA CountersStay ==
  ASSUME Typed, CountersOK, Runs \/ Restart
  PROVE  CountersOK'
<1>1. ASSUME NEW r \in Requests, GivesUp(r) PROVE CountersOK'
  BY <1>1 DEF GivesUp, CountersOK, history
<1>2. CASE Restart
  BY <1>2 DEF Restart, CountersOK, history
<1>3. ASSUME NEW r \in Requests, Serve(r) \/ Goes(r) PROVE [Next]_vars
  BY <1>3 DEF Serve, Goes, Next
<1> QED BY <1>1, <1>2, <1>3, CountersKept DEF Runs

LEMMA AlwaysCodesFiled == DurableSpec => [](Typed /\ JsonTypeOK /\ CountersOK /\ CodesFiled)
<1>1. DurableInit => CountersOK /\ CodesFiled
  <2> SUFFICES ASSUME DurableInit PROVE CountersOK /\ CodesFiled
    OBVIOUS
  <2>1. file.codes = codes /\ memory.codes = codes
    BY WrittenFields DEF DurableInit, memory
  <2> QED BY <2>1 DEF DurableInit, Init, StoreInit, SessionsInit, CountersOK, CodesFiled, CountsIn, Tickets
<1>2. Typed /\ JsonTypeOK /\ CountersOK /\ CodesFiled /\ [DurableNext]_durableVars =>
        CountersOK' /\ CodesFiled'
  BY RunsOrRestarts, CountersStay, CodesMove, CodesFiledKept
<1> QED BY <1>1, <1>2, AlwaysFiled, PTL DEF DurableSpec

\* With the file written at any call or not, and the process started again
\* at any point, one-time codes are still tickets of MaxAttempts answers.
THEOREM CodesSurvive == DurableSpec => CodesSurviveAsTickets
<1>1. DurableInit => DurableCodeTickets!Init
  BY DEF DurableInit, Init, SessionsInit, Tickets, DurableCodeTickets!Init
<1>2. Typed /\ JsonTypeOK /\ CountersOK /\ CodesFiled /\ [DurableNext]_durableVars =>
        [DurableCodeTickets!Next]_<<[c \in CodeIDs |-> IF c \notin drawn THEN "new"
                ELSE IF codes[c] # None \/ file.codes[c] # None
                THEN "open" ELSE "closed"], tries, [c \in CodeIDs |-> accepts[c]]>>
  BY RunsOrRestarts, CodesMove, CodesAgeIsTicket, CodesSpendIsTicket
<1> QED BY <1>1, <1>2, AlwaysCodesFiled, PTL DEF DurableSpec, CodesSurviveAsTickets, DurableCodeTickets!Spec

-----------------------------------------------------------------------------
(* Recovery codes.                                                         *)

\* What a step does to the recovery codes when it tells of none accepted:
\* they stay, go, come from the file, or are new.
RecoveryAge ==
    /\ \A c \in RecoveryCodes : accepts'[c] = accepts[c]
    /\ file'.recovery = file.recovery \/ file'.recovery = recovery'
    /\ \A c \in RecoveryCodes :
          \/ /\ c \in drawn' <=> c \in drawn
             /\ \A u \in UserIDs :
                   \/ recovery'[u][c] \in {"absent", recovery[u][c]}
                   \/ recovery'[u][c] = "used" /\ recovery[u][c] = "unused"
          \/ /\ c \in drawn' <=> c \in drawn
             /\ \A u \in UserIDs : recovery'[u][c] = file.recovery[u][c]
          \/ /\ c \notin drawn /\ c \in drawn'
             /\ \E u \in UserIDs : /\ recovery'[u][c] = "unused"
                                   /\ \A v \in UserIDs \ {u} : recovery'[v][c] = recovery[v][c]

\* And when it does: that one is used up on both sides.
RecoverySpend ==
    /\ file'.recovery = recovery' /\ drawn' \cap RecoveryCodes = drawn \cap RecoveryCodes
    /\ \E u \in UserIDs, c \in RecoveryCodes :
          /\ recovery[u][c] = "unused" /\ recovery'[u][c] = "used"
          /\ accepts'[c] = accepts[c] + 1
          /\ \A v \in UserIDs, d \in RecoveryCodes :
                v # u \/ d # c => recovery'[v][d] = recovery[v][d]
          /\ \A d \in RecoveryCodes \ {c} : accepts'[d] = accepts[d]

LEMMA RecoveryServed ==
  ASSUME Typed, CountersOK, Runs, NEW r \in Requests, Serve(r)
  PROVE  RecoveryAge \/ RecoverySpend
<1>0. /\ [Next]_vars /\ (Written.recovery = recovery)'
      /\ file'.recovery = file.recovery \/ file'.recovery = recovery'
  <2>1. (Written.recovery = recovery)'
    BY WrittenFields, PTL
  <2> QED BY <2>1 DEF Serve, Next, Runs, Saved, Persist
<1>1. ASSUME NEW u \in UserIDs, NEW set \in SUBSET (RecoveryCodes \ drawn),
             \A c \in RecoveryCodes :
                /\ recovery'[u][c] = IF c \in set THEN "unused" ELSE "absent"
                /\ \A v \in UserIDs \ {u} : recovery'[v][c] = recovery[v][c]
                /\ accepts'[c] = accepts[c],
             drawn' \cap RecoveryCodes = (drawn \cap RecoveryCodes) \cup set
      PROVE  RecoveryAge
  <2>1. ASSUME NEW c \in set
        PROVE  /\ c \notin drawn /\ c \in drawn' /\ c \in RecoveryCodes
               /\ recovery'[u][c] = "unused"
               /\ \A v \in UserIDs \ {u} : recovery'[v][c] = recovery[v][c]
    BY <1>1
  <2>2. ASSUME NEW c \in RecoveryCodes \ set
        PROVE  /\ c \in drawn' <=> c \in drawn
               /\ \A v \in UserIDs : recovery'[v][c] \in {"absent", recovery[v][c]}
    BY <1>1
  <2> QED BY <1>0, <1>1, <2>1, <2>2 DEF RecoveryAge
<1>2. ASSUME NEW u \in UserIDs, NEW c \in RecoveryCodes,
             recovery[u][c] = "unused", recovery'[u][c] = "used",
             accepts'[c] = accepts[c] + 1,
             \A v \in UserIDs, d \in RecoveryCodes :
                v # u \/ d # c => recovery'[v][d] = recovery[v][d],
             \A d \in RecoveryCodes \ {c} : accepts'[d] = accepts[d],
             drawn' \cap RecoveryCodes = drawn \cap RecoveryCodes
      PROVE  RecoverySpend
  <2>1. recovery' # recovery
    BY <1>2
  <2>2. Persist
    BY <2>1 DEF Serve, Writes, storeVars
  <2> QED BY <1>0, <1>2, <2>2 DEF RecoverySpend, Persist
<1>3. ASSUME \A v \in UserIDs, d \in RecoveryCodes : recovery'[v][d] = recovery[v][d],
             \A d \in RecoveryCodes : accepts'[d] = accepts[d],
             drawn' \cap RecoveryCodes = drawn \cap RecoveryCodes
      PROVE  RecoveryAge
  BY <1>0, <1>3 DEF RecoveryAge
<1> QED BY <1>0, <1>1, <1>2, <1>3, RecoverySteps DEF RecoveryStep

LEMMA RecoveryLeft ==
  ASSUME Typed, NEW r \in Requests, GivesUp(r)
  PROVE  RecoveryAge
<1>0. /\ recovery \in [UserIDs -> [RecoveryCodes -> {"absent", "unused", "used"}]]
      /\ UNCHANGED <<accepts, file>> /\ Leaves(r) /\ RequestOK(req[r])
  BY DEF Typed, TypeOK, RequestsOK, GivesUp, history
<1>1. ASSUME NEW set \in SUBSET (RecoveryCodes \ drawn), SetRecoveryCodes(req[r].user, set), Draw(set)
      PROVE  RecoveryAge
  <2>1. PICK u \in UserIDs : u = req[r].user
    BY <1>1 DEF SetRecoveryCodes, UserExists
  <2>2. \A c \in RecoveryCodes :
           /\ recovery'[u][c] = IF c \in set THEN "unused" ELSE "absent"
           /\ \A v \in UserIDs \ {u} : recovery'[v][c] = recovery[v][c]
    BY <1>0, <1>1, <2>1 DEF SetRecoveryCodes
  <2>3. ASSUME NEW c \in set
        PROVE  /\ c \notin drawn /\ c \in drawn' /\ c \in RecoveryCodes
               /\ recovery'[u][c] = "unused"
               /\ \A v \in UserIDs \ {u} : recovery'[v][c] = recovery[v][c]
    BY <1>1, <2>2 DEF Draw
  <2>4. ASSUME NEW c \in RecoveryCodes \ set
        PROVE  /\ c \in drawn' <=> c \in drawn
               /\ \A v \in UserIDs : recovery'[v][c] \in {"absent", recovery[v][c]}
    BY <1>1, <2>2 DEF Draw
  <2> QED BY <1>0, <2>3, <2>4 DEF RecoveryAge
<1>2. CASE At(r, "consume") /\ ConsumeRecoveryCode(req[r].user, req[r].given) /\ Draw({})
  <2>1. req[r].op = "login_recovery" /\ req[r].pc = "consume" /\ req[r].user \in UserIDs
    BY <1>0, <1>2 DEF At, RequestOK, Points, UserKnown
  <2>2. req[r].given \in RecoveryCodes
    BY <1>0, <2>1, GivenValues DEF RequestOK
  <2>3. PICK u \in UserIDs, c \in RecoveryCodes : u = req[r].user /\ c = req[r].given
    BY <2>1, <2>2
  <2>4. /\ recovery[u][c] = "unused" /\ recovery'[u][c] = "used" /\ drawn' = drawn
        /\ \A v \in UserIDs, d \in RecoveryCodes :
              v # u \/ d # c => recovery'[v][d] = recovery[v][d]
    BY <1>0, <1>2, <2>3 DEF ConsumeRecoveryCode, CanConsumeRecoveryCode, Draw
  <2>5. ASSUME NEW v \in UserIDs, NEW d \in RecoveryCodes
        PROVE  \/ recovery'[v][d] \in {"absent", recovery[v][d]}
               \/ recovery'[v][d] = "used" /\ recovery[v][d] = "unused"
    BY <2>4
  <2> QED BY <1>0, <2>4, <2>5 DEF RecoveryAge
<1>3. ASSUME NEW new, new \cap RecoveryCodes = {}, Draw(new), UNCHANGED recovery
      PROVE  RecoveryAge
  <2>1. \A c \in RecoveryCodes : c \in drawn' <=> c \in drawn
    BY <1>3 DEF Draw
  <2> QED BY <1>0, <1>3, <2>1 DEF RecoveryAge
<1>4. ASSUME NEW x \in UserIDs \cup WebAuthnIDs, NEW y \in UserIDs \cup WebAuthnIDs
      PROVE  {x, y} \cap RecoveryCodes = {}
  BY KindsAssumption
<1>5. ASSUME NEW x \in Secrets \cup SessionIDs \cup CodeIDs PROVE {x} \cap RecoveryCodes = {}
  BY KindsAssumption DEF Tickets
<1>6. {} \cap RecoveryCodes = {}
  OBVIOUS
<1>7. CASE \E v \in Fresh(UserIDs), w \in Fresh(WebAuthnIDs) :
              CreateUserFails(v, req[r].given.identifier, w) /\ Draw({v, w})
  BY <1>3, <1>4, <1>7 DEF CreateUserFails, Fresh
<1>8. CASE \E x \in Fresh(Secrets) :
              SetTOTP(req[r].user, [secret |-> x, confirmed |-> FALSE]) /\ Draw({x})
  BY <1>3, <1>5, <1>8 DEF SetTOTP, Fresh
<1>9. CASE \E c \in Fresh(CodeIDs) : SaveCode(c, NewCode(r)) /\ Draw({c})
  <2>1. PICK c \in Fresh(CodeIDs) : SaveCode(c, NewCode(r)) /\ Draw({c})
    BY <1>9
  <2>2. {c} \cap RecoveryCodes = {} /\ UNCHANGED recovery
    BY <1>5, <2>1 DEF SaveCode, credentials, Fresh
  <2> QED BY <1>3, <2>1, <2>2
<1>10. CASE \E s \in Fresh(SessionIDs) : CreateSession(s, NewSession(r)) /\ Draw({s})
  <2>1. PICK s \in Fresh(SessionIDs) : CreateSession(s, NewSession(r)) /\ Draw({s})
    BY <1>10
  <2>2. {s} \cap RecoveryCodes = {} /\ UNCHANGED recovery
    BY <1>5, <2>1 DEF CreateSession, credentials, Fresh
  <2> QED BY <1>3, <2>1, <2>2
<1>11. CASE \E set \in SUBSET Fresh(RecoveryCodes) :
              /\ Cardinality(set) = RecoverySetSize
              /\ SetRecoveryCodes(req[r].user, set) /\ Draw(set)
  BY <1>1, <1>11 DEF Fresh
<1>12. CASE /\ Draw({})
            /\ \/ SetTOTP(req[r].user, [req[r].seen EXCEPT !.confirmed = TRUE])
               \/ AttemptCode(req[r].given.id, ProofOf(req[r].given), now)
               \/ SetUserVerified(req[r].user, TRUE)
               \/ SetPassword(req[r].user, NewHash(req[r].given.password))
  <2>1. UNCHANGED recovery
    BY <1>12 DEF SetTOTP, AttemptCode, SetUserVerified, SetPassword, credentials
  <2> QED BY <1>3, <1>6, <1>12, <2>1
<1> QED BY <1>0, <1>2, <1>7, <1>8, <1>9, <1>10, <1>11, <1>12 DEF Leaves

LEMMA RecoveryMove ==
  ASSUME Typed, CountersOK, Runs \/ Restart
  PROVE  RecoveryAge \/ RecoverySpend
<1>1. CASE Restart
  BY <1>1 DEF Restart, Reopen, Load, RecoveryAge, history
<1>2. CASE UNCHANGED <<storeVars, drawn, history, file>>
  BY <1>2 DEF RecoveryAge, storeVars, history
<1>3. ASSUME Runs, NEW r \in Requests, Goes(r) PROVE RecoveryAge
  <2>1. file'.recovery = file.recovery
    BY <1>3 DEF Goes
  <2> QED BY <1>3, <2>1, GoesQuietly DEF RecoveryAge
<1> QED BY <1>1, <1>2, <1>3, RecoveryServed, RecoveryLeft DEF Runs

\* On either side a code that can be used is one user's and was not accepted.
OwnedIn(m, c) ==
    \A u \in UserIDs :
        /\ m.recovery[u][c] # "absent" => c \in drawn
        /\ m.recovery[u][c] = "unused" =>
              /\ accepts[c] = 0
              /\ \A v \in UserIDs : m.recovery[v][c] = "unused" => u = v

RecoveryFiled ==
    \A c \in RecoveryCodes :
        OwnedIn(memory, c) /\ OwnedIn(file, c) /\ (c \notin drawn => accepts[c] = 0)

RecoveryOpen(c) ==
    \E u \in UserIDs : recovery[u][c] = "unused" \/ file.recovery[u][c] = "unused"

LEMMA RecoveryFiledKept ==
  ASSUME RecoveryFiled, RecoveryAge \/ RecoverySpend
  PROVE  RecoveryFiled'
<1>0. memory.recovery = recovery /\ memory'.recovery = recovery'
  BY DEF memory
<1>1. CASE RecoveryAge
  <2> SUFFICES ASSUME NEW c \in RecoveryCodes
               PROVE  OwnedIn(memory, c)' /\ OwnedIn(file, c)' /\ (c \notin drawn' => accepts'[c] = 0)
    BY DEF RecoveryFiled
  <2>1. accepts'[c] = accepts[c] /\ (c \in drawn => c \in drawn') /\ (c \notin drawn => accepts[c] = 0)
    BY <1>1 DEF RecoveryAge, RecoveryFiled
  <2>2. /\ \A u \in UserIDs :
              /\ recovery[u][c] # "absent" => c \in drawn
              /\ recovery[u][c] = "unused" =>
                    accepts[c] = 0 /\ \A v \in UserIDs : recovery[v][c] = "unused" => u = v
        /\ \A u \in UserIDs :
              /\ file.recovery[u][c] # "absent" => c \in drawn
              /\ file.recovery[u][c] = "unused" =>
                    accepts[c] = 0 /\ \A v \in UserIDs : file.recovery[v][c] = "unused" => u = v
    BY <1>0 DEF RecoveryFiled, OwnedIn
  <2>3. \A u \in UserIDs :
           /\ recovery'[u][c] # "absent" => c \in drawn'
           /\ recovery'[u][c] = "unused" =>
                 accepts'[c] = 0 /\ \A v \in UserIDs : recovery'[v][c] = "unused" => u = v
    <3>1. CASE /\ c \notin drawn /\ c \in drawn'
               /\ \E u \in UserIDs : /\ recovery'[u][c] = "unused"
                                     /\ \A v \in UserIDs \ {u} : recovery'[v][c] = recovery[v][c]
      BY <2>1, <2>2, <3>1
    <3>2. CASE \A u \in UserIDs : recovery'[u][c] = file.recovery[u][c]
      BY <2>1, <2>2, <3>2
    <3>3. CASE \A u \in UserIDs : \/ recovery'[u][c] \in {"absent", recovery[u][c]}
                                  \/ recovery'[u][c] = "used" /\ recovery[u][c] = "unused"
      BY <2>1, <2>2, <3>3
    <3> QED BY <1>1, <3>1, <3>2, <3>3 DEF RecoveryAge
  <2>4. CASE file'.recovery = file.recovery
    BY <1>0, <2>1, <2>2, <2>3, <2>4 DEF OwnedIn
  <2>5. CASE file'.recovery = recovery'
    BY <1>0, <2>1, <2>3, <2>5 DEF OwnedIn
  <2> QED BY <1>1, <2>4, <2>5 DEF RecoveryAge
<1>2. CASE RecoverySpend
  <2>1. PICK u \in UserIDs, c \in RecoveryCodes :
          /\ recovery[u][c] = "unused" /\ recovery'[u][c] = "used"
          /\ \A v \in UserIDs, d \in RecoveryCodes :
                v # u \/ d # c => recovery'[v][d] = recovery[v][d]
          /\ \A d \in RecoveryCodes \ {c} : accepts'[d] = accepts[d]
    BY <1>2 DEF RecoverySpend
  <2>2. (\A d \in RecoveryCodes : d \in drawn' <=> d \in drawn) /\ file'.recovery = recovery'
    BY <1>2 DEF RecoverySpend
  <2>3. c \in drawn /\ \A v \in UserIDs : recovery'[v][c] # "unused"
    BY <1>0, <2>1 DEF RecoveryFiled, OwnedIn
  <2>4. ASSUME NEW d \in RecoveryCodes
        PROVE  /\ \A v \in UserIDs :
                    /\ recovery'[v][d] # "absent" => d \in drawn'
                    /\ recovery'[v][d] = "unused" =>
                          /\ accepts'[d] = 0
                          /\ \A w \in UserIDs : recovery'[w][d] = "unused" => v = w
               /\ d \notin drawn' => accepts'[d] = 0
    BY <1>0, <2>1, <2>2, <2>3 DEF RecoveryFiled, OwnedIn
  <2> QED BY <1>0, <2>2, <2>4 DEF RecoveryFiled, OwnedIn
<1> QED BY <1>1, <1>2

LEMMA RecoveryAgeIsTicket ==
  ASSUME RecoveryFiled, RecoveryAge
  PROVE  DurableRecoveryTickets!Next
<1> DEFINE st == [c \in RecoveryCodes |-> IF c \notin drawn THEN "new"
                     ELSE IF \E u \in UserIDs, m \in {memory, file} : m.recovery[u][c] = "unused"
                     THEN "open" ELSE "closed"]
           ac == [c \in RecoveryCodes |-> accepts[c]]
<1>0. memory.recovery = recovery /\ memory'.recovery = recovery'
  BY DEF memory
<1>1. PICK new \in SUBSET RecoveryCodes : new = {c \in RecoveryCodes : c \notin drawn /\ c \in drawn'}
  OBVIOUS
<1>2. PICK old \in SUBSET RecoveryCodes : old = {c \in RecoveryCodes : RecoveryOpen(c) /\ ~RecoveryOpen(c)'}
  OBVIOUS
<1>3. \A c \in RecoveryCodes : RecoveryOpen(c) => c \in drawn
  BY <1>0 DEF RecoveryFiled, OwnedIn, RecoveryOpen
<1>4. ac' = ac
  BY DEF RecoveryAge
<1>5. ASSUME NEW c \in RecoveryCodes
      PROVE  /\ st[c] = IF c \notin drawn THEN "new"
                        ELSE IF RecoveryOpen(c) THEN "open" ELSE "closed"
             /\ st'[c] = IF c \notin drawn' THEN "new"
                         ELSE IF RecoveryOpen(c)' THEN "open" ELSE "closed"
  BY <1>0 DEF RecoveryOpen
<1>6. ASSUME NEW c \in RecoveryCodes
      PROVE  /\ c \in drawn => c \in drawn'
             /\ c \in new => RecoveryOpen(c)'
             /\ c \notin new => (c \in drawn' <=> c \in drawn) /\ (RecoveryOpen(c)' => RecoveryOpen(c))
  <2>1. (\A u \in UserIDs : file'.recovery[u][c] = file.recovery[u][c])
        \/ (\A u \in UserIDs : file'.recovery[u][c] = recovery'[u][c])
    BY DEF RecoveryAge
  <2>2. CASE /\ c \notin drawn /\ c \in drawn'
             /\ \E u \in UserIDs : recovery'[u][c] = "unused"
    BY <1>1, <2>2 DEF RecoveryOpen
  <2>3. CASE /\ c \in drawn' <=> c \in drawn
             /\ \A u \in UserIDs : \/ recovery'[u][c] \in {"absent", recovery[u][c]}
                                   \/ recovery'[u][c] = "used" /\ recovery[u][c] = "unused"
    BY <1>1, <2>1, <2>3 DEF RecoveryOpen
  <2>4. CASE /\ c \in drawn' <=> c \in drawn
             /\ \A u \in UserIDs : recovery'[u][c] = file.recovery[u][c]
    BY <1>1, <2>1, <2>4 DEF RecoveryOpen
  <2> QED BY <2>2, <2>3, <2>4 DEF RecoveryAge
<1>7. ASSUME NEW c \in RecoveryCodes
      PROVE  st'[c] = IF c \in new THEN "open" ELSE IF c \in old THEN "closed" ELSE st[c]
  BY <1>1, <1>2, <1>3, <1>5, <1>6
<1>8. (\A c \in new : st[c] = "new") /\ (\A c \in old : st[c] = "open")
  BY <1>1, <1>2, <1>3, <1>5
<1>9. DurableRecoveryTickets!Replace(new, old)
  BY <1>4, <1>7, <1>8 DEF DurableRecoveryTickets!Replace
<1> QED BY <1>9 DEF DurableRecoveryTickets!Next

LEMMA RecoverySpendIsTicket ==
  ASSUME RecoveryFiled, RecoverySpend
  PROVE  DurableRecoveryTickets!Next
<1> DEFINE st == [c \in RecoveryCodes |-> IF c \notin drawn THEN "new"
                     ELSE IF \E u \in UserIDs, m \in {memory, file} : m.recovery[u][c] = "unused"
                     THEN "open" ELSE "closed"]
           ac == [c \in RecoveryCodes |-> accepts[c]]
<1>0. memory.recovery = recovery /\ memory'.recovery = recovery'
  BY DEF memory
<1>1. PICK u \in UserIDs, c \in RecoveryCodes :
          /\ recovery[u][c] = "unused" /\ recovery'[u][c] = "used"
          /\ accepts'[c] = accepts[c] + 1
          /\ \A v \in UserIDs, d \in RecoveryCodes :
                v # u \/ d # c => recovery'[v][d] = recovery[v][d]
          /\ \A d \in RecoveryCodes \ {c} : accepts'[d] = accepts[d]
  BY DEF RecoverySpend
<1>2. PICK old \in SUBSET RecoveryCodes : old = {d \in RecoveryCodes : RecoveryOpen(d) /\ ~RecoveryOpen(d)'}
  OBVIOUS
<1>3. \A d \in RecoveryCodes : RecoveryOpen(d) => d \in drawn
  BY <1>0 DEF RecoveryFiled, OwnedIn, RecoveryOpen
<1>4. ASSUME NEW d \in RecoveryCodes
      PROVE  /\ st[d] = IF d \notin drawn THEN "new"
                        ELSE IF RecoveryOpen(d) THEN "open" ELSE "closed"
             /\ st'[d] = IF d \notin drawn' THEN "new"
                         ELSE IF RecoveryOpen(d)' THEN "open" ELSE "closed"
  BY <1>0 DEF RecoveryOpen
<1>5. ac' = [ac EXCEPT ![c] = @ + 1]
  BY <1>1
<1>6. file'.recovery = recovery' /\ \A d \in RecoveryCodes : d \in drawn' <=> d \in drawn
  BY DEF RecoverySpend
<1>7. RecoveryOpen(c) /\ ~RecoveryOpen(c)'
  <2>1. \A v \in UserIDs : recovery'[v][c] # "unused"
    BY <1>0, <1>1 DEF RecoveryFiled, OwnedIn
  <2> QED BY <1>1, <1>6, <2>1 DEF RecoveryOpen
<1>8. ASSUME NEW d \in RecoveryCodes, RecoveryOpen(d)' PROVE RecoveryOpen(d)
  <2>1. PICK v \in UserIDs : recovery'[v][d] = "unused"
    BY <1>6, <1>8 DEF RecoveryOpen
  <2> QED BY <1>1, <2>1 DEF RecoveryOpen
<1>9. ASSUME NEW d \in RecoveryCodes
      PROVE  st'[d] = IF d \in old THEN "closed" ELSE st[d]
  BY <1>2, <1>3, <1>4, <1>6, <1>8
<1>10. st[c] = "open" /\ c \in old /\ \A d \in old : st[d] = "open"
  BY <1>2, <1>3, <1>4, <1>7
<1>11. DurableRecoveryTickets!Answer(c, TRUE, old)
  BY <1>5, <1>9, <1>10 DEF DurableRecoveryTickets!Answer
<1> QED BY <1>11 DEF DurableRecoveryTickets!Next

\* A recovery code is accepted once at most, before the restarts and after
\* them, and none comes back that was gone from memory and from the file.
THEOREM RecoveryCodesSurvive == DurableSpec => RecoveryCodesSurviveAsTickets
<1>1. DurableInit => DurableRecoveryTickets!Init
  BY DEF DurableInit, Init, SessionsInit, Tickets, DurableRecoveryTickets!Init
<1>2. DurableInit => RecoveryFiled
  <2> SUFFICES ASSUME DurableInit PROVE RecoveryFiled
    OBVIOUS
  <2>1. file.recovery = recovery /\ memory.recovery = recovery
    BY WrittenFields DEF DurableInit, memory
  <2> QED BY <2>1 DEF DurableInit, Init, StoreInit, SessionsInit, RecoveryFiled, OwnedIn, Tickets
<1>3. Typed /\ CountersOK /\ RecoveryFiled /\ [DurableNext]_durableVars => RecoveryFiled'
  BY RunsOrRestarts, RecoveryMove, RecoveryFiledKept
<1>4. Typed /\ CountersOK /\ RecoveryFiled /\ [DurableNext]_durableVars =>
        [DurableRecoveryTickets!Next]_<<[c \in RecoveryCodes |->
                IF c \notin drawn THEN "new"
                ELSE IF \E u \in UserIDs, m \in {memory, file} : m.recovery[u][c] = "unused"
                THEN "open" ELSE "closed"],
              [c \in RecoveryCodes |-> accepts[c]], [c \in RecoveryCodes |-> accepts[c]]>>
  BY RunsOrRestarts, RecoveryMove, RecoveryAgeIsTicket, RecoverySpendIsTicket
<1> QED BY <1>1, <1>2, <1>3, <1>4, AlwaysCodesFiled, PTL
        DEF DurableSpec, RecoveryCodesSurviveAsTickets, DurableRecoveryTickets!Spec

=============================================================================
