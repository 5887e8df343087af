-------------------------------- MODULE Auth --------------------------------
(***************************************************************************)
(* The plugin: every route of register (auth.go) over one shared store,    *)
(* served concurrently, with the clock and the application beside it.      *)
(***************************************************************************)
EXTENDS PasswordHandlers, TOTPHandlers, CodeHandlers, PasskeyHandlers

Init == StoreInit /\ SessionsInit

Call(r)  == \/ SessionsCall(r) \/ PasswordCall(r) \/ TOTPCall(r)
            \/ CodesCall(r) \/ PasskeysCall(r)
Step(r)  == \/ SessionsStep(r) \/ PasswordStep(r) \/ TOTPStep(r)
            \/ CodesStep(r) \/ PasskeysStep(r)
Denied(r) == \/ PasswordDenied(r) \/ TOTPDenied(r)
            \/ CodesDenied(r) \/ PasskeysDenied(r)
Fault(r) == \/ SessionsFault(r) \/ PasswordFault(r) \/ TOTPFault(r)
            \/ CodesFault(r) \/ PasskeysFault(r)

Next == Environment \/ \E r \in Requests : Call(r) \/ Step(r) \/ Denied(r) \/ Fault(r)

Spec == Init /\ [][Next]_vars

\* net/http runs a started handler to its end; nothing makes clients call,
\* time pass, policies refuse or the store fail.
FairSpec == Spec /\ \A r \in Requests : WF_vars(Step(r))

-----------------------------------------------------------------------------
(* Types: which local variables a request has set, by route and by point.  *)

Given(op) ==
    CASE op \in {"register", "login"}          -> Credentials
      [] op = "level"                          -> Levels \cup {""}
      [] op \in {"totp_confirm", "login_totp"} -> Secrets
      [] op = "login_recovery"                 -> RecoveryCodes
      [] op = "request_code"                   -> CodeRequest
      [] op = "verify_code"                    -> CodeAnswer
      [] op = "passkey_finish"                 -> Attestation
      [] op = "login_passkey"                  -> Assertion
      [] OTHER                                 -> {None}

\* The routes that have a step at each point.
Points ==
    [idle |-> {None},
     session |-> DOMAIN After, user |-> DOMAIN After, gate |-> Gated,
     drop |-> {"visit"}, again |-> {"visit"}, level |-> {"level"},
     serving |-> {"visit", "level"}, logout |-> {"logout"},
     register |-> {"register"}, lookup |-> {"login"}, verify |-> {"login"},
     check_hash |-> {"login"}, rehash |-> {"login"},
     setup |-> {"totp_setup"}, read_totp |-> {"totp_confirm"},
     confirm |-> {"totp_confirm"}, recovery |-> {"totp_confirm"},
     check_totp |-> {"login_totp"}, consume |-> {"login_recovery"},
     code_lookup |-> {"request_code"}, save_code |-> {"request_code"},
     send |-> {"request_code"}, withdraw |-> {"request_code"},
     answer |-> {"request_code"}, attempt |-> {"verify_code"},
     code_user |-> {"verify_code"}, apply |-> {"verify_code"},
     revoke_user |-> {"verify_code"},
     challenge |-> {"passkey_begin", "login_passkey_begin"},
     take |-> {"passkey_finish", "login_passkey"},
     save |-> {"passkey_finish"}, handle |-> {"login_passkey"},
     assertion |-> {"login_passkey"}, find |-> {"login_passkey"},
     update |-> {"login_passkey"},
     rotate |-> Logins, create |-> Logins, cookie |-> Logins,
     reply |-> Routes]

\* Where the account is known, and where the level is.
UserKnown  == {"user", "gate", "drop", "again", "verify", "check_hash", "rehash",
               "setup", "read_totp", "confirm", "recovery", "check_totp", "consume",
               "code_user", "apply", "revoke_user", "save", "assertion", "find",
               "update", "rotate", "create"}
LevelKnown == {"user", "gate", "check_totp", "consume", "rehash", "rotate", "create"}

RequestOK(q) ==
    /\ q.pc \in DOMAIN Points /\ q.op \in Points[q.pc]
    /\ q.by \in Browsers \cup {None} /\ (q.pc # "idle" => q.by # None)
    /\ q.cookie \in SessionIDs \cup {None}
    /\ q.given \in Given(q.op) \/ (q.given = None /\ ~q.ok /\ q.pc = "reply")
    /\ q.pc \notin {"idle", "reply"} => q.since \in [UserIDs -> Nat]
    /\ q.user \in UserIDs \cup {None} /\ (q.pc \in UserKnown => q.user # None)
    /\ q.pc = "take" /\ q.op = "passkey_finish" => q.user # None
    /\ q.level \in Levels \cup {None} /\ (q.pc \in LevelKnown => q.level # None)
    /\ q.pc = "confirm" => q.seen \in TOTPCredential
    /\ q.pc = "create" => q.seen \in 0 .. MaxNow + SessionLifetime
    /\ q.pc \in {"send", "withdraw"} => q.seen \in CodeIDs
    /\ q.pc = "update" => q.seen \in Counts
    /\ q.set \in SessionIDs \cup {None, "clear"} /\ (q.pc = "cookie" => q.set \in SessionIDs)
    /\ q.ok \in BOOLEAN

AuthTypeOK ==
    /\ TypeOK
    /\ \A r \in Requests : RequestOK(req[r])
    /\ jar \in [Browsers -> SessionIDs \cup {None}]
    /\ now \in 0 .. MaxNow
    /\ resets \in [UserIDs -> Nat]
    /\ challenges \in [ChallengeIDs -> {NoChallenge} \cup Challenge]

-----------------------------------------------------------------------------
(* Sessions.                                                               *)

\* RequireUser enters the protected handler only with a session that is
\* live at that instant and belongs to the user it resolved, although
\* session and account were read in four separate calls and logout,
\* RevokeAll, expiry and rotation may come between any two of them.
VisitServedLive ==
    [][\A r \in Requests :
          req[r].op = "visit" /\ ~At(r, "serving") /\ req'[r].pc = "serving" =>
              /\ SessionLive(req[r].cookie, now)
              /\ sessions[req[r].cookie].user = req[r].user]_vars

\* The session a request came with is over once the reply to a login or a
\* logout is on its way: createSession rotates, logout revokes, and nothing
\* another request does in between brings the row back.
PresentedSessionEnds ==
    \A r \in Requests :
        /\ At(r, "cookie") \/ (At(r, "reply") /\ req[r].set # None)
        /\ req[r].cookie # None
        => sessions[req[r].cookie] = None

\* RequireLevel enters the protected handler only with a live session that
\* was opened by a login of the level asked for, or completed with a second
\* factor: no later request raised the level of a session in place.
GrantedBy(s) ==
    CASE origin[s].op = "login" -> "password"
      [] origin[s].op \in {"login_totp", "login_recovery"} -> "mfa"
      [] origin[s].op = "login_passkey" -> "passkey"
      [] origin[s].op = "verify_code" -> "code"

LevelServedAsGranted ==
    [][\A r \in Requests :
          req[r].op = "level" /\ ~At(r, "serving") /\ req'[r].pc = "serving" =>
              /\ SessionLive(req[r].cookie, now)
              /\ req[r].given # "" => GrantedBy(req[r].cookie) \in {req[r].given, "mfa"}]_vars

-----------------------------------------------------------------------------
(* Passwords.                                                              *)

\* The password of the row of u; dummyHash opens no such account.
Stored(u, password) == passwords[u] # None /\ passwords[u].password = password

\* Of several registrations of one identifier, whatever their order, one is
\* answered with success, and the account then opens with the password that
\* registration chose.
WinnerOwnsAccount ==
    \A r \in Requests :
        req[r].op = "register" /\ req[r].ok =>
            LET u == UserByIdentifier(req[r].given.identifier)
            IN  UserExists(u) /\ Stored(u, req[r].given.password)

-----------------------------------------------------------------------------
(* The second factor.                                                      *)

\* An MFA session was opened by a request that presented a session which a
\* password login of the same user had opened: a session of another level,
\* or of another user, never starts one.  Two requests that present one
\* password session at once may each open an MFA session.
SecondFactorPedigree ==
    \A s \in SessionIDs :
        origin[s] # None /\ origin[s].op \in {"login_totp", "login_recovery"} =>
            LET v == origin[s].via
            IN  /\ v # None /\ origin[v].op = "login"
                /\ origin[v].user = origin[s].user

\* A confirmed second factor comes with recovery codes once the request that
\* confirmed it is over: confirmTOTP writes the two in separate calls.
ConfirmedHasRecovery ==
    \A u \in UserIDs :
        /\ Confirmed(u)
        /\ \A r \in Requests : ~(At(r, "recovery") /\ req[r].user = u)
        => \E c \in RecoveryCodes : recovery[u][c] # "absent"

\* A confirmed second factor is only replaced through a session that has
\* itself completed it, so that a password alone is not enough again
\* (totp_test.go:55).  setupTOTP decides this at its gate and writes later.
ConfirmedFactorKept ==
    [][\A u \in UserIDs : Confirmed(u) /\ totp'[u] # totp[u] =>
          \E r \in Requests : /\ req'[r] # req[r] /\ req[r].user = u
                              /\ req[r].level # "password"]_vars

\* The recovery codes a reply of confirmTOTP carries are those that are
\* stored: "TOTP enabled. Save these recovery codes now." (app.js:75).
ShownRecoveryCodesStored ==
    \A r \in Requests :
        At(r, "reply") /\ req[r].op = "totp_confirm" /\ req[r].ok =>
            \A c \in req[r].seen : recovery[req[r].user][c] # "absent"

-----------------------------------------------------------------------------
(* What is presented once: each kind is an instance of Ticket.             *)

CodeTickets == INSTANCE Ticket WITH
    Tickets <- CodeIDs, Budget <- MaxAttempts, tries <- tries,
    accepted <- [c \in CodeIDs |-> accepts[c]],
    state <- [c \in CodeIDs |-> IF c \notin drawn THEN "new"
                               ELSE IF codes[c] # None THEN "open" ELSE "closed"]

RecoveryTickets == INSTANCE Ticket WITH
    Tickets <- RecoveryCodes, Budget <- 1,
    tries <- [c \in RecoveryCodes |-> accepts[c]],
    accepted <- [c \in RecoveryCodes |-> accepts[c]],
    state <- [c \in RecoveryCodes |->
                IF c \notin drawn THEN "new"
                ELSE IF \E u \in UserIDs : recovery[u][c] = "unused"
                THEN "open" ELSE "closed"]

ChallengeTickets == INSTANCE Ticket WITH
    Tickets <- ChallengeIDs, Budget <- 1,
    tries <- [c \in ChallengeIDs |-> accepts[c]],
    accepted <- [c \in ChallengeIDs |-> accepts[c]],
    state <- [c \in ChallengeIDs |->
                IF c \notin drawn THEN "new"
                ELSE IF challenges[c] # NoChallenge THEN "open" ELSE "closed"]

\* A one-time code is compared with at most MaxAttempts answers and redeemed
\* at most once, whatever requests race for it and however they fail.
CodesAreTickets == CodeTickets!Spec

\* A recovery code is consumed at most once and never comes back, not even
\* when confirmTOTP replaces the set while logins present its codes.
RecoveryCodesAreTickets == RecoveryTickets!Spec

\* A passkey challenge is consumed at most once, by the first request that
\* takes it, right or wrong.
ChallengesAreTickets == ChallengeTickets!Spec

\* No two sessions were opened with one recovery code, one-time code or
\* passkey challenge: between the call that spends the ticket and the call
\* that creates the session no second request gets through.
TicketOf(s) ==
    CASE origin[s].op = "login_recovery" -> origin[s].given
      [] origin[s].op = "verify_code"    -> origin[s].given.id
      [] origin[s].op = "login_passkey"  -> origin[s].given.challenge

OneSessionPerTicket ==
    LET ticketed == {s \in SessionIDs : /\ origin[s] # None
                        /\ origin[s].op \in {"login_recovery", "verify_code", "login_passkey"}}
    IN  \A s, t \in ticketed : TicketOf(s) = TicketOf(t) => s = t

-----------------------------------------------------------------------------
(* Password reset.                                                         *)

\* Every session of an account was created after its last completed reset.
ResetEndsSessions ==
    \A s \in SessionIDs : sessions[s] # None =>
        origin[s].born[sessions[s].user] = resets[sessions[s].user]

\* No reset of u is between its two writes.
Settled(u) == \A r \in Requests : ~(At(r, "revoke_user") /\ req[r].user = u)

\* A password login that arrived after the last completed reset, and while
\* no other reset is half done, presented the password that is stored.
ResetReplacesPassword ==
    \A s \in SessionIDs : sessions[s] # None /\ origin[s].op = "login" =>
        LET u == sessions[s].user
        IN  origin[s].since[u] = resets[u] /\ Settled(u) =>
                Stored(u, origin[s].given.password)

\* What opens an account changes by a reset, or by the rehash of a login that
\* a reset overtook: it arrived before the last completed one, or one is half
\* done.  A login that arrived after the last completed reset never changes
\* it, although it writes the password it read some calls ago, whatever
\* logins and resets overlap it and whatever the account began with: no
\* password, one of outdated parameters, or one of the present ones.
ResetUndoneOnlyByEarlierLogin ==
    [][\A u \in UserIDs :
          UserExists(u) /\ HashFor(u)'.password # HashFor(u).password =>
             \E r \in Requests :
                /\ req[r].user = u /\ req'[r] # req[r]
                /\ \/ At(r, "apply") /\ ResetsPassword(req[r].given)
                   \/ At(r, "rehash") /\ (req[r].since[u] < resets[u] \/ ~Settled(u))]_vars

\* "Policies run before security-sensitive state changes" (README.md:113):
\* when the policies are asked about a code, the code is still there.
PoliciesBeforeCode ==
    \A r \in Requests : At(r, "apply") => accepts[req[r].given.id] = 0

-----------------------------------------------------------------------------
(* Passkeys.                                                               *)

\* The stored signature counter of a passkey never goes down.
CounterNeverFalls ==
    [][\A u \in UserIDs : \A j \in passkeys[u], k \in passkeys'[u] :
          j.id = k.id => j.signCount <= k.signCount]_vars

\* A passkey is stored for the account whose session began that
\* registration, even when the browser signs in as somebody else between the
\* two requests; and a registration challenge never serves a login.
CeremonyKeepsUser ==
    \A r \in Requests : At(r, "save") \/ At(r, "handle") =>
        begun[req[r].given.challenge] = [kind |-> Kind(req[r].op), user |-> req[r].user]

-----------------------------------------------------------------------------
(* Progress.                                                               *)

\* Every request is answered: no handler waits for another one.
EveryRequestAnswered ==
    \A r \in Requests : ~At(r, "idle") ~> At(r, "idle")
=============================================================================
