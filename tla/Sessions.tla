------------------------------ MODULE Sessions ------------------------------
(***************************************************************************)
(* Requests, cookie jars and server-side sessions (session.go, and the     *)
(* session guards of handlers_totp.go).                                    *)
(*                                                                         *)
(* Handlers run concurrently and hold no lock between two store calls, so  *)
(* a request is a program counter and the values it read so far, and each  *)
(* store call, with the local computation around it, is one action.  What  *)
(* a request keeps in its local variables may be stale when it is used:    *)
(* that is where the interesting behaviours of the plugin are.             *)
(*                                                                         *)
(* The sub-procedures of this module (the session guards, createSession,   *)
(* the reply) are shared by every handler; op says which route a request   *)
(* is for, and After where it continues.                                   *)
(***************************************************************************)
EXTENDS MemoryStore, ChallengeStore

CONSTANTS
    Requests,         \* request slots: how many requests are served at once
    Browsers,         \* cookie jars
    Features,         \* the Options enabled, of AllFeatures
    SessionLifetime,  \* Options.SessionLifetime, in ticks
    MaxNow,           \* bound: the last instant
    FaultsHappen      \* whether the store and the cookie layer may fail

AllFeatures == {"password", "passkeys", "totp", "codes"}

ASSUME SessionsAssumption ==
    /\ Features \subseteq AllFeatures
    /\ SessionLifetime \in Nat \ {0} /\ MaxNow \in Nat
    /\ 0 .. MaxNow + SessionLifetime \subseteq Times
    /\ FaultsHappen \in BOOLEAN

VARIABLES
    req,      \* per request: program counter and local variables
    jar,      \* per browser: the session ID in its cookie
    now,      \* the clock
    drawn,    \* random values handed out: randomID never repeats one
    origin,   \* history: what each session was granted for
    resets,   \* history: password resets completed, by user
    tries,    \* history: answers compared with each one-time code
    accepts,  \* history: how often each ticket was accepted
    begun     \* history: what each passkey challenge was stored for

history == <<origin, resets, tries, accepts, begun>>
sessionVars == <<req, jar, now, drawn, challenges, history>>
vars == <<storeVars, sessionVars>>

\* What is given out to be presented once.
Tickets == CodeIDs \cup RecoveryCodes \cup ChallengeIDs

\* Random values of different kinds are told apart.
ASSUME KindsAssumption ==
    /\ SessionIDs \cap (UserIDs \cup WebAuthnIDs \cup Secrets \cup Tickets) = {}
    /\ CodeIDs \cap (UserIDs \cup WebAuthnIDs \cup Secrets) = {}
    /\ RecoveryCodes \cap (UserIDs \cup WebAuthnIDs \cup Secrets \cup CodeIDs) = {}
    /\ ChallengeIDs \cap (UserIDs \cup WebAuthnIDs \cup Secrets \cup CodeIDs
                           \cup RecoveryCodes) = {}

Accept(t) == accepts' = [accepts EXCEPT ![t] = @ + 1]

\* register (auth.go): the option each route needs.  logout is always
\* there; visit and level are application routes behind RequireUser and
\* RequireLevel.
RouteFeature ==
    [register |-> "password", login |-> "password",
     totp_setup |-> "totp", totp_confirm |-> "totp",
     login_totp |-> "totp", login_recovery |-> "totp",
     passkey_begin |-> "passkeys", passkey_finish |-> "passkeys",
     login_passkey_begin |-> "passkeys", login_passkey |-> "passkeys",
     request_code |-> "codes", verify_code |-> "codes"]

Routes == DOMAIN RouteFeature \cup {"visit", "level", "logout"}

\* A local variable that is not set is told apart from every value.
ASSUME UnsetAssumption ==
    None \notin Browsers \cup Levels \cup Routes \cup {"clear"} /\ "clear" \notin SessionIDs

Served(op) == op \in DOMAIN RouteFeature => RouteFeature[op] \in Features

\* Routes behind authenticatedSessionUser or User, which also ask
\* sessionCompletesAuthentication; the others stop at sessionUser.
Gated == {"visit", "totp_setup", "passkey_begin", "passkey_finish"}

\* Where a request goes on once its session guard let it through.
After ==
    [visit |-> "again", totp_setup |-> "setup", totp_confirm |-> "read_totp",
     login_totp |-> "check_totp", login_recovery |-> "consume",
     passkey_begin |-> "challenge", passkey_finish |-> "take"]

Idle == [pc |-> "idle", op |-> None, by |-> None, cookie |-> None,
         given |-> None, since |-> None, user |-> None, level |-> None,
         seen |-> None, set |-> None, ok |-> FALSE]

SessionsInit ==
    /\ req    = [r \in Requests |-> Idle]
    /\ jar    = [b \in Browsers |-> None]
    /\ now    = 0
    /\ drawn  = {}
    /\ origin = [s \in SessionIDs |-> None]
    /\ resets = [u \in UserIDs |-> 0]
    /\ tries  = [c \in CodeIDs |-> 0]
    /\ accepts = [t \in Tickets |-> 0]
    /\ begun  = [c \in ChallengeIDs |-> None]
    /\ ChallengesInit

Fresh(S) == S \ drawn

\* Bound: a request that will draw n values of the finite set S arrives only
\* when enough are left for it and for the requests of ops under way, so
\* that no handler waits for a random value.
Supplied(S, n, ops) ==
    Cardinality(Fresh(S)) >=
        n * (1 + Cardinality({r \in Requests : req[r].op \in ops}))
Logins == {"login", "login_totp", "login_recovery", "login_passkey", "verify_code"}

-----------------------------------------------------------------------------
(* Moves of one request.                                                   *)

At(r, pc) == req[r].pc = pc
Goto(r, pc) == req' = [req EXCEPT ![r].pc = pc]

\* A request of route op arrives with what the client typed and its cookie.
Arrive(r, op, b, given, pc) ==
    /\ At(r, "idle") /\ Served(op)
    /\ req' = [req EXCEPT ![r] = [Idle EXCEPT
                  !.pc = pc, !.op = op, !.by = b, !.cookie = jar[b],
                  !.given = given, !.since = resets]]
    /\ UNCHANGED <<storeVars, jar, now, drawn, challenges, history>>

\* The handler is done and its local variables are gone.  A success is known
\* by what was asked, and may carry a cookie, set; a refusal carries none.
Reply(r, set) ==
    req' = [req EXCEPT ![r] = [@ EXCEPT
               !.pc = "reply", !.since = None, !.user = None, !.level = None,
               !.seen = None, !.ok = TRUE, !.set = set]]
Refuse(r) ==
    req' = [req EXCEPT ![r] = [Idle EXCEPT
               !.pc = "reply", !.op = req[r].op, !.by = req[r].by]]

\* A handler's local work between two store calls changes only req.
Local == UNCHANGED <<storeVars, jar, now, drawn, challenges, history>>
\* A store call that touches none of the rest.
Elsewhere == UNCHANGED <<jar, now, drawn, challenges, history>>

\* The reply reaches the browser, or the browser has gone.  Replies of
\* overlapping requests arrive in any order; the last cookie set wins.
Deliver(r) ==
    /\ At(r, "reply")
    /\ \/ jar' = [jar EXCEPT ![req[r].by] =
                     IF req[r].set = None THEN @
                     ELSE IF req[r].set = "clear" THEN None ELSE req[r].set]
       \/ req[r].set # None /\ jar' = jar
    /\ req' = [req EXCEPT ![r] = Idle]
    /\ UNCHANGED <<storeVars, now, drawn, challenges, history>>

-----------------------------------------------------------------------------
(* The session guards: Session, then the account, then the second factor.  *)

\* Mutant: an expired or missing session is not noticed.
SessionRead_NoExpiry(s) == s \in SessionIDs /\ sessions[s] # None
SessionRead(s) == SessionLive(s, now)

\* Session: the row for the cookie, dropped when it has expired.
ReadSession(r) ==
    /\ At(r, "session")
    /\ SessionByID(req[r].cookie, now)
    /\ IF SessionRead(req[r].cookie)
       THEN req' = [req EXCEPT ![r].pc = "user",
                       ![r].user = sessions[req[r].cookie].user,
                       ![r].level = sessions[req[r].cookie].level]
       ELSE Refuse(r)
    /\ Elsewhere

\* UserByID and the Disabled check of sessionUser and of User, which also
\* revokes the session of a disabled account.
ReadUser(r) ==
    /\ At(r, "user")
    /\ LET u == req[r].user
           op == req[r].op
       IN  IF UserExists(u) /\ ~users[u].disabled
           THEN Goto(r, IF op \in Gated THEN "gate" ELSE After[op])
           ELSE IF UserExists(u) /\ op = "visit"
           THEN Goto(r, "drop")
           ELSE Refuse(r)
    /\ Local

DropDisabled(r) ==
    /\ At(r, "drop")
    /\ RevokeSession(req[r].cookie)
    /\ Refuse(r)
    /\ Elsewhere

Confirmed(u) == totp[u] # None /\ totp[u].confirmed

\* sessionCompletesAuthentication
Completes(u, level) ==
    level # "password" \/ "totp" \notin Features \/ ~Confirmed(u)

Gate(r) ==
    /\ At(r, "gate")
    /\ IF Completes(req[r].user, req[r].level)
       THEN Goto(r, After[req[r].op])
       ELSE Refuse(r)
    /\ Local

\* RequireUser resolves the session a second time, for the handler's context.
ReadAgain(r) ==
    /\ At(r, "again")
    /\ SessionByID(req[r].cookie, now)
    /\ IF SessionRead(req[r].cookie) THEN Goto(r, "serving") ELSE Refuse(r)
    /\ Elsewhere

\* Mutant: any level but none passes for the one asked for.
LevelSuffices_Any(level, asked) == level # None
LevelSuffices(level, asked) == asked = "" \/ level \in {asked, "mfa"}

\* RequireLevel looks at the session only; given is the level asked for.
ReadLevel(r) ==
    /\ At(r, "level")
    /\ SessionByID(req[r].cookie, now)
    /\ IF /\ SessionRead(req[r].cookie)
          /\ LevelSuffices(sessions[req[r].cookie].level, req[r].given)
       THEN Goto(r, "serving")
       ELSE Refuse(r)
    /\ Elsewhere

EndServing(r) == At(r, "serving") /\ Reply(r, None) /\ Local

-----------------------------------------------------------------------------
(* createSession: draw an ID, end the session the request came with, store *)
(* the new one, send its cookie.  level is the level granted.              *)

\* Mutant: the presented session is kept.
Rotated_Kept(r) == None
Rotated(r) == req[r].cookie

RotateOld(r) ==
    /\ At(r, "rotate")
    /\ RevokeSession(Rotated(r))
    /\ req' = [req EXCEPT ![r].pc = "create", ![r].seen = now + SessionLifetime]
    /\ Elsewhere

NewSession(r) == [user |-> req[r].user, level |-> req[r].level, expires |-> req[r].seen]

CreateNew(r) ==
    /\ At(r, "create")
    /\ \E s \in Fresh(SessionIDs) :
          /\ CreateSession(s, NewSession(r))
          /\ drawn' = drawn \cup {s}
          /\ origin' = [origin EXCEPT ![s] =
                          [user |-> req[r].user, op |-> req[r].op,
                           via |-> req[r].cookie, given |-> req[r].given,
                           since |-> req[r].since, born |-> resets]]
          /\ req' = [req EXCEPT ![r].pc = "cookie", ![r].set = s]
    /\ UNCHANGED <<jar, now, challenges, resets, tries, accepts, begun>>

\* The reply of loginPassword also reads the second factor, for the client.
SetCookie(r) ==
    At(r, "cookie") /\ Reply(r, req[r].set) /\ Local

-----------------------------------------------------------------------------
(* logout, the calls of the application, and what may go wrong.            *)

Logout(r) ==
    /\ At(r, "logout")
    /\ RevokeSession(req[r].cookie)
    /\ Reply(r, "clear")
    /\ Elsewhere

\* RevokeAll, called by the application.
RevokeAll(u) == RevokeUserSessions(u) /\ UNCHANGED sessionVars

\* The application creates an account through its Store: without a password,
\* or with a hash it brings along, which may be of other parameters.
AddAccount(i, hash) ==
    /\ Supplied(UserIDs, 1, {"register"}) /\ Supplied(WebAuthnIDs, 1, {"register"})
    /\ \E u \in Fresh(UserIDs), w \in Fresh(WebAuthnIDs) :
          /\ drawn' = drawn \cup {u, w}
          /\ \/ hash = None /\ CreateUser(u, i, w)
             \/ hash # None /\ CreatePasswordUser(u, i, w, hash)
    /\ UNCHANGED <<req, jar, now, challenges, history>>

\* The application disables or re-enables an account in its own tables.
Disable(u, disabled) == SetUserDisabled(u, disabled) /\ UNCHANGED sessionVars

Tick ==
    /\ now < MaxNow
    /\ now' = now + 1
    /\ UNCHANGED <<storeVars, req, jar, drawn, challenges, history>>

\* A policy, the rate limiter or the decoder refuses; none touches the store.
Deny(r, pcs) == req[r].pc \in pcs /\ Refuse(r) /\ Local

\* A store call answers an error without having acted, and the handler
\* gives up.
Fail(r, pcs) == FaultsHappen /\ req[r].pc \in pcs /\ Refuse(r) /\ Local

\* The errors the handlers drop: revoking is best effort.
IgnoreError(r) ==
    /\ FaultsHappen
    /\ \/ At(r, "rotate") /\ req' = [req EXCEPT ![r].pc = "create",
                                        ![r].seen = now + SessionLifetime]
       \/ At(r, "logout") /\ Reply(r, "clear")
       \/ At(r, "drop") /\ Refuse(r)
    /\ Local

\* The cookie cannot be written: the new session is taken back, if the store
\* does not fail as well.
CookieFails(r) ==
    /\ FaultsHappen /\ At(r, "cookie")
    /\ RevokeSession(req[r].set) \/ UNCHANGED storeVars
    /\ Refuse(r)
    /\ Elsewhere

SessionsCall(r) ==
    \E b \in Browsers :
        \/ Arrive(r, "visit", b, None, "session")
        \/ \E l \in Levels \cup {""} : Arrive(r, "level", b, l, "level")
        \/ Arrive(r, "logout", b, None, "logout")

SessionsStep(r) ==
    \/ ReadSession(r) \/ ReadUser(r) \/ DropDisabled(r) \/ Gate(r)
    \/ ReadAgain(r) \/ ReadLevel(r) \/ EndServing(r)
    \/ RotateOld(r) \/ CreateNew(r) \/ SetCookie(r)
    \/ Logout(r) \/ Deliver(r)

SessionsFault(r) ==
    \/ Fail(r, {"session", "user", "gate", "again", "level", "create"})
    \/ IgnoreError(r) \/ CookieFails(r)

\* Nobody calls: the system may rest, but only with no request under way.
Rest == (\A r \in Requests : At(r, "idle")) /\ UNCHANGED vars

Environment ==
    \/ Tick \/ Rest
    \/ \E u \in UserIDs : RevokeAll(u) \/ \E d \in BOOLEAN : Disable(u, d)
    \/ \E i \in Identifiers, hash \in Hash \cup {None} : AddAccount(i, hash)
=============================================================================
