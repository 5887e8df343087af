----------------------------- MODULE DurableAuth -----------------------------
(***************************************************************************)
(* The plugin over the store of the demo: every call of a handler changes  *)
(* memory and writes the file, any write may fail, and the process may be  *)
(* started again at any point.  A restart ends the requests under way and  *)
(* forgets the passkey challenges; browsers keep their cookies.            *)
(*                                                                         *)
(* A failed write is an error after the effect: the call has changed       *)
(* memory.  Some errors the handlers drop, from the others they conclude   *)
(* that nothing happened.  Both are wrong about either memory or file.     *)
(***************************************************************************)
EXTENDS Auth, JsonStore

CONSTANTS MaxFailures, MaxRestarts   \* bounds: writes that fail, restarts
ASSUME DurableAssumption ==
    MaxFailures \in Nat /\ MaxRestarts \in Nat /\ ~FaultsHappen

VARIABLES
    failures, restarts,   \* how many there were
    ended                 \* history: sessions that a written revocation ended

durableVars == <<vars, file, failures, restarts, ended>>

DurableInit ==
    Init /\ file = Written /\ failures = 0 /\ restarts = 0 /\ ended = {}

\* Mutant: a revocation that finds nothing in memory is not written.
Writes_Changed(r) == storeVars' # storeVars

\* Whether the store call of this step comes to persistLocked: it does
\* whenever it changes something, and these calls also when they do not.
Writes(r) ==
    \/ storeVars' # storeVars
    \/ req[r].pc \in {"drop", "rotate", "logout"} /\ req[r].cookie # None
    \/ req[r].pc \in {"revoke_user", "withdraw", "confirm"}
    \/ At(r, "rehash") /\ UserExists(req[r].user)
    \/ At(r, "apply") /\ (\/ req[r].given.purpose = "verify_account"
                          \/ ResetsPassword(req[r].given))

\* The sessions whose end this step tells somebody.
Ends(r) ==
    CASE req[r].pc \in {"drop", "rotate", "logout"} -> {req[r].cookie} \ {None}
      [] At(r, "revoke_user") ->
            {s \in SessionIDs : \E m \in {memory, file} :
                m.sessions[s] # None /\ m.sessions[s].user = req[r].user}
      [] OTHER -> {}

\* A handler's step, with its call written.
Serve(r) ==
    /\ Step(r)
    /\ IF Writes(r) THEN Persist ELSE UNCHANGED file
    /\ ended' = ended \cup Ends(r)
    /\ UNCHANGED <<failures, restarts>>

\* Mutants: a handler goes on although the spending of its code, or its new
\* session, could not be written.
Dropped_Spend    == {"consume", "attempt", "drop", "rotate", "logout",
                     "revoke_user", "withdraw", "rehash", "session", "again", "level"}
Dropped_Create   == {"create", "drop", "rotate", "logout",
                     "revoke_user", "withdraw", "rehash", "session", "again", "level"}

\* The calls whose error is dropped, by the handlers and, when SessionByID
\* drops an expired session, by the store.
Dropped == {"drop", "rotate", "logout", "revoke_user", "withdraw", "rehash",
            "session", "again", "level"}

Goes(r) ==
    req[r].pc \in Dropped /\ Step(r) /\ Writes(r) /\ UNCHANGED file

Draw(values) == drawn' = drawn \cup values

\* What the call of a handler that gives up has left in memory.
Leaves(r) ==
    LET u == req[r].user
        g == req[r].given
    IN  \/ /\ At(r, "register")
           /\ \E v \in Fresh(UserIDs), w \in Fresh(WebAuthnIDs) :
                 CreateUserFails(v, g.identifier, w) /\ Draw({v, w})
        \/ /\ At(r, "setup")
           /\ \E x \in Fresh(Secrets) :
                 SetTOTP(u, [secret |-> x, confirmed |-> FALSE]) /\ Draw({x})
        \/ /\ At(r, "confirm")
           /\ SetTOTP(u, [req[r].seen EXCEPT !.confirmed = TRUE]) /\ Draw({})
        \/ /\ At(r, "recovery")
           /\ \E set \in SUBSET Fresh(RecoveryCodes) :
                 /\ Cardinality(set) = RecoverySetSize
                 /\ SetRecoveryCodes(u, set) /\ Draw(set)
        \/ At(r, "consume") /\ PasswordSession(r) /\ ConsumeRecoveryCode(u, g) /\ Draw({})
        \/ At(r, "save_code") /\ \E c \in Fresh(CodeIDs) : SaveCode(c, NewCode(r)) /\ Draw({c})
        \/ At(r, "attempt") /\ codes[g.id] # None /\ AttemptCode(g.id, ProofOf(g), now) /\ Draw({})
        \/ At(r, "apply") /\ g.purpose = "verify_account" /\ SetUserVerified(u, TRUE) /\ Draw({})
        \/ At(r, "apply") /\ ResetsPassword(g) /\ SetPassword(u, NewHash(g.password)) /\ Draw({})
        \/ At(r, "create") /\ \E s \in Fresh(SessionIDs) : CreateSession(s, NewSession(r)) /\ Draw({s})

\* The handler answers the error as if the call had done nothing.
GivesUp(r) ==
    /\ Leaves(r) /\ Refuse(r)
    /\ UNCHANGED <<jar, now, challenges, history, file>>

WriteFails(r) ==
    /\ failures < MaxFailures /\ failures' = failures + 1
    /\ Goes(r) \/ GivesUp(r)
    /\ UNCHANGED <<restarts, ended>>

Restart ==
    /\ restarts < MaxRestarts /\ restarts' = restarts + 1
    /\ Reopen
    /\ req' = [r \in Requests |-> Idle]
    /\ challenges' = [c \in ChallengeIDs |-> NoChallenge]
    /\ UNCHANGED <<jar, now, drawn, history, failures, ended>>

\* A client calls, a policy refuses, time passes: no store call.
Quietly(action) == action /\ UNCHANGED <<file, failures, restarts, ended>>

\* The demo itself calls neither RevokeAll nor the store to add accounts.
DurableNext ==
    \/ Quietly(Tick) \/ Quietly(Rest) \/ Restart
    \/ \E r \in Requests :
          \/ Quietly(Call(r)) \/ Quietly(Denied(r))
          \/ Serve(r) \/ WriteFails(r)

DurableSpec == DurableInit /\ [][DurableNext]_durableVars

-----------------------------------------------------------------------------
\* A session whose end was told and written stays ended, in memory and on
\* file, after any failed write and any restart.  A logout whose first
\* write failed is made good by its retry, which finds nothing in memory.
EndedForGood ==
    \A s \in ended : sessions[s] = None /\ file.sessions[s] = None

\* A cookie that is sent names a session on file: a restart does not log out
\* somebody who was just logged in.
SentOnFile ==
    \A r \in Requests :
        req[r].set \in SessionIDs /\ sessions[req[r].set] # None =>
            file.sessions[req[r].set] = sessions[req[r].set]

\* A ticket is open while memory or the file has it.
DurableCodeTickets == INSTANCE Ticket WITH
    Tickets <- CodeIDs, Budget <- MaxAttempts, tries <- tries,
    accepted <- [c \in CodeIDs |-> accepts[c]],
    state <- [c \in CodeIDs |->
                IF c \notin drawn THEN "new"
                ELSE IF codes[c] # None \/ file.codes[c] # None
                THEN "open" ELSE "closed"]

DurableRecoveryTickets == INSTANCE Ticket WITH
    Tickets <- RecoveryCodes, Budget <- 1,
    tries <- [c \in RecoveryCodes |-> accepts[c]],
    accepted <- [c \in RecoveryCodes |-> accepts[c]],
    state <- [c \in RecoveryCodes |->
                IF c \notin drawn THEN "new"
                ELSE IF \E u \in UserIDs, m \in {memory, file} : m.recovery[u][c] = "unused"
                THEN "open" ELSE "closed"]

\* A restart brings back codes that were spent without being written, and
\* attempts that were counted without being written; still a code is
\* redeemed once and compared with at most MaxAttempts answers, because
\* nobody was told the outcome of a call that was not written.
CodesSurviveAsTickets == DurableCodeTickets!Spec

\* Likewise no recovery code is accepted before a restart and again after it.
RecoveryCodesSurviveAsTickets == DurableRecoveryTickets!Spec
=============================================================================
