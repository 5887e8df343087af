------------------------------ MODULE JsonStore ------------------------------
(***************************************************************************)
(* The Store of the demo (demo/jsonstore): the same maps behind one mutex, *)
(* and a file.  A method checks what MemoryStore's checks, changes memory, *)
(* and then writes all of memory to a new file that takes the place of the *)
(* old one, so the file is always some whole state (persistLocked).  When  *)
(* the write fails the method answers an error, and the change stays in    *)
(* memory, to be written along with the next one; only createUserLocked    *)
(* takes its change back.  Open loads the file.                            *)
(*                                                                         *)
(* User.WebAuthnID has the tag json:"-" (models.go): it is never written.  *)
(***************************************************************************)
EXTENDS MemoryStore

VARIABLE file   \* the maps as the file holds them

jsonVars == <<storeVars, file>>

memory == [users |-> users, identifiers |-> identifiers, webAuthnIDs |-> webAuthnIDs,
           passwords |-> passwords, passkeys |-> passkeys, totp |-> totp,
           recovery |-> recovery, codes |-> codes, sessions |-> sessions]

\* A user as JSON has it, in the file and in what clone answers.
Marshalled(user) ==
    IF user = None THEN None ELSE [user EXCEPT !.webAuthnID = None]

\* The user that UserByWebAuthnID answers, a clone of the row.
UserAnswered(w) ==
    IF webAuthnIDs[w] = None THEN None ELSE Marshalled(users[webAuthnIDs[w]])

\* What persistLocked writes: all of it, whatever the call was about.
Written == [memory EXCEPT !.users = [u \in UserIDs |-> Marshalled(users[u])]]

Persist == file' = Written'

\* Every method but createUserLocked ends with persistLocked, whatever that
\* answers.
Saved == Persist \/ UNCHANGED file

\* Open, at a start on a file that is not there: the empty maps are written.
JsonInit == StoreInit /\ file = Written

\* Open, at a start on the file of an earlier process.
Load ==
    /\ users' = file.users /\ identifiers' = file.identifiers
    /\ webAuthnIDs' = file.webAuthnIDs /\ passwords' = file.passwords
    /\ passkeys' = file.passkeys /\ totp' = file.totp
    /\ recovery' = file.recovery /\ codes' = file.codes /\ sessions' = file.sessions

Reopen == Load /\ UNCHANGED file

-----------------------------------------------------------------------------
\* Mutant: the account stays in memory, as every other change does.
CreateUserFails_Kept(u, i, w) == CreateUser(u, i, w) /\ UNCHANGED file

\* createUserLocked when the write fails: row, indexes and password go.
CreateUserFails(u, i, w) ==
    /\ CanCreateUser(u, i, w)
    /\ passwords' = [passwords EXCEPT ![u] = None]
    /\ UNCHANGED <<accounts, passkeys, totp, recovery, codes, sessions, file>>

JsonAccountCall ==
    \E u \in UserIDs :
        \/ \E i \in Identifiers, w \in WebAuthnIDs :
              \/ CreateUser(u, i, w) /\ Persist
              \/ \E h \in Hash : CreatePasswordUser(u, i, w, h) /\ Persist
              \/ CreateUserFails(u, i, w)
        \/ \E b \in BOOLEAN : SetUserVerified(u, b) /\ Saved
        \/ \E h \in Hash : SetPassword(u, h) /\ Saved

\* DeletePasskey writes only what it found.
JsonCredentialCall ==
    \E u \in UserIDs :
        \/ \E k \in Passkey :
              \/ SavePasskey(u, k) /\ Saved
              \/ \E n \in Counts : UpdatePasskey(u, k, n) /\ Saved
              \/ k \in passkeys[u] /\ DeletePasskey(u, k.id) /\ Saved
        \/ \E t \in TOTPCredential : SetTOTP(u, t) /\ Saved
        \/ DeleteTOTP(u) /\ Saved
        \/ \E set \in SUBSET RecoveryCodes : SetRecoveryCodes(u, set) /\ Saved
        \/ \E c \in RecoveryCodes : ConsumeRecoveryCode(u, c) /\ Saved

\* AttemptCode writes only about a code it has.
JsonCodeCall ==
    \E c \in CodeIDs :
        \/ \E code \in OneTimeCode : code.attempts = 0 /\ SaveCode(c, code) /\ Saved
        \/ codes[c] # None /\ (\E p \in Proof, t \in Times : AttemptCode(c, p, t)) /\ Saved
        \/ DeleteCode(c) /\ Saved

\* SessionByID writes only when it drops an expired session.
JsonSessionCall ==
    \/ \E s \in SessionIDs :
          \/ \E session \in Session : CreateSession(s, session) /\ Saved
          \/ /\ sessions[s] # None
             /\ \E t \in Times : ~SessionLive(s, t) /\ SessionByID(s, t) /\ Saved
          \/ RevokeSession(s) /\ Saved
    \/ \E u \in UserIDs : RevokeUserSessions(u) /\ Saved

JsonNext ==
    JsonAccountCall \/ JsonCredentialCall \/ JsonCodeCall \/ JsonSessionCall \/ Reopen

JsonSpec == JsonInit /\ [][JsonNext]_jsonVars

-----------------------------------------------------------------------------
(* What failing writes and restarts preserve, in memory and on file.       *)

\* The types of the maps, on either side.
StateType ==
    [users: [UserIDs -> User \cup {None}],
     identifiers: [Identifiers -> UserIDs \cup {None}],
     webAuthnIDs: [WebAuthnIDs -> UserIDs \cup {None}],
     passwords: [UserIDs -> Hash \cup {None}],
     passkeys: [UserIDs -> SUBSET Passkey],
     totp: [UserIDs -> TOTPCredential \cup {None}],
     recovery: [UserIDs -> [RecoveryCodes -> {"absent", "unused", "used"}]],
     codes: [CodeIDs -> OneTimeCode \cup {None}],
     sessions: [SessionIDs -> Session \cup {None}]]

JsonTypeOK == memory \in StateType /\ file \in StateType

\* No restart makes an account appear or disappear: memory and file have the
\* same accounts under the same identifiers and handles at all times,
\* although everything else may differ between them after a failed write.
\* A registration that was refused is not found later, one that was
\* answered is not forgotten.
SameAccounts ==
    /\ file.identifiers = identifiers
    /\ file.webAuthnIDs = webAuthnIDs
    /\ \A u \in UserIDs :
          /\ users[u] = None <=> file.users[u] = None
          /\ users[u] # None => users[u].identifier = file.users[u].identifier

\* Each account is under its identifier and under one handle, which the row
\* may have lost, and no two are under one.
AccountsIndexed(m) ==
    /\ \A i \in Identifiers, u \in UserIDs :
          m.identifiers[i] = u <=> m.users[u] # None /\ m.users[u].identifier = i
    /\ \A u \in UserIDs :
          m.users[u] # None <=> \E w \in WebAuthnIDs : m.webAuthnIDs[w] = u
    /\ \A v, w \in WebAuthnIDs :
          m.webAuthnIDs[v] # None /\ m.webAuthnIDs[v] = m.webAuthnIDs[w] => v = w

CredentialsIn(m) ==
    /\ \A u \in UserIDs : m.users[u] = None =>
          /\ m.passwords[u] = None /\ m.passkeys[u] = {} /\ m.totp[u] = None
          /\ \A c \in RecoveryCodes : m.recovery[u][c] = "absent"
    /\ \A u, v \in UserIDs : \A j \in m.passkeys[u], k \in m.passkeys[v] :
          j.id = k.id => u = v /\ j = k

\* Whatever writes failed and whenever the process is started again, what is
\* loaded is consistent: accounts with their indexes, credentials with
\* their accounts.  Memory and file only differ in calls that did not go
\* into the file yet, so each of them alone must be consistent.
FileConsistent ==
    /\ AccountsIndexed(file) /\ CredentialsIn(file)
    /\ AccountsIndexed(memory) /\ CredentialsIn(memory)

\* A lookup by handle answers a user with that handle: finishPasskeyLogin
\* hands the answer to the WebAuthn library, which asks it for its handle
\* (passkey_user.go:13) to tell whose assertion this is.  The demo says it
\* "demonstrates password authentication, platform passkeys, .."
\* (demo/README.md:3).
HandleReturned ==
    \A w \in WebAuthnIDs : UserAnswered(w) # None => UserAnswered(w).webAuthnID = w
=============================================================================
