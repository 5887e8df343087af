----------------------------- MODULE MemoryStore -----------------------------
(***************************************************************************)
(* The Store every handler shares (store.go), as MemoryStore implements it *)
(* (memory_store.go, memory_session.go).  Each method runs under one mutex *)
(* from its first line to its last, so a call is one atomic action.        *)
(*                                                                         *)
(* A lookup is an operator of the current state; a method that can fail    *)
(* has its success condition as an operator of its own, so that a caller   *)
(* knows which answer it got:  SaveCode(c, ..) is the successful call, and *)
(* ~CanSaveCode(c) the ErrConflict answer, which changes nothing.          *)
(*                                                                         *)
(* StoreSpec lets any caller call any method with any argument: what holds *)
(* of it holds whatever the handlers, the demo or an application do.       *)
(***************************************************************************)
EXTENDS Naturals, FiniteSets

CONSTANTS
    UserIDs, Identifiers, WebAuthnIDs,   \* what names an account
    Passwords,                           \* clear-text passwords
    PasskeyIDs, Counts,                  \* credential IDs, signature counters
    Secrets, RecoveryCodes,              \* TOTP secrets, recovery codes
    CodeIDs, MaxAttempts,                \* one-time codes and their budget
    SessionIDs,
    Times,                               \* the instants a caller may pass
    None                                 \* no entry in a map

ASSUME NoneAssumption ==
    None \notin UserIDs \cup Identifiers \cup WebAuthnIDs \cup SessionIDs \cup CodeIDs
ASSUME NumbersAssumption ==
    Counts \subseteq Nat /\ Times \subseteq Nat /\ MaxAttempts \in Nat \ {0}

VARIABLES
    users, identifiers, webAuthnIDs,     \* accounts and their two indexes
    passwords, passkeys, totp, recovery, \* credentials, by user
    codes, sessions

accounts    == <<users, identifiers, webAuthnIDs>>
credentials == <<passwords, passkeys, totp, recovery>>
storeVars   == <<users, identifiers, webAuthnIDs, passwords, passkeys, totp,
                 recovery, codes, sessions>>

Purposes == {"login_code", "verify_account", "password_reset"}
Levels   == {"password", "mfa", "passkey", "code"}

\* The WebAuthn handle is missing in a row that JSON was read from.
User == [identifier: Identifiers, webAuthnID: WebAuthnIDs \cup {None},
         verified: BOOLEAN, disabled: BOOLEAN]

\* An encoded hash: the password it verifies, and whether NeedsRehash finds
\* its Argon2 parameters out of date.
Hash == [password: Passwords, legacy: BOOLEAN]

Passkey == [id: PasskeyIDs, signCount: Counts]

TOTPCredential == [secret: Secrets, confirmed: BOOLEAN]

\* The proof of a one-time code is an HMAC of its label (which holds the
\* purpose) and its digits: right says these are the digits that were sent.
Proof == [purpose: Purposes, right: BOOLEAN]

\* user is None for a code requested for an unknown or disabled account.
OneTimeCode == [user: UserIDs \cup {None}, purpose: Purposes, proof: Proof,
                expires: Times, attempts: 0 .. MaxAttempts - 1]

Session == [user: UserIDs, level: Levels, expires: Times]

\* A missing entry is told apart from every row.
ASSUME RowAssumption ==
    /\ None \notin User /\ None \notin Hash /\ None \notin TOTPCredential
    /\ None \notin OneTimeCode /\ None \notin Session

TypeOK ==
    /\ users       \in [UserIDs -> User \cup {None}]
    /\ identifiers \in [Identifiers -> UserIDs \cup {None}]
    /\ webAuthnIDs \in [WebAuthnIDs -> UserIDs \cup {None}]
    /\ passwords   \in [UserIDs -> Hash \cup {None}]
    /\ passkeys    \in [UserIDs -> SUBSET Passkey]
    /\ totp        \in [UserIDs -> TOTPCredential \cup {None}]
    /\ recovery    \in [UserIDs -> [RecoveryCodes -> {"absent", "unused", "used"}]]
    /\ codes       \in [CodeIDs -> OneTimeCode \cup {None}]
    /\ sessions    \in [SessionIDs -> Session \cup {None}]

\* NewMemoryStore
StoreInit ==
    /\ users       = [u \in UserIDs |-> None]
    /\ identifiers = [i \in Identifiers |-> None]
    /\ webAuthnIDs = [w \in WebAuthnIDs |-> None]
    /\ passwords   = [u \in UserIDs |-> None]
    /\ passkeys    = [u \in UserIDs |-> {}]
    /\ totp        = [u \in UserIDs |-> None]
    /\ recovery    = [u \in UserIDs |-> [c \in RecoveryCodes |-> "absent"]]
    /\ codes       = [c \in CodeIDs |-> None]
    /\ sessions    = [s \in SessionIDs |-> None]

-----------------------------------------------------------------------------
(* Accounts.                                                               *)

\* Mutant: the WebAuthn index is not consulted.
CanCreateUser_ByName(u, i, w) == identifiers[i] = None /\ users[u] = None
\* Mutant: nor is the index by identifier.
CanCreateUser_ByID(u, i, w) == users[u] = None /\ webAuthnIDs[w] = None

CanCreateUser(u, i, w) ==
    /\ identifiers[i] = None
    /\ users[u] = None
    /\ webAuthnIDs[w] = None

\* createUser: the row and both indexes change together.
AddUser(u, i, w) ==
    /\ CanCreateUser(u, i, w)
    /\ users' = [users EXCEPT ![u] = [identifier |-> i, webAuthnID |-> w,
                                      verified |-> FALSE, disabled |-> FALSE]]
    /\ identifiers' = [identifiers EXCEPT ![i] = u]
    /\ webAuthnIDs' = [webAuthnIDs EXCEPT ![w] = u]

CreateUser(u, i, w) ==
    AddUser(u, i, w) /\ UNCHANGED <<credentials, codes, sessions>>

CreatePasswordUser(u, i, w, hash) ==
    /\ AddUser(u, i, w)
    /\ passwords' = [passwords EXCEPT ![u] = hash]
    /\ UNCHANGED <<passkeys, totp, recovery, codes, sessions>>

UserExists(u)       == u \in UserIDs /\ users[u] # None
UserByIdentifier(i) == identifiers[i]
UserByWebAuthnID(w) == webAuthnIDs[w]

SetUserVerified(u, verified) ==
    /\ UserExists(u)
    /\ users' = [users EXCEPT ![u].verified = verified]
    /\ UNCHANGED <<identifiers, webAuthnIDs, credentials, codes, sessions>>

\* No Store method writes User.Disabled: the application owns it.
SetUserDisabled(u, disabled) ==
    /\ UserExists(u)
    /\ users' = [users EXCEPT ![u].disabled = disabled]
    /\ UNCHANGED <<identifiers, webAuthnIDs, credentials, codes, sessions>>

-----------------------------------------------------------------------------
(* Credentials.                                                            *)

\* Mutant: no existence check.
SetPassword_Any(u, hash) ==
    /\ passwords' = [passwords EXCEPT ![u] = hash]
    /\ UNCHANGED <<accounts, passkeys, totp, recovery, codes, sessions>>

SetPassword(u, hash) ==
    /\ UserExists(u)
    /\ passwords' = [passwords EXCEPT ![u] = hash]
    /\ UNCHANGED <<accounts, passkeys, totp, recovery, codes, sessions>>

\* Mutant: only the user's own passkeys are searched.
CanSavePasskey_Own(u, id) == UserExists(u) /\ \A k \in passkeys[u] : k.id # id

\* A credential ID is unique among the passkeys of every user.
CanSavePasskey(u, id) ==
    UserExists(u) /\ \A v \in UserIDs : \A k \in passkeys[v] : k.id # id

SavePasskey(u, k) ==
    /\ CanSavePasskey(u, k.id)
    /\ passkeys' = [passkeys EXCEPT ![u] = @ \cup {k}]
    /\ UNCHANGED <<accounts, passwords, totp, recovery, codes, sessions>>

\* The compare of the compare-and-swap on the signature counter.
CanUpdatePasskey(u, id, previous) ==
    [id |-> id, signCount |-> previous] \in passkeys[u]

UpdatePasskey(u, k, previous) ==
    /\ CanUpdatePasskey(u, k.id, previous)
    /\ passkeys' = [passkeys EXCEPT
                      ![u] = {p \in @ : p.id # k.id} \cup {k}]
    /\ UNCHANGED <<accounts, passwords, totp, recovery, codes, sessions>>

DeletePasskey(u, id) ==
    /\ passkeys' = [passkeys EXCEPT ![u] = {p \in @ : p.id # id}]
    /\ UNCHANGED <<accounts, passwords, totp, recovery, codes, sessions>>

SetTOTP(u, credential) ==
    /\ UserExists(u)
    /\ totp' = [totp EXCEPT ![u] = credential]
    /\ UNCHANGED <<accounts, passwords, passkeys, recovery, codes, sessions>>

DeleteTOTP(u) ==
    /\ totp' = [totp EXCEPT ![u] = None]
    /\ UNCHANGED <<accounts, passwords, passkeys, recovery, codes, sessions>>

\* Mutant: the codes of an earlier set are handed out again.
SetRecoveryCodes_Added(u, set) ==
    /\ UserExists(u)
    /\ recovery' = [recovery EXCEPT ![u] =
                      [c \in RecoveryCodes |-> IF c \in set \/ @[c] # "absent"
                                              THEN "unused" ELSE "absent"]]
    /\ UNCHANGED <<accounts, passwords, passkeys, totp, codes, sessions>>

\* The whole set is replaced: the codes of an earlier set are gone.
SetRecoveryCodes(u, set) ==
    /\ UserExists(u)
    /\ recovery' = [recovery EXCEPT ![u] =
                      [c \in RecoveryCodes |-> IF c \in set THEN "unused" ELSE "absent"]]
    /\ UNCHANGED <<accounts, passwords, passkeys, totp, codes, sessions>>

\* Mutant: used is not looked at.
CanConsumeRecoveryCode_Used(u, c) == recovery[u][c] # "absent"
CanConsumeRecoveryCode(u, c) == recovery[u][c] = "unused"

ConsumeRecoveryCode(u, c) ==
    /\ CanConsumeRecoveryCode(u, c)
    /\ recovery' = [recovery EXCEPT ![u][c] = "used"]
    /\ UNCHANGED <<accounts, passwords, passkeys, totp, codes, sessions>>

-----------------------------------------------------------------------------
(* One-time codes.                                                         *)

\* Mutant: a stored code is overwritten.
CanSaveCode_Any(c) == TRUE

CanSaveCode(c) == codes[c] = None

SaveCode(c, code) ==
    /\ CanSaveCode(c)
    /\ codes' = [codes EXCEPT ![c] = code]
    /\ UNCHANGED <<accounts, credentials, sessions>>

CodeLive(c, now)      == codes[c] # None /\ codes[c].expires > now
CodeMatches(c, proof) == codes[c].proof = proof
\* Mutant: one attempt too many.
LastAttempt_Past(c)   == codes[c].attempts >= MaxAttempts
LastAttempt(c)        == codes[c].attempts + 1 >= MaxAttempts

\* Mutant: a code that matched stays.
Spent_Unmatched(c, proof, now) == ~CodeLive(c, now) \/ LastAttempt(c)
Spent(c, proof, now) ==
    ~CodeLive(c, now) \/ CodeMatches(c, proof) \/ LastAttempt(c)

\* AttemptCode answers matched, unmatched, exceeded, or expired or not found;
\* every answer to a known code spends an attempt or the code.
AttemptCode(c, proof, now) ==
    /\ codes' = IF Spent(c, proof, now)
                THEN [codes EXCEPT ![c] = None]
                ELSE [codes EXCEPT ![c].attempts = @ + 1]
    /\ UNCHANGED <<accounts, credentials, sessions>>

DeleteCode(c) ==
    /\ codes' = [codes EXCEPT ![c] = None]
    /\ UNCHANGED <<accounts, credentials, sessions>>

-----------------------------------------------------------------------------
(* Sessions.                                                               *)

CanCreateSession(s) == sessions[s] = None

CreateSession(s, session) ==
    /\ CanCreateSession(s)
    /\ sessions' = [sessions EXCEPT ![s] = session]
    /\ UNCHANGED <<accounts, credentials, codes>>

SessionLive(s, now) ==
    s \in SessionIDs /\ sessions[s] # None /\ sessions[s].expires > now

\* SessionByID also drops the session when it finds it expired.
SessionByID(s, now) ==
    /\ sessions' = [t \in SessionIDs |->
                      IF t = s /\ ~SessionLive(s, now) THEN None ELSE sessions[t]]
    /\ UNCHANGED <<accounts, credentials, codes>>

RevokeSession(s) ==
    /\ sessions' = [t \in SessionIDs |-> IF t = s THEN None ELSE sessions[t]]
    /\ UNCHANGED <<accounts, credentials, codes>>

RevokeUserSessions(u) ==
    /\ sessions' = [s \in SessionIDs |->
                      IF sessions[s] # None /\ sessions[s].user = u
                      THEN None ELSE sessions[s]]
    /\ UNCHANGED <<accounts, credentials, codes>>

-----------------------------------------------------------------------------
(* Any caller, any method, any argument.                                   *)

AccountCall ==
    \E u \in UserIDs :
        \/ \E i \in Identifiers, w \in WebAuthnIDs :
              \/ CreateUser(u, i, w)
              \/ \E h \in Hash : CreatePasswordUser(u, i, w, h)
        \/ \E b \in BOOLEAN : SetUserVerified(u, b) \/ SetUserDisabled(u, b)

CredentialCall ==
    \E u \in UserIDs :
        \/ \E h \in Hash : SetPassword(u, h)
        \/ \E k \in Passkey :
              \/ SavePasskey(u, k)
              \/ \E n \in Counts : UpdatePasskey(u, k, n)
        \/ \E id \in PasskeyIDs : DeletePasskey(u, id)
        \/ \E t \in TOTPCredential : SetTOTP(u, t)
        \/ DeleteTOTP(u)
        \/ \E set \in SUBSET RecoveryCodes : SetRecoveryCodes(u, set)
        \/ \E c \in RecoveryCodes : ConsumeRecoveryCode(u, c)

CodeCall ==
    \E c \in CodeIDs :
        \/ \E code \in OneTimeCode : code.attempts = 0 /\ SaveCode(c, code)
        \/ \E p \in Proof, t \in Times : AttemptCode(c, p, t)
        \/ DeleteCode(c)

SessionCall ==
    \/ \E s \in SessionIDs :
          \/ \E session \in Session : CreateSession(s, session)
          \/ \E t \in Times : SessionByID(s, t)
          \/ RevokeSession(s)
    \/ \E u \in UserIDs : RevokeUserSessions(u)

StoreNext == AccountCall \/ CredentialCall \/ CodeCall \/ SessionCall

StoreSpec == StoreInit /\ [][StoreNext]_storeVars

-----------------------------------------------------------------------------
(* What every history of calls preserves.                                  *)

\* The two indexes and the rows say the same: createUser is the only method
\* that writes them, and it writes all three or none.  A lookup by
\* identifier or by WebAuthn handle finds the one account that carries it,
\* and every account is found by its handle.
IndexesAgree ==
    /\ \A i \in Identifiers, u \in UserIDs :
          identifiers[i] = u <=> users[u] # None /\ users[u].identifier = i
    /\ \A w \in WebAuthnIDs, u \in UserIDs :
          webAuthnIDs[w] = u <=> users[u] # None /\ users[u].webAuthnID = w
    /\ \A u \in UserIDs : users[u] # None => users[u].webAuthnID \in WebAuthnIDs

\* No credential belongs to an account that does not exist: the existence
\* checks of SetPassword, SavePasskey, SetTOTP and SetRecoveryCodes, and
\* CreatePasswordUser's single critical section.
CredentialsOwned ==
    \A u \in UserIDs : users[u] = None =>
        /\ passwords[u] = None
        /\ passkeys[u] = {}
        /\ totp[u] = None
        /\ \A c \in RecoveryCodes : recovery[u][c] = "absent"

\* One credential ID is one passkey of one user, so a counter compared and
\* swapped by UpdatePasskey is the counter of the authenticator that signed.
PasskeyIDsUnique ==
    \A u, v \in UserIDs : \A j \in passkeys[u], k \in passkeys[v] :
        j.id = k.id => u = v /\ j = k

\* A stored code or session is never replaced while it is there: SaveCode and
\* CreateSession refuse an ID in use, so no caller can reset the attempt
\* counter of a live code or raise the level of a live session.
TicketsOnlyAge ==
    [][/\ \A c \in CodeIDs : codes[c] # None =>
             \/ codes'[c] \in {None, codes[c]}
             \/ codes'[c] = [codes[c] EXCEPT !.attempts = @ + 1]
       /\ \A s \in SessionIDs : sessions[s] # None =>
             sessions'[s] \in {None, sessions[s]}]_storeVars

StoreInv == IndexesAgree /\ CredentialsOwned /\ PasskeyIDsUnique
=============================================================================
