-------------------------- MODULE PasswordHandlers --------------------------
(***************************************************************************)
(* Registration and password login (handlers_password.go).                 *)
(*                                                                         *)
(* loginPassword reads the password row twice: once to verify what the     *)
(* client typed, once more, after the policies, to ask NeedsRehash.  When  *)
(* the hash is out of date the typed password is hashed and stored again,  *)
(* on the strength of a verification that is by then several calls old.    *)
(*                                                                         *)
(* Where there is no row, dummyHash is verified: a hash, made by Register, *)
(* of a constant of the source.  For an unknown account the answer is not  *)
(* used.  An account without a password is opened by that constant.        *)
(***************************************************************************)
EXTENDS Sessions

CONSTANT DummyPassword   \* the constant dummyHash is made of; clients may type it

\* credentialsInput, decoded and normalized.
Credentials == [identifier: Identifiers, password: Passwords]

PasswordCall(r) ==
    \E b \in Browsers :
        \/ /\ Supplied(UserIDs, 1, {"register"}) /\ Supplied(WebAuthnIDs, 1, {"register"})
           /\ \E g \in Credentials : Arrive(r, "register", b, g, "register")
        \/ /\ Supplied(SessionIDs, 1, Logins)
           /\ \E g \in Credentials : Arrive(r, "login", b, g, "lookup")

\* Mutant: a conflict is tried again with other random IDs.
CreateAccount_Retry(r) ==
    /\ At(r, "register")
    /\ \E u \in Fresh(UserIDs), w \in Fresh(WebAuthnIDs) :
          LET i == req[r].given.identifier
              hash == [password |-> req[r].given.password, legacy |-> FALSE]
          IN  /\ drawn' = drawn \cup {u, w}
              /\ \/ CreatePasswordUser(u, i, w, hash) /\ Reply(r, None)
                 \/ ~CanCreateUser(u, i, w) /\ UNCHANGED <<storeVars, req>>
    /\ UNCHANGED <<jar, now, challenges, history>>

\* registerPassword: random IDs, then account and password in one call.
CreateAccount(r) ==
    /\ At(r, "register")
    /\ \E u \in Fresh(UserIDs), w \in Fresh(WebAuthnIDs) :
          LET i == req[r].given.identifier
              hash == [password |-> req[r].given.password, legacy |-> FALSE]
          IN  /\ drawn' = drawn \cup {u, w}
              /\ \/ CreatePasswordUser(u, i, w, hash) /\ Reply(r, None)
                 \/ ~CanCreateUser(u, i, w) /\ Refuse(r) /\ UNCHANGED storeVars
    /\ UNCHANGED <<jar, now, challenges, history>>

\* For an unknown account dummyHash is verified and the answer ignored; a
\* disabled one is refused as if the password were wrong.
LookupIdentifier(r) ==
    /\ At(r, "lookup")
    /\ LET u == UserByIdentifier(req[r].given.identifier)
       IN  IF UserExists(u) /\ ~users[u].disabled
           THEN req' = [req EXCEPT ![r].pc = "verify", ![r].user = u]
           ELSE Refuse(r)
    /\ Local

\* What a login of u is verified against: the row, or else dummyHash.
HashFor(u) ==
    IF passwords[u] = None THEN [password |-> DummyPassword, legacy |-> FALSE]
    ELSE passwords[u]

\* Mutant: a login is not bound to the stored password.
PasswordValid_Any(u, password) == passwords[u] # None
PasswordValid(u, password) == HashFor(u).password = password

VerifyPassword(r) ==
    /\ At(r, "verify")
    /\ IF PasswordValid(req[r].user, req[r].given.password)
       THEN Goto(r, "check_hash")
       ELSE Refuse(r)
    /\ Local

\* The row is read again.  An empty hash, because there is no row or the read
\* failed, needs a rehash too: that stores the password dummyHash let in.
NeedsRehash(u) == passwords[u] # None => passwords[u].legacy

\* level is from here on the level granted.
CheckHash(r) ==
    /\ At(r, "check_hash")
    /\ LET u == req[r].user
       IN  \E stale \in {NeedsRehash(u)} \cup (IF FaultsHappen THEN {TRUE} ELSE {}) :
              req' = [req EXCEPT ![r].pc = IF stale THEN "rehash" ELSE "rotate",
                                 ![r].level = "password"]
    /\ Local

Rehash(r) ==
    /\ At(r, "rehash")
    /\ \/ SetPassword(req[r].user, [password |-> req[r].given.password,
                                    legacy |-> FALSE])
       \/ (FaultsHappen \/ ~UserExists(req[r].user)) /\ UNCHANGED storeVars
    /\ Goto(r, "rotate")
    /\ Elsewhere

PasswordStep(r) ==
    \/ CreateAccount(r) \/ LookupIdentifier(r) \/ VerifyPassword(r)
    \/ CheckHash(r) \/ Rehash(r)

\* Policies and the limiter: before the account is created, before it is
\* looked up, and after the password was verified.
PasswordDenied(r) == Deny(r, {"register", "lookup", "check_hash"})
PasswordFault(r)  == Fail(r, {"register", "lookup", "verify"})
=============================================================================
