-------------------------- MODULE MemoryStoreProofs --------------------------
(***************************************************************************)
(* What MemoryStore keeps for every set of users, credentials, codes and   *)
(* sessions, and for every order of calls: its types, the agreement of the *)
(* two indexes with the rows, the ownership of credentials, and that codes *)
(* and sessions are never replaced in place.                               *)
(*                                                                         *)
(* StoreInv is inductive relative to TypeOK, so the proof of each is one   *)
(* induction; both go method by method, the methods in the four groups of  *)
(* StoreNext.                                                              *)
(***************************************************************************)
EXTENDS MemoryStore, TLAPS

-----------------------------------------------------------------------------
(* Types.                                                                  *)

\* NewMemoryStore is well typed.
LEMMA InitType == StoreInit => TypeOK
  BY DEF StoreInit, TypeOK

LEMMA AccountType == TypeOK /\ AccountCall => TypeOK'
<1> SUFFICES ASSUME TypeOK, NEW u \in UserIDs,
                    \/ \E i \in Identifiers, w \in WebAuthnIDs :
                          \/ CreateUser(u, i, w)
                          \/ \E h \in Hash : CreatePasswordUser(u, i, w, h)
                    \/ \E b \in BOOLEAN : SetUserVerified(u, b) \/ SetUserDisabled(u, b)
             PROVE  TypeOK'
  BY DEF AccountCall
<1>1. ASSUME NEW i \in Identifiers, NEW w \in WebAuthnIDs, CreateUser(u, i, w)
      PROVE  TypeOK'
  BY <1>1 DEF CreateUser, AddUser, TypeOK, User, credentials
<1>2. ASSUME NEW i \in Identifiers, NEW w \in WebAuthnIDs, NEW h \in Hash,
             CreatePasswordUser(u, i, w, h)
      PROVE  TypeOK'
  BY <1>2 DEF CreatePasswordUser, AddUser, TypeOK, User
<1>3. ASSUME NEW b \in BOOLEAN, SetUserVerified(u, b) PROVE TypeOK'
  <2>1. users[u] \in User
    BY <1>3 DEF SetUserVerified, UserExists, TypeOK
  <2>2. [users[u] EXCEPT !.verified = b] \in User
    BY <2>1 DEF User
  <2> QED BY <1>3, <2>2 DEF SetUserVerified, TypeOK, credentials
<1>4. ASSUME NEW b \in BOOLEAN, SetUserDisabled(u, b) PROVE TypeOK'
  <2>1. users[u] \in User
    BY <1>4 DEF SetUserDisabled, UserExists, TypeOK
  <2>2. [users[u] EXCEPT !.disabled = b] \in User
    BY <2>1 DEF User
  <2> QED BY <1>4, <2>2 DEF SetUserDisabled, TypeOK, credentials
<1> QED BY <1>1, <1>2, <1>3, <1>4

LEMMA CredentialType == TypeOK /\ CredentialCall => TypeOK'
<1> SUFFICES ASSUME TypeOK, NEW u \in UserIDs,
                    \/ \E h \in Hash : SetPassword(u, h)
                    \/ \E k \in Passkey :
                          \/ SavePasskey(u, k)
                          \/ \E n \in Counts : UpdatePasskey(u, k, n)
                    \/ \E id \in PasskeyIDs : DeletePasskey(u, id)
                    \/ \E t \in TOTPCredential : SetTOTP(u, t)
                    \/ DeleteTOTP(u)
                    \/ \E set \in SUBSET RecoveryCodes : SetRecoveryCodes(u, set)
                    \/ \E c \in RecoveryCodes : ConsumeRecoveryCode(u, c)
             PROVE  TypeOK'
  BY DEF CredentialCall
<1> USE DEF accounts
<1>1. ASSUME NEW h \in Hash, SetPassword(u, h) PROVE TypeOK'
  BY <1>1 DEF SetPassword, TypeOK
<1>2. ASSUME NEW k \in Passkey, SavePasskey(u, k) PROVE TypeOK'
  <2>1. passkeys[u] \cup {k} \in SUBSET Passkey
    BY DEF TypeOK
  <2> QED BY <1>2, <2>1 DEF SavePasskey, TypeOK
<1>3. ASSUME NEW k \in Passkey, NEW n \in Counts, UpdatePasskey(u, k, n)
      PROVE  TypeOK'
  <2>1. {p \in passkeys[u] : p.id # k.id} \cup {k} \in SUBSET Passkey
    BY DEF TypeOK
  <2> QED BY <1>3, <2>1 DEF UpdatePasskey, TypeOK
<1>4. ASSUME NEW id \in PasskeyIDs, DeletePasskey(u, id) PROVE TypeOK'
  <2>1. {p \in passkeys[u] : p.id # id} \in SUBSET Passkey
    BY DEF TypeOK
  <2> QED BY <1>4, <2>1 DEF DeletePasskey, TypeOK
<1>5. ASSUME NEW t \in TOTPCredential, SetTOTP(u, t) PROVE TypeOK'
  BY <1>5 DEF SetTOTP, TypeOK
<1>6. ASSUME DeleteTOTP(u) PROVE TypeOK'
  BY <1>6 DEF DeleteTOTP, TypeOK
<1>7. ASSUME NEW set \in SUBSET RecoveryCodes, SetRecoveryCodes(u, set) PROVE TypeOK'
  BY <1>7 DEF SetRecoveryCodes, TypeOK
<1>8. ASSUME NEW c \in RecoveryCodes, ConsumeRecoveryCode(u, c) PROVE TypeOK'
  <2>1. [recovery[u] EXCEPT ![c] = "used"]
           \in [RecoveryCodes -> {"absent", "unused", "used"}]
    BY DEF TypeOK
  <2> QED BY <1>8, <2>1 DEF ConsumeRecoveryCode, TypeOK
<1> QED BY <1>1, <1>2, <1>3, <1>4, <1>5, <1>6, <1>7, <1>8

\* An answer that spends neither the code nor its last attempt leaves a code
\* with one attempt more, still below the budget.
LEMMA AttemptCounted ==
  ASSUME TypeOK, NEW c \in CodeIDs, codes[c] # None, ~LastAttempt(c)
  PROVE  [codes[c] EXCEPT !.attempts = @ + 1] \in OneTimeCode
<1>1. codes[c] \in OneTimeCode
  BY DEF TypeOK
<1>2. codes[c].attempts + 1 \in 0 .. MaxAttempts - 1
  BY <1>1, NumbersAssumption DEF LastAttempt, OneTimeCode
<1> QED BY <1>1, <1>2 DEF OneTimeCode

LEMMA CodeType == TypeOK /\ CodeCall => TypeOK'
<1> SUFFICES ASSUME TypeOK, NEW c \in CodeIDs,
                    \/ \E code \in OneTimeCode : code.attempts = 0 /\ SaveCode(c, code)
                    \/ \E p \in Proof, t \in Times : AttemptCode(c, p, t)
                    \/ DeleteCode(c)
             PROVE  TypeOK'
  BY DEF CodeCall
<1> USE DEF accounts, credentials
<1>1. ASSUME NEW code \in OneTimeCode, SaveCode(c, code) PROVE TypeOK'
  BY <1>1 DEF SaveCode, TypeOK
<1>2. ASSUME NEW p \in Proof, NEW t \in Times, AttemptCode(c, p, t) PROVE TypeOK'
  <2>1. CASE Spent(c, p, t)
    BY <1>2, <2>1 DEF AttemptCode, TypeOK
  <2>2. CASE ~Spent(c, p, t)
    <3>1. [codes[c] EXCEPT !.attempts = @ + 1] \in OneTimeCode
      BY <2>2, AttemptCounted DEF Spent, CodeLive
    <3> QED BY <1>2, <2>2, <3>1 DEF AttemptCode, TypeOK
  <2> QED BY <2>1, <2>2
<1>3. ASSUME DeleteCode(c) PROVE TypeOK'
  BY <1>3 DEF DeleteCode, TypeOK
<1> QED BY <1>1, <1>2, <1>3

LEMMA SessionType == TypeOK /\ SessionCall => TypeOK'
<1> SUFFICES ASSUME TypeOK, SessionCall PROVE TypeOK'
  OBVIOUS
<1> USE DEF accounts, credentials
<1>1. ASSUME NEW s \in SessionIDs, NEW session \in Session, CreateSession(s, session)
      PROVE  TypeOK'
  BY <1>1 DEF CreateSession, TypeOK
<1>2. ASSUME NEW s \in SessionIDs, NEW t \in Times, SessionByID(s, t) PROVE TypeOK'
  BY <1>2 DEF SessionByID, TypeOK
<1>3. ASSUME NEW s \in SessionIDs, RevokeSession(s) PROVE TypeOK'
  BY <1>3 DEF RevokeSession, TypeOK
<1>4. ASSUME NEW u \in UserIDs, RevokeUserSessions(u) PROVE TypeOK'
  BY <1>4 DEF RevokeUserSessions, TypeOK
<1> QED BY <1>1, <1>2, <1>3, <1>4 DEF SessionCall

\* No call, with any argument, leaves the types.
LEMMA StoreTypeKept == TypeOK /\ [StoreNext]_storeVars => TypeOK'
<1>1. ASSUME TypeOK, UNCHANGED storeVars PROVE TypeOK'
  BY <1>1 DEF TypeOK, storeVars
<1> QED BY <1>1, AccountType, CredentialType, CodeType, SessionType DEF StoreNext

\* Every reachable state of the store is well typed: in particular a stored
\* code always has an attempt left, and no method invents a row for an ID
\* that was not there.
THEOREM TypeCorrect == StoreSpec => []TypeOK
  BY StoreTypeKept, InitType, PTL DEF StoreSpec

-----------------------------------------------------------------------------
(* Accounts and their indexes.                                             *)

\* createUser checks that the row and both index entries are free and then
\* writes all three: the one step that can break the agreement, and why all
\* three checks are needed.
LEMMA AddUserAgrees ==
  ASSUME TypeOK, IndexesAgree, NEW u \in UserIDs, NEW i \in Identifiers,
         NEW w \in WebAuthnIDs, AddUser(u, i, w)
  PROVE  IndexesAgree'
<1>1. /\ users[u] = None /\ identifiers[i] = None /\ webAuthnIDs[w] = None
      /\ None \notin UserIDs
  BY NoneAssumption DEF AddUser, CanCreateUser
<1>2. /\ users'[u] # None /\ users'[u].identifier = i /\ users'[u].webAuthnID = w
      /\ \A v \in UserIDs \ {u} : users'[v] = users[v]
  <2> DEFINE row == [identifier |-> i, webAuthnID |-> w,
                     verified |-> FALSE, disabled |-> FALSE]
  <2>1. row \in User
    BY DEF User
  <2>2. row # None
    BY <2>1, RowAssumption
  <2>3. users' = [users EXCEPT ![u] = row] /\ users \in [UserIDs -> User \cup {None}]
    BY DEF AddUser, TypeOK
  <2>4. row.identifier = i /\ row.webAuthnID = w
    OBVIOUS
  <2> HIDE DEF row
  <2> QED BY <2>2, <2>3, <2>4
<1>3. /\ identifiers' = [identifiers EXCEPT ![i] = u]
      /\ identifiers \in [Identifiers -> UserIDs \cup {None}]
      /\ webAuthnIDs' = [webAuthnIDs EXCEPT ![w] = u]
      /\ webAuthnIDs \in [WebAuthnIDs -> UserIDs \cup {None}]
  BY DEF AddUser, TypeOK
<1>4. ASSUME NEW j \in Identifiers, NEW v \in UserIDs
      PROVE  identifiers'[j] = v <=> users'[v] # None /\ users'[v].identifier = j
  <2>1. identifiers[j] = v <=> users[v] # None /\ users[v].identifier = j
    BY DEF IndexesAgree
  <2>2. CASE v = u
    BY <1>1, <1>2, <1>3, <2>1, <2>2
  <2>3. CASE v # u
    BY <1>1, <1>2, <1>3, <2>1, <2>3
  <2> QED BY <2>2, <2>3
<1>5. ASSUME NEW x \in WebAuthnIDs, NEW v \in UserIDs
      PROVE  webAuthnIDs'[x] = v <=> users'[v] # None /\ users'[v].webAuthnID = x
  <2>1. webAuthnIDs[x] = v <=> users[v] # None /\ users[v].webAuthnID = x
    BY DEF IndexesAgree
  <2>2. CASE v = u
    BY <1>1, <1>2, <1>3, <2>1, <2>2
  <2>3. CASE v # u
    BY <1>1, <1>2, <1>3, <2>1, <2>3
  <2> QED BY <2>2, <2>3
<1>6. ASSUME NEW v \in UserIDs, users'[v] # None PROVE users'[v].webAuthnID \in WebAuthnIDs
  BY <1>2, <1>6 DEF IndexesAgree
<1> QED BY <1>4, <1>5, <1>6 DEF IndexesAgree

\* A change of the two flags of a row leaves its names alone.
LEMMA FlagsAgree ==
  ASSUME TypeOK, IndexesAgree, NEW u \in UserIDs, NEW b \in BOOLEAN,
         SetUserVerified(u, b) \/ SetUserDisabled(u, b)
  PROVE  IndexesAgree'
<1>1. /\ users[u] \in User /\ users \in [UserIDs -> User \cup {None}]
      /\ identifiers' = identifiers /\ webAuthnIDs' = webAuthnIDs
  BY DEF SetUserVerified, SetUserDisabled, UserExists, TypeOK
<1>2. PICK row \in User : /\ users' = [users EXCEPT ![u] = row]
                          /\ row.identifier = users[u].identifier
                          /\ row.webAuthnID = users[u].webAuthnID
  <2>1. CASE SetUserVerified(u, b)
    <3> DEFINE row == [users[u] EXCEPT !.verified = b]
    <3>1. /\ row \in User /\ row.identifier = users[u].identifier
          /\ row.webAuthnID = users[u].webAuthnID
      BY <1>1 DEF User
    <3> QED BY <2>1, <3>1 DEF SetUserVerified
  <2>2. CASE SetUserDisabled(u, b)
    <3> DEFINE row == [users[u] EXCEPT !.disabled = b]
    <3>1. /\ row \in User /\ row.identifier = users[u].identifier
          /\ row.webAuthnID = users[u].webAuthnID
      BY <1>1 DEF User
    <3> QED BY <2>2, <3>1 DEF SetUserDisabled
  <2> QED BY <2>1, <2>2
<1>3. /\ row # None /\ users[u] # None
  BY <1>1, RowAssumption
<1>4. ASSUME NEW v \in UserIDs
      PROVE  /\ users'[v] # None <=> users[v] # None
             /\ users'[v].identifier = users[v].identifier
             /\ users'[v].webAuthnID = users[v].webAuthnID
  BY <1>1, <1>2, <1>3
<1> QED BY <1>1, <1>4 DEF IndexesAgree

\* Only AccountCall touches users, identifiers or webAuthnIDs.
LEMMA IndexesKept == TypeOK /\ IndexesAgree /\ StoreNext => IndexesAgree'
<1> SUFFICES ASSUME TypeOK, IndexesAgree, StoreNext PROVE IndexesAgree'
  OBVIOUS
<1>1. CASE AccountCall
  BY <1>1, AddUserAgrees, FlagsAgree DEF AccountCall, CreateUser, CreatePasswordUser
<1>2. CASE CredentialCall \/ CodeCall \/ SessionCall
  <2>1. UNCHANGED accounts
    BY <1>2 DEF CredentialCall, SetPassword, SavePasskey, UpdatePasskey,
                DeletePasskey, SetTOTP, DeleteTOTP, SetRecoveryCodes,
                ConsumeRecoveryCode, CodeCall, SaveCode, AttemptCode, DeleteCode,
                SessionCall, CreateSession, SessionByID, RevokeSession,
                RevokeUserSessions, accounts
  <2> QED BY <2>1 DEF accounts, IndexesAgree
<1> QED BY <1>1, <1>2 DEF StoreNext

-----------------------------------------------------------------------------
(* Credentials.                                                            *)

\* No method removes a row, and no method gives a credential to a user who
\* has none.
LEMMA OwnedKept == TypeOK /\ CredentialsOwned /\ StoreNext => CredentialsOwned'
<1> SUFFICES ASSUME TypeOK, CredentialsOwned, StoreNext PROVE CredentialsOwned'
  OBVIOUS
<1>1. CASE AccountCall
  <2>1. PICK u \in UserIDs :
           /\ UNCHANGED <<passkeys, totp, recovery>>
           /\ \/ UNCHANGED passwords
              \/ users'[u] # None /\ \A v \in UserIDs \ {u} : passwords'[v] = passwords[v]
           /\ \A v \in UserIDs : users[v] # None => users'[v] # None
    <3> SUFFICES ASSUME NEW u \in UserIDs,
                        \/ \E i \in Identifiers, w \in WebAuthnIDs :
                              \/ CreateUser(u, i, w)
                              \/ \E h \in Hash : CreatePasswordUser(u, i, w, h)
                        \/ \E b \in BOOLEAN : SetUserVerified(u, b) \/ SetUserDisabled(u, b)
                 PROVE  /\ UNCHANGED <<passkeys, totp, recovery>>
                        /\ \/ UNCHANGED passwords
                           \/ /\ users'[u] # None
                              /\ \A v \in UserIDs \ {u} : passwords'[v] = passwords[v]
                        /\ \A v \in UserIDs : users[v] # None => users'[v] # None
      BY <1>1 DEF AccountCall
    <3>1. ASSUME NEW i \in Identifiers, NEW w \in WebAuthnIDs, AddUser(u, i, w)
          PROVE  /\ users'[u] # None
                 /\ \A v \in UserIDs : users[v] # None => users'[v] # None
      <4>1. [identifier |-> i, webAuthnID |-> w,
             verified |-> FALSE, disabled |-> FALSE] \in User
        BY DEF User
      <4> QED BY <3>1, <4>1, RowAssumption DEF AddUser, TypeOK
    <3>2. ASSUME NEW b \in BOOLEAN, SetUserVerified(u, b) \/ SetUserDisabled(u, b)
          PROVE  \A v \in UserIDs : users[v] # None => users'[v] # None
      <4>1. users[u] \in User
        BY <3>2 DEF SetUserVerified, SetUserDisabled, UserExists, TypeOK
      <4>2. /\ [users[u] EXCEPT !.verified = b] \in User
            /\ [users[u] EXCEPT !.disabled = b] \in User
        BY <4>1 DEF User
      <4> QED BY <3>2, <4>2, RowAssumption DEF SetUserVerified, SetUserDisabled, TypeOK
    <3>3. ASSUME NEW i \in Identifiers, NEW w \in WebAuthnIDs, NEW h \in Hash,
                 CreatePasswordUser(u, i, w, h)
          PROVE  \A v \in UserIDs \ {u} : passwords'[v] = passwords[v]
      BY <3>3 DEF CreatePasswordUser, TypeOK
    <3> QED BY <3>1, <3>2, <3>3 DEF CreateUser, CreatePasswordUser, SetUserVerified,
                                   SetUserDisabled, credentials
  <2> QED BY <2>1 DEF CredentialsOwned
<1>2. CASE CredentialCall
  <2>1. PICK u \in UserIDs :
           \/ \E h \in Hash : SetPassword(u, h)
           \/ \E k \in Passkey :
                 \/ SavePasskey(u, k)
                 \/ \E n \in Counts : UpdatePasskey(u, k, n)
           \/ \E id \in PasskeyIDs : DeletePasskey(u, id)
           \/ \E t \in TOTPCredential : SetTOTP(u, t)
           \/ DeleteTOTP(u)
           \/ \E set \in SUBSET RecoveryCodes : SetRecoveryCodes(u, set)
           \/ \E c \in RecoveryCodes : ConsumeRecoveryCode(u, c)
    BY <1>2 DEF CredentialCall
  <2> USE DEF accounts, UserExists
  <2>2. ASSUME NEW h \in Hash, SetPassword(u, h) PROVE CredentialsOwned'
    BY <2>2 DEF SetPassword, TypeOK, CredentialsOwned
  <2>3. ASSUME NEW k \in Passkey, SavePasskey(u, k) PROVE CredentialsOwned'
    BY <2>3 DEF SavePasskey, CanSavePasskey, TypeOK, CredentialsOwned
  <2>4. ASSUME NEW k \in Passkey, NEW n \in Counts, UpdatePasskey(u, k, n)
        PROVE  CredentialsOwned'
    BY <2>4 DEF UpdatePasskey, CanUpdatePasskey, TypeOK, CredentialsOwned
  <2>5. ASSUME NEW id \in PasskeyIDs, DeletePasskey(u, id) PROVE CredentialsOwned'
    BY <2>5 DEF DeletePasskey, TypeOK, CredentialsOwned
  <2>6. ASSUME NEW t \in TOTPCredential, SetTOTP(u, t) PROVE CredentialsOwned'
    BY <2>6 DEF SetTOTP, TypeOK, CredentialsOwned
  <2>7. ASSUME DeleteTOTP(u) PROVE CredentialsOwned'
    BY <2>7 DEF DeleteTOTP, TypeOK, CredentialsOwned
  <2>8. ASSUME NEW set \in SUBSET RecoveryCodes, SetRecoveryCodes(u, set)
        PROVE  CredentialsOwned'
    BY <2>8 DEF SetRecoveryCodes, TypeOK, CredentialsOwned
  <2>9. ASSUME NEW c \in RecoveryCodes, ConsumeRecoveryCode(u, c) PROVE CredentialsOwned'
    <3>1. users[u] # None
      BY <2>9 DEF ConsumeRecoveryCode, CanConsumeRecoveryCode, CredentialsOwned
    <3> QED BY <2>9, <3>1 DEF ConsumeRecoveryCode, TypeOK, CredentialsOwned
  <2> QED BY <2>1, <2>2, <2>3, <2>4, <2>5, <2>6, <2>7, <2>8, <2>9
<1>3. CASE CodeCall \/ SessionCall
  <2>1. UNCHANGED <<accounts, credentials>>
    BY <1>3 DEF CodeCall, SaveCode, AttemptCode, DeleteCode, SessionCall,
                CreateSession, SessionByID, RevokeSession, RevokeUserSessions
  <2> QED BY <2>1 DEF accounts, credentials, CredentialsOwned
<1> QED BY <1>1, <1>2, <1>3 DEF StoreNext

\* SavePasskey looks at the passkeys of every user before it adds one, and
\* UpdatePasskey replaces the one passkey of its user that has the ID.
LEMMA PasskeyIDsKept == TypeOK /\ PasskeyIDsUnique /\ StoreNext => PasskeyIDsUnique'
<1> SUFFICES ASSUME TypeOK, PasskeyIDsUnique, StoreNext PROVE PasskeyIDsUnique'
  OBVIOUS
<1>1. ASSUME NEW u \in UserIDs, NEW k \in Passkey, SavePasskey(u, k)
      PROVE  PasskeyIDsUnique'
  BY <1>1 DEF SavePasskey, CanSavePasskey, TypeOK, PasskeyIDsUnique
<1>2. ASSUME NEW u \in UserIDs, NEW k \in Passkey, NEW n \in Counts,
             UpdatePasskey(u, k, n)
      PROVE  PasskeyIDsUnique'
  <2>1. PICK old \in passkeys[u] : old.id = k.id
    BY <1>2 DEF UpdatePasskey, CanUpdatePasskey
  <2>2. \A v \in UserIDs : \A j \in passkeys'[v] :
           \/ j \in passkeys[v] /\ (v = u => j.id # k.id)
           \/ v = u /\ j = k
    BY <1>2 DEF UpdatePasskey, TypeOK
  <2> QED BY <2>1, <2>2 DEF PasskeyIDsUnique
<1>3. ASSUME NEW u \in UserIDs, NEW id \in PasskeyIDs, DeletePasskey(u, id)
      PROVE  PasskeyIDsUnique'
  BY <1>3 DEF DeletePasskey, TypeOK, PasskeyIDsUnique
<1>4. CASE UNCHANGED passkeys
  BY <1>4 DEF PasskeyIDsUnique
<1>5. \/ UNCHANGED passkeys
      \/ \E u \in UserIDs :
            \/ \E k \in Passkey :
                  \/ SavePasskey(u, k)
                  \/ \E n \in Counts : UpdatePasskey(u, k, n)
            \/ \E id \in PasskeyIDs : DeletePasskey(u, id)
  BY DEF StoreNext, AccountCall, CreateUser, CreatePasswordUser, SetUserVerified,
         SetUserDisabled, CredentialCall, SetPassword, SetTOTP, DeleteTOTP,
         SetRecoveryCodes, ConsumeRecoveryCode, CodeCall, SaveCode, AttemptCode,
         DeleteCode, SessionCall, CreateSession, SessionByID, RevokeSession,
         RevokeUserSessions, credentials
<1> QED BY <1>1, <1>2, <1>3, <1>4, <1>5

-----------------------------------------------------------------------------
(* The theorems.                                                           *)

\* The empty store satisfies all three parts.
LEMMA InitInv == StoreInit => StoreInv
<1> SUFFICES ASSUME StoreInit PROVE StoreInv
  OBVIOUS
<1>1. IndexesAgree
  BY NoneAssumption DEF StoreInit, IndexesAgree
<1> QED BY <1>1 DEF StoreInit, StoreInv, CredentialsOwned, PasskeyIDsUnique

\* In every reachable state the indexes and the rows agree, every credential
\* belongs to an account that exists, and no credential ID is used twice.
THEOREM StoreInvariant ==
  StoreSpec => [](IndexesAgree /\ CredentialsOwned /\ PasskeyIDsUnique)
<1>1. TypeOK /\ StoreInv /\ [StoreNext]_storeVars => StoreInv'
  <2>1. ASSUME StoreInv, UNCHANGED storeVars PROVE StoreInv'
    BY <2>1 DEF StoreInv, IndexesAgree, CredentialsOwned, PasskeyIDsUnique, storeVars
  <2> QED BY <2>1, IndexesKept, OwnedKept, PasskeyIDsKept DEF StoreInv
<1>2. StoreInv <=> IndexesAgree /\ CredentialsOwned /\ PasskeyIDsUnique
  BY DEF StoreInv
<1> QED BY <1>1, <1>2, InitInv, TypeCorrect, PTL DEF StoreSpec

\* A stored code only gains attempts until it is deleted, and a stored
\* session never changes: no step of any caller replaces either.
THEOREM TicketsAge == StoreSpec => TicketsOnlyAge
<1> DEFINE Ages ==
       /\ \A c \in CodeIDs : codes[c] # None =>
             \/ codes'[c] \in {None, codes[c]}
             \/ codes'[c] = [codes[c] EXCEPT !.attempts = @ + 1]
       /\ \A s \in SessionIDs : sessions[s] # None =>
             sessions'[s] \in {None, sessions[s]}
<1>1. TypeOK /\ [StoreNext]_storeVars => [Ages]_storeVars
  <2> SUFFICES ASSUME TypeOK, StoreNext PROVE Ages
    OBVIOUS
  <2>1. CASE AccountCall \/ CredentialCall
    <3>1. UNCHANGED <<codes, sessions>>
      BY <2>1 DEF AccountCall, CreateUser, CreatePasswordUser, SetUserVerified,
                  SetUserDisabled, CredentialCall, SetPassword, SavePasskey,
                  UpdatePasskey, DeletePasskey, SetTOTP, DeleteTOTP,
                  SetRecoveryCodes, ConsumeRecoveryCode
    <3> QED BY <3>1
  <2>2. CASE CodeCall
    <3>1. UNCHANGED sessions
      BY <2>2 DEF CodeCall, SaveCode, AttemptCode, DeleteCode
    <3>2. \A c \in CodeIDs : codes[c] # None =>
             \/ codes'[c] \in {None, codes[c]}
             \/ codes'[c] = [codes[c] EXCEPT !.attempts = @ + 1]
      BY <2>2 DEF CodeCall, SaveCode, CanSaveCode, AttemptCode, DeleteCode, TypeOK
    <3> QED BY <3>1, <3>2
  <2>3. CASE SessionCall
    <3>1. UNCHANGED codes
      BY <2>3 DEF SessionCall, CreateSession, SessionByID, RevokeSession, RevokeUserSessions
    <3>2. \A s \in SessionIDs : sessions[s] # None => sessions'[s] \in {None, sessions[s]}
      BY <2>3 DEF SessionCall, CreateSession, CanCreateSession, SessionByID,
                  RevokeSession, RevokeUserSessions, TypeOK
    <3> QED BY <3>1, <3>2
  <2> QED BY <2>1, <2>2, <2>3 DEF StoreNext
<1> QED BY <1>1, TypeCorrect, PTL DEF StoreSpec, TicketsOnlyAge
=============================================================================
