--------------------------- MODULE JsonStoreProofs ---------------------------
(***************************************************************************)
(* What restarts of the store of the demo cannot do, for every set of      *)
(* users, credentials, codes and sessions, every order of calls and every  *)
(* write that fails: make an account appear, disappear or change its name, *)
(* or load a state in which the maps contradict each other.                *)
(*                                                                         *)
(* Both sides have to be followed, since the one becomes the other: what   *)
(* is known of memory at a write is then known of the file, and what is    *)
(* known of the file at a restart of memory.  A step is a call that        *)
(* MemoryStore has too, with the file written or not; a registration that  *)
(* is taken back; or the reading of the file.                              *)
(***************************************************************************)
EXTENDS JsonStore, MemoryStoreProofs

-----------------------------------------------------------------------------
(* Accounts on the two sides.                                              *)

RowsOK ==
    /\ users \in [UserIDs -> User \cup {None}]
    /\ file.users \in [UserIDs -> User \cup {None}]

\* Writing a row keeps everything but its handle.
LEMMA MarshalledRow ==
  ASSUME NEW row \in User \cup {None}
  PROVE  /\ Marshalled(row) \in User \cup {None}
         /\ row = None <=> Marshalled(row) = None
         /\ row # None => Marshalled(row).identifier = row.identifier
<1>1. CASE row = None
  BY <1>1 DEF Marshalled
<1>2. CASE row \in User
  <2>1. /\ [row EXCEPT !.webAuthnID = None] \in User
        /\ [row EXCEPT !.webAuthnID = None].identifier = row.identifier
    BY <1>2 DEF User
  <2> QED BY <1>2, <2>1, RowAssumption DEF Marshalled
<1> QED BY <1>1, <1>2

\* A write makes the file agree with memory, whatever was in it before.
LEMMA PersistAgrees ==
  ASSUME users' \in [UserIDs -> User \cup {None}], Persist
  PROVE  RowsOK' /\ SameAccounts'
<1>1. /\ file'.identifiers = identifiers' /\ file'.webAuthnIDs = webAuthnIDs'
      /\ file'.users = [u \in UserIDs |-> Marshalled(users'[u])]
  BY DEF Persist, Written, memory
<1>2. ASSUME NEW u \in UserIDs
      PROVE  /\ file'.users[u] \in User \cup {None}
             /\ users'[u] = None <=> file'.users[u] = None
             /\ users'[u] # None => users'[u].identifier = file'.users[u].identifier
  <2>1. users'[u] \in User \cup {None}
    OBVIOUS
  <2>2. file'.users[u] = Marshalled(users'[u])
    BY <1>1
  <2> QED BY <2>1, <2>2, MarshalledRow
<1>3. file'.users \in [UserIDs -> User \cup {None}]
  BY <1>1, <1>2
<1> QED BY <1>1, <1>2, <1>3 DEF RowsOK, SameAccounts

\* A change of a flag gives a row of the same name.
LEMMA FlagKeepsRow ==
  ASSUME RowsOK, NEW u \in UserIDs, NEW b \in BOOLEAN, SetUserVerified(u, b)
  PROVE  /\ users' \in [UserIDs -> User \cup {None}]
         /\ \A v \in UserIDs : /\ users[v] = None <=> users'[v] = None
                               /\ users[v] # None => users'[v].identifier = users[v].identifier
         /\ UNCHANGED <<identifiers, webAuthnIDs>>
<1> DEFINE row == [users[u] EXCEPT !.verified = b]
<1>1. users[u] \in User /\ users[u] # None
  BY DEF SetUserVerified, UserExists, RowsOK
<1>2. row \in User /\ row.identifier = users[u].identifier
  BY <1>1 DEF User
<1>3. row # None
  BY <1>2, RowAssumption
<1>4. /\ users' = [users EXCEPT ![u] = row]
      /\ UNCHANGED <<identifiers, webAuthnIDs>>
  BY DEF SetUserVerified
<1> HIDE DEF row
<1> QED BY <1>1, <1>2, <1>3, <1>4 DEF RowsOK

\* What a step does to the accounts.
LEMMA StepKinds ==
  ASSUME JsonNext
  PROVE  \/ UNCHANGED accounts /\ Saved
         \/ \E u \in UserIDs, b \in BOOLEAN : SetUserVerified(u, b) /\ Saved
         \/ \E u \in UserIDs, i \in Identifiers, w \in WebAuthnIDs :
               AddUser(u, i, w) /\ Persist
         \/ Reopen
<1>1. CASE JsonAccountCall
  BY <1>1 DEF JsonAccountCall, CreateUser, CreatePasswordUser, CreateUserFails,
              SetPassword, Saved
<1>2. CASE JsonCredentialCall
  BY <1>2 DEF JsonCredentialCall, SavePasskey, UpdatePasskey, DeletePasskey, SetTOTP,
              DeleteTOTP, SetRecoveryCodes, ConsumeRecoveryCode
<1>3. CASE JsonCodeCall
  BY <1>3 DEF JsonCodeCall, SaveCode, AttemptCode, DeleteCode
<1>4. CASE JsonSessionCall
  BY <1>4 DEF JsonSessionCall, CreateSession, SessionByID, RevokeSession,
              RevokeUserSessions
<1> QED BY <1>1, <1>2, <1>3, <1>4 DEF JsonNext

\* Open on no file: no accounts on either side.
LEMMA JsonInitAgrees == JsonInit => RowsOK /\ SameAccounts
<1> SUFFICES ASSUME JsonInit PROVE RowsOK /\ SameAccounts
  OBVIOUS
<1>1. /\ users = [u \in UserIDs |-> None]
      /\ file.identifiers = identifiers /\ file.webAuthnIDs = webAuthnIDs
      /\ file.users = [u \in UserIDs |-> Marshalled(users[u])]
  BY DEF JsonInit, StoreInit, Written, memory
<1>2. \A u \in UserIDs : file.users[u] = None
  BY <1>1 DEF Marshalled
<1>3. file.users \in [UserIDs -> User \cup {None}]
  BY <1>1, <1>2
<1> QED BY <1>1, <1>2, <1>3 DEF RowsOK, SameAccounts

LEMMA AccountsKept == RowsOK /\ SameAccounts /\ JsonNext => RowsOK' /\ SameAccounts'
<1> SUFFICES ASSUME RowsOK, SameAccounts, JsonNext PROVE RowsOK' /\ SameAccounts'
  OBVIOUS
<1>1. CASE UNCHANGED accounts /\ Saved
  <2>1. CASE Persist
    BY <1>1, <2>1, PersistAgrees DEF accounts, RowsOK
  <2>2. CASE UNCHANGED file
    BY <1>1, <2>2 DEF accounts, RowsOK, SameAccounts
  <2> QED BY <1>1, <2>1, <2>2 DEF Saved
<1>2. ASSUME NEW u \in UserIDs, NEW b \in BOOLEAN, SetUserVerified(u, b), Saved
      PROVE  RowsOK' /\ SameAccounts'
  <2>1. CASE Persist
    BY <1>2, <2>1, FlagKeepsRow, PersistAgrees
  <2>2. CASE UNCHANGED file
    BY <1>2, <2>2, FlagKeepsRow DEF RowsOK, SameAccounts
  <2> QED BY <1>2, <2>1, <2>2 DEF Saved
<1>3. ASSUME NEW u \in UserIDs, NEW i \in Identifiers, NEW w \in WebAuthnIDs,
             AddUser(u, i, w), Persist
      PROVE  RowsOK' /\ SameAccounts'
  <2>1. [identifier |-> i, webAuthnID |-> w, verified |-> FALSE, disabled |-> FALSE] \in User
    BY DEF User
  <2>2. users' \in [UserIDs -> User \cup {None}]
    BY <1>3, <2>1 DEF AddUser, RowsOK
  <2> QED BY <1>3, <2>2, PersistAgrees
<1>4. CASE Reopen
  BY <1>4 DEF Reopen, Load, RowsOK, SameAccounts
<1> QED BY <1>1, <1>2, <1>3, <1>4, StepKinds

\* After any failed writes, memory and file have the same accounts under the
\* same identifiers and handles, so a restart changes none of them: what
\* createUserLocked takes back and nothing else needs to.
THEOREM SameAccountsAlways == JsonSpec => []SameAccounts
<1>1. RowsOK /\ SameAccounts /\ [JsonNext]_jsonVars => RowsOK' /\ SameAccounts'
  <2>1. ASSUME RowsOK, SameAccounts, UNCHANGED jsonVars PROVE RowsOK' /\ SameAccounts'
    BY <2>1 DEF RowsOK, SameAccounts, jsonVars, storeVars
  <2> QED BY <2>1, AccountsKept
<1> QED BY <1>1, JsonInitAgrees, PTL DEF JsonSpec

-----------------------------------------------------------------------------
(* Types.                                                                  *)

LEMMA MemoryTyped == memory \in StateType <=> TypeOK
<1>1. memory \in StateType => TypeOK
  BY DEF memory, StateType, TypeOK
<1>2. TypeOK => memory \in StateType
  BY DEF memory, StateType, TypeOK
<1> QED BY <1>1, <1>2

\* The fields of what is written are those of memory but for the handles.
LEMMA WrittenFields ==
  /\ Written.identifiers = identifiers /\ Written.webAuthnIDs = webAuthnIDs
  /\ Written.users = [u \in UserIDs |-> Marshalled(users[u])]
  /\ Written.passwords = passwords /\ Written.passkeys = passkeys
  /\ Written.totp = totp /\ Written.recovery = recovery
  /\ Written.codes = codes /\ Written.sessions = sessions
  BY DEF Written, memory

LEMMA WrittenTyped == TypeOK => Written \in StateType
<1> SUFFICES ASSUME TypeOK PROVE Written \in StateType
  OBVIOUS
<1>1. [u \in UserIDs |-> Marshalled(users[u])] \in [UserIDs -> User \cup {None}]
  BY MarshalledRow DEF TypeOK
<1>2. memory \in StateType
  BY MemoryTyped
<1> QED BY <1>1, <1>2 DEF Written, StateType

\* A step is a call of the interface that is written or not, a registration
\* that is taken back, or the reading of the file.
LEMMA CallKinds ==
  ASSUME JsonNext
  PROVE  \/ StoreNext /\ Saved
         \/ \E u \in UserIDs, i \in Identifiers, w \in WebAuthnIDs : CreateUserFails(u, i, w)
         \/ Reopen
<1>1. CASE JsonAccountCall
  <2>1. PICK u \in UserIDs :
           \/ \E i \in Identifiers, w \in WebAuthnIDs :
                 \/ CreateUser(u, i, w) /\ Persist
                 \/ \E h \in Hash : CreatePasswordUser(u, i, w, h) /\ Persist
                 \/ CreateUserFails(u, i, w)
           \/ \E b \in BOOLEAN : SetUserVerified(u, b) /\ Saved
           \/ \E h \in Hash : SetPassword(u, h) /\ Saved
    BY <1>1 DEF JsonAccountCall
  <2> QED BY <2>1 DEF Saved, StoreNext, AccountCall, CredentialCall
<1>2. CASE JsonCredentialCall
  <2>1. ASSUME NEW u \in UserIDs, NEW k \in Passkey, DeletePasskey(u, k.id)
        PROVE  CredentialCall
    BY <2>1 DEF CredentialCall, Passkey
  <2>2. CredentialCall /\ Saved
    BY <1>2, <2>1 DEF JsonCredentialCall, CredentialCall
  <2> QED BY <2>2 DEF StoreNext
<1>3. CASE JsonCodeCall
  BY <1>3 DEF JsonCodeCall, StoreNext, CodeCall
<1>4. CASE JsonSessionCall
  BY <1>4 DEF JsonSessionCall, StoreNext, SessionCall
<1> QED BY <1>1, <1>2, <1>3, <1>4 DEF JsonNext

LEMMA JsonTypeKept == JsonTypeOK /\ [JsonNext]_jsonVars => JsonTypeOK'
<1> SUFFICES ASSUME JsonTypeOK, [JsonNext]_jsonVars PROVE JsonTypeOK'
  OBVIOUS
<1>1. TypeOK
  BY MemoryTyped DEF JsonTypeOK
<1>2. (TypeOK => memory \in StateType /\ Written \in StateType)'
  BY MemoryTyped, WrittenTyped, PTL
<1>3. CASE UNCHANGED jsonVars
  BY <1>3 DEF JsonTypeOK, jsonVars, storeVars, memory
<1>4. CASE StoreNext /\ Saved
  <2>1. TypeOK'
    BY <1>1, <1>4, StoreTypeKept
  <2> QED BY <1>2, <1>4, <2>1 DEF JsonTypeOK, Saved, Persist
<1>5. ASSUME NEW u \in UserIDs, NEW i \in Identifiers, NEW w \in WebAuthnIDs,
             CreateUserFails(u, i, w)
      PROVE  JsonTypeOK'
  <2>1. TypeOK'
    BY <1>1, <1>5 DEF CreateUserFails, accounts, TypeOK
  <2> QED BY <1>2, <1>5, <2>1 DEF JsonTypeOK, CreateUserFails
<1>6. CASE Reopen
  <2>1. memory' \in StateType
    BY <1>6 DEF JsonTypeOK, Reopen, Load, memory, StateType
  <2> QED BY <1>6, <2>1 DEF JsonTypeOK, Reopen
<1> QED BY <1>3, <1>4, <1>5, <1>6, CallKinds

\* Neither memory nor the file ever holds anything a handler does not expect,
\* whatever writes failed and whenever the process was started again.
THEOREM JsonTypeCorrect == JsonSpec => []JsonTypeOK
<1>1. JsonInit => JsonTypeOK
  BY InitType, MemoryTyped, WrittenTyped DEF JsonInit, JsonTypeOK
<1> QED BY <1>1, JsonTypeKept, PTL DEF JsonSpec

-----------------------------------------------------------------------------
(* Accounts with their indexes, credentials with their accounts.           *)

\* What has to hold of memory for what is written to be consistent: that the
\* handles are missing in what is written changes neither part.
Consistent(m) == AccountsIndexed(m) /\ CredentialsIn(m)

LEMMA WrittenConsistent == TypeOK /\ Consistent(memory) => Consistent(Written)
<1> SUFFICES ASSUME TypeOK, Consistent(memory) PROVE Consistent(Written)
  OBVIOUS
<1>1. ASSUME NEW u \in UserIDs
      PROVE  /\ Written.users[u] = None <=> users[u] = None
             /\ users[u] # None => Written.users[u].identifier = users[u].identifier
  <2>1. users[u] \in User \cup {None} /\ Written.users[u] = Marshalled(users[u])
    BY WrittenFields DEF TypeOK
  <2> QED BY <2>1, MarshalledRow
<1>2. AccountsIndexed(Written)
  BY <1>1, WrittenFields DEF Consistent, AccountsIndexed, memory
<1>3. CredentialsIn(Written)
  BY <1>1, WrittenFields DEF Consistent, CredentialsIn, memory
<1> QED BY <1>2, <1>3 DEF Consistent

\* The credentials' part is what MemoryStore promises of them.
LEMMA CredentialsSame == CredentialsIn(memory) <=> CredentialsOwned /\ PasskeyIDsUnique
  BY DEF CredentialsIn, CredentialsOwned, PasskeyIDsUnique, memory

LEMMA AddUserIndexed ==
  ASSUME TypeOK, AccountsIndexed(memory), NEW u \in UserIDs, NEW i \in Identifiers,
         NEW w \in WebAuthnIDs, AddUser(u, i, w)
  PROVE  AccountsIndexed(memory')
<1>1. /\ users[u] = None /\ identifiers[i] = None /\ webAuthnIDs[w] = None
      /\ None \notin UserIDs
  BY NoneAssumption DEF AddUser, CanCreateUser
<1>2. /\ users'[u] # None /\ users'[u].identifier = i
      /\ \A v \in UserIDs \ {u} : users'[v] = users[v]
  <2> DEFINE row == [identifier |-> i, webAuthnID |-> w,
                     verified |-> FALSE, disabled |-> FALSE]
  <2>1. row \in User /\ row.identifier = i
    BY DEF User
  <2>2. users' = [users EXCEPT ![u] = row] /\ users \in [UserIDs -> User \cup {None}]
    BY DEF AddUser, TypeOK
  <2> HIDE DEF row
  <2> QED BY <2>1, <2>2, RowAssumption
<1>3. /\ identifiers'[i] = u /\ \A j \in Identifiers \ {i} : identifiers'[j] = identifiers[j]
      /\ webAuthnIDs'[w] = u /\ \A x \in WebAuthnIDs \ {w} : webAuthnIDs'[x] = webAuthnIDs[x]
  BY DEF AddUser, TypeOK
<1>4. /\ \A j \in Identifiers, v \in UserIDs :
            identifiers[j] = v <=> users[v] # None /\ users[v].identifier = j
      /\ \A v \in UserIDs : users[v] # None <=> \E x \in WebAuthnIDs : webAuthnIDs[x] = v
      /\ \A x, y \in WebAuthnIDs :
            webAuthnIDs[x] # None /\ webAuthnIDs[x] = webAuthnIDs[y] => x = y
  BY DEF AccountsIndexed, memory
<1>5. \A j \in Identifiers, v \in UserIDs :
         identifiers'[j] = v <=> users'[v] # None /\ users'[v].identifier = j
  BY <1>1, <1>2, <1>3, <1>4
<1>6. \A v \in UserIDs : users'[v] # None <=> \E x \in WebAuthnIDs : webAuthnIDs'[x] = v
  BY <1>1, <1>2, <1>3, <1>4
<1>7. \A x, y \in WebAuthnIDs :
         webAuthnIDs'[x] # None /\ webAuthnIDs'[x] = webAuthnIDs'[y] => x = y
  BY <1>1, <1>3, <1>4
<1> QED BY <1>5, <1>6, <1>7 DEF AccountsIndexed, memory

\* A call leaves the accounts alone, sets a flag or adds one.
LEMMA CallIndexes ==
  ASSUME TypeOK, AccountsIndexed(memory), StoreNext
  PROVE  AccountsIndexed(memory')
<1>1. CASE UNCHANGED accounts
  BY <1>1 DEF accounts, AccountsIndexed, memory
<1>2. ASSUME NEW u \in UserIDs, NEW b \in BOOLEAN,
             SetUserVerified(u, b) \/ SetUserDisabled(u, b)
      PROVE  AccountsIndexed(memory')
  <2>1. PICK row \in User : /\ users' = [users EXCEPT ![u] = row]
                            /\ row.identifier = users[u].identifier
    <3>1. users[u] \in User
      BY <1>2 DEF SetUserVerified, SetUserDisabled, UserExists, TypeOK
    <3>2. /\ [users[u] EXCEPT !.verified = b] \in User
          /\ [users[u] EXCEPT !.verified = b].identifier = users[u].identifier
          /\ [users[u] EXCEPT !.disabled = b] \in User
          /\ [users[u] EXCEPT !.disabled = b].identifier = users[u].identifier
      BY <3>1 DEF User
    <3> QED BY <1>2, <3>2 DEF SetUserVerified, SetUserDisabled
  <2>2. \A v \in UserIDs : /\ users'[v] # None <=> users[v] # None
                           /\ users'[v].identifier = users[v].identifier
    BY <1>2, <2>1, RowAssumption DEF SetUserVerified, SetUserDisabled, UserExists, TypeOK
  <2>3. UNCHANGED <<identifiers, webAuthnIDs>>
    BY <1>2 DEF SetUserVerified, SetUserDisabled
  <2> QED BY <2>2, <2>3 DEF AccountsIndexed, memory
<1>3. CASE AccountCall
  <2>1. PICK u \in UserIDs :
           \/ \E i \in Identifiers, w \in WebAuthnIDs : AddUser(u, i, w)
           \/ \E b \in BOOLEAN : SetUserVerified(u, b) \/ SetUserDisabled(u, b)
    BY <1>3 DEF AccountCall, CreateUser, CreatePasswordUser
  <2> QED BY <1>2, <2>1, AddUserIndexed
<1>4. CASE CredentialCall \/ CodeCall \/ SessionCall
  <2>1. UNCHANGED accounts
    BY <1>4 DEF CredentialCall, SetPassword, SavePasskey, UpdatePasskey,
                DeletePasskey, SetTOTP, DeleteTOTP, SetRecoveryCodes,
                ConsumeRecoveryCode, CodeCall, SaveCode, AttemptCode, DeleteCode,
                SessionCall, CreateSession, SessionByID, RevokeSession,
                RevokeUserSessions, accounts
  <2> QED BY <1>1, <2>1
<1> QED BY <1>3, <1>4 DEF StoreNext

LEMMA ConsistentKept == JsonTypeOK /\ FileConsistent /\ [JsonNext]_jsonVars => FileConsistent'
<1> SUFFICES ASSUME JsonTypeOK, FileConsistent, [JsonNext]_jsonVars PROVE FileConsistent'
  OBVIOUS
<1>1. TypeOK /\ Consistent(memory) /\ Consistent(file)
  BY MemoryTyped DEF JsonTypeOK, FileConsistent, Consistent
<1>2. (TypeOK /\ Consistent(memory) => Consistent(Written))'
  BY WrittenConsistent, PTL
<1>3. JsonTypeOK' /\ TypeOK'
  <2>1. (memory \in StateType <=> TypeOK)'
    BY MemoryTyped, PTL
  <2> QED BY <2>1, JsonTypeKept DEF JsonTypeOK
<1>4. CASE UNCHANGED jsonVars
  BY <1>4 DEF FileConsistent, jsonVars, storeVars, memory
<1>5. CASE StoreNext /\ Saved
  <2>1. CredentialsOwned' /\ PasskeyIDsUnique'
    BY <1>1, <1>5, CredentialsSame, OwnedKept, PasskeyIDsKept DEF Consistent
  <2>2. (CredentialsIn(memory) <=> CredentialsOwned /\ PasskeyIDsUnique)'
    BY CredentialsSame, PTL
  <2>3. Consistent(memory')
    BY <1>1, <1>5, <2>1, <2>2, CallIndexes DEF Consistent
  <2>4. Consistent(file')
    BY <1>1, <1>2, <1>3, <1>5, <2>3 DEF Saved, Persist
  <2> QED BY <2>3, <2>4 DEF FileConsistent, Consistent
<1>6. ASSUME NEW u \in UserIDs, NEW i \in Identifiers, NEW w \in WebAuthnIDs,
             CreateUserFails(u, i, w)
      PROVE  FileConsistent'
  <2>1. UNCHANGED <<accounts, passkeys, totp, recovery, file>>
    BY <1>6 DEF CreateUserFails
  <2>2. \A v \in UserIDs : passwords'[v] \in {passwords[v], None}
    BY <1>1, <1>6 DEF CreateUserFails, TypeOK
  <2>3. Consistent(memory')
    BY <1>1, <2>1, <2>2 DEF Consistent, AccountsIndexed, CredentialsIn, memory, accounts
  <2> QED BY <1>1, <2>1, <2>3 DEF FileConsistent, Consistent
<1>7. CASE Reopen
  <2>1. Consistent(memory')
    BY <1>1, <1>7 DEF Reopen, Load, memory, Consistent, AccountsIndexed, CredentialsIn
  <2> QED BY <1>1, <1>7, <2>1 DEF Reopen, FileConsistent, Consistent
<1> QED BY <1>4, <1>5, <1>6, <1>7, CallKinds

\* What a restart loads is consistent: accounts with their indexes,
\* credentials with their accounts, whichever calls the file has missed.
THEOREM FileAlwaysConsistent == JsonSpec => []FileConsistent
<1>1. JsonInit => FileConsistent
  <2> SUFFICES ASSUME JsonInit PROVE FileConsistent
    OBVIOUS
  <2>1. TypeOK /\ StoreInv
    BY InitType, InitInv DEF JsonInit
  <2>2. AccountsIndexed(memory)
    BY NoneAssumption DEF JsonInit, StoreInit, AccountsIndexed, memory
  <2>3. Consistent(memory)
    BY <2>1, <2>2, CredentialsSame DEF Consistent, StoreInv
  <2>4. Consistent(file)
    BY <2>1, <2>3, WrittenConsistent DEF JsonInit
  <2> QED BY <2>3, <2>4 DEF FileConsistent, Consistent
<1> QED BY <1>1, ConsistentKept, JsonTypeCorrect, PTL DEF JsonSpec
=============================================================================
