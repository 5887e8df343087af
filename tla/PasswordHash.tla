----------------------------- MODULE PasswordHash -----------------------------
(***************************************************************************)
(* Argon2idHasher (password.go) over the life of one stored hash: the      *)
(* application is deployed with other parameters, a login finds the hash   *)
(* out of date and writes a new one, a reset writes one, and hashes of     *)
(* another program are imported.                                           *)
(*                                                                         *)
(* An encoded hash is the numbers written in it and its key.  A key is     *)
(* what it was derived from, so two are equal if all of that is; salts are *)
(* fresh and not told apart.                                               *)
(***************************************************************************)
EXTENDS Naturals

CONSTANTS
    Asked,      \* Argon2idParams that NewArgon2idHasher is called with
    Imported,   \* encoded hashes that another program wrote
    Clear       \* passwords

VARIABLES
    hasher,     \* Argon2idHasher.params
    stored,     \* PasswordCredential.Hash
    password    \* history: the password the account was given

hashVars == <<hasher, stored, password>>

\* Argon2idParams: its numbers are unsigned.
Params == [memory: Nat, iterations: Nat, parallelism: Nat,
           saltLength: Nat, keyLength: Nat]

DefaultArgon2idParams ==
    [memory |-> 64 * 1024, iterations |-> 3, parallelism |-> 2,
     saltLength |-> 16, keyLength |-> 32]

\* NewArgon2idHasher
ValidParams(p) ==
    /\ p.memory >= 8 * 1024 /\ p.memory <= 1024 * 1024
    /\ p.iterations \in 1 .. 20
    /\ p.parallelism \in 1 .. 32
    /\ p.saltLength \in 16 .. 64 /\ p.keyLength \in 16 .. 64

Key(clear, params) == [clear |-> clear, params |-> params]

Hash(clear, params) ==
    [wellFormed |-> TRUE, params |-> params, key |-> Key(clear, params)]

\* What another program wrote is some password's hash, well formed or not.
ASSUME HashAssumption ==
    /\ Asked \subseteq Params
    /\ \A e \in Imported :
          \E c \in Clear, f \in BOOLEAN :
             e.params \in Params /\ e = [Hash(c, e.params) EXCEPT !.wellFormed = f]

\* parseArgon2id: the parallelism is read as 32 bits and kept as 8.
Fields(encoded) == [encoded.params EXCEPT !.parallelism = @ % 256]
Readable(encoded) == encoded.wellFormed /\ ValidParams(Fields(encoded))

\* Mutant: the key is derived with the parameters of the present.
Verify_Present(encoded, clear) ==
    Readable(encoded) /\ Key(clear, hasher) = encoded.key
Verify(encoded, clear) ==
    Readable(encoded) /\ Key(clear, Fields(encoded)) = encoded.key

\* Mutant: compared with the defaults and not with the hasher's parameters.
NeedsRehash_Default(encoded) ==
    ~Readable(encoded) \/ Fields(encoded) # DefaultArgon2idParams
NeedsRehash(encoded) == ~Readable(encoded) \/ Fields(encoded) # hasher

HashInit ==
    /\ hasher = DefaultArgon2idParams
    /\ password \in Clear
    /\ stored \in {Hash(password, hasher)} \cup {e \in Imported : e.key.clear = password}

\* NewArgon2idHasher at a start with parameters it accepts.
Deploy(params) ==
    ValidParams(params) /\ hasher' = params /\ UNCHANGED <<stored, password>>

\* loginPassword, when nothing comes in between.
Login(clear) ==
    /\ Verify(stored, clear)
    /\ stored' = IF NeedsRehash(stored) THEN Hash(clear, hasher) ELSE stored
    /\ UNCHANGED <<hasher, password>>

\* applyVerifiedCode, for a password reset.
Reset(clear) ==
    stored' = Hash(clear, hasher) /\ password' = clear /\ UNCHANGED hasher

HashNext ==
    \/ \E p \in Asked : Deploy(p)
    \/ \E c \in Clear : Login(c) \/ Reset(c)

HashSpec == HashInit /\ [][HashNext]_hashVars

-----------------------------------------------------------------------------
\* Through deployments and upgrades the account keeps its password and no
\* other is accepted.  An imported hash is accepted only if the numbers
\* written in it are allowed: 258 lanes are read as 2, but then the key does
\* not match either.
VerifiesOwner ==
    \A c \in Clear :
        Verify(stored, c) <=>
            c = password /\ stored.wellFormed /\ ValidParams(stored.params)

\* A login upgrades a hash once: what is written for the hasher of the present
\* reads back as its parameters, so the next login writes nothing.  Otherwise
\* every login would be a write, and a race with a reset (StaleRehash).
UpgradeSettles == [][stored' # stored => ~NeedsRehash(stored)']_hashVars
=============================================================================
