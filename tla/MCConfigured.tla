----------------------------- MODULE MCConfigured -----------------------------
(***************************************************************************)
(* What depends on how the plugin is configured, in two parts that share   *)
(* nothing: the guard of the second factor, and stored password hashes.    *)
(*                                                                         *)
(* allowSecondFactor allows 10 calls in 5 minutes, loginPassword 10 in 15; *)
(* periods are between 15 and 60 seconds, 30 by default.  Here a second is *)
(* two ticks, periods are between 1.5 and 2 seconds, the window is three   *)
(* of the longest and the tick a call may take to be compared, and the     *)
(* limit 2; passwords are allowed 3 in 4 ticks.                            *)
(* A run calls with one key at a time: keys share nothing.                 *)
(***************************************************************************)
EXTENDS SecondFactorGuard, PasswordHash

CONSTANT login   \* the key of loginPassword
VARIABLES part, key

Limits  == [k \in Keys |-> IF k = login THEN 3 ELSE 2]
Windows == [k \in Keys |-> IF k = login THEN 4 ELSE 13]

Ranges ==
    [sessionLifetime |-> [default |-> 24, least |-> 1, most |-> 365],
     minimumLength   |-> [default |-> 12, least |-> 8, most |-> 128],
     period          |-> [default |-> 4, least |-> 3, most |-> 4],
     codeLifetime    |-> [default |-> 10, least |-> 1, most |-> 60],
     maxAttempts     |-> [default |-> 5, least |-> 3, most |-> 10]]

\* Options that are all in order, with every number left at zero.
Plain == [features |-> {"password"}, store |-> TRUE, sessionStore |-> TRUE,
          secret |-> 32, basePath |-> "", relyingParty |-> TRUE, issuer |-> TRUE,
          messenger |-> TRUE, digits |-> 0, sessionLifetime |-> 0, minimumLength |-> 0,
          period |-> 0, codeLifetime |-> 0, maxAttempts |-> 0]

\* Each period there is, and every other option at both sides of what the
\* code asks of it.
Calls ==
    {[Plain EXCEPT !.features = {"password", "totp"}, !.period = p] :
        p \in {0, 2, 3, 4, 5, 12}}
    \cup {[Plain EXCEPT !.features = f, !.store = b, !.relyingParty = c, !.messenger = m] :
        f \in SUBSET LoginMethods, b, c, m \in BOOLEAN}
    \cup {[Plain EXCEPT !.secret = n, !.sessionLifetime = l, !.minimumLength = k] :
        n \in {31, 32}, l \in {0, 1, 366}, k \in {0, 7, 8, 129}}
    \cup {[Plain EXCEPT !.features = {"codes"}, !.codeLifetime = l, !.maxAttempts = a] :
        l \in {0, 1, 61}, a \in {0, 2, 3, 11}}

\* One number of each kind at both ends of its range and past them.
MCAsked ==
    LET d == DefaultArgon2idParams
    IN  {d} \cup {[d EXCEPT !.memory = m] : m \in {8191, 8192, 1048576, 1048577}}
            \cup {[d EXCEPT !.iterations = t] : t \in {0, 1, 20, 21}}
            \cup {[d EXCEPT !.parallelism = p] : p \in {0, 1, 32, 33}}
            \cup {[d EXCEPT !.saltLength = n, !.keyLength = m] : n, m \in {15, 16, 64, 65}}

\* Hashes as another program may have written them.
MCImported ==
    {[Hash(c, p) EXCEPT !.wellFormed = f] :
        c \in Clear, f \in BOOLEAN,
        p \in {[DefaultArgon2idParams EXCEPT !.parallelism = n] : n \in {1, 256, 258, 290}}}

MCInit ==
    \/ /\ part = "guard" /\ GuardInit /\ key \in IF HasTOTP THEN Keys ELSE {login}
       /\ HashInit /\ password = "old" /\ stored = Hash(password, hasher)
    \/ /\ part = "hashes" /\ GuardInit /\ options = Normalized(Plain) /\ key = login
       /\ HashInit

GuardPart == part = "guard" /\ \/ Pass \/ Compare \/ OtherCall(key)
                               \/ key = secondFactor /\ Admit

MCNext ==
    /\ \/ GuardPart /\ UNCHANGED hashVars
       \/ part = "hashes" /\ HashNext /\ UNCHANGED guardVars
    /\ UNCHANGED <<part, key>>

MCVars == <<guardVars, hashVars, part, key>>

MCSpec == /\ MCInit /\ [][MCNext]_MCVars
          /\ WF_guardVars(part = "guard" /\ Pass) /\ WF_guardVars(part = "guard" /\ Compare)
=============================================================================
