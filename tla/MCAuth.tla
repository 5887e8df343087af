------------------------------- MODULE MCAuth -------------------------------
(***************************************************************************)
(* Small instances of Auth.  All routes at once are too much for TLC, so a *)
(* run explores mixes: a mix says which operations are called, how many    *)
(* accounts and sessions there are, and what registrations and enrolments  *)
(* have left behind.  A run takes each of its mixes from its own initial   *)
(* state; MCNext is Next with the calls the mix leaves out left out.       *)
(***************************************************************************)
EXTENDS Auth, TLC

CONSTANT Mixes
VARIABLE mix

\* One account with a password of today's parameters, and nothing else.  hash
\* is "present", "outdated", or "none" for an account without a password.
Quiet == [ops |-> {}, time |-> FALSE, accounts |-> 1, sessions |-> 2,
          hash |-> "present", totp |-> FALSE, passkey |-> FALSE]

\* Sessions: what ends them, and what is served meanwhile.
Visits    == [Quiet EXCEPT !.ops = {"login", "logout", "visit", "revoke_all", "disable"},
                           !.time = TRUE, !.accounts = 2]
Resets    == [Quiet EXCEPT !.ops = {"login", "request_code", "verify_code"},
                           !.sessions = 3]
Upgrades  == [Resets EXCEPT !.sessions = 2, !.hash = "outdated"]
Unset     == [Resets EXCEPT !.sessions = 2, !.hash = "none"]
Ceremony  == [Quiet EXCEPT !.ops = {"login", "passkey_begin", "passkey_finish",
                                    "login_passkey_begin"},
                           !.accounts = 2]
SessionMixes == {Visits, Resets, Upgrades, Unset, Ceremony}

\* Credentials, when calls may fail.
SecondFactor == [Quiet EXCEPT !.ops = {"login", "login_totp", "login_recovery"},
                              !.totp = TRUE, !.sessions = 4]
Levelled  == [Quiet EXCEPT !.ops = {"login", "login_totp", "level", "logout", "visit", "disable"},
                           !.totp = TRUE]
Redeem    == [Quiet EXCEPT !.ops = {"request_code", "verify_code"}, !.time = TRUE]
Signing   == [Quiet EXCEPT !.ops = {"login_passkey_begin", "login_passkey"},
                           !.passkey = TRUE, !.time = TRUE]
Newcomers == [Quiet EXCEPT !.ops = {"register", "login", "add_account"},
                           !.accounts = 0, !.sessions = 1]
CredentialMixes == {SecondFactor, Levelled, Redeem, Signing, Newcomers}

\* Enrolment of a second factor, and requests of every other kind of guard.
Enrolling == [Quiet EXCEPT !.ops = {"login", "login_totp", "login_recovery",
                                    "totp_setup", "totp_confirm"}]
Everyday  == [Quiet EXCEPT !.ops = {"register", "login", "visit", "disable", "logout"},
                           !.sessions = 1]
Messages  == [Quiet EXCEPT !.ops = {"level", "request_code", "verify_code"},
                           !.sessions = 1]
Keys      == [Quiet EXCEPT !.ops = {"login", "passkey_begin", "passkey_finish",
                                    "login_passkey_begin", "login_passkey"},
                           !.sessions = 1, !.passkey = TRUE]
EnrolmentMixes == {Enrolling, Everyday, Messages, Keys}

\* The overlaps of two requests that some runs are about.
RehashMixes  == {Upgrades, Unset}
CounterMixes == {[Signing EXCEPT !.time = FALSE]}
SetupMixes   == {[Quiet EXCEPT !.ops = {"login", "totp_setup", "totp_confirm"}]}
PolicyMixes  == {[Redeem EXCEPT !.time = FALSE]}

-----------------------------------------------------------------------------
Some(S, n) == CHOOSE T \in SUBSET S : Cardinality(T) = n

\* The accounts that are there, and each one's element of S.
Seeded == Some(UserIDs, mix.accounts)
Of(S, u) == LET f == CHOOSE f \in [Seeded -> S] :
                        \A v, w \in Seeded : f[v] = f[w] => v = w
            IN  f[u]
Given1 == CHOOSE p \in Passwords : TRUE

MCInit ==
    /\ mix \in Mixes
    /\ req = [r \in Requests |-> Idle]
    /\ jar = [b \in Browsers |-> None] /\ now = 0
    /\ origin = [s \in SessionIDs |-> None]
    /\ resets = [u \in UserIDs |-> 0]
    /\ tries = [c \in CodeIDs |-> 0]
    /\ accepts = [t \in Tickets |-> 0]
    /\ begun = [c \in ChallengeIDs |-> None]
    /\ ChallengesInit
    /\ users = [u \in UserIDs |->
                  IF u \in Seeded
                  THEN [identifier |-> Of(Identifiers, u), webAuthnID |-> Of(WebAuthnIDs, u),
                        verified |-> FALSE, disabled |-> FALSE]
                  ELSE None]
    /\ identifiers = [i \in Identifiers |->
                        IF \E u \in Seeded : Of(Identifiers, u) = i
                        THEN CHOOSE u \in Seeded : Of(Identifiers, u) = i ELSE None]
    /\ webAuthnIDs = [w \in WebAuthnIDs |->
                        IF \E u \in Seeded : Of(WebAuthnIDs, u) = w
                        THEN CHOOSE u \in Seeded : Of(WebAuthnIDs, u) = w ELSE None]
    /\ passwords = [u \in UserIDs |->
                      IF u \in Seeded /\ mix.hash # "none"
                      THEN [password |-> Given1, legacy |-> mix.hash = "outdated"]
                      ELSE None]
    /\ passkeys = [u \in UserIDs |->
                     IF mix.passkey /\ u \in Seeded
                     THEN {[id |-> Of(PasskeyIDs, u), signCount |-> 0]} ELSE {}]
    /\ totp = [u \in UserIDs |->
                 IF mix.totp /\ u \in Seeded
                 THEN [secret |-> Of(Secrets, u), confirmed |-> TRUE] ELSE None]
    /\ recovery = [u \in UserIDs |-> [c \in RecoveryCodes |->
                     IF mix.totp /\ u \in Seeded /\ Of(RecoveryCodes, u) = c
                     THEN "unused" ELSE "absent"]]
    /\ codes = [c \in CodeIDs |-> None]
    /\ sessions = [s \in SessionIDs |-> None]
    /\ drawn = Seeded \cup {Of(WebAuthnIDs, u) : u \in Seeded}
               \cup (IF mix.totp THEN {Of(Secrets, u) : u \in Seeded}
                                      \cup {Of(RecoveryCodes, u) : u \in Seeded}
                                 ELSE {})
               \cup Some(SessionIDs, Cardinality(SessionIDs) - mix.sessions)

MCCall(r) == Call(r) /\ req'[r].op \in mix.ops

MCNext ==
    /\ \/ Rest
       \/ mix.time /\ Tick
       \/ \E u \in UserIDs : "revoke_all" \in mix.ops /\ RevokeAll(u)
       \/ \E u \in UserIDs, d \in BOOLEAN : "disable" \in mix.ops /\ Disable(u, d)
       \/ \E i \in Identifiers, hash \in Hash \cup {None} :
             "add_account" \in mix.ops /\ AddAccount(i, hash)
       \/ \E r \in Requests : MCCall(r) \/ Step(r) \/ Denied(r) \/ Fault(r)
    /\ UNCHANGED mix

MCSpec == MCInit /\ [][MCNext]_<<vars, mix>>
MCFairSpec == MCSpec /\ \A r \in Requests : WF_vars(Step(r))

\* What Next does does not depend on which of these is which.
Symmetry == Permutations(Requests) \cup Permutations(SessionIDs)
=============================================================================
