---------------------------- MODULE TOTPHandlers ----------------------------
(***************************************************************************)
(* The second factor (handlers_totp.go): enrolment in two requests, setup  *)
(* and confirm, and the two ways to complete a password session, a TOTP    *)
(* code and a recovery code.                                               *)
(*                                                                         *)
(* What the user types is modelled by the secret their authenticator holds *)
(* (a code is right when that is the secret stored) or by the recovery     *)
(* code.  Enrolment is read-modify-write across store calls: setup writes  *)
(* on the strength of a gate read earlier, confirm writes back the         *)
(* credential it read.                                                     *)
(***************************************************************************)
EXTENDS Sessions

CONSTANT RecoverySetSize   \* 10 in confirmTOTP
ASSUME RecoveryAssumption == RecoverySetSize \in Nat \ {0}

TOTPCall(r) ==
    \E b \in Browsers :
        \/ /\ Supplied(Secrets, 1, {"totp_setup"})
           /\ Arrive(r, "totp_setup", b, None, "session")
        \/ /\ Supplied(RecoveryCodes, RecoverySetSize, {"totp_confirm"})
           /\ \E x \in Secrets : Arrive(r, "totp_confirm", b, x, "session")
        \/ /\ Supplied(SessionIDs, 1, Logins)
           /\ \/ \E x \in Secrets : Arrive(r, "login_totp", b, x, "session")
              \/ \E c \in RecoveryCodes : Arrive(r, "login_recovery", b, c, "session")

\* setupTOTP: a new secret, not yet confirmed, replaces whatever is stored.
SetupTOTP(r) ==
    /\ At(r, "setup")
    /\ \E x \in Fresh(Secrets) :
          /\ SetTOTP(req[r].user, [secret |-> x, confirmed |-> FALSE])
          /\ drawn' = drawn \cup {x}
    /\ Reply(r, None)
    /\ UNCHANGED <<jar, now, challenges, history>>

\* totpCredential, then verifyTOTP against the code the client typed.
TOTPValid(u, confirmed, secret) ==
    totp[u] = [secret |-> secret, confirmed |-> confirmed]

\* confirmTOTP keeps the credential it read until it writes it back.
ReadUnconfirmed(r) ==
    /\ At(r, "read_totp")
    /\ IF TOTPValid(req[r].user, FALSE, req[r].given)
       THEN req' = [req EXCEPT ![r].pc = "confirm", ![r].seen = totp[req[r].user]]
       ELSE Refuse(r)
    /\ Local

\* Mutant: no recovery codes are stored.
ConfirmTOTP_Alone(r) ==
    /\ At(r, "confirm")
    /\ SetTOTP(req[r].user, [req[r].seen EXCEPT !.confirmed = TRUE])
    /\ Reply(r, None)
    /\ Elsewhere

ConfirmTOTP(r) ==
    /\ At(r, "confirm")
    /\ SetTOTP(req[r].user, [req[r].seen EXCEPT !.confirmed = TRUE])
    /\ Goto(r, "recovery")
    /\ Elsewhere

\* A set of new recovery codes is stored, then shown: seen is what the
\* reply carries.
StoreRecoveryCodes(r) ==
    /\ At(r, "recovery")
    /\ \E set \in SUBSET Fresh(RecoveryCodes) :
          /\ Cardinality(set) = RecoverySetSize
          /\ SetRecoveryCodes(req[r].user, set)
          /\ drawn' = drawn \cup set
          /\ req' = [req EXCEPT ![r].pc = "reply", ![r].ok = TRUE,
                            ![r].since = None, ![r].seen = set]
    /\ UNCHANGED <<jar, now, challenges, history>>

\* loginTOTP and loginRecovery start from a password session.
\* Mutant: from any session.
PasswordSession_Any(r) == req[r].level # None
PasswordSession(r) == req[r].level = "password"

\* level is from here on the level granted.
CheckTOTP(r) ==
    /\ At(r, "check_totp")
    /\ IF PasswordSession(r) /\ TOTPValid(req[r].user, TRUE, req[r].given)
       THEN req' = [req EXCEPT ![r].pc = "rotate", ![r].level = "mfa"]
       ELSE Refuse(r)
    /\ Local

ConsumeRecovery(r) ==
    /\ At(r, "consume")
    /\ \/ /\ PasswordSession(r)
          /\ ConsumeRecoveryCode(req[r].user, req[r].given)
          /\ req' = [req EXCEPT ![r].pc = "rotate", ![r].level = "mfa"]
          /\ Accept(req[r].given)
       \/ /\ \/ ~PasswordSession(r)
             \/ ~CanConsumeRecoveryCode(req[r].user, req[r].given)
          /\ Refuse(r) /\ UNCHANGED <<storeVars, accepts>>
    /\ UNCHANGED <<jar, now, drawn, challenges, origin, resets, tries, begun>>

TOTPStep(r) ==
    \/ SetupTOTP(r) \/ ReadUnconfirmed(r) \/ ConfirmTOTP(r)
    \/ StoreRecoveryCodes(r) \/ CheckTOTP(r) \/ ConsumeRecovery(r)

\* setup and the two logins ask the policies; confirm asks none, and can
\* only be refused for a malformed request.
TOTPDenied(r) == Deny(r, {"setup", "read_totp", "check_totp", "consume"})
TOTPFault(r)  == Fail(r, {"setup", "read_totp", "confirm", "recovery",
                          "check_totp", "consume"})
=============================================================================
