---------------------------- MODULE CodeHandlers ----------------------------
(***************************************************************************)
(* One-time codes (handlers_codes.go): a code is requested for a purpose,  *)
(* stored as a proof, sent by the application's Messenger, and redeemed by *)
(* whoever presents its ID and digits.                                     *)
(*                                                                         *)
(* A code for an unknown or disabled account is stored too, for nobody,    *)
(* and never sent.  verifyCode spends the attempt first and only then      *)
(* looks the account up, asks the policies and checks the new password.    *)
(***************************************************************************)
EXTENDS Sessions

CONSTANT CodeLifetime   \* Options.Codes.Lifetime, in ticks
ASSUME CodesAssumption ==
    CodeLifetime \in Nat \ {0} /\ 0 .. MaxNow + CodeLifetime \subseteq Times

\* requestCodeInput and verifyCodeInput; right says the digits typed are
\* those that were sent.  Only a reset reads the password, and None is one
\* the length check refuses.
CodeRequest == [identifier: Identifiers, purpose: Purposes]
CodeAnswer  == [id: CodeIDs, purpose: Purposes, right: BOOLEAN,
                password: Passwords \cup {None}]

CodesCall(r) ==
    \E b \in Browsers :
        \/ /\ Supplied(CodeIDs, 1, {"request_code"})
           /\ \E g \in CodeRequest : Arrive(r, "request_code", b, g, "code_lookup")
        \/ /\ Supplied(SessionIDs, 1, Logins)
           /\ \E g \in CodeAnswer :
                /\ g.password # None => g.purpose = "password_reset"
                /\ Arrive(r, "verify_code", b, g, "attempt")

LookupRecipient(r) ==
    /\ At(r, "code_lookup")
    /\ LET u == UserByIdentifier(req[r].given.identifier)
       IN  req' = [req EXCEPT ![r].pc = "save_code",
                      ![r].user = IF UserExists(u) /\ ~users[u].disabled
                                  THEN u ELSE None]
    /\ Local

NewCode(r) ==
    LET purpose == req[r].given.purpose
    IN  [user |-> req[r].user, purpose |-> purpose,
         proof |-> [purpose |-> purpose, right |-> TRUE],
         expires |-> now + CodeLifetime, attempts |-> 0]

SaveNewCode(r) ==
    /\ At(r, "save_code")
    /\ \E c \in Fresh(CodeIDs) :
          /\ SaveCode(c, NewCode(r))
          /\ drawn' = drawn \cup {c}
          /\ req' = [req EXCEPT ![r].seen = c,
                        ![r].pc = IF req[r].user = None THEN "answer" ELSE "send"]
    /\ UNCHANGED <<jar, now, challenges, history>>

\* The reply is the same whether or not there is an account.
AnswerRequest(r) == At(r, "answer") /\ Reply(r, None) /\ Local

\* Messenger.Send, outside the plugin, delivers or fails.
SendCode(r) ==
    At(r, "send") /\ (Goto(r, "answer") \/ Goto(r, "withdraw")) /\ Local

WithdrawCode(r) ==
    /\ At(r, "withdraw")
    /\ DeleteCode(req[r].seen) \/ (FaultsHappen /\ UNCHANGED storeVars)
    /\ Goto(r, "answer")
    /\ Elsewhere

\* AttemptCode, and what verifyCode makes of its answer.
Redeems(c, purpose) ==
    codes[c].user # None /\ codes[c].purpose = purpose

ProofOf(g) == [purpose |-> g.purpose, right |-> g.right]

SpendAttempt(r) ==
    /\ At(r, "attempt")
    /\ LET g == req[r].given
           proof == ProofOf(g)
           matched == CodeLive(g.id, now) /\ CodeMatches(g.id, proof)
       IN  /\ AttemptCode(g.id, proof, now)
           /\ tries' = [tries EXCEPT ![g.id] = IF CodeLive(g.id, now) THEN @ + 1 ELSE @]
           /\ IF matched THEN Accept(g.id) ELSE UNCHANGED accepts
           /\ IF matched /\ Redeems(g.id, g.purpose)
              THEN req' = [req EXCEPT ![r].pc = "code_user",
                                      ![r].user = codes[g.id].user]
              ELSE Refuse(r)
    /\ UNCHANGED <<jar, now, drawn, challenges, origin, resets, begun>>

ReadCodeUser(r) ==
    /\ At(r, "code_user")
    /\ IF UserExists(req[r].user) /\ ~users[req[r].user].disabled
       THEN Goto(r, "apply")
       ELSE Refuse(r)
    /\ Local

\* applyVerifiedCode, by purpose.
ApplyLogin(r) ==
    /\ At(r, "apply") /\ req[r].given.purpose = "login_code"
    /\ req' = [req EXCEPT ![r].pc = "rotate", ![r].level = "code"]
    /\ Local

ApplyVerification(r) ==
    /\ At(r, "apply") /\ req[r].given.purpose = "verify_account"
    /\ SetUserVerified(req[r].user, TRUE)
    /\ Reply(r, None)
    /\ Elsewhere

\* A reset needs the password option and a password of a permitted length.
ResetsPassword(g) == g.purpose = "password_reset" /\ g.password # None /\ "password" \in Features
NewHash(password) == [password |-> password, legacy |-> FALSE]

ApplyReset(r) ==
    /\ At(r, "apply") /\ req[r].given.purpose = "password_reset"
    /\ IF ResetsPassword(req[r].given)
       THEN /\ SetPassword(req[r].user, NewHash(req[r].given.password))
            /\ Goto(r, "revoke_user")
       ELSE Refuse(r) /\ UNCHANGED storeVars
    /\ Elsewhere

\* Mutant: the sessions of the account outlive the reset.
EndsSessions_None(r) == None
EndsSessions(r) == req[r].user

\* The last call of a reset; its error is dropped.
RevokeAfterReset(r) ==
    /\ At(r, "revoke_user")
    /\ \/ RevokeUserSessions(EndsSessions(r))
       \/ FaultsHappen /\ UNCHANGED storeVars
    /\ resets' = [resets EXCEPT ![req[r].user] = @ + 1]
    /\ Reply(r, None)
    /\ UNCHANGED <<jar, now, drawn, challenges, origin, tries, accepts, begun>>

CodesStep(r) ==
    \/ LookupRecipient(r) \/ SaveNewCode(r) \/ AnswerRequest(r) \/ SendCode(r)
    \/ WithdrawCode(r) \/ SpendAttempt(r) \/ ReadCodeUser(r)
    \/ ApplyLogin(r) \/ ApplyVerification(r) \/ ApplyReset(r) \/ RevokeAfterReset(r)

\* The limiter before the lookup, policies before the code is saved and,
\* once it is spent, before it is applied.
CodesDenied(r) == Deny(r, {"code_lookup", "save_code", "apply"})
CodesFault(r)  == Fail(r, {"code_lookup", "save_code", "attempt", "code_user", "apply"})
=============================================================================
