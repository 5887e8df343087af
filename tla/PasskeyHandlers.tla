--------------------------- MODULE PasskeyHandlers ---------------------------
(***************************************************************************)
(* The four routes of the WebAuthn ceremonies (handlers_passkey.go).  A    *)
(* ceremony is two requests tied together by a challenge; the finishing    *)
(* request takes it, whatever happens next.                                *)
(*                                                                         *)
(* The go-webauthn library checks signatures and origins; a response it    *)
(* rejects is a refusal here.  An accepted one names a credential and a    *)
(* signature counter.  The library compares that counter with the passkeys *)
(* read for it, and the handler then reads them again for the              *)
(* compare-and-swap of UpdatePasskey.                                      *)
(***************************************************************************)
EXTENDS Sessions

CONSTANT ChallengeLifetime   \* passkeyChallengeLifetime, in ticks

\* user is None for a login.
Challenge == [kind: {"registration", "login"}, user: UserIDs \cup {None},
              expires: 0 .. MaxNow + ChallengeLifetime]

ASSUME ChallengeAssumption ==
    /\ ChallengeLifetime \in Nat \ {0} /\ 0 .. MaxNow + ChallengeLifetime \subseteq Times
    /\ NoChallenge = None /\ NoChallenge \notin Challenge

\* What the authenticator answers to a registration and to a login.
Attestation == [challenge: ChallengeIDs, id: PasskeyIDs, count: Counts]
Assertion   == [challenge: ChallengeIDs, handle: WebAuthnIDs,
                id: PasskeyIDs, count: Counts]

PasskeysCall(r) ==
    \E b \in Browsers :
        \/ /\ Supplied(ChallengeIDs, 1, {"passkey_begin", "login_passkey_begin"})
           /\ \/ Arrive(r, "passkey_begin", b, None, "session")
              \/ Arrive(r, "login_passkey_begin", b, None, "challenge")
        \/ \E g \in Attestation : Arrive(r, "passkey_finish", b, g, "session")
        \/ /\ Supplied(SessionIDs, 1, Logins)
           /\ \E g \in Assertion : Arrive(r, "login_passkey", b, g, "take")

\* Both begins store a challenge for what they start: a registration for
\* the user who asked, or a login for whoever will answer.
Kind(op) == IF op \in {"passkey_begin", "passkey_finish"}
            THEN "registration" ELSE "login"

SavePasskeyChallenge(r) ==
    /\ At(r, "challenge")
    /\ \E c \in Fresh(ChallengeIDs) :
          /\ Put(c, [kind |-> Kind(req[r].op), user |-> req[r].user,
                     expires |-> now + ChallengeLifetime])
          /\ drawn' = drawn \cup {c}
          /\ begun' = [begun EXCEPT ![c] = [kind |-> Kind(req[r].op), user |-> req[r].user]]
    /\ Reply(r, None)
    /\ UNCHANGED <<storeVars, jar, now, origin, resets, tries, accepts>>

\* Mutant: any challenge of the right kind will do.
Fits_AnyUser(c, r) == challenges[c].kind = Kind(req[r].op)
Fits(c, r) ==
    challenges[c].kind = Kind(req[r].op) /\ challenges[c].user = req[r].user

TakePasskeyChallenge(r) ==
    /\ At(r, "take")
    /\ LET c == req[r].given.challenge
       IN  /\ Take(c, now)
           /\ IF Takable(c, now) /\ Fits(c, r)
              THEN /\ Goto(r, IF req[r].op = "passkey_finish" THEN "save" ELSE "handle")
                   /\ Accept(c)
              ELSE Refuse(r) /\ UNCHANGED accepts
    /\ UNCHANGED <<storeVars, jar, now, drawn, origin, resets, tries, begun>>

StorePasskey(r) ==
    /\ At(r, "save")
    /\ LET u == req[r].user
           k == [id |-> req[r].given.id, signCount |-> req[r].given.count]
       IN  \/ SavePasskey(u, k) /\ Reply(r, None)
           \/ ~CanSavePasskey(u, k.id) /\ Refuse(r) /\ UNCHANGED storeVars
    /\ Elsewhere

\* The lookup FinishDiscoverableLogin makes, by the handle in the response.
LookupHandle(r) ==
    /\ At(r, "handle")
    /\ LET u == UserByWebAuthnID(req[r].given.handle)
       IN  IF UserExists(u) /\ ~users[u].disabled
           THEN req' = [req EXCEPT ![r].pc = "assertion", ![r].user = u]
           ELSE Refuse(r)
    /\ Local

\* The library's UpdateCounter: a counter that did not grow is a clone
\* warning, unless the authenticator keeps none.
CloneWarning(stored, count) == count <= stored /\ (count # 0 \/ stored # 0)

CheckAssertion(r) ==
    /\ At(r, "assertion")
    /\ IF \E k \in passkeys[req[r].user] :
            k.id = req[r].given.id /\ ~CloneWarning(k.signCount, req[r].given.count)
       THEN Goto(r, "find")
       ELSE Refuse(r)
    /\ Local

\* findPasskey: the counter that the compare-and-swap will expect.
FindPasskey(r) ==
    /\ At(r, "find")
    /\ \/ \E k \in passkeys[req[r].user] :
             /\ k.id = req[r].given.id
             /\ req' = [req EXCEPT ![r].pc = "update", ![r].seen = k.signCount]
       \/ (\A k \in passkeys[req[r].user] : k.id # req[r].given.id) /\ Refuse(r)
    /\ Local

SwapCounter(r) ==
    /\ At(r, "update")
    /\ LET u == req[r].user
           k == [id |-> req[r].given.id, signCount |-> req[r].given.count]
       IN  \/ /\ UpdatePasskey(u, k, req[r].seen)
              /\ req' = [req EXCEPT ![r].pc = "rotate", ![r].level = "passkey"]
           \/ ~CanUpdatePasskey(u, k.id, req[r].seen) /\ Refuse(r) /\ UNCHANGED storeVars
    /\ Elsewhere

PasskeysStep(r) ==
    \/ SavePasskeyChallenge(r) \/ TakePasskeyChallenge(r) \/ StorePasskey(r)
    \/ LookupHandle(r) \/ CheckAssertion(r) \/ FindPasskey(r) \/ SwapCounter(r)

\* A request or a WebAuthn response that is refused, or a policy: before a
\* challenge is stored, before the passkey is, before the counter is read.
PasskeysDenied(r) == Deny(r, {"challenge", "save", "assertion", "find"})
PasskeysFault(r) ==
    Fail(r, {"challenge", "take", "save", "handle", "assertion", "find", "update"})
=============================================================================
