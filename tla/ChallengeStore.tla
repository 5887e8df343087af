--------------------------- MODULE ChallengeStore ---------------------------
(***************************************************************************)
(* The ChallengeStore of the WebAuthn ceremonies (store.go), as            *)
(* MemoryChallengeStore implements it (challenge.go): Put refuses an ID in *)
(* use, Take removes the challenge whatever it then answers.               *)
(***************************************************************************)
EXTENDS Naturals

CONSTANTS ChallengeIDs, NoChallenge

VARIABLE challenges

ChallengesInit == challenges = [c \in ChallengeIDs |-> NoChallenge]

CanPut(c) == challenges[c] = NoChallenge

Put(c, challenge) ==
    /\ CanPut(c)
    /\ challenges' = [challenges EXCEPT ![c] = challenge]

\* Mutant: a challenge that has not expired stays.
Take_Kept(c, now) ==
    challenges' = [d \in ChallengeIDs |->
        IF d = c /\ challenges[d] # NoChallenge /\ challenges[d].expires <= now
        THEN NoChallenge ELSE challenges[d]]

Take(c, now) ==
    challenges' = [d \in ChallengeIDs |-> IF d = c THEN NoChallenge ELSE challenges[d]]

\* Whether Take answers the challenge rather than ErrNotFound or ErrExpired.
Takable(c, now) ==
    /\ c \in ChallengeIDs
    /\ challenges[c] # NoChallenge
    /\ challenges[c].expires > now
=============================================================================
