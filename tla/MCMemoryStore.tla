---------------------------- MODULE MCMemoryStore ----------------------------
(***************************************************************************)
(* The store on its own, with every caller allowed to do anything.         *)
(* Accounts and their credentials on one side, codes and sessions on the   *)
(* other, share no variable and read none of each other's: MCSpec explores *)
(* either side on its own, which reaches every state of each.              *)
(***************************************************************************)
EXTENDS MemoryStore, TLC

VARIABLE side

MCInit == StoreInit /\ side \in {"accounts", "tickets"}

MCNext ==
    /\ \/ side = "accounts" /\ (AccountCall \/ CredentialCall)
       \/ side = "tickets"  /\ (CodeCall \/ SessionCall)
    /\ UNCHANGED side

MCSpec == MCInit /\ [][MCNext]_<<storeVars, side>>

\* Nothing depends on which of these is which.
Symmetry == Permutations(UserIDs) \cup Permutations(Identifiers)
                \cup Permutations(WebAuthnIDs) \cup Permutations(PasskeyIDs)
                \cup Permutations(CodeIDs) \cup Permutations(SessionIDs)
=============================================================================
