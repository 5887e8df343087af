---------------------------- MODULE MCDurableAuth ----------------------------
(***************************************************************************)
(* Small instances of DurableAuth, made of mixes as those of Auth are.     *)
(***************************************************************************)
EXTENDS MCAuth, DurableAuth

\* Redeeming codes of every purpose until they expire; logging in with a recovery
\* code and out again; enrolling; sessions that are visited and expire;
\* registering a name that is asked for twice.
Redeemed  == [Quiet EXCEPT !.ops = {"request_code", "verify_code"}, !.time = TRUE]
Recovered == [Quiet EXCEPT !.ops = {"login", "login_recovery", "logout"},
                           !.totp = TRUE, !.sessions = 3]
Enrolled  == [Quiet EXCEPT !.ops = {"login", "totp_setup", "totp_confirm", "login_recovery"}]
Returning == [Quiet EXCEPT !.ops = {"login", "visit", "logout"}, !.time = TRUE,
                           !.hash = "outdated"]
Registered == [Quiet EXCEPT !.ops = {"register", "login", "logout"},
                            !.accounts = 0, !.sessions = 1]
DurableMixes == {Redeemed, Recovered, Enrolled, Returning, Registered}

MCDurableInit ==
    MCInit /\ file = Written /\ failures = 0 /\ restarts = 0 /\ ended = {}

MCDurableNext ==
    /\ \/ Quietly(Rest) \/ Restart
       \/ mix.time /\ Quietly(Tick)
       \/ \E r \in Requests :
             \/ Quietly(MCCall(r)) \/ Quietly(Denied(r))
             \/ Serve(r) \/ WriteFails(r)
    /\ UNCHANGED mix

MCDurableSpec == MCDurableInit /\ [][MCDurableNext]_<<durableVars, mix>>
=============================================================================
