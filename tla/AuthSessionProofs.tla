-------------------------- MODULE AuthSessionProofs --------------------------
(***************************************************************************)
(* What the sessions, passwords, second factors and passkey ceremonies of  *)
(* the handlers keep, for every set of requests, users and tickets.        *)
(*                                                                         *)
(* A handler acts on what it read some calls ago.  Each part below says    *)
(* what of that is still true when it acts: Sourced, that a cookie names a *)
(* session opened by a login and that the user and the level a request     *)
(* carries are that login's; Ended, Begun, Winners, Rehashable and         *)
(* Replaced, what the property of each needs beyond it.  All are kept step *)
(* by step from what AuthProofs says a step does to the requests (Moves)   *)
(* and to the rest (Changes).  Theorems that assume ~FaultsHappen are      *)
(* about errors the handlers drop: when a revocation fails, the session it *)
(* was to end does stay.                                                   *)
(***************************************************************************)
EXTENDS AuthProofs, FiniteSetTheorems

-----------------------------------------------------------------------------
(* Where sessions come from.                                               *)

\* s was opened by a login.
Opened(s) == s \in SessionIDs /\ s \in drawn /\ origin[s].op \in Logins

\* Behind the session guards: the account known is the cookie's.
Guarded == {"user", "gate", "drop", "again", "setup", "read_totp", "confirm", "recovery",
            "check_totp", "consume"}

\* What a request knows, against the session it came with: behind the
\* guards its user and level, on the way to a new session what that grants.
Carries(q) ==
    /\ q.cookie # None => Opened(q.cookie)
    /\ q.set \in SessionIDs => Opened(q.set)
    /\ q.set # None => q.pc \in {"cookie", "reply"}
    /\ q.pc \in Guarded => q.cookie # None /\ q.user = origin[q.cookie].user
    /\ q.pc \in {"user", "gate", "check_totp", "consume"} =>
          q.level = Grants[origin[q.cookie].op]
    /\ q.pc = "rehash" => q.level = "password"
    /\ q.pc \in {"rotate", "create"} =>
          /\ q.level = Grants[q.op]
          /\ q.op \in {"login_totp", "login_recovery"} =>
                /\ Opened(q.cookie) /\ origin[q.cookie].op = "login"
                /\ origin[q.cookie].user = q.user

\* A completed login came from a password session of the same user.
Completed(s) ==
    origin[s] # None /\ origin[s].op \in {"login_totp", "login_recovery"} =>
        /\ Opened(origin[s].via) /\ origin[origin[s].via].op = "login"
        /\ origin[origin[s].via].user = origin[s].user

\* A stored session is as it was opened.
Row(s) == sessions[s] # None =>
    /\ Opened(s) /\ sessions[s].user = origin[s].user
    /\ sessions[s].level = Grants[origin[s].op]

\* All of these, for the jars, too.
Sourced ==
    /\ DOMAIN origin = SessionIDs
    /\ \A s \in SessionIDs : Row(s) /\ Completed(s)
    /\ \A b \in Browsers : jar[b] # None => Opened(jar[b])
    /\ \A r \in Requests : Carries(req[r])

\* Nothing is open at the start.
LEMMA InitSourced == Init => Sourced
  BY NoneAssumption DEF Init, StoreInit, SessionsInit, Sourced, Row, Completed, Carries, Idle, Guarded

\* A session ID is drawn once, so the origin of an open session stands.
LEMMA OriginKept ==
  ASSUME Typed, Sourced, [Next]_vars
  PROVE  /\ DOMAIN origin' = SessionIDs
         /\ \A s \in SessionIDs : Opened(s) => Opened(s)' /\ origin'[s] = origin[s]
<1>1. CASE \E r \in Requests : CreateNew(r)
  BY <1>1 DEF CreateNew, Fresh, Opened, Sourced
<1>2. CASE UNCHANGED origin /\ drawn \subseteq drawn'
  BY <1>2 DEF Opened, Sourced
<1> QED BY <1>1, <1>2, NextChanges DEF Changes, vars, sessionVars, history

\* createSession opens a session under an ID that nobody holds yet.
LEMMA CreatedRow ==
  ASSUME Typed, Sourced, NEW r \in Requests, CreateNew(r)
  PROVE  \E s \in Fresh(SessionIDs) :
            /\ sessions' = [sessions EXCEPT ![s] = NewSession(r)]
            /\ drawn' = drawn \cup {s}
            /\ Opened(s)' /\ Row(s)' /\ Completed(s)'
            /\ req'[r].cookie = req[r].cookie /\ req'[r].set = s /\ req'[r].pc = "cookie"
            /\ \A t \in SessionIDs \ {s} : origin'[t] = origin[t]
<1>1. PICK s \in Fresh(SessionIDs) :
          /\ CreateSession(s, NewSession(r))
          /\ drawn' = drawn \cup {s}
          /\ origin' = [origin EXCEPT ![s] =
                          [user |-> req[r].user, op |-> req[r].op,
                           via |-> req[r].cookie, given |-> req[r].given,
                           since |-> req[r].since, born |-> resets]]
          /\ req' = [req EXCEPT ![r].pc = "cookie", ![r].set = s]
  BY DEF CreateNew
<1>2. /\ s \in SessionIDs /\ s \notin drawn /\ DOMAIN origin = SessionIDs
      /\ RequestOK(req[r]) /\ Carries(req[r]) /\ At(r, "create")
  BY <1>1 DEF Fresh, CreateNew, Sourced, Typed, RequestsOK
<1>3. origin'[s].op = req[r].op /\ origin'[s].user = req[r].user /\ origin'[s].via = req[r].cookie
  BY <1>1, <1>2
<1>4. req[r].op \in Logins
  BY <1>2 DEF RequestOK, Points, At
<1>5. sessions' = [sessions EXCEPT ![s] = NewSession(r)]
  BY <1>1 DEF CreateSession
<1>6. sessions'[s].user = req[r].user /\ sessions'[s].level = req[r].level
  BY <1>2, <1>5 DEF Typed, TypeOK, NewSession
<1>7. Opened(s)'
  BY <1>1, <1>2, <1>3, <1>4 DEF Opened
<1>8. Row(s)'
  BY <1>2, <1>3, <1>6, <1>7 DEF Row, Carries, At
<1>10. req'[r].cookie = req[r].cookie /\ req'[r].set = s /\ req'[r].pc = "cookie"
  BY <1>1 DEF Typed, RequestsOK, Shaped, Idle
<1>9. Completed(s)'
  <2>1. SUFFICES ASSUME req[r].op \in {"login_totp", "login_recovery"}
                 PROVE  /\ Opened(req[r].cookie)' /\ origin'[req[r].cookie].op = "login"
                        /\ origin'[req[r].cookie].user = req[r].user
    BY <1>3, <1>10 DEF Completed, Opened
  <2>2. /\ Opened(req[r].cookie) /\ origin[req[r].cookie].op = "login"
        /\ origin[req[r].cookie].user = req[r].user
    BY <1>2, <2>1 DEF Carries, At
  <2> QED BY <1>1, <1>2, <1>10, <2>2 DEF Opened
<1>11. \A t \in SessionIDs \ {s} : origin'[t] = origin[t]
  BY <1>1, <1>2
<1> QED BY <1>1, <1>5, <1>7, <1>8, <1>9, <1>10, <1>11

\* A request that another request's step leaves where it is.
LEMMA StaysCarries ==
  ASSUME Typed, Sourced, [Next]_vars, NEW r \in Requests, req'[r] = req[r]
  PROVE  Carries(req[r])'
<1>1. RequestOK(req[r]) /\ Carries(req[r])
  BY DEF Typed, RequestsOK, Sourced
<1>2. \A s \in SessionIDs : Opened(s) =>
          s \in drawn' /\ origin'[s] = origin[s] /\ origin[s].op \in Logins
  BY OriginKept DEF Opened
<1>3. /\ req[r].cookie # None => req[r].cookie \in SessionIDs
      /\ req[r].pc \in Guarded => req[r].cookie \in SessionIDs /\ Opened(req[r].cookie)
  BY <1>1 DEF RequestOK, Carries
<1> QED BY <1>1, <1>2, <1>3 DEF Carries, Opened, Guarded

\* A step within a handler.
LEMMA GoesOnCarries ==
  ASSUME Typed, Sourced, Typed', [Next]_vars, NEW r \in Requests, GoesOn(r)
  PROVE  Carries(req[r])'
<1> DEFINE q == req[r]
           p == req'[r]
<1>1. RequestOK(q) /\ Carries(q) /\ RequestOK(p)
  BY DEF Typed, RequestsOK, RequestOK, Sourced
<1>2. \A s \in SessionIDs : Opened(s) =>
          s \in drawn' /\ origin'[s] = origin[s] /\ origin[s].op \in Logins
  BY OriginKept DEF Opened
<1>3. p.cookie = q.cookie /\ p.op = q.op
  BY DEF GoesOn
<1>4. q.cookie # None => q.cookie \in SessionIDs /\ Opened(q.cookie)
  BY <1>1 DEF RequestOK, Carries
<1>5. p.set # None => p.pc = "cookie" /\ Opened(req[r].set)'
  <2>1. CASE p.pc = "cookie"
    <3>1. CreateNew(r)
      BY <2>1 DEF GoesOn
    <3> QED BY <2>1, <3>1, CreatedRow DEF Opened
  <2>2. CASE p.pc # "cookie"
    BY <1>1, <2>2 DEF GoesOn, Carries
  <2> QED BY <2>1, <2>2
<1>6. p.pc \in {"user", "gate", "drop", "again", "setup", "read_totp", "check_totp", "consume"} =>
         /\ q.cookie # None /\ p.user = origin[q.cookie].user
         /\ p.pc \in {"user", "gate", "check_totp", "consume"} =>
               p.level = Grants[origin[q.cookie].op]
  <2>1. CASE p.pc = "user"
    <3>1. /\ q.cookie \in SessionIDs /\ sessions[q.cookie] # None
          /\ p.user = sessions[q.cookie].user /\ p.level = sessions[q.cookie].level
      BY <2>1 DEF GoesOn, SessionRead, SessionLive
    <3>2. Row(q.cookie)
      BY <3>1 DEF Sourced
    <3> QED BY <3>1, <3>2, NoneAssumption DEF Row
  <2>2. CASE p.pc \in {"gate", "drop", "again", "setup", "read_totp", "check_totp", "consume"}
    <3>1. q.pc \in {"user", "gate"} /\ p.user = q.user /\ p.level = q.level
      BY <2>2 DEF GoesOn
    <3> QED BY <1>1, <3>1 DEF Carries, Guarded
  <2> QED BY <2>1, <2>2
<1>7. p.pc \in {"confirm", "recovery"} => q.cookie # None /\ p.user = origin[q.cookie].user
  BY <1>1 DEF GoesOn, ConfirmTOTP, At, Carries, Guarded
<1>8. p.pc = "rehash" => p.level = "password"
  <2>1. p.pc = "rehash" => q.pc = "check_hash" /\ p.level = Grants[q.op]
    BY DEF GoesOn
  <2>2. q.pc = "check_hash" => q.op = "login"
    BY <1>1 DEF RequestOK, Points
  <2> QED BY <2>1, <2>2 DEF Grants
<1>9. p.pc \in {"rotate", "create"} =>
          /\ p.level = Grants[p.op]
          /\ p.op \in {"login_totp", "login_recovery"} =>
                /\ q.cookie # None /\ Opened(q.cookie) /\ origin[q.cookie].op = "login"
                /\ origin[q.cookie].user = p.user
  <2>1. CASE p.pc = "create"
    <3>1. q.pc = "rotate" /\ p.level = q.level /\ p.user = q.user
      BY <2>1 DEF GoesOn
    <3> QED BY <1>1, <1>3, <2>1, <3>1, NoneAssumption DEF Carries, Opened
  <2>2. CASE p.pc = "rotate"
    <3>1. p.user = q.user /\ p.level = IF q.pc = "rehash" THEN q.level ELSE Grants[q.op]
      BY <2>2 DEF GoesOn
    <3>2. CASE q.pc \in {"check_hash", "rehash", "apply", "update"}
      <4>1. q.op \notin {"login_totp", "login_recovery"} /\ (q.pc = "rehash" => q.op = "login")
        BY <1>1, <3>2 DEF RequestOK, Points
      <4> QED BY <1>1, <1>3, <3>1, <4>1 DEF Carries, Grants
    <3>3. CASE q.pc \in {"check_totp", "consume"} /\ PasswordSession(r)
      <4>1. q.cookie # None /\ q.user = origin[q.cookie].user /\ Opened(q.cookie)
            /\ Grants[origin[q.cookie].op] = "password"
        BY <1>1, <3>3 DEF Carries, Guarded, PasswordSession
      <4>2. origin[q.cookie].op = "login"
        BY <4>1 DEF Opened, Logins, Grants
      <4> QED BY <1>3, <3>1, <3>3, <4>1, <4>2
    <3> QED BY <2>2, <3>2, <3>3 DEF GoesOn
  <2> QED BY <2>1, <2>2
<1> HIDE DEF p, q
<1>10. q.cookie # None => /\ origin'[q.cookie] = origin[q.cookie] /\ q.cookie \in drawn'
                          /\ q.cookie \in SessionIDs /\ origin[q.cookie].op \in Logins
  BY <1>2, <1>4
<1>11. p.pc \in Guarded => \/ p.pc \in {"user", "gate", "drop", "again", "setup", "read_totp", "check_totp", "consume"}
                           \/ p.pc \in {"confirm", "recovery"}
  BY DEF Guarded
<1> QED BY <1>3, <1>5, <1>6, <1>7, <1>8, <1>9, <1>10, <1>11, NoneAssumption DEF Carries, Opened, p

\* Any step.
LEMMA AllCarry ==
  ASSUME Typed, Sourced, Typed', [Next]_vars, NEW r \in Requests
  PROVE  Carries(req[r])'
<1>1. CASE req'[r] = req[r]
  BY <1>1, StaysCarries
<1>2. CASE Moves(r)
  <2>1. CASE Begins(r)
    <3>1. PICK b \in Browsers : req'[r].cookie = jar[b]
      BY <2>1 DEF Begins
    <3>2. jar[b] # None => jar[b] \in SessionIDs /\ jar[b] \in drawn' /\ origin'[jar[b]].op \in Logins
      BY OriginKept DEF Sourced, Opened
    <3> QED BY <2>1, <3>1, <3>2, NoneAssumption DEF Begins, Carries, Opened, Guarded
  <2>2. CASE Delivered(r) \/ Refused(r)
    BY <2>2, NoneAssumption DEF Delivered, Refused, Idle, Carries, Guarded
  <2>3. CASE Answered(r)
    <3>1. /\ RequestOK(req[r]) /\ Carries(req[r])
          /\ \A s \in SessionIDs : Opened(s) => Opened(s)' /\ origin'[s] = origin[s]
      BY OriginKept DEF Typed, RequestsOK, Sourced
    <3>2. /\ req[r].cookie # None => Opened(req[r].cookie)'
          /\ req[r].set \in SessionIDs => Opened(req[r].set)
      BY <2>3, <3>1 DEF Carries, Answered, Opened
    <3>3. req'[r].set \in SessionIDs => req'[r].set = req[r].set
      BY <2>3, NoneAssumption, UnsetAssumption DEF Answered
    <3> QED BY <2>3, <3>1, <3>2, <3>3 DEF Answered, Carries, Opened, Guarded
  <2> QED BY <1>2, <2>1, <2>2, <2>3, GoesOnCarries DEF Moves
<1> QED BY <1>1, <1>2, NextMoves DEF Moves

\* Sourced is inductive.
LEMMA SourcedKept == Typed /\ Sourced /\ [Next]_vars => Sourced'
<1> SUFFICES ASSUME Typed, Sourced, [Next]_vars PROVE Sourced'
  OBVIOUS
<1>1. Typed'
  BY TypedKept
<1>2. ASSUME NEW s \in SessionIDs PROVE Row(s)' /\ Completed(s)'
  <2>1. CASE origin' = origin /\ drawn \subseteq drawn' /\ sessions'[s] \in {None, sessions[s]}
    BY <2>1, OriginKept DEF Sourced, Row, Completed, Opened
  <2>2. ASSUME NEW r \in Requests, CreateNew(r) PROVE Row(s)' /\ Completed(s)'
    <3>1. PICK t \in Fresh(SessionIDs) :
            /\ sessions' = [sessions EXCEPT ![t] = NewSession(r)]
            /\ drawn' = drawn \cup {t}
            /\ Opened(t)' /\ Row(t)' /\ Completed(t)'
            /\ \A v \in SessionIDs \ {t} : origin'[v] = origin[v]
      BY <2>2, CreatedRow
    <3>2. CASE s # t
      <4>1. sessions'[s] = sessions[s] /\ origin'[s] = origin[s]
        BY <3>1, <3>2
      <4> QED BY <4>1, OriginKept DEF Sourced, Row, Completed, Opened
    <3> QED BY <3>1, <3>2
  <2> QED BY <2>1, <2>2, NextChanges DEF Changes, vars, sessionVars, storeVars, history
<1>3. ASSUME NEW b \in Browsers, jar'[b] # None PROVE Opened(jar[b])'
  <2>1. CASE jar' = jar
    BY <1>3, <2>1, OriginKept DEF Sourced, Opened
  <2>2. ASSUME NEW r \in Requests, Deliver(r) PROVE Opened(jar[b])'
    <3>1. jar'[b] = jar[b] \/ (jar'[b] = req[r].set /\ req[r].set # "clear")
      BY <1>3, <2>2 DEF Deliver, Typed
    <3>2. jar'[b] \in SessionIDs
      BY <1>1, <1>3 DEF Typed
    <3>3. \A s \in SessionIDs : Opened(s) => s \in drawn' /\ origin'[s].op \in Logins
      BY OriginKept DEF Opened
    <3>4. (jar[b] # None => Opened(jar[b])) /\ (req[r].set \in SessionIDs => Opened(req[r].set))
      BY DEF Sourced, Carries
    <3> QED BY <1>3, <3>1, <3>2, <3>3, <3>4 DEF Opened
  <2> QED BY <2>1, <2>2, NextChanges DEF Changes, vars, sessionVars
<1> QED BY <1>1, <1>2, <1>3, OriginKept, AllCarry DEF Sourced

\* Every session, jar and request of a reachable state has its source.
LEMMA AlwaysSourced == Spec => [](Typed /\ Sourced)
  BY AlwaysTyped, InitSourced, SourcedKept, PTL DEF Spec

\* Every session with a completed second factor came from a password session
\* of the same user, however often the two logins overlap, with faults.
THEOREM Pedigree == Spec => []SecondFactorPedigree
<1>1. Sourced => SecondFactorPedigree
  BY NoneAssumption DEF Sourced, Completed, Opened, SecondFactorPedigree
<1> QED BY <1>1, AlwaysSourced, PTL

\* RequireUser lets a request through only with a session live at that
\* instant, of the user whose account it looked at.
THEOREM VisitsServedLive == Spec => VisitServedLive
<1> DEFINE Served1 == \A r \in Requests :
          req[r].op = "visit" /\ ~At(r, "serving") /\ req'[r].pc = "serving" =>
              /\ SessionLive(req[r].cookie, now)
              /\ sessions[req[r].cookie].user = req[r].user
<1>1. Typed /\ Sourced /\ [Next]_vars => Served1
  <2> SUFFICES ASSUME Typed, Sourced, [Next]_vars, NEW r \in Requests,
                      req[r].op = "visit", ~At(r, "serving"), req'[r].pc = "serving"
               PROVE  /\ SessionLive(req[r].cookie, now)
                      /\ sessions[req[r].cookie].user = req[r].user
    OBVIOUS
  <2>1. RequestOK(req[r]) /\ Carries(req[r])
    BY DEF Typed, RequestsOK, Sourced
  <2>2. Moves(r)
    BY NextMoves DEF Moves, At
  <2>3. GoesOn(r)
    BY <2>2 DEF Moves, Begins, Delivered, Refused, Answered, Idle
  <2>4. ReadAgain(r)
    BY <2>1, <2>3 DEF GoesOn, ReadLevel, At, RequestOK, Points
  <2>5. At(r, "again") /\ SessionLive(req[r].cookie, now)
    <3>1. ~Refuse(r)
      BY DEF Refuse, Typed, RequestsOK, Shaped, Idle
    <3> QED BY <2>4, <3>1 DEF ReadAgain, SessionRead
  <2>6. Row(req[r].cookie) /\ req[r].user = origin[req[r].cookie].user
    BY <2>1, <2>5 DEF Sourced, SessionLive, Carries, Guarded, At
  <2> QED BY <2>5, <2>6 DEF Row, SessionLive
<1> QED BY <1>1, AlwaysSourced, PTL DEF Spec, VisitServedLive

\* RequireLevel lets a request through only with a live session whose login
\* granted the level asked for.
THEOREM LevelsServedAsGranted == Spec => LevelServedAsGranted
<1> DEFINE Served1 == \A r \in Requests :
          req[r].op = "level" /\ ~At(r, "serving") /\ req'[r].pc = "serving" =>
              /\ SessionLive(req[r].cookie, now)
              /\ req[r].given # "" => GrantedBy(req[r].cookie) \in {req[r].given, "mfa"}
<1>1. Typed /\ Sourced /\ [Next]_vars => Served1
  <2> SUFFICES ASSUME Typed, Sourced, [Next]_vars, NEW r \in Requests,
                      req[r].op = "level", ~At(r, "serving"), req'[r].pc = "serving"
               PROVE  /\ SessionLive(req[r].cookie, now)
                      /\ req[r].given # "" => GrantedBy(req[r].cookie) \in {req[r].given, "mfa"}
    OBVIOUS
  <2>1. RequestOK(req[r])
    BY DEF Typed, RequestsOK
  <2>2. GoesOn(r)
    <3>1. Moves(r)
      BY NextMoves DEF Moves, At
    <3> QED BY <3>1 DEF Moves, Begins, Delivered, Refused, Answered, Idle
  <2>4. ReadLevel(r)
    BY <2>1, <2>2 DEF GoesOn, ReadAgain, At, RequestOK, Points
  <2>5. /\ SessionLive(req[r].cookie, now)
        /\ LevelSuffices(sessions[req[r].cookie].level, req[r].given)
    <3>1. ~Refuse(r)
      BY DEF Refuse, Typed, RequestsOK, Shaped, Idle
    <3> QED BY <2>4, <3>1 DEF ReadLevel, SessionRead
  <2>6. Row(req[r].cookie) /\ sessions[req[r].cookie] # None
    BY <2>5 DEF Sourced, SessionLive
  <2>7. GrantedBy(req[r].cookie) = sessions[req[r].cookie].level
    BY <2>6 DEF Row, Opened, GrantedBy, Grants, Logins
  <2> QED BY <2>5, <2>7 DEF LevelSuffices
<1> QED BY <1>1, AlwaysSourced, PTL DEF Spec, LevelServedAsGranted

-----------------------------------------------------------------------------
(* What ends sessions.                                                     *)

\* The presented session is to be over.
Ending(q) ==
    (q.pc \in {"create", "cookie"} \/ (q.pc = "reply" /\ q.set # None)) /\ q.cookie # None

Ended == \A r \in Requests : Ending(req[r]) => sessions[req[r].cookie] = None

\* A session that is gone stays gone.
LEMMA GoneStays ==
  ASSUME Typed, Sourced, [Next]_vars, NEW s \in SessionIDs, Opened(s), sessions[s] = None
  PROVE  sessions'[s] = None
<1>1. CASE \E r \in Requests : CreateNew(r)
  BY <1>1, CreatedRow DEF Fresh, Opened, Typed, TypeOK
<1> QED BY <1>1, NextChanges DEF Changes, vars, storeVars

\* Ended is inductive: the rotation and the logout have just revoked it.
LEMMA EndedKept ==
  ASSUME ~FaultsHappen, Typed, Sourced, Ended, [Next]_vars
  PROVE  Ended'
<1> SUFFICES ASSUME NEW r \in Requests, Ending(req[r])'
             PROVE  sessions'[req'[r].cookie] = None
  BY DEF Ended
<1>1. /\ RequestOK(req[r]) /\ Carries(req[r]) /\ req'[r].cookie # None
      /\ req[r].cookie # None => req[r].cookie \in SessionIDs /\ Opened(req[r].cookie)
      /\ Ending(req[r]) => sessions[req[r].cookie] = None
  BY DEF Ending, Typed, RequestsOK, RequestOK, Sourced, Carries, Ended
<1>2. CASE Ending(req[r]) /\ req'[r].cookie = req[r].cookie
  BY <1>1, <1>2, GoneStays
<1>3. CASE ~Ending(req[r]) \/ req'[r].cookie # req[r].cookie
  <2>1. Moves(r)
    BY <1>3, NextMoves DEF Moves, Ending
  <2>2. \/ Answered(r) /\ req'[r].set # None /\ req'[r].pc = "reply"
        \/ GoesOn(r) /\ req'[r].pc \in {"create", "cookie"}
    BY <2>1 DEF Moves, Begins, Delivered, Refused, Answered, GoesOn, Idle, Ending
  <2>3. CASE Answered(r) /\ req'[r].set # None
    <3>1. CASE At(r, "logout") /\ Logout(r)
      BY <1>1, <2>3, <3>1 DEF Answered, Logout, RevokeSession
    <3>2. CASE req[r].pc \in {"cookie", "recovery"} /\ req'[r].set = req[r].set
      BY <1>1, <1>3, <2>3, <3>2 DEF Answered, Carries, Ending
    <3> QED BY <2>3, <3>1, <3>2 DEF Answered
  <2>4. CASE GoesOn(r) /\ req'[r].pc = "create"
    BY <1>1, <2>4 DEF GoesOn, RotateOld, Rotated, RevokeSession
  <2>5. CASE GoesOn(r) /\ req'[r].pc = "cookie"
    BY <1>1, <1>3, <2>5 DEF GoesOn, CreateNew, At, Ending
  <2> QED BY <2>2, <2>3, <2>4, <2>5
<1> QED BY <1>2, <1>3

\* Unless the store fails, the session a login or a logout came with is gone
\* when its reply goes out.
THEOREM PresentedSessionsEnd ==
  ASSUME ~FaultsHappen PROVE Spec => []PresentedSessionEnds
<1>1. Init => Ended
  BY DEF Init, SessionsInit, Ended, Ending, Idle
<1>2. Ended => PresentedSessionEnds
  BY DEF Ended, Ending, PresentedSessionEnds, At
<1> QED BY <1>1, <1>2, AlwaysSourced, EndedKept, PTL DEF Spec

-----------------------------------------------------------------------------
(* Password reset.                                                         *)

\* The new row and what is recorded of it.
LEMMA CreatedOrigin ==
  ASSUME Typed, Sourced, NEW r \in Requests, CreateNew(r)
  PROVE  \E s \in Fresh(SessionIDs) :
            /\ sessions' = [sessions EXCEPT ![s] = NewSession(r)]
            /\ sessions'[s].user = req[r].user
            /\ origin'[s].born = resets /\ origin'[s].since = req[r].since
            /\ origin'[s].op = req[r].op /\ origin'[s].given = req[r].given
            /\ \A t \in SessionIDs \ {s} : origin'[t] = origin[t] /\ sessions'[t] = sessions[t]
<1>1. PICK s \in Fresh(SessionIDs) :
          /\ CreateSession(s, NewSession(r))
          /\ origin' = [origin EXCEPT ![s] =
                          [user |-> req[r].user, op |-> req[r].op,
                           via |-> req[r].cookie, given |-> req[r].given,
                           since |-> req[r].since, born |-> resets]]
  BY DEF CreateNew
<1>2. s \in SessionIDs /\ DOMAIN origin = SessionIDs /\ DOMAIN sessions = SessionIDs
  BY DEF Fresh, Sourced, Typed, TypeOK
<1>3. sessions' = [sessions EXCEPT ![s] = NewSession(r)] /\ NewSession(r).user = req[r].user
  BY <1>1 DEF CreateSession, NewSession
<1>4. /\ origin'[s].born = resets /\ origin'[s].since = req[r].since
      /\ origin'[s].op = req[r].op /\ origin'[s].given = req[r].given
  BY <1>1, <1>2
<1> QED BY <1>1, <1>2, <1>3, <1>4

\* Only revoke_user counts a reset, and it leaves no session of the user.
LEMMA ResetEnds ==
  ASSUME ~FaultsHappen, Typed, Sourced, ResetEndsSessions, [Next]_vars
  PROVE  ResetEndsSessions'
<1>1. CASE \E r \in Requests : CreateNew(r)
  <2>1. PICK r \in Requests : CreateNew(r)
    BY <1>1
  <2>2. resets' = resets
    BY <2>1 DEF CreateNew
  <2> QED BY <2>1, <2>2, CreatedOrigin DEF ResetEndsSessions
<1>2. CASE UNCHANGED origin /\ \A s \in SessionIDs : sessions'[s] \in {None, sessions[s]}
  <2>1. CASE UNCHANGED resets
    BY <1>2, <2>1 DEF ResetEndsSessions
  <2>2. ASSUME NEW r \in Requests, RevokeAfterReset(r) PROVE ResetEndsSessions'
    <3>1. /\ RevokeUserSessions(req[r].user)
          /\ resets' = [resets EXCEPT ![req[r].user] = @ + 1]
      BY <2>2 DEF RevokeAfterReset, EndsSessions
    <3>2. \A s \in SessionIDs : sessions'[s] # None =>
              sessions'[s] = sessions[s] /\ sessions[s].user # req[r].user
      BY <3>1 DEF RevokeUserSessions
    <3> QED BY <1>2, <3>1, <3>2 DEF ResetEndsSessions, Typed
  <2> QED BY <2>1, <2>2, NextChanges DEF Changes, vars, sessionVars, history
<1> QED BY <1>1, <1>2, NextChanges DEF Changes, vars, storeVars, sessionVars, history

\* Unless the store fails, every stored session is younger than the last
\* completed reset of its user.
THEOREM ResetsEndSessions ==
  ASSUME ~FaultsHappen PROVE Spec => []ResetEndsSessions
<1>1. Init => ResetEndsSessions
  BY DEF Init, StoreInit, ResetEndsSessions
<1> QED BY <1>1, AlwaysSourced, ResetEnds, PTL DEF Spec

-----------------------------------------------------------------------------
(* The second factor.                                                      *)

\* The request that confirms goes straight on to store recovery codes, and a
\* used code is still a code.
LEMMA RecoveryKept ==
  ASSUME ~FaultsHappen, Typed, ConfirmedHasRecovery, [Next]_vars
  PROVE  ConfirmedHasRecovery'
<1> SUFFICES ASSUME NEW u \in UserIDs, Confirmed(u)',
                    \A r \in Requests : ~(req'[r].pc = "recovery" /\ req'[r].user = u)
             PROVE  \E c \in RecoveryCodes : recovery'[u][c] # "absent"
  BY DEF ConfirmedHasRecovery, At
<1>1. ASSUME NEW r \in Requests, StoreRecoveryCodes(r), req[r].user = u
      PROVE  \E c \in RecoveryCodes : recovery'[u][c] # "absent"
  <2>1. PICK set \in SUBSET Fresh(RecoveryCodes) :
           Cardinality(set) = RecoverySetSize /\ SetRecoveryCodes(u, set)
    BY <1>1 DEF StoreRecoveryCodes
  <2>2. PICK c \in set : TRUE
    <3>1. set # {}
      BY <2>1, RecoveryAssumption, FS_EmptySet
    <3> QED BY <3>1
  <2>3. c \in RecoveryCodes /\ recovery'[u][c] = "unused"
    BY <2>1, <2>2 DEF Fresh, SetRecoveryCodes, Typed, TypeOK
  <2> QED BY <2>3
<1>2. CASE \A r \in Requests : ~(StoreRecoveryCodes(r) /\ req[r].user = u)
  <2>1. ASSUME NEW r \in Requests, req[r].pc = "recovery", req[r].user = u PROVE FALSE
    <3>1. req'[r] # req[r]
      BY <2>1
    <3>2. Moves(r)
      BY <3>1, NextMoves DEF Moves
    <3> QED BY <1>2, <2>1, <3>2 DEF Moves, Begins, Delivered, Refused, Answered, GoesOn, At
  <2>2. Confirmed(u)
    <3>1. CASE UNCHANGED totp
      BY <3>1 DEF Confirmed
    <3>2. ASSUME NEW r \in Requests, SetupTOTP(r) PROVE Confirmed(u)
      <4>1. PICK x \in Secrets : totp' = [totp EXCEPT ![req[r].user] = [secret |-> x, confirmed |-> FALSE]]
        BY <3>2 DEF SetupTOTP, Fresh, SetTOTP
      <4> QED BY <4>1 DEF Confirmed, Typed, TypeOK
    <3>3. ASSUME NEW r \in Requests, ConfirmTOTP(r) PROVE Confirmed(u)
      <4>1. req'[r].pc = "recovery" /\ req'[r].user = req[r].user
        BY <3>3, GotoMoves DEF ConfirmTOTP, Typed
      <4>2. req[r].user # u
        BY <4>1
      <4> QED BY <3>3, <4>2 DEF ConfirmTOTP, SetTOTP, Confirmed, Typed, TypeOK
    <3> QED BY <3>1, <3>2, <3>3, NextChanges DEF Changes, vars, storeVars
  <2>3. PICK c \in RecoveryCodes : recovery[u][c] # "absent"
    BY <2>1, <2>2 DEF ConfirmedHasRecovery, At
  <2>4. recovery'[u][c] # "absent"
    <3>1. CASE UNCHANGED recovery
      BY <2>3, <3>1
    <3>2. ASSUME NEW r \in Requests, StoreRecoveryCodes(r) PROVE recovery'[u][c] # "absent"
      BY <1>2, <2>3, <3>2 DEF StoreRecoveryCodes, SetRecoveryCodes, Typed, TypeOK
    <3>3. ASSUME NEW r \in Requests, ConsumeRecovery(r) PROVE recovery'[u][c] # "absent"
      BY <2>3, <3>3 DEF ConsumeRecovery, ConsumeRecoveryCode, storeVars, Typed, TypeOK
    <3> QED BY <3>1, <3>2, <3>3, NextChanges DEF Changes, vars, storeVars
  <2> QED BY <2>4
<1> QED BY <1>1, <1>2

\* Unless the store fails, an account with a confirmed second factor has
\* recovery codes once the request that confirmed it is over.
THEOREM ConfirmedFactorHasRecovery ==
  ASSUME ~FaultsHappen PROVE Spec => []ConfirmedHasRecovery
<1>1. Init => ConfirmedHasRecovery
  BY DEF Init, StoreInit, ConfirmedHasRecovery, Confirmed
<1> QED BY <1>1, AlwaysTyped, RecoveryKept, PTL DEF Spec

-----------------------------------------------------------------------------
(* Passkey ceremonies.                                                     *)

\* A stored challenge, and one that was taken, is what was begun.
Begun ==
    /\ DOMAIN begun = ChallengeIDs
    /\ \A c \in ChallengeIDs : challenges[c] # NoChallenge =>
          /\ c \in drawn
          /\ begun[c] = [kind |-> challenges[c].kind, user |-> challenges[c].user]
    /\ \A r \in Requests : At(r, "save") \/ At(r, "handle") =>
          /\ req[r].given.challenge \in drawn
          /\ begun[req[r].given.challenge] = [kind |-> Kind(req[r].op), user |-> req[r].user]

\* Begun is inductive.
LEMMA BegunKept == Typed /\ Begun /\ [Next]_vars => Begun'
<1> SUFFICES ASSUME Typed, Begun, [Next]_vars PROVE Begun'
  OBVIOUS
<1>1. drawn \subseteq drawn'
  BY NextChanges DEF Changes, vars, sessionVars
<1>2. \A c : c \in drawn => begun'[c] = begun[c]
  <2>1. ASSUME NEW r \in Requests, SavePasskeyChallenge(r) PROVE \A c : c \in drawn => begun'[c] = begun[c]
    BY <2>1 DEF SavePasskeyChallenge, Fresh, Begun
  <2> QED BY <2>1, NextChanges DEF Changes, vars, sessionVars, history
<1>3. /\ DOMAIN begun' = ChallengeIDs
      /\ \A c \in ChallengeIDs : challenges'[c] # NoChallenge =>
          /\ c \in drawn'
          /\ begun'[c] = [kind |-> challenges'[c].kind, user |-> challenges'[c].user]
  <2>1. ASSUME NEW r \in Requests, SavePasskeyChallenge(r) PROVE <1>3!:
    <3>1. PICK d \in Fresh(ChallengeIDs) :
             /\ Put(d, [kind |-> Kind(req[r].op), user |-> req[r].user,
                     expires |-> now + ChallengeLifetime])
             /\ drawn' = drawn \cup {d}
             /\ begun' = [begun EXCEPT ![d] = [kind |-> Kind(req[r].op), user |-> req[r].user]]
      BY <2>1 DEF SavePasskeyChallenge
    <3> DEFINE row == [kind |-> Kind(req[r].op), user |-> req[r].user,
                     expires |-> now + ChallengeLifetime]
    <3>2. challenges' = [challenges EXCEPT ![d] = row] /\ row.kind = Kind(req[r].op) /\ row.user = req[r].user
      BY <3>1 DEF Put
    <3> HIDE DEF row
    <3> QED BY <3>1, <3>2 DEF Fresh, Begun, Typed, ChallengesOK
  <2>2. ASSUME NEW r \in Requests, TakePasskeyChallenge(r) PROVE <1>3!:
    BY <2>2 DEF TakePasskeyChallenge, Take, Begun
  <2>3. CASE UNCHANGED challenges /\ UNCHANGED begun
    BY <1>1, <2>3 DEF Begun
  <2>4. \/ UNCHANGED challenges /\ UNCHANGED begun
        \/ \E r \in Requests : SavePasskeyChallenge(r) \/ TakePasskeyChallenge(r)
    BY NextChanges DEF Changes, vars, sessionVars, history
  <2> QED BY <2>1, <2>2, <2>3, <2>4
<1>4. ASSUME NEW r \in Requests, req'[r].pc \in {"save", "handle"}
      PROVE  /\ req'[r].given.challenge \in drawn'
             /\ begun'[req'[r].given.challenge] = [kind |-> Kind(req'[r].op), user |-> req'[r].user]
  <2>1. CASE req'[r] = req[r]
    BY <1>1, <1>2, <1>4, <2>1 DEF Begun, At
  <2>2. CASE GoesOn(r)
    <3>1. /\ TakePasskeyChallenge(r) /\ req'[r].given = req[r].given /\ req'[r].op = req[r].op
          /\ req'[r].user = req[r].user
      BY <1>4, <2>2 DEF GoesOn
    <3>2. ~Refuse(r)
      BY <1>4 DEF Refuse, Typed, RequestsOK, Shaped, Idle
    <3>3. Takable(req[r].given.challenge, now) /\ Fits(req[r].given.challenge, r)
      BY <3>1, <3>2 DEF TakePasskeyChallenge
    <3> QED BY <1>1, <1>2, <3>1, <3>3 DEF Takable, Fits, Begun
  <2> QED BY <1>4, <2>1, <2>2, NextMoves DEF Moves, Begins, Delivered, Refused, Answered, Idle
<1> QED BY <1>3, <1>4 DEF Begun, At

\* A passkey is only stored for the user whose session began the ceremony,
\* and a login only answered with a challenge begun for one.
THEOREM CeremoniesKeepUser == Spec => []CeremonyKeepsUser
<1>1. Init => Begun
  BY DEF Init, SessionsInit, ChallengesInit, Begun, At, Idle
<1>2. Begun => CeremonyKeepsUser
  BY DEF Begun, CeremonyKeepsUser
<1> QED BY <1>1, <1>2, AlwaysTyped, BegunKept, PTL DEF Spec

-----------------------------------------------------------------------------
(* What a step does to a password.                                         *)

\* Accounts stay.
LEMMA UsersStay ==
  ASSUME Typed, [Next]_vars, NEW u \in UserIDs, users[u] # None
  PROVE  users'[u] # None
<1>1. \A v \in UserIDs, b \in BOOLEAN :
        users[v] # None => /\ [users[v] EXCEPT !.verified = b] # None
                           /\ [users[v] EXCEPT !.disabled = b] # None
  BY RowAssumption DEF Typed, TypeOK, User
<1>2. CASE \E v \in UserIDs, b \in BOOLEAN : SetUserVerified(v, b) \/ SetUserDisabled(v, b)
  BY <1>1, <1>2 DEF SetUserVerified, SetUserDisabled, UserExists, Typed, TypeOK
<1>3. CASE \E v \in UserIDs, i \in Identifiers, w \in WebAuthnIDs : AddUser(v, i, w)
  BY <1>3 DEF AddUser, CanCreateUser, Typed, TypeOK
<1>4. CASE UNCHANGED users
  BY <1>4
<1>5. CASE StoreNext
  BY <1>2, <1>3, <1>4, <1>5 DEF StoreNext, AccountCall, CredentialCall, CodeCall, SessionCall,
     CreateUser, CreatePasswordUser, SetPassword, SavePasskey, UpdatePasskey, DeletePasskey,
     SetTOTP, DeleteTOTP, SetRecoveryCodes, ConsumeRecoveryCode, SaveCode, AttemptCode, DeleteCode,
     CreateSession, SessionByID, RevokeSession, RevokeUserSessions, accounts
<1> QED BY <1>4, <1>5, NextStore DEF StoreStep, storeVars

\* A login that was looked up is for an account.
Known == \A r \in Requests :
    req[r].pc \in {"verify", "check_hash", "rehash"} => UserExists(req[r].user)

LEMMA KnownKept == Typed /\ Known /\ [Next]_vars => Known'
<1> SUFFICES ASSUME Typed, Known, [Next]_vars, NEW r \in Requests,
                    req'[r].pc \in {"verify", "check_hash", "rehash"}
             PROVE  req'[r].user \in UserIDs /\ users'[req'[r].user] # None
  BY DEF Known, UserExists
<1>1. UserExists(req'[r].user)
  <2>1. CASE req'[r] = req[r]
    BY <2>1 DEF Known
  <2>2. CASE GoesOn(r)
    BY <2>2 DEF GoesOn, Known
  <2> QED BY <2>1, <2>2, NextMoves DEF Moves, Begins, Delivered, Refused, Answered, Idle
<1> QED BY <1>1, UsersStay DEF UserExists

LEMMA AlwaysKnown == Spec => [](Typed /\ Known)
<1>1. Init => Known
  BY DEF Init, SessionsInit, Known, Idle
<1> QED BY <1>1, AlwaysTyped, KnownKept, PTL DEF Spec

\* Hash makes a hash of today's parameters.
LEMMA NewHashes ==
  ASSUME NEW p \in Passwords, NEW h, h = [password |-> p, legacy |-> FALSE]
  PROVE  h \in Hash /\ h # None /\ ~h.legacy /\ h.password = p
<1>1. h \in Hash /\ ~h.legacy /\ h.password = p
  BY DEF Hash
<1> QED BY <1>1, RowAssumption

\* A reset stores what was typed, and is then half done.
ResetBy(r, u) ==
    /\ ApplyReset(r) /\ At(r, "apply") /\ ResetsPassword(req[r].given)
    /\ req'[r].pc = "revoke_user" /\ req'[r].user = u

\* The password of an account changes by a rehash or a reset.
LEMMA PasswordWrites ==
  ASSUME Typed, [Next]_vars, NEW u \in UserIDs, users[u] # None, passwords'[u] # passwords[u]
  PROVE  \E r \in Requests :
            /\ req[r].user = u /\ req'[r] # req[r]
            /\ passwords'[u] # None /\ ~passwords'[u].legacy
            /\ passwords'[u].password = req[r].given.password
            /\ (Rehash(r) /\ At(r, "rehash")) \/ ResetBy(r, u)
<1> USE DEF Typed, TypeOK
<1>1. ASSUME NEW r \in Requests, CreateAccount(r) PROVE FALSE
  BY <1>1 DEF CreateAccount, CreatePasswordUser, AddUser, CanCreateUser, storeVars
<1>2. ~Added
  BY DEF Added, AddAccount, CreateUser, CreatePasswordUser, AddUser, CanCreateUser, credentials
<1>3. ASSUME NEW r \in Requests, Rehash(r)
      PROVE  /\ req[r].user = u /\ req'[r] # req[r]
             /\ passwords'[u] # None /\ ~passwords'[u].legacy
             /\ passwords'[u].password = req[r].given.password
             /\ At(r, "rehash")
  <2>1. req[r].given.password \in Passwords
    <3>1. req[r].op = "login" /\ RequestOK(req[r])
      BY <1>3 DEF Rehash, At, RequestsOK, RequestOK, Points
    <3>2. req[r].given \in Credentials
      BY <1>3, <3>1, GivenValues DEF RequestOK, Rehash, At
    <3> QED BY <3>2 DEF Credentials
  <2> DEFINE hash == [password |-> req[r].given.password, legacy |-> FALSE]
  <2>2. hash # None /\ ~hash.legacy /\ hash.password = req[r].given.password
    BY <2>1, NewHashes
  <2>3. passwords' = [passwords EXCEPT ![req[r].user] = hash]
    BY <1>3 DEF Rehash, SetPassword, storeVars
  <2> HIDE DEF hash
  <2>4. At(r, "rehash") /\ req'[r].pc = "rotate"
    BY <1>3, GotoMoves DEF Rehash
  <2> QED BY <2>2, <2>3, <2>4 DEF At
<1>4. ASSUME NEW r \in Requests, ApplyReset(r)
      PROVE  /\ req[r].user = u /\ req'[r] # req[r]
             /\ passwords'[u] # None /\ ~passwords'[u].legacy
             /\ passwords'[u].password = req[r].given.password
             /\ ResetBy(r, u)
  <2>1. /\ ResetsPassword(req[r].given) /\ SetPassword(req[r].user, NewHash(req[r].given.password))
        /\ Goto(r, "revoke_user") /\ At(r, "apply")
    BY <1>4 DEF ApplyReset, storeVars
  <2>2. req[r].given.password \in Passwords
    <3>1. req[r].op = "verify_code" /\ req[r].pc = "apply" /\ RequestOK(req[r])
      BY <2>1 DEF At, RequestsOK, RequestOK, Points
    <3>2. req[r].given \in CodeAnswer
      BY <3>1, GivenValues DEF RequestOK
    <3> QED BY <2>1, <3>2 DEF CodeAnswer, ResetsPassword
  <2> DEFINE hash == NewHash(req[r].given.password)
  <2>3. hash # None /\ ~hash.legacy /\ hash.password = req[r].given.password
    BY <2>2, NewHashes DEF NewHash
  <2>4. passwords' = [passwords EXCEPT ![req[r].user] = hash]
    BY <2>1 DEF SetPassword
  <2> HIDE DEF hash
  <2>5. req'[r].pc = "revoke_user" /\ req'[r].user = req[r].user
    BY <2>1, GotoMoves
  <2> QED BY <1>4, <2>1, <2>3, <2>4, <2>5 DEF At, ResetBy
<1> QED BY <1>1, <1>2, <1>3, <1>4, NextChanges DEF Changes, vars, storeVars

\* Unless a reset or a rehash of another password comes in, a login of an
\* account is verified against the same password after a step as before.
LEMMA HashKept ==
  ASSUME Typed, [Next]_vars, NEW u \in UserIDs, users[u] # None,
         \A o \in Requests : ~ResetBy(o, u),
         \A o \in Requests : At(o, "rehash") /\ req[o].user = u =>
                                PasswordValid(u, req[o].given.password)
  PROVE  /\ \A password : PasswordValid(u, password) => PasswordValid(u, password)'
         /\ \A password : Stored(u, password) => Stored(u, password)'
<1>1. CASE passwords'[u] = passwords[u]
  BY <1>1 DEF PasswordValid, HashFor, Stored
<1>2. CASE passwords'[u] # passwords[u]
  <2>1. PICK o \in Requests : /\ req[o].user = u /\ passwords'[u] # None
                              /\ passwords'[u].password = req[o].given.password
                              /\ Rehash(o) /\ At(o, "rehash")
    BY <1>2, PasswordWrites
  <2>2. HashFor(u).password = req[o].given.password
    BY <2>1 DEF PasswordValid
  <2>3. passwords'[u] # None /\ passwords'[u].password = HashFor(u).password
    BY <2>1, <2>2
  <2> QED BY <2>3 DEF PasswordValid, HashFor, Stored
<1> QED BY <1>1, <1>2

-----------------------------------------------------------------------------
(* Registration.                                                           *)

\* Without one-time codes no route but register and login writes a password.
CodesOff == \A r \in Requests : req[r].op \notin {"request_code", "verify_code"}

\* The registration that won has the name, and its password opens it.
Named(q) == q.op = "register" /\ q.ok =>
    LET u == identifiers[q.given.identifier]
    IN  UserExists(u) /\ Stored(u, q.given.password)

\* The logins that verified a password may store it again.
Winners ==
    /\ CodesOff
    /\ \A r \in Requests :
          /\ Named(req[r])
          /\ req[r].pc \in {"check_hash", "rehash"} => PasswordValid(req[r].user, req[r].given.password)

\* A route whose option is off is not served.
LEMMA CodesStayOff ==
  ASSUME "codes" \notin Features, Typed, CodesOff, [Next]_vars
  PROVE  CodesOff'
<1> SUFFICES ASSUME NEW r \in Requests PROVE req'[r].op \notin {"request_code", "verify_code"}
  BY DEF CodesOff
<1>1. CASE Begins(r)
  BY <1>1 DEF Begins, Served, RouteFeature
<1>2. CASE Delivered(r)
  BY <1>2, UnsetAssumption DEF Delivered, Idle, Routes, RouteFeature
<1> QED BY <1>1, <1>2, NextMoves DEF Moves, Refused, Answered, GoesOn, CodesOff

\* The password of an account is only stored again.
LEMMA PasswordsKept ==
  ASSUME Typed, Winners, [Next]_vars, NEW u \in UserIDs, users[u] # None
  PROVE  /\ \A password : PasswordValid(u, password) => PasswordValid(u, password)'
         /\ \A password : Stored(u, password) => Stored(u, password)'
<1>1. ASSUME NEW o \in Requests, ResetBy(o, u) PROVE FALSE
  <2>1. req[o].op = "verify_code"
    BY <1>1 DEF ResetBy, At, Typed, RequestsOK, RequestOK, Points
  <2> QED BY <2>1 DEF Winners, CodesOff
<1>2. \A o \in Requests : At(o, "rehash") /\ req[o].user = u => PasswordValid(u, req[o].given.password)
  BY DEF Winners, At
<1> QED BY <1>1, <1>2, HashKept

\* A name, once taken, stays with its account.
LEMMA IdentifiersKept ==
  ASSUME Typed, Next, NEW i \in Identifiers, identifiers[i] # None
  PROVE  identifiers'[i] = identifiers[i]
<1>1. ASSUME NEW r \in Requests, CreateAccount(r) PROVE identifiers'[i] = identifiers[i]
  BY <1>1 DEF CreateAccount, CreatePasswordUser, AddUser, CanCreateUser, storeVars, Typed, TypeOK
<1>2. CASE Added
  BY <1>2 DEF Added, AddAccount, CreateUser, CreatePasswordUser, AddUser, CanCreateUser, Typed, TypeOK
<1> QED BY <1>1, <1>2, NextChanges DEF Changes

\* Winners is inductive, given that logins are for accounts.
LEMMA WinnersKept ==
  ASSUME "codes" \notin Features, Typed, Known, CredentialsOwned', Winners, [Next]_vars
  PROVE  Winners'
<1>1. CodesOff'
  BY CodesStayOff DEF Winners
<1>2. ASSUME NEW r \in Requests, req'[r].pc \in {"check_hash", "rehash"}
      PROVE  PasswordValid(req[r].user, req[r].given.password)'
  <2>1. /\ req'[r].user = req[r].user /\ req'[r].given = req[r].given
        /\ req[r].pc \in {"verify", "check_hash", "rehash"}
        /\ PasswordValid(req[r].user, req[r].given.password)
    <3>1. CASE req'[r] = req[r]
      BY <1>2, <3>1 DEF Winners
    <3>2. CASE GoesOn(r)
      BY <1>2, <3>2 DEF GoesOn, Winners
    <3> QED BY <1>2, <3>1, <3>2, NextMoves DEF Moves, Begins, Delivered, Refused, Answered, Idle
  <2>2. req[r].user \in UserIDs /\ users[req[r].user] # None
    BY <2>1 DEF Known, UserExists
  <2>3. PasswordValid(req[r].user, req[r].given.password) =>
           HashFor(req[r].user)'.password = req[r].given.password
    BY <2>1, <2>2, PasswordsKept DEF PasswordValid
  <2> QED BY <2>1, <2>3 DEF PasswordValid, HashFor
<1>3. ASSUME NEW r \in Requests PROVE Named(req[r])'
  <2>1. SUFFICES ASSUME req'[r].op = "register", req'[r].ok PROVE Named(req[r])'
    BY DEF Named
  <2>2. CASE req'[r] = req[r]
    <3> DEFINE i == req[r].given.identifier
               u == identifiers[i]
    <3>1. /\ u \in UserIDs /\ users[u] # None /\ Stored(u, req[r].given.password)
          /\ i \in Identifiers /\ u # None
      <4>1. req[r].given \in Credentials
        <5>1. RequestOK(req[r]) /\ req[r].op = "register" /\ req[r].ok
          BY <2>1, <2>2 DEF Typed, RequestsOK
        <5> QED BY <5>1, GivenValues DEF RequestOK
      <4> QED BY <2>1, <2>2, <4>1, NoneAssumption DEF Winners, Named, UserExists, Credentials
    <3>2. identifiers'[i] = u
      BY <3>1, IdentifiersKept DEF vars, storeVars
    <3>3. passwords'[u] # None /\ passwords'[u].password = req[r].given.password
      BY <3>1, PasswordsKept DEF Stored
    <3>4. users'[u] # None
      BY <3>1, <3>3 DEF CredentialsOwned
    <3> QED BY <2>2, <3>1, <3>2, <3>3, <3>4 DEF Named, UserExists, Stored
  <2>3. CASE Answered(r)
    <3>1. CreateAccount(r) /\ req'[r].given = req[r].given
      BY <2>1, <2>3 DEF Answered
    <3>2. ~Refuse(r)
      BY <2>1 DEF Refuse, Typed, RequestsOK, Shaped, Idle
    <3>3. PICK u \in UserIDs, w \in WebAuthnIDs : CreatePasswordUser(u, req[r].given.identifier, w,
                 [password |-> req[r].given.password, legacy |-> FALSE])
      BY <3>1, <3>2 DEF CreateAccount, Fresh
    <3>4. req[r].given \in Credentials
      <4>1. req[r].op = "register" /\ req[r].pc = "register"
        BY <2>1, <2>3, <3>1 DEF Answered, CreateAccount, At
      <4>2. RequestOK(req[r])
        BY DEF Typed, RequestsOK
      <4> QED BY <4>1, <4>2, GivenValues DEF RequestOK
    <3> DEFINE hash == [password |-> req[r].given.password, legacy |-> FALSE]
    <3>5. hash # None /\ hash.password = req[r].given.password
      BY <3>4, NewHashes DEF Credentials
    <3>6. /\ identifiers'[req[r].given.identifier] = u
          /\ passwords' = [passwords EXCEPT ![u] = hash]
      BY <3>3, <3>4 DEF CreatePasswordUser, AddUser, Credentials, Typed, TypeOK
    <3> HIDE DEF hash
    <3>7. passwords'[u] # None /\ passwords'[u].password = req[r].given.password
      BY <3>5, <3>6 DEF Typed, TypeOK
    <3>8. users'[u] # None
      BY <3>7 DEF CredentialsOwned
    <3> QED BY <3>1, <3>6, <3>7, <3>8 DEF Named, UserExists, Stored
  <2>4. CASE GoesOn(r)
    <3>1. RequestOK(req[r])'
      BY TypedKept DEF Typed, RequestsOK
    <3>2. req'[r].pc \notin {"register", "reply"}
      BY <2>4 DEF GoesOn
    <3>3. \A pc \in DOMAIN Points : "register" \in Points[pc] => pc \in {"register", "reply"}
      BY UnsetAssumption DEF Points, After, Gated, Logins, Routes, RouteFeature
    <3> QED BY <2>1, <3>1, <3>2, <3>3 DEF RequestOK
  <2> QED BY <2>1, <2>2, <2>3, <2>4, NextMoves DEF Moves, Begins, Delivered, Refused, Idle
<1> QED BY <1>1, <1>2, <1>3 DEF Winners

\* Without password reset, a registration answered with success owns the
\* name, with the password it chose, from then on.
THEOREM WinnersOwnAccount ==
  ASSUME "codes" \notin Features PROVE Spec => []WinnerOwnsAccount
<1>1. Init => Winners
  BY UnsetAssumption DEF Init, SessionsInit, Winners, CodesOff, Named, Idle, Routes, RouteFeature
<1>2. Winners => WinnerOwnsAccount
  BY DEF Winners, Named, WinnerOwnsAccount, UserByIdentifier
<1>3. Spec => []CredentialsOwned
  BY StoreUnderHandlers, PTL
<1> QED BY <1>1, <1>2, <1>3, AlwaysKnown, WinnersKept, PTL DEF Spec

-----------------------------------------------------------------------------
(* Resets and the logins they overlap.                                     *)

\* No request is from the future.
Earlier == \A r \in Requests : req[r].pc \notin {"idle", "reply"} =>
    \A u \in UserIDs : req[r].since[u] <= resets[u]

\* Resets only add up; one that was half done counts when it is over, and
\* nothing else counts.
LEMMA ResetsAddUp ==
  ASSUME ~FaultsHappen, Typed, [Next]_vars, NEW u \in UserIDs
  PROVE  /\ resets[u] \in Nat /\ resets'[u] \in Nat /\ resets[u] <= resets'[u]
         /\ resets'[u] = resets[u] /\ Settled(u)' => Settled(u)
         /\ resets'[u] # resets[u] => ~Settled(u)
<1>1. resets[u] \in Nat /\ resets'[u] \in Nat
  BY TypedKept DEF Typed
<1>2. resets[u] <= resets'[u] /\ (resets'[u] # resets[u] => ~Settled(u))
  BY <1>1, NextChanges DEF Changes, vars, sessionVars, history, RevokeAfterReset, Typed, Settled
<1>3. ASSUME NEW r \in Requests, req[r].pc = "revoke_user", req[r].user = u, Settled(u)'
      PROVE  resets'[u] # resets[u]
  <2>1. req'[r] # req[r]
    BY <1>3 DEF Settled, At
  <2>2. Moves(r)
    BY <2>1, NextMoves DEF Moves
  <2>3. RevokeAfterReset(r)
    BY <1>3, <2>2 DEF Moves, Begins, Delivered, Refused, Answered, GoesOn, At
  <2> QED BY <1>1, <1>3, <2>3 DEF RevokeAfterReset, Typed
<1> QED BY <1>1, <1>2, <1>3 DEF Settled, At

LEMMA EarlierKept ==
  ASSUME ~FaultsHappen, Typed, Earlier, [Next]_vars
  PROVE  Earlier'
<1> SUFFICES ASSUME NEW r \in Requests, req'[r].pc \notin {"idle", "reply"}, NEW u \in UserIDs
             PROVE  req'[r].since[u] <= resets'[u]
  BY DEF Earlier
<1>1. req'[r].since[u] \in Nat
  BY TypedKept DEF Typed, RequestsOK, RequestOK
<1>2. req'[r].since[u] <= resets[u]
  <2>1. CASE req'[r] = req[r]
    BY <2>1 DEF Earlier
  <2>2. CASE Begins(r)
    BY <2>2 DEF Begins, Typed
  <2>3. CASE GoesOn(r)
    BY <2>3 DEF GoesOn, Earlier
  <2> QED BY <2>1, <2>2, <2>3, NextMoves DEF Moves, Delivered, Refused, Answered, Idle
<1> QED BY <1>1, <1>2, ResetsAddUp

\* No reset has written the password of u.
Untouched(u) == resets[u] = 0 /\ Settled(u)

\* A reset leaves a hash of today's parameters, and no login replaces it by
\* one that needs a rehash: the logins that may still store a password all
\* arrived before any reset, and until one comes, theirs is the right one.
Rehashable ==
    /\ Earlier
    /\ \A u \in UserIDs : Untouched(u) \/ (passwords[u] # None /\ ~passwords[u].legacy)
    /\ \A r \in Requests :
          /\ At(r, "rehash") => req[r].since[req[r].user] = 0
          /\ req[r].pc \in {"check_hash", "rehash"} /\ Untouched(req[r].user) =>
                PasswordValid(req[r].user, req[r].given.password)

\* Until the first reset of u, its password is only stored again.
LEMMA UntouchedKept ==
  ASSUME ~FaultsHappen, Typed, Rehashable, [Next]_vars,
         NEW u \in UserIDs, users[u] # None, Untouched(u)'
  PROVE  /\ Untouched(u)
         /\ \A password : PasswordValid(u, password) => PasswordValid(u, password)'
<1>1. Untouched(u)
  BY ResetsAddUp DEF Untouched
<1>2. \A o \in Requests : ~ResetBy(o, u)
  BY DEF ResetBy, Untouched, Settled, At
<1>3. \A o \in Requests : At(o, "rehash") /\ req[o].user = u => PasswordValid(u, req[o].given.password)
  BY <1>1 DEF Rehashable, At
<1> QED BY <1>1, <1>2, <1>3, HashKept

\* What a reset, the first or a later one, leaves.
LEMMA ResetRows ==
  ASSUME ~FaultsHappen, Typed, CredentialsOwned, Rehashable, [Next]_vars,
         NEW u \in UserIDs, ~Untouched(u)'
  PROVE  passwords'[u] # None /\ ~passwords'[u].legacy
<1>1. CASE ~Untouched(u)
  <2>1. passwords[u] # None /\ ~passwords[u].legacy /\ users[u] # None
    BY <1>1 DEF Rehashable, CredentialsOwned
  <2> QED BY <2>1, PasswordWrites
<1>2. CASE Untouched(u)
  <2>1. PICK r \in Requests : req'[r].pc = "revoke_user" /\ req'[r].user = u
    BY <1>2, ResetsAddUp DEF Untouched, Settled, At
  <2>2. req'[r] # req[r]
    BY <1>2, <2>1 DEF Untouched, Settled, At
  <2>3. GoesOn(r)
    BY <2>1, <2>2, NextMoves DEF Moves, Begins, Delivered, Refused, Answered, Idle
  <2>4. ApplyReset(r) /\ req[r].user = u
    BY <2>1, <2>3 DEF GoesOn
  <2>5. ~Refuse(r)
    BY <2>1 DEF Refuse, Typed, RequestsOK, Shaped, Idle
  <2>6. SetPassword(u, NewHash(req[r].given.password)) /\ ResetsPassword(req[r].given) /\ At(r, "apply")
    BY <2>4, <2>5 DEF ApplyReset
  <2>7. req[r].given.password \in Passwords
    <3>1. req[r].op = "verify_code" /\ req[r].pc = "apply" /\ RequestOK(req[r])
      BY <2>6 DEF At, Typed, RequestsOK, RequestOK, Points
    <3>2. req[r].given \in CodeAnswer
      BY <3>1, GivenValues DEF RequestOK
    <3> QED BY <2>6, <3>2 DEF CodeAnswer, ResetsPassword
  <2> DEFINE hash == NewHash(req[r].given.password)
  <2>8. hash # None /\ ~hash.legacy
    BY <2>7, NewHashes DEF NewHash
  <2>9. passwords' = [passwords EXCEPT ![u] = hash]
    BY <2>6 DEF SetPassword
  <2> HIDE DEF hash
  <2> QED BY <2>8, <2>9 DEF Typed, TypeOK
<1> QED BY <1>1, <1>2

\* Rehashable is inductive.
LEMMA RehashableKept ==
  ASSUME ~FaultsHappen, Typed, Known, CredentialsOwned, Rehashable, [Next]_vars
  PROVE  Rehashable'
<1>1. Earlier'
  BY EarlierKept DEF Rehashable
<1>2. \A u \in UserIDs : (Untouched(u) \/ (passwords[u] # None /\ ~passwords[u].legacy))'
  BY ResetRows
<1>3. ASSUME NEW r \in Requests, req'[r].pc = "rehash" PROVE req'[r].since[req'[r].user] = 0
  <2>1. CASE req'[r] = req[r]
    BY <1>3, <2>1 DEF Rehashable, At
  <2>2. CASE GoesOn(r)
    <3>1. /\ req[r].pc = "check_hash" /\ NeedsRehash(req[r].user)
          /\ req'[r].user = req[r].user /\ req'[r].since = req[r].since
      BY <1>3, <2>2 DEF GoesOn
    <3>2. req[r].user \in UserIDs /\ req[r].since[req[r].user] \in Nat
      BY <3>1 DEF Known, UserExists, Typed, RequestsOK, RequestOK
    <3>3. req[r].since[req[r].user] <= resets[req[r].user] /\ resets[req[r].user] = 0
      BY <3>1, <3>2 DEF Rehashable, Earlier, Untouched, NeedsRehash
    <3> QED BY <3>1, <3>2, <3>3
  <2> QED BY <1>3, <2>1, <2>2, NextMoves DEF Moves, Begins, Delivered, Refused, Answered, Idle
<1>4. ASSUME NEW r \in Requests, req'[r].pc \in {"check_hash", "rehash"}, Untouched(req[r].user)'
      PROVE  PasswordValid(req[r].user, req[r].given.password)'
  <2>1. /\ req'[r].user = req[r].user /\ req'[r].given = req[r].given
        /\ req[r].pc \in {"verify", "check_hash", "rehash"}
        /\ req[r].pc = "verify" => PasswordValid(req[r].user, req[r].given.password)
    <3>1. CASE req'[r] = req[r]
      BY <1>4, <3>1
    <3>2. CASE GoesOn(r)
      BY <1>4, <3>2 DEF GoesOn
    <3> QED BY <1>4, <3>1, <3>2, NextMoves DEF Moves, Begins, Delivered, Refused, Answered, Idle
  <2> DEFINE u == req[r].user
             password == req[r].given.password
  <2>2. u \in UserIDs /\ users[u] # None
    BY <2>1 DEF Known, UserExists
  <2>3. resets'[u] = 0 /\ \A o \in Requests : ~(req'[o].pc = "revoke_user" /\ req'[o].user = u)
    BY <1>4, <2>1 DEF Untouched, Settled, At
  <2> HIDE DEF u, password
  <2>4. /\ Untouched(u)
        /\ \A p : HashFor(u).password = p =>
              (IF passwords'[u] = None THEN [password |-> DummyPassword, legacy |-> FALSE]
               ELSE passwords'[u]).password = p
    BY <2>2, <2>3, UntouchedKept DEF Untouched, Settled, At, PasswordValid, HashFor
  <2>5. HashFor(u).password = password
    BY <2>1, <2>4 DEF Rehashable, PasswordValid, u, password
  <2> QED BY <2>1, <2>4, <2>5 DEF PasswordValid, HashFor, u, password
<1> QED BY <1>1, <1>2, <1>3, <1>4 DEF Rehashable, At

LEMMA AlwaysRehashable ==
  ASSUME ~FaultsHappen PROVE Spec => [](Typed /\ Known /\ CredentialsOwned /\ Rehashable)
<1>1. Init => Rehashable
  BY DEF Init, StoreInit, SessionsInit, Rehashable, Earlier, Untouched, Settled, At, Idle
<1>2. Spec => []CredentialsOwned
  BY StoreUnderHandlers, PTL
<1> QED BY <1>1, <1>2, AlwaysKnown, RehashableKept, PTL DEF Spec

\* Unless the store fails, the password that opens an account changes by a
\* reset, or by the rehash of a login that a reset overtook, whether the
\* account had no password before, an outdated hash, or one of the present
\* parameters.
THEOREM ResetsUndoneOnlyByEarlierLogins ==
  ASSUME ~FaultsHappen PROVE Spec => ResetUndoneOnlyByEarlierLogin
<1> DEFINE Step1 == \A u \in UserIDs :
          UserExists(u) /\ HashFor(u)'.password # HashFor(u).password =>
             \E r \in Requests :
                /\ req[r].user = u /\ req'[r] # req[r]
                /\ \/ At(r, "apply") /\ ResetsPassword(req[r].given)
                   \/ At(r, "rehash") /\ (req[r].since[u] < resets[u] \/ ~Settled(u))
<1>1. Typed /\ Known /\ CredentialsOwned /\ Rehashable /\ [Next]_vars => Step1
  <2> SUFFICES ASSUME Typed, Rehashable, [Next]_vars, NEW u \in UserIDs, users[u] # None,
                      HashFor(u)'.password # HashFor(u).password
               PROVE  \E r \in Requests :
                        /\ req[r].user = u /\ req'[r] # req[r]
                        /\ \/ At(r, "apply") /\ ResetsPassword(req[r].given)
                           \/ At(r, "rehash") /\ (req[r].since[u] < resets[u] \/ ~Settled(u))
    BY DEF UserExists
  <2>1. passwords'[u] # passwords[u]
    BY DEF HashFor
  <2>2. PICK r \in Requests :
          /\ req[r].user = u /\ req'[r] # req[r]
          /\ passwords'[u] # None /\ passwords'[u].password = req[r].given.password
          /\ (Rehash(r) /\ At(r, "rehash")) \/ ResetBy(r, u)
    BY <2>1, PasswordWrites
  <2>3. CASE ResetBy(r, u)
    BY <2>2, <2>3 DEF ResetBy
  <2>4. CASE At(r, "rehash")
    <3>1. HashFor(u)'.password = req[r].given.password
      BY <2>2 DEF HashFor
    <3>2. ~Untouched(u)
      BY <2>2, <2>4, <3>1 DEF Rehashable, At, PasswordValid
    <3>3. /\ req[r].since[u] = 0 /\ resets[u] \in Nat
      BY <2>2, <2>4 DEF Rehashable, Typed
    <3>4. req[r].since[u] < resets[u] \/ ~Settled(u)
      BY <3>2, <3>3 DEF Untouched
    <3> QED BY <2>2, <2>4, <3>4
  <2> QED BY <2>2, <2>3, <2>4
<1> QED BY <1>1, AlwaysRehashable, PTL DEF Spec, ResetUndoneOnlyByEarlierLogin

-----------------------------------------------------------------------------
(* A reset replaces the password.                                          *)

\* The step in which a login stores a password that is no longer the one
\* logins of its account are verified against.
LateRehash(r) == Rehash(r) /\ ~PasswordValid(req[r].user, req[r].given.password)

\* A login past the check of its password that began after the last
\* completed reset, with no other one half done: what it was verified
\* against, it would still be, and when it goes on to its session, that is
\* the stored password.
Verified(q) ==
    /\ q.op = "login" /\ q.pc \in {"check_hash", "rehash", "rotate", "create"}
    /\ q.since[q.user] = resets[q.user] /\ Settled(q.user)

LoginVerified(q) == Verified(q) =>
    /\ PasswordValid(q.user, q.given.password)
    /\ q.pc \in {"rotate", "create"} => Stored(q.user, q.given.password)

\* The same of the login a session was opened by.
SessionVerified(s) ==
    LET u == sessions[s].user
    IN  sessions[s] # None =>
          /\ origin[s].since[u] \in Nat /\ origin[s].since[u] <= resets[u]
          /\ origin[s].op = "login" /\ origin[s].since[u] = resets[u] /\ Settled(u)
             => Stored(u, origin[s].given.password)

Replaced ==
    /\ Earlier
    /\ \A r \in Requests : LoginVerified(req[r])
    /\ \A s \in SessionIDs : SessionVerified(s)

\* What was verified since the last reset stays verified.
LEMMA StaysVerified ==
  ASSUME ~FaultsHappen, Typed, [Next]_vars, \A r \in Requests : ~LateRehash(r),
         NEW u \in UserIDs, NEW n \in Nat, n <= resets[u], n = resets'[u], Settled(u)'
  PROVE  /\ n = resets[u] /\ Settled(u)
         /\ users[u] # None =>
              /\ \A password : PasswordValid(u, password) => PasswordValid(u, password)'
              /\ \A password : Stored(u, password) => Stored(u, password)'
<1>1. n = resets[u] /\ Settled(u)
  BY ResetsAddUp
<1>2. ASSUME users[u] # None, passwords'[u] # passwords[u]
      PROVE  passwords'[u] # None /\ passwords'[u].password = HashFor(u).password
  <2>1. PICK r \in Requests :
          /\ req[r].user = u /\ passwords'[u] # None
          /\ passwords'[u].password = req[r].given.password
          /\ Rehash(r) \/ ResetBy(r, u)
    BY <1>2, PasswordWrites
  <2>2. ~ResetBy(r, u)
    BY DEF ResetBy, Settled, At
  <2> QED BY <2>1, <2>2 DEF LateRehash, PasswordValid
<1> QED BY <1>1, <1>2 DEF PasswordValid, HashFor, Stored

\* A request keeps its part of Replaced.
LEMMA LoginsVerified ==
  ASSUME ~FaultsHappen, Typed, Known, CredentialsOwned, Replaced, [Next]_vars,
         \A o \in Requests : ~LateRehash(o), NEW r \in Requests
  PROVE  LoginVerified(req[r])'
<1> DEFINE q == req[r]
           p == req'[r]
           u == p.user
           password == p.given.password
<1> SUFFICES ASSUME p.op = "login", p.pc \in {"check_hash", "rehash", "rotate", "create"},
                    p.since[u] = resets'[u], Settled(req[r].user)'
             PROVE  /\ PasswordValid(req[r].user, req[r].given.password)'
                    /\ p.pc \in {"rotate", "create"} => Stored(req[r].user, req[r].given.password)'
  BY DEF LoginVerified, Verified
<1>0. RequestOK(q) /\ RequestOK(p) /\ Typed'
  BY TypedKept DEF Typed, RequestsOK, RequestOK
<1>1. p = q \/ GoesOn(r)
  BY NextMoves DEF Moves, Begins, Delivered, Refused, Answered, Idle
<1>2. /\ p.user = q.user /\ p.op = q.op /\ p.given = q.given /\ p.since = q.since
      /\ q.pc \notin {"idle", "reply"}
  BY <1>1 DEF GoesOn
<1>3. u \in UserIDs /\ q.since[u] \in Nat /\ q.since[u] <= resets[u]
  BY <1>0, <1>2 DEF RequestOK, UserKnown, Replaced, Earlier
<1>4. \A o \in Requests : ~(req'[o].pc = "revoke_user" /\ req'[o].user = u)
  BY DEF Settled, At
<1>5. /\ q.since[u] = resets[u] /\ Settled(u)
      /\ users[u] # None =>
           /\ \A x : PasswordValid(u, x) =>
                 (IF passwords'[u] = None THEN [password |-> DummyPassword, legacy |-> FALSE]
                  ELSE passwords'[u]).password = x
           /\ \A x : Stored(u, x) => passwords'[u] # None /\ passwords'[u].password = x
  <2> HIDE DEF p, q, u
  <2>1. q.since[u] \in Nat /\ q.since[u] <= resets[u] /\ q.since[u] = resets'[u]
    BY <1>2, <1>3
  <2> QED BY <1>3, <1>4, <2>1, StaysVerified DEF Settled, At, PasswordValid, HashFor, Stored
<1>6. q.pc \in {"verify", "check_hash", "rehash", "rotate", "create"}
  <2>1. CASE p = q
    BY <2>1
  <2>2. CASE GoesOn(r)
    <3>1. q.pc \in {"verify", "check_hash", "rehash", "rotate", "apply", "update", "check_totp", "consume"}
      BY <2>2 DEF GoesOn
    <3>2. q.op = "login"
      BY <1>2
    <3> QED BY <1>0, <3>1, <3>2 DEF RequestOK, Points
  <2> QED BY <1>1, <2>1, <2>2
<1>7. /\ PasswordValid(u, password)
      /\ q.pc \in {"rotate", "create"} => Stored(u, password)
  <2>1. CASE q.pc = "verify"
    BY <1>1, <1>2, <2>1 DEF GoesOn
  <2>2. CASE q.pc # "verify"
    BY <1>2, <1>5, <1>6, <2>2 DEF Replaced, LoginVerified, Verified
  <2> QED BY <2>1, <2>2
<1>8. users[u] # None
  BY <1>2, <1>3, <1>6, <1>7 DEF Known, UserExists, CredentialsOwned, Stored
<1>9. CASE p.pc \in {"check_hash", "rehash"}
  BY <1>5, <1>7, <1>8, <1>9 DEF PasswordValid, HashFor
<1>10. CASE p.pc \in {"rotate", "create"}
  <2>1. CASE q.pc \in {"rotate", "create"}
    BY <1>5, <1>7, <1>8, <2>1 DEF PasswordValid, HashFor, Stored
  <2>2. CASE q.pc = "check_hash"
    <3>1. ~NeedsRehash(u)
      BY <1>1, <1>2, <1>10, <2>2 DEF GoesOn
    <3>2. Stored(u, password)
      BY <1>7, <3>1 DEF NeedsRehash, PasswordValid, HashFor, Stored
    <3> QED BY <1>5, <1>8, <3>2 DEF PasswordValid, HashFor, Stored
  <2>3. CASE q.pc = "rehash"
    <3>1. Rehash(r)
      BY <1>1, <1>10, <2>3 DEF GoesOn
    <3>2. password \in Passwords
      <4>1. q.given \in Credentials
        BY <1>0, <1>2, <2>3, GivenValues DEF RequestOK
      <4> QED BY <1>2, <4>1 DEF Credentials
    <3> DEFINE hash == [password |-> password, legacy |-> FALSE]
    <3>3. hash # None /\ hash.password = password
      BY <3>2, NewHashes
    <3>4. passwords' = [passwords EXCEPT ![u] = hash]
      BY <1>2, <1>3, <1>8, <3>1 DEF Rehash, SetPassword, UserExists
    <3> HIDE DEF hash
    <3>5. passwords'[u] # None /\ passwords'[u].password = password
      BY <1>3, <3>3, <3>4 DEF Typed, TypeOK
    <3> QED BY <3>5 DEF PasswordValid, HashFor, Stored
  <2>4. q.pc # "verify"
    BY <1>1, <1>10 DEF GoesOn
  <2> QED BY <1>6, <2>1, <2>2, <2>3, <2>4
<1> QED BY <1>9, <1>10

\* A session keeps its part of Replaced.
LEMMA SessionsReplaced ==
  ASSUME ~FaultsHappen, Typed, Sourced, CredentialsOwned, Replaced, [Next]_vars,
         \A o \in Requests : ~LateRehash(o), NEW s \in SessionIDs, sessions'[s] # None
  PROVE  SessionVerified(s)'
<1> DEFINE u == sessions'[s].user
<1>0. Typed' /\ u \in UserIDs
  BY TypedKept DEF Typed, TypeOK, Session
<1>1. CASE sessions'[s] = sessions[s] /\ origin'[s] = origin[s]
  <2>1. /\ origin[s].since[u] \in Nat /\ origin[s].since[u] <= resets[u]
        /\ origin[s].op = "login" /\ origin[s].since[u] = resets[u] /\ Settled(sessions[s].user)
             => Stored(u, origin[s].given.password)
    BY <1>1 DEF Replaced, SessionVerified
  <2>2. /\ resets'[u] \in Nat /\ resets[u] \in Nat /\ resets[u] <= resets'[u]
    BY <1>0, ResetsAddUp
  <2>3. ASSUME origin[s].op = "login", origin[s].since[u] = resets'[u], Settled(sessions[s].user)'
        PROVE  passwords'[u] # None /\ passwords'[u].password = origin[s].given.password
    <3>1. origin[s].since[u] = resets[u] /\ Settled(u)
      BY <1>0, <1>1, <2>1, <2>3, StaysVerified DEF Settled
    <3>2. Stored(u, origin[s].given.password) /\ users[u] # None
      BY <1>0, <1>1, <2>1, <2>3, <3>1 DEF Stored, CredentialsOwned
    <3> QED BY <1>0, <1>1, <2>1, <2>3, <3>2, StaysVerified DEF Settled, Stored
  <2> QED BY <1>1, <2>1, <2>2, <2>3 DEF SessionVerified, Stored
<1>2. ASSUME NEW r \in Requests, CreateNew(r), ~(sessions'[s] = sessions[s] /\ origin'[s] = origin[s])
      PROVE  SessionVerified(s)'
  <2>1. /\ u = req[r].user
        /\ origin'[s].since = req[r].since
        /\ origin'[s].op = req[r].op /\ origin'[s].given = req[r].given
    BY <1>2, CreatedOrigin
  <2>2. UNCHANGED <<passwords, resets>> /\ At(r, "create")
    BY <1>2 DEF CreateNew, CreateSession, credentials
  <2>3. Settled(sessions[s].user)' => Settled(u)
    <3>1. \A o \in Requests : req'[o].pc = "revoke_user" /\ req'[o].user = u <=> req[o].pc = "revoke_user" /\ req[o].user = u
      BY <1>2, <2>2 DEF CreateNew, Typed, RequestsOK, Shaped, Idle, At
    <3> QED BY <3>1 DEF Settled, At
  <2>4. /\ req[r].since[u] \in Nat /\ req[r].since[u] <= resets[u]
        /\ Verified(req[r]) => Stored(req[r].user, req[r].given.password)
    BY <1>0, <2>2 DEF Replaced, Earlier, LoginVerified, At, Typed, RequestsOK, RequestOK
  <2> QED BY <2>1, <2>2, <2>3, <2>4 DEF SessionVerified, Stored, Verified, At, Settled
<1>3. \/ sessions'[s] = sessions[s] /\ origin'[s] = origin[s]
      \/ \E r \in Requests : CreateNew(r)
  BY NextChanges DEF Changes, vars, sessionVars, storeVars, history
<1> QED BY <1>1, <1>2, <1>3

\* Replaced is inductive while no login stores a password late.
LEMMA ReplacedKept ==
  ASSUME ~FaultsHappen, Typed, Sourced, Known, CredentialsOwned, Replaced, [Next]_vars,
         [\A r \in Requests : ~LateRehash(r)]_vars
  PROVE  Replaced'
<1>1. CASE \A r \in Requests : ~LateRehash(r)
  <2>1. \A s \in SessionIDs : SessionVerified(s)'
    BY <1>1, SessionsReplaced DEF SessionVerified
  <2> QED BY <1>1, <2>1, LoginsVerified, EarlierKept DEF Replaced
<1>2. CASE UNCHANGED vars
  BY <1>2 DEF vars, storeVars, sessionVars, history, accounts, credentials, Replaced, Earlier,
     LoginVerified, Verified, SessionVerified, Settled, At, PasswordValid, HashFor, Stored
<1> QED BY <1>1, <1>2

\* Unless the store fails, or a login that a reset overtook stores the
\* password it verified before, a password login that began after the last
\* completed reset presented the password that is stored, whatever the
\* account began with: no password, an outdated hash, or a present one.
THEOREM ResetsReplacePassword ==
  ASSUME ~FaultsHappen
  PROVE  Spec /\ [][\A r \in Requests : ~LateRehash(r)]_vars => []ResetReplacesPassword
<1>1. Init => Replaced
  BY DEF Init, StoreInit, SessionsInit, Replaced, Earlier, SessionVerified, LoginVerified, Verified, Idle
<1>2. Replaced => ResetReplacesPassword
  BY DEF Replaced, SessionVerified, ResetReplacesPassword
<1>3. Spec => []CredentialsOwned
  BY StoreUnderHandlers, PTL
<1> QED BY <1>1, <1>2, <1>3, AlwaysSourced, AlwaysKnown, ReplacedKept, PTL DEF Spec
=============================================================================
