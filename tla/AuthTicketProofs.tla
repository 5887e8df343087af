-------------------------- MODULE AuthTicketProofs --------------------------
(***************************************************************************)
(* What the handlers make of the things that are presented once, for every *)
(* set of requests and tickets, with or without faults: one-time codes,    *)
(* recovery codes and passkey challenges each implement Ticket, and no two *)
(* sessions come from one of them.                                         *)
(*                                                                         *)
(* Each kind has a section: what one step of the plugin does to it, what   *)
(* is known of the tickets in the store (that they were drawn, by whom     *)
(* they are held and that none was accepted), and the step of Ticket that  *)
(* this is.  The last section follows a ticket from the call that accepts  *)
(* it, through the request that holds it, to the session it opens.         *)
(***************************************************************************)
EXTENDS AuthProofs

-----------------------------------------------------------------------------
(* The counters.                                                           *)

CountersOK == tries \in [CodeIDs -> Nat] /\ accepts \in [Tickets -> Nat]

\* What a request presents has the type of its kind.
LEMMA Presented ==
  ASSUME Typed, NEW r \in Requests
  PROVE  /\ SpendAttempt(r) => req[r].given \in CodeAnswer
         /\ ConsumeRecovery(r) => req[r].given \in RecoveryCodes /\ req[r].user \in UserIDs
         /\ TakePasskeyChallenge(r) => req[r].given.challenge \in ChallengeIDs
<1>0. RequestOK(req[r])
  BY DEF Typed, RequestsOK
<1>1. ASSUME SpendAttempt(r) PROVE req[r].given \in CodeAnswer
  <2>1. req[r].op = "verify_code" /\ req[r].pc = "attempt"
    BY <1>0, <1>1 DEF SpendAttempt, RequestOK, Points, At
  <2> QED BY <1>0, <2>1, GivenValues DEF RequestOK
<1>2. ASSUME ConsumeRecovery(r) PROVE req[r].given \in RecoveryCodes /\ req[r].user \in UserIDs
  <2>1. req[r].op = "login_recovery" /\ req[r].pc = "consume"
    BY <1>0, <1>2 DEF ConsumeRecovery, RequestOK, Points, At
  <2> QED BY <1>0, <2>1, GivenValues DEF RequestOK, UserKnown
<1>3. ASSUME TakePasskeyChallenge(r) PROVE req[r].given.challenge \in ChallengeIDs
  <2>1. req[r].op \in {"passkey_finish", "login_passkey"} /\ req[r].pc = "take"
    BY <1>0, <1>3 DEF TakePasskeyChallenge, RequestOK, Points, At
  <2>2. req[r].given \in Attestation \cup Assertion
    BY <1>0, <2>1, GivenValues DEF RequestOK
  <2> QED BY <2>2 DEF Attestation, Assertion
<1> QED BY <1>1, <1>2, <1>3

\* A step accepts at most one ticket, of the kind its handler takes.
LEMMA AcceptsOne ==
  ASSUME Typed, CountersOK, [Next]_vars
  PROVE  \/ UNCHANGED accepts
         \/ \E r \in Requests : \/ SpendAttempt(r) /\ Accept(req[r].given.id)
                                \/ ConsumeRecovery(r) /\ Accept(req[r].given)
                                \/ TakePasskeyChallenge(r) /\ Accept(req[r].given.challenge)
<1>1. CASE UNCHANGED vars
  BY <1>1 DEF vars, sessionVars, history
<1>2. ASSUME NEW r \in Requests, SpendAttempt(r) \/ ConsumeRecovery(r) \/ TakePasskeyChallenge(r)
      PROVE  \/ UNCHANGED accepts
             \/ SpendAttempt(r) /\ Accept(req[r].given.id)
             \/ ConsumeRecovery(r) /\ Accept(req[r].given)
             \/ TakePasskeyChallenge(r) /\ Accept(req[r].given.challenge)
  <2>1. ASSUME SpendAttempt(r) PROVE UNCHANGED accepts \/ Accept(req[r].given.id)
    BY <2>1 DEF SpendAttempt
  <2>2. ASSUME ConsumeRecovery(r) PROVE UNCHANGED accepts \/ Accept(req[r].given)
    BY <2>2 DEF ConsumeRecovery
  <2>3. ASSUME TakePasskeyChallenge(r) PROVE UNCHANGED accepts \/ Accept(req[r].given.challenge)
    BY <2>3 DEF TakePasskeyChallenge
  <2> QED BY <1>2, <2>1, <2>2, <2>3
<1> QED BY <1>1, <1>2, NextChanges DEF Changes

\* The counters keep their types and do not fall; a kind's are only changed
\* by its own handler.
LEMMA CountersKept ==
  ASSUME Typed, CountersOK, [Next]_vars
  PROVE  /\ CountersOK'
         /\ \A t \in Tickets : accepts'[t] >= accepts[t]
         /\ (\E c \in CodeIDs : accepts'[c] # accepts[c]) => \E r \in Requests : SpendAttempt(r)
         /\ (\E c \in RecoveryCodes : accepts'[c] # accepts[c]) =>
               \E r \in Requests : ConsumeRecovery(r)
         /\ (\E c \in ChallengeIDs : accepts'[c] # accepts[c]) =>
               \E r \in Requests : TakePasskeyChallenge(r)
<1>1. tries' \in [CodeIDs -> Nat]
  <2>1. ASSUME NEW r \in Requests, SpendAttempt(r) PROVE tries' \in [CodeIDs -> Nat]
    <3>1. req[r].given.id \in CodeIDs
      BY <2>1, Presented DEF CodeAnswer
    <3>2. \/ tries' = [tries EXCEPT ![req[r].given.id] = tries[req[r].given.id] + 1]
          \/ tries' = [tries EXCEPT ![req[r].given.id] = tries[req[r].given.id]]
      BY <2>1 DEF SpendAttempt
    <3> QED BY <3>1, <3>2 DEF CountersOK
  <2> QED BY <2>1, NextChanges DEF Changes, CountersOK, vars, sessionVars, history
<1>2. CASE UNCHANGED accepts
  BY <1>1, <1>2 DEF CountersOK
<1>3. ASSUME NEW r \in Requests, NEW t \in Tickets, Accept(t)
      PROVE  /\ accepts' \in [Tickets -> Nat]
             /\ \A s \in Tickets : accepts'[s] >= accepts[s]
             /\ \A s \in Tickets : accepts'[s] # accepts[s] => s = t
  BY <1>3 DEF Accept, CountersOK
<1>4. ASSUME NEW r \in Requests,
             \/ SpendAttempt(r) /\ Accept(req[r].given.id)
             \/ ConsumeRecovery(r) /\ Accept(req[r].given)
             \/ TakePasskeyChallenge(r) /\ Accept(req[r].given.challenge)
      PROVE  \E t \in Tickets :
                /\ Accept(t)
                /\ \/ t \in CodeIDs /\ SpendAttempt(r)
                   \/ t \in RecoveryCodes /\ ConsumeRecovery(r)
                   \/ t \in ChallengeIDs /\ TakePasskeyChallenge(r)
  BY <1>4, Presented DEF CodeAnswer, Tickets
<1>5. CASE ~UNCHANGED accepts
  <2>1. PICK r \in Requests, t \in Tickets :
                /\ Accept(t)
                /\ \/ t \in CodeIDs /\ SpendAttempt(r)
                   \/ t \in RecoveryCodes /\ ConsumeRecovery(r)
                   \/ t \in ChallengeIDs /\ TakePasskeyChallenge(r)
    BY <1>4, <1>5, AcceptsOne
  <2>2. /\ accepts' \in [Tickets -> Nat]
        /\ \A s \in Tickets : accepts'[s] >= accepts[s]
        /\ \A s \in Tickets : accepts'[s] # accepts[s] => s = t
    BY <1>3, <2>1
  <2> QED BY <1>1, <2>1, <2>2, KindsAssumption DEF CountersOK, Tickets
<1> QED BY <1>2, <1>5

\* Which of a kind's values are drawn changes only when its handler draws.
LEMMA DrawnByKind ==
  ASSUME [Next]_vars
  PROVE  /\ (\E r \in Requests : SaveNewCode(r)) \/ drawn' \cap CodeIDs = drawn \cap CodeIDs
         /\ \/ \E r \in Requests : StoreRecoveryCodes(r)
            \/ drawn' \cap RecoveryCodes = drawn \cap RecoveryCodes
         /\ \/ \E r \in Requests : SavePasskeyChallenge(r)
            \/ drawn' \cap ChallengeIDs = drawn \cap ChallengeIDs
<1>1. ASSUME NEW r \in Requests, SaveNewCode(r) PROVE drawn' \subseteq drawn \cup CodeIDs
  BY <1>1 DEF SaveNewCode, Fresh
<1>2. ASSUME NEW r \in Requests, StoreRecoveryCodes(r) PROVE drawn' \subseteq drawn \cup RecoveryCodes
  BY <1>2 DEF StoreRecoveryCodes, Fresh
<1>3. ASSUME NEW r \in Requests, SavePasskeyChallenge(r)
      PROVE  drawn' \subseteq drawn \cup ChallengeIDs
  BY <1>3 DEF SavePasskeyChallenge, Fresh
<1>4. drawn \subseteq drawn'
  BY NextChanges DEF Changes, vars, sessionVars
<1>5. \/ drawn' \subseteq drawn \cup UserIDs \cup WebAuthnIDs \cup Secrets \cup SessionIDs
      \/ \E r \in Requests : SaveNewCode(r) \/ StoreRecoveryCodes(r) \/ SavePasskeyChallenge(r)
  BY NextChanges DEF Changes, vars, sessionVars
<1>6. CASE drawn' \subseteq drawn \cup UserIDs \cup WebAuthnIDs \cup Secrets \cup SessionIDs
  BY <1>4, <1>6, KindsAssumption DEF Tickets
<1> QED BY <1>1, <1>2, <1>3, <1>4, <1>5, <1>6, KindsAssumption

-----------------------------------------------------------------------------
(* One-time codes.                                                         *)

\* One step, as the codes see it: one is issued, given up, answered, or none.
CodeStep ==
    \/ \E c \in CodeIDs \ drawn, row \in OneTimeCode :
          /\ row.attempts = 0 /\ codes' = [codes EXCEPT ![c] = row]
          /\ drawn' \cap CodeIDs = (drawn \cap CodeIDs) \cup {c}
          /\ UNCHANGED tries /\ \A d \in CodeIDs : accepts'[d] = accepts[d]
    \/ \E c \in CodeIDs :
          /\ codes' = [codes EXCEPT ![c] = None]
          /\ drawn' \cap CodeIDs = drawn \cap CodeIDs
          /\ UNCHANGED tries /\ \A d \in CodeIDs : accepts'[d] = accepts[d]
    \/ \E c \in CodeIDs, right \in BOOLEAN :
          /\ codes[c] # None
          /\ tries' = [tries EXCEPT ![c] = @ + 1]
          /\ accepts'[c] = IF right THEN accepts[c] + 1 ELSE accepts[c]
          /\ \A d \in CodeIDs \ {c} : accepts'[d] = accepts[d]
          /\ codes' = IF right \/ LastAttempt(c) THEN [codes EXCEPT ![c] = None]
                      ELSE [codes EXCEPT ![c].attempts = @ + 1]
          /\ drawn' \cap CodeIDs = drawn \cap CodeIDs
    \/ /\ UNCHANGED <<codes, tries>> /\ \A d \in CodeIDs : accepts'[d] = accepts[d]
       /\ drawn' \cap CodeIDs = drawn \cap CodeIDs

\* A code that is about to be saved.
LEMMA NewCodeTyped ==
  ASSUME Typed, NEW r \in Requests, At(r, "save_code")
  PROVE  NewCode(r) \in OneTimeCode /\ NewCode(r).attempts = 0
<1>1. req[r].op = "request_code" /\ req[r].pc = "save_code" /\ RequestOK(req[r])
  BY DEF Points, Typed, RequestsOK, RequestOK, At
<1>2. req[r].given \in CodeRequest
  BY <1>1, GivenValues DEF RequestOK
<1>3. req[r].given.purpose \in Purposes /\ req[r].user \in UserIDs \cup {None}
  BY <1>1, <1>2 DEF CodeRequest, RequestOK
<1>4. now + CodeLifetime \in Times
  BY SessionsAssumption, CodesAssumption DEF Typed
<1> QED BY <1>3, <1>4, NumbersAssumption DEF NewCode, OneTimeCode, Proof

LEMMA CodeSteps == Typed /\ CountersOK /\ [Next]_vars => CodeStep
<1> SUFFICES ASSUME Typed, CountersOK, [Next]_vars PROVE CodeStep
  OBVIOUS
<1>1. ASSUME NEW r \in Requests, SaveNewCode(r) PROVE CodeStep
  <2>1. NewCode(r) \in OneTimeCode /\ NewCode(r).attempts = 0
    BY <1>1, NewCodeTyped DEF SaveNewCode
  <2>2. PICK c \in CodeIDs \ drawn :
           codes' = [codes EXCEPT ![c] = NewCode(r)] /\ drawn' = drawn \cup {c}
    BY <1>1 DEF SaveNewCode, SaveCode, Fresh
  <2>3. UNCHANGED <<tries, accepts>>
    BY <1>1 DEF SaveNewCode, history
  <2> QED BY <2>1, <2>2, <2>3 DEF CodeStep
<1>2. ASSUME NEW r \in Requests, WithdrawCode(r) PROVE CodeStep
  <2>1. req[r].seen \in CodeIDs
    BY <1>2 DEF WithdrawCode, At, Typed, RequestsOK, RequestOK
  <2> QED BY <1>2, <2>1 DEF WithdrawCode, DeleteCode, Elsewhere, history, storeVars, CodeStep
<1>3. ASSUME NEW r \in Requests, SpendAttempt(r) PROVE CodeStep
  <2> DEFINE c == req[r].given.id
             proof == ProofOf(req[r].given)
             right == CodeMatches(c, proof)
  <2>1. c \in CodeIDs
    BY <1>3, Presented DEF CodeAnswer
  <2>2. UNCHANGED drawn /\ tries' = [tries EXCEPT ![c] = IF CodeLive(c, now) THEN @ + 1 ELSE @]
    BY <1>3 DEF SpendAttempt
  <2>3. CASE CodeLive(c, now)
    <3>1. codes[c] # None /\ right \in BOOLEAN
      BY <2>3 DEF CodeLive, CodeMatches
    <3>2. tries' = [tries EXCEPT ![c] = @ + 1]
      BY <2>2, <2>3
    <3>3. IF right THEN accepts' = [accepts EXCEPT ![c] = @ + 1] ELSE UNCHANGED accepts
      BY <1>3, <2>3 DEF SpendAttempt, Accept
    <3>4. codes' = IF right \/ LastAttempt(c) THEN [codes EXCEPT ![c] = None]
                      ELSE [codes EXCEPT ![c].attempts = @ + 1]
      BY <1>3, <2>3 DEF SpendAttempt, AttemptCode, Spent
    <3> HIDE DEF c, right
    <3>5. /\ accepts'[c] = IF right THEN accepts[c] + 1 ELSE accepts[c]
          /\ \A d \in CodeIDs \ {c} : accepts'[d] = accepts[d]
      BY <2>1, <3>1, <3>3 DEF CountersOK, Tickets
    <3> QED BY <2>1, <2>2, <3>1, <3>2, <3>4, <3>5 DEF CodeStep
  <2>4. CASE ~CodeLive(c, now)
    <3>1. UNCHANGED accepts /\ codes' = [codes EXCEPT ![c] = None]
      BY <1>3, <2>4 DEF SpendAttempt, AttemptCode, Spent
    <3>2. tries' = [tries EXCEPT ![c] = tries[c]]
      BY <2>2, <2>4
    <3> HIDE DEF c
    <3>3. UNCHANGED tries
      BY <2>1, <3>2 DEF CountersOK
    <3> QED BY <2>1, <2>2, <3>1, <3>3 DEF CodeStep
  <2> QED BY <2>3, <2>4
<1>4. CASE ~\E r \in Requests : SaveNewCode(r) \/ WithdrawCode(r) \/ SpendAttempt(r)
  <2>1. UNCHANGED <<codes, tries>>
    BY <1>4, NextChanges DEF Changes, vars, storeVars, sessionVars, history
  <2> QED BY <1>4, <2>1, CountersKept, DrawnByKind DEF CodeStep
<1> QED BY <1>1, <1>2, <1>3, <1>4

\* A code in the store was drawn, has been compared with as many answers as
\* its row says, and was never accepted; one not yet drawn neither.
CodesCounted ==
    \A c \in CodeIDs :
        /\ codes[c] # None => c \in drawn /\ tries[c] = codes[c].attempts /\ accepts[c] = 0
        /\ c \notin drawn => tries[c] = 0 /\ accepts[c] = 0

LEMMA CodesCountedKept ==
  ASSUME Typed, CountersOK, CodesCounted, CodeStep
  PROVE  CodesCounted'
<1>0. codes \in [CodeIDs -> OneTimeCode \cup {None}] /\ tries \in [CodeIDs -> Nat]
  BY DEF Typed, TypeOK, CountersOK
<1>1. ASSUME NEW c \in CodeIDs, NEW right \in BOOLEAN,
             codes[c] # None, tries' = [tries EXCEPT ![c] = @ + 1],
             accepts'[c] = IF right THEN accepts[c] + 1 ELSE accepts[c],
             \A d \in CodeIDs \ {c} : accepts'[d] = accepts[d],
             codes' = IF right \/ LastAttempt(c) THEN [codes EXCEPT ![c] = None]
                      ELSE [codes EXCEPT ![c].attempts = @ + 1],
             drawn' \cap CodeIDs = drawn \cap CodeIDs
      PROVE  CodesCounted'
  <2>1. codes[c] \in OneTimeCode /\ c \in drawn /\ tries[c] = codes[c].attempts /\ accepts[c] = 0
    BY <1>0, <1>1 DEF CodesCounted
  <2>2. CASE right \/ LastAttempt(c)
    BY <1>0, <1>1, <2>1, <2>2 DEF CodesCounted
  <2>3. CASE ~(right \/ LastAttempt(c))
    <3>1. codes' = [codes EXCEPT ![c] = [codes[c] EXCEPT !.attempts = @ + 1]]
      BY <1>1, <2>3
    <3>2. codes'[c].attempts = codes[c].attempts + 1
      BY <1>0, <2>1, <3>1 DEF OneTimeCode
    <3>3. \A d \in CodeIDs \ {c} : codes'[d] = codes[d] /\ tries'[d] = tries[d]
      BY <1>0, <1>1, <3>1
    <3>4. tries'[c] = tries[c] + 1 /\ accepts'[c] = 0
      BY <1>0, <1>1, <2>1, <2>3
    <3> QED BY <1>1, <2>1, <3>2, <3>3, <3>4 DEF CodesCounted
  <2> QED BY <2>2, <2>3
<1>2. ASSUME NEW c \in CodeIDs \ drawn, NEW row \in OneTimeCode, row.attempts = 0,
             codes' = [codes EXCEPT ![c] = row],
             drawn' \cap CodeIDs = (drawn \cap CodeIDs) \cup {c},
             UNCHANGED tries, \A d \in CodeIDs : accepts'[d] = accepts[d]
      PROVE  CodesCounted'
  BY <1>0, <1>2 DEF CodesCounted
<1>3. ASSUME UNCHANGED tries, \A d \in CodeIDs : accepts'[d] = accepts[d],
             drawn' \cap CodeIDs = drawn \cap CodeIDs,
             \A d \in CodeIDs : codes'[d] \in {None, codes[d]}
      PROVE  CodesCounted'
  BY <1>3 DEF CodesCounted
<1> QED BY <1>0, <1>1, <1>2, <1>3 DEF CodeStep

\* One step of the plugin is one of Ticket.
LEMMA CodeStepIsTicket ==
  ASSUME Typed, CountersOK, CodesCounted, CodeStep
  PROVE  \/ CodeTickets!Next
         \/ UNCHANGED <<[c \in CodeIDs |-> IF c \notin drawn THEN "new"
                               ELSE IF codes[c] # None THEN "open" ELSE "closed"],
                       tries, [c \in CodeIDs |-> accepts[c]]>>
<1> DEFINE st == [c \in CodeIDs |-> IF c \notin drawn THEN "new"
                               ELSE IF codes[c] # None THEN "open" ELSE "closed"]
           ac == [c \in CodeIDs |-> accepts[c]]
<1>0. codes \in [CodeIDs -> OneTimeCode \cup {None}] /\ tries \in [CodeIDs -> Nat]
  BY DEF Typed, TypeOK, CountersOK
<1>1. ASSUME NEW c \in CodeIDs, NEW right \in BOOLEAN,
             codes[c] # None, tries' = [tries EXCEPT ![c] = @ + 1],
             accepts'[c] = IF right THEN accepts[c] + 1 ELSE accepts[c],
             \A d \in CodeIDs \ {c} : accepts'[d] = accepts[d],
             codes' = IF right \/ LastAttempt(c) THEN [codes EXCEPT ![c] = None]
                      ELSE [codes EXCEPT ![c].attempts = @ + 1],
             drawn' \cap CodeIDs = drawn \cap CodeIDs
      PROVE  CodeTickets!Next
  <2>0. PICK old \in SUBSET CodeIDs : old = IF codes'[c] = None THEN {c} ELSE {}
    OBVIOUS
  <2>1. codes[c] \in OneTimeCode /\ c \in drawn /\ tries[c] = codes[c].attempts
    BY <1>0, <1>1 DEF CodesCounted
  <2>2. right \/ tries'[c] >= MaxAttempts => codes'[c] = None
    BY <1>0, <1>1, <2>1, NumbersAssumption DEF LastAttempt, OneTimeCode
  <2>3. \A d \in CodeIDs \ {c} : codes'[d] = codes[d]
    BY <1>0, <1>1
  <2>4. ac' = [ac EXCEPT ![c] = IF right THEN @ + 1 ELSE @]
    BY <1>1
  <2>5. st' = [d \in CodeIDs |-> IF d \in old THEN "closed" ELSE st[d]]
    BY <1>1, <2>0, <2>1, <2>3
  <2>6. st[c] = "open" /\ \A d \in old : st[d] = "open"
    BY <1>1, <2>0, <2>1
  <2>7. CodeTickets!Answer(c, right, old)
    BY <1>1, <2>0, <2>2, <2>4, <2>5, <2>6 DEF CodeTickets!Answer
  <2> QED BY <2>7 DEF CodeTickets!Next
<1>2. ASSUME NEW c \in CodeIDs \ drawn, NEW row \in OneTimeCode, row.attempts = 0,
             codes' = [codes EXCEPT ![c] = row],
             drawn' \cap CodeIDs = (drawn \cap CodeIDs) \cup {c},
             UNCHANGED tries, \A d \in CodeIDs : accepts'[d] = accepts[d]
      PROVE  CodeTickets!Next
  <2>1. row # None
    BY RowAssumption
  <2>2. ac' = ac
    BY <1>2
  <2>3. st' = [d \in CodeIDs |-> IF d \in {c} THEN "open"
                                 ELSE IF d \in {} THEN "closed" ELSE st[d]]
    BY <1>0, <1>2, <2>1
  <2>4. \A d \in {c} : st[d] = "new"
    BY <1>2
  <2>5. CodeTickets!Replace({c}, {})
    BY <1>2, <2>2, <2>3, <2>4 DEF CodeTickets!Replace
  <2>6. {c} \in SUBSET CodeIDs /\ {} \in SUBSET CodeIDs
    OBVIOUS
  <2> QED BY <2>5, <2>6 DEF CodeTickets!Next
<1>3. ASSUME NEW c \in CodeIDs, codes' = [codes EXCEPT ![c] = None],
             drawn' \cap CodeIDs = drawn \cap CodeIDs,
             UNCHANGED tries, \A d \in CodeIDs : accepts'[d] = accepts[d]
      PROVE  CodeTickets!Next
  <2>0. PICK old \in SUBSET CodeIDs : old = IF codes[c] # None THEN {c} ELSE {}
    OBVIOUS
  <2>1. c \in old => c \in drawn
    BY <2>0 DEF CodesCounted
  <2>2. ac' = ac
    BY <1>3
  <2>3. st' = [d \in CodeIDs |-> IF d \in {} THEN "open"
                                 ELSE IF d \in old THEN "closed" ELSE st[d]]
    BY <1>0, <1>3, <2>0, <2>1
  <2>4. \A d \in old : st[d] = "open"
    BY <2>0, <2>1
  <2>5. CodeTickets!Replace({}, old)
    BY <1>3, <2>2, <2>3, <2>4 DEF CodeTickets!Replace
  <2>6. {} \in SUBSET CodeIDs
    OBVIOUS
  <2> QED BY <2>5, <2>6 DEF CodeTickets!Next
<1>4. ASSUME UNCHANGED <<codes, tries>>, \A d \in CodeIDs : accepts'[d] = accepts[d],
             drawn' \cap CodeIDs = drawn \cap CodeIDs
      PROVE  UNCHANGED <<st, tries, ac>>
  BY <1>4
<1> QED BY <1>1, <1>2, <1>3, <1>4 DEF CodeStep

-----------------------------------------------------------------------------
(* Recovery codes.                                                         *)

\* One step, as the recovery codes see it: a user's set is replaced by new
\* ones, one is consumed, or none is touched.
RecoveryStep ==
    \/ \E u \in UserIDs, set \in SUBSET (RecoveryCodes \ drawn) :
          /\ \A c \in RecoveryCodes :
                /\ recovery'[u][c] = IF c \in set THEN "unused" ELSE "absent"
                /\ \A v \in UserIDs \ {u} : recovery'[v][c] = recovery[v][c]
                /\ accepts'[c] = accepts[c]
          /\ drawn' \cap RecoveryCodes = (drawn \cap RecoveryCodes) \cup set
    \/ \E u \in UserIDs, c \in RecoveryCodes :
          /\ recovery[u][c] = "unused" /\ recovery'[u][c] = "used"
          /\ accepts'[c] = accepts[c] + 1
          /\ \A v \in UserIDs, d \in RecoveryCodes :
                v # u \/ d # c => recovery'[v][d] = recovery[v][d]
          /\ \A d \in RecoveryCodes \ {c} : accepts'[d] = accepts[d]
          /\ drawn' \cap RecoveryCodes = drawn \cap RecoveryCodes
    \/ /\ \A v \in UserIDs, d \in RecoveryCodes : recovery'[v][d] = recovery[v][d]
       /\ \A d \in RecoveryCodes : accepts'[d] = accepts[d]
       /\ drawn' \cap RecoveryCodes = drawn \cap RecoveryCodes

LEMMA RecoverySteps == Typed /\ CountersOK /\ [Next]_vars => RecoveryStep
<1> SUFFICES ASSUME Typed, CountersOK, [Next]_vars PROVE RecoveryStep
  OBVIOUS
<1>0. recovery \in [UserIDs -> [RecoveryCodes -> {"absent", "unused", "used"}]]
  BY DEF Typed, TypeOK
<1>1. ASSUME NEW r \in Requests, StoreRecoveryCodes(r) PROVE RecoveryStep
  <2>1. req[r].user \in UserIDs
    BY <1>1 DEF StoreRecoveryCodes, At, Typed, RequestsOK, RequestOK, UserKnown
  <2>2. PICK set \in SUBSET (RecoveryCodes \ drawn) :
           /\ recovery' = [recovery EXCEPT ![req[r].user] =
                      [c \in RecoveryCodes |-> IF c \in set THEN "unused" ELSE "absent"]]
           /\ drawn' = drawn \cup set
    BY <1>1 DEF StoreRecoveryCodes, SetRecoveryCodes, Fresh
  <2>3. UNCHANGED accepts
    BY <1>1 DEF StoreRecoveryCodes, history
  <2> QED BY <1>0, <2>1, <2>2, <2>3 DEF RecoveryStep
<1>2. ASSUME NEW r \in Requests, ConsumeRecovery(r), ConsumeRecoveryCode(req[r].user, req[r].given)
      PROVE  RecoveryStep
  <2>1. PICK u \in UserIDs, c \in RecoveryCodes : u = req[r].user /\ c = req[r].given
    BY <1>2, Presented
  <2>2. recovery[u][c] = "unused" /\ recovery' = [recovery EXCEPT ![u][c] = "used"]
    BY <1>2, <2>1 DEF ConsumeRecoveryCode, CanConsumeRecoveryCode
  <2>3. accepts' = [accepts EXCEPT ![c] = @ + 1] /\ UNCHANGED drawn
    <3>1. recovery' # recovery
      BY <1>0, <2>2
    <3> QED BY <1>2, <2>1, <3>1 DEF ConsumeRecovery, Accept, storeVars
  <2>4. /\ accepts'[c] = accepts[c] + 1
        /\ \A d \in RecoveryCodes \ {c} : accepts'[d] = accepts[d]
    BY <2>3 DEF CountersOK, Tickets
  <2>5. /\ recovery'[u][c] = "used"
        /\ \A v \in UserIDs, d \in RecoveryCodes :
                v # u \/ d # c => recovery'[v][d] = recovery[v][d]
    BY <1>0, <2>2
  <2> QED BY <2>2, <2>3, <2>4, <2>5 DEF RecoveryStep
<1>3. ASSUME NEW r \in Requests, ConsumeRecovery(r), ~ConsumeRecoveryCode(req[r].user, req[r].given)
      PROVE  RecoveryStep
  BY <1>3 DEF ConsumeRecovery, RecoveryStep, storeVars
<1>4. CASE ~\E r \in Requests : StoreRecoveryCodes(r) \/ ConsumeRecovery(r)
  <2>1. UNCHANGED recovery
    BY <1>4, NextChanges DEF Changes, vars, storeVars
  <2> QED BY <1>4, <2>1, CountersKept, DrawnByKind DEF RecoveryStep
<1> QED BY <1>1, <1>2, <1>3, <1>4

\* A stored recovery code was drawn, and an unused one is of one user and was
\* never accepted; one not yet drawn neither.
RecoveryCounted ==
    \A c \in RecoveryCodes :
        /\ \A u \in UserIDs :
              /\ recovery[u][c] # "absent" => c \in drawn
              /\ recovery[u][c] = "unused" =>
                    /\ accepts[c] = 0
                    /\ \A v \in UserIDs : recovery[v][c] = "unused" => u = v
        /\ c \notin drawn => accepts[c] = 0

LEMMA RecoveryCountedKept ==
  ASSUME RecoveryCounted, RecoveryStep
  PROVE  RecoveryCounted'
<1>1. ASSUME NEW u \in UserIDs, NEW set \in SUBSET (RecoveryCodes \ drawn),
             \A c \in RecoveryCodes :
                /\ recovery'[u][c] = IF c \in set THEN "unused" ELSE "absent"
                /\ \A v \in UserIDs \ {u} : recovery'[v][c] = recovery[v][c]
                /\ accepts'[c] = accepts[c],
             drawn' \cap RecoveryCodes = (drawn \cap RecoveryCodes) \cup set
      PROVE  RecoveryCounted'
  BY <1>1 DEF RecoveryCounted
<1>2. ASSUME NEW u \in UserIDs, NEW c \in RecoveryCodes,
             recovery[u][c] = "unused", recovery'[u][c] = "used",
             \A v \in UserIDs, d \in RecoveryCodes :
                v # u \/ d # c => recovery'[v][d] = recovery[v][d],
             \A d \in RecoveryCodes \ {c} : accepts'[d] = accepts[d],
             drawn' \cap RecoveryCodes = drawn \cap RecoveryCodes
      PROVE  RecoveryCounted'
  BY <1>2 DEF RecoveryCounted
<1> QED BY <1>1, <1>2 DEF RecoveryStep, RecoveryCounted

\* One step of the plugin is one of Ticket.
LEMMA RecoveryStepIsTicket ==
  ASSUME CountersOK, RecoveryCounted, RecoveryStep
  PROVE  \/ RecoveryTickets!Next
         \/ UNCHANGED <<[c \in RecoveryCodes |->
                IF c \notin drawn THEN "new"
                ELSE IF \E u \in UserIDs : recovery[u][c] = "unused"
                THEN "open" ELSE "closed"], [c \in RecoveryCodes |-> accepts[c]]>>
<1> DEFINE st == [c \in RecoveryCodes |->
                IF c \notin drawn THEN "new"
                ELSE IF \E u \in UserIDs : recovery[u][c] = "unused"
                THEN "open" ELSE "closed"]
           ac == [c \in RecoveryCodes |-> accepts[c]]
<1>1. ASSUME NEW u \in UserIDs, NEW set \in SUBSET (RecoveryCodes \ drawn),
             \A c \in RecoveryCodes :
                /\ recovery'[u][c] = IF c \in set THEN "unused" ELSE "absent"
                /\ \A v \in UserIDs \ {u} : recovery'[v][c] = recovery[v][c]
                /\ accepts'[c] = accepts[c],
             drawn' \cap RecoveryCodes = (drawn \cap RecoveryCodes) \cup set
      PROVE  RecoveryTickets!Next
  <2>0. PICK old \in SUBSET RecoveryCodes : old = {c \in RecoveryCodes : recovery[u][c] = "unused"}
    OBVIOUS
  <2>1. ac' = ac
    BY <1>1
  <2>2. /\ \A c \in set : st[c] = "new"
        /\ \A c \in old : st[c] = "open" /\ c \notin set
    BY <2>0 DEF RecoveryCounted
  <2>3. ASSUME NEW c \in RecoveryCodes
        PROVE  st'[c] = IF c \in set THEN "open" ELSE IF c \in old THEN "closed" ELSE st[c]
    <3>1. CASE c \in set
      BY <1>1, <3>1
    <3>2. CASE c \notin set /\ c \in old
      <4>1. \A v \in UserIDs : recovery'[v][c] # "unused"
        BY <1>1, <2>0, <3>2 DEF RecoveryCounted
      <4> QED BY <1>1, <2>0, <2>2, <3>2, <4>1
    <3>3. CASE c \notin set /\ c \notin old
      <4>1. \A v \in UserIDs : recovery'[v][c] = "unused" <=> recovery[v][c] = "unused"
        BY <1>1, <2>0, <3>3
      <4> QED BY <1>1, <3>3, <4>1
    <3> QED BY <3>1, <3>2, <3>3
  <2>4. RecoveryTickets!Replace(set, old)
    BY <2>1, <2>2, <2>3 DEF RecoveryTickets!Replace
  <2> QED BY <2>4 DEF RecoveryTickets!Next
<1>2. ASSUME NEW u \in UserIDs, NEW c \in RecoveryCodes,
             recovery[u][c] = "unused", recovery'[u][c] = "used",
             accepts'[c] = accepts[c] + 1,
             \A v \in UserIDs, d \in RecoveryCodes :
                v # u \/ d # c => recovery'[v][d] = recovery[v][d],
             \A d \in RecoveryCodes \ {c} : accepts'[d] = accepts[d],
             drawn' \cap RecoveryCodes = drawn \cap RecoveryCodes
      PROVE  RecoveryTickets!Next
  <2>1. st[c] = "open" /\ c \in drawn
    BY <1>2 DEF RecoveryCounted
  <2>2. ac' = [ac EXCEPT ![c] = @ + 1]
    BY <1>2
  <2>3. ASSUME NEW d \in RecoveryCodes
        PROVE  st'[d] = IF d \in {c} THEN "closed" ELSE st[d]
    <3>1. CASE d = c
      <4>1. \A v \in UserIDs : recovery'[v][c] # "unused"
        BY <1>2 DEF RecoveryCounted
      <4> QED BY <1>2, <2>1, <3>1, <4>1
    <3>2. CASE d # c
      <4>1. \A v \in UserIDs : recovery'[v][d] = recovery[v][d]
        BY <1>2, <3>2
      <4> QED BY <1>2, <3>2, <4>1
    <3> QED BY <3>1, <3>2
  <2>4. RecoveryTickets!Answer(c, TRUE, {c})
    BY <2>1, <2>2, <2>3 DEF RecoveryTickets!Answer
  <2>5. {c} \in SUBSET RecoveryCodes
    OBVIOUS
  <2> QED BY <2>4, <2>5 DEF RecoveryTickets!Next
<1>3. ASSUME \A v \in UserIDs, d \in RecoveryCodes : recovery'[v][d] = recovery[v][d],
             \A d \in RecoveryCodes : accepts'[d] = accepts[d],
             drawn' \cap RecoveryCodes = drawn \cap RecoveryCodes
      PROVE  UNCHANGED <<st, ac>>
  <2>1. \A d \in RecoveryCodes : st'[d] = st[d] /\ ac'[d] = ac[d]
    BY <1>3
  <2> QED BY <2>1
<1> QED BY <1>1, <1>2, <1>3 DEF RecoveryStep

-----------------------------------------------------------------------------
(* Passkey challenges.                                                     *)

\* One step, as the challenges see it: one is stored, one is taken, whether
\* or not that is accepted, or none is touched.
ChallengeStep ==
    \/ \E c \in ChallengeIDs \ drawn :
          /\ challenges'[c] # NoChallenge
          /\ \A d \in ChallengeIDs \ {c} : challenges'[d] = challenges[d]
          /\ \A d \in ChallengeIDs : accepts'[d] = accepts[d]
          /\ drawn' \cap ChallengeIDs = (drawn \cap ChallengeIDs) \cup {c}
    \/ \E c \in ChallengeIDs :
          /\ challenges'[c] = NoChallenge
          /\ \A d \in ChallengeIDs \ {c} : challenges'[d] = challenges[d]
          /\ \/ challenges[c] # NoChallenge /\ accepts'[c] = accepts[c] + 1
             \/ accepts'[c] = accepts[c]
          /\ \A d \in ChallengeIDs \ {c} : accepts'[d] = accepts[d]
          /\ drawn' \cap ChallengeIDs = drawn \cap ChallengeIDs
    \/ /\ UNCHANGED challenges /\ \A d \in ChallengeIDs : accepts'[d] = accepts[d]
       /\ drawn' \cap ChallengeIDs = drawn \cap ChallengeIDs

LEMMA ChallengeSteps == Typed /\ CountersOK /\ [Next]_vars => ChallengeStep
<1> SUFFICES ASSUME Typed, CountersOK, [Next]_vars PROVE ChallengeStep
  OBVIOUS
<1>0. challenges \in [ChallengeIDs -> {NoChallenge} \cup Challenge]
  BY DEF Typed, ChallengesOK
<1>1. ASSUME NEW r \in Requests, SavePasskeyChallenge(r) PROVE ChallengeStep
  <2> DEFINE row == [kind |-> Kind(req[r].op), user |-> req[r].user,
                     expires |-> now + ChallengeLifetime]
  <2>1. req[r].user \in UserIDs \cup {None}
    BY DEF Typed, RequestsOK, RequestOK
  <2>2. row # NoChallenge
    <3>1. row \in Challenge
      BY <2>1, ChallengeAssumption, SessionsAssumption DEF Typed, Kind, Challenge
    <3> QED BY <3>1, ChallengeAssumption
  <2>3. PICK c \in ChallengeIDs \ drawn :
           challenges' = [challenges EXCEPT ![c] = row] /\ drawn' = drawn \cup {c}
    BY <1>1 DEF SavePasskeyChallenge, Put, Fresh
  <2>4. UNCHANGED accepts
    BY <1>1 DEF SavePasskeyChallenge
  <2> HIDE DEF row
  <2> QED BY <1>0, <2>2, <2>3, <2>4 DEF ChallengeStep
<1>2. ASSUME NEW r \in Requests, TakePasskeyChallenge(r) PROVE ChallengeStep
  <2>1. PICK c \in ChallengeIDs : c = req[r].given.challenge
    BY <1>2, Presented
  <2>2. /\ challenges'[c] = NoChallenge
        /\ \A d \in ChallengeIDs \ {c} : challenges'[d] = challenges[d]
        /\ UNCHANGED drawn
    BY <1>2, <2>1 DEF TakePasskeyChallenge, Take
  <2>3. UNCHANGED accepts \/ (challenges[c] # NoChallenge /\ accepts' = [accepts EXCEPT ![c] = @ + 1])
    BY <1>2, <2>1 DEF TakePasskeyChallenge, Accept, Takable
  <2> QED BY <2>2, <2>3 DEF ChallengeStep, CountersOK, Tickets
<1>3. CASE ~\E r \in Requests : SavePasskeyChallenge(r) \/ TakePasskeyChallenge(r)
  <2>1. UNCHANGED challenges
    BY <1>3, NextChanges DEF Changes, vars, sessionVars
  <2> QED BY <1>3, <2>1, CountersKept, DrawnByKind DEF ChallengeStep
<1> QED BY <1>1, <1>2, <1>3

\* A stored challenge was drawn and never accepted; one not yet drawn neither.
ChallengesCounted ==
    \A c \in ChallengeIDs :
        /\ challenges[c] # NoChallenge => c \in drawn /\ accepts[c] = 0
        /\ c \notin drawn => accepts[c] = 0

LEMMA ChallengesCountedKept ==
  ASSUME ChallengesCounted, ChallengeStep
  PROVE  ChallengesCounted'
  BY DEF ChallengesCounted, ChallengeStep

\* One step of the plugin is one of Ticket.
LEMMA ChallengeStepIsTicket ==
  ASSUME CountersOK, ChallengesCounted, ChallengeStep
  PROVE  \/ ChallengeTickets!Next
         \/ UNCHANGED <<[c \in ChallengeIDs |->
                IF c \notin drawn THEN "new"
                ELSE IF challenges[c] # NoChallenge THEN "open" ELSE "closed"],
                       [c \in ChallengeIDs |-> accepts[c]]>>
<1> DEFINE st == [c \in ChallengeIDs |->
                IF c \notin drawn THEN "new"
                ELSE IF challenges[c] # NoChallenge THEN "open" ELSE "closed"]
           ac == [c \in ChallengeIDs |-> accepts[c]]
<1>1. ASSUME NEW c \in ChallengeIDs \ drawn,
             challenges'[c] # NoChallenge,
             \A d \in ChallengeIDs \ {c} : challenges'[d] = challenges[d],
             \A d \in ChallengeIDs : accepts'[d] = accepts[d],
             drawn' \cap ChallengeIDs = (drawn \cap ChallengeIDs) \cup {c}
      PROVE  ChallengeTickets!Next
  <2>1. ac' = ac /\ st[c] = "new"
    BY <1>1
  <2>2. \A d \in ChallengeIDs : st'[d] = IF d = c THEN "open" ELSE st[d]
    BY <1>1
  <2>3. ChallengeTickets!Replace({c}, {})
    BY <2>1, <2>2 DEF ChallengeTickets!Replace
  <2>4. {c} \in SUBSET ChallengeIDs /\ {} \in SUBSET ChallengeIDs
    OBVIOUS
  <2> QED BY <2>3, <2>4 DEF ChallengeTickets!Next
<1>2. ASSUME NEW c \in ChallengeIDs, challenges'[c] = NoChallenge,
             \A d \in ChallengeIDs \ {c} : challenges'[d] = challenges[d],
             \A d \in ChallengeIDs \ {c} : accepts'[d] = accepts[d],
             drawn' \cap ChallengeIDs = drawn \cap ChallengeIDs,
             challenges[c] # NoChallenge
      PROVE  \A d \in ChallengeIDs : st'[d] = IF d = c THEN "closed" ELSE st[d]
  BY <1>2 DEF ChallengesCounted
<1>3. ASSUME NEW c \in ChallengeIDs, challenges'[c] = NoChallenge,
             \A d \in ChallengeIDs \ {c} : challenges'[d] = challenges[d],
             challenges[c] # NoChallenge, accepts'[c] = accepts[c] + 1,
             \A d \in ChallengeIDs \ {c} : accepts'[d] = accepts[d],
             drawn' \cap ChallengeIDs = drawn \cap ChallengeIDs
      PROVE  ChallengeTickets!Next
  <2>1. st[c] = "open" /\ ac' = [ac EXCEPT ![c] = @ + 1]
    BY <1>3 DEF ChallengesCounted
  <2>2. ChallengeTickets!Answer(c, TRUE, {c})
    BY <1>2, <1>3, <2>1 DEF ChallengeTickets!Answer
  <2>3. {c} \in SUBSET ChallengeIDs
    OBVIOUS
  <2> QED BY <2>2, <2>3 DEF ChallengeTickets!Next
<1>4. ASSUME NEW c \in ChallengeIDs, challenges'[c] = NoChallenge,
             \A d \in ChallengeIDs \ {c} : challenges'[d] = challenges[d],
             challenges[c] # NoChallenge,
             \A d \in ChallengeIDs : accepts'[d] = accepts[d],
             drawn' \cap ChallengeIDs = drawn \cap ChallengeIDs
      PROVE  ChallengeTickets!Next
  <2>1. st[c] = "open" /\ ac' = ac
    BY <1>4 DEF ChallengesCounted
  <2>2. ChallengeTickets!Replace({}, {c})
    BY <1>2, <1>4, <2>1 DEF ChallengeTickets!Replace
  <2>3. {c} \in SUBSET ChallengeIDs /\ {} \in SUBSET ChallengeIDs
    OBVIOUS
  <2> QED BY <2>2, <2>3 DEF ChallengeTickets!Next
<1>5. ASSUME \A d \in ChallengeIDs : challenges'[d] = challenges[d],
             \A d \in ChallengeIDs : accepts'[d] = accepts[d],
             drawn' \cap ChallengeIDs = drawn \cap ChallengeIDs
      PROVE  UNCHANGED <<st, ac>>
  <2>1. \A d \in ChallengeIDs : st'[d] = st[d] /\ ac'[d] = ac[d]
    BY <1>5
  <2> QED BY <2>1
<1> QED BY <1>1, <1>3, <1>4, <1>5 DEF ChallengeStep

-----------------------------------------------------------------------------
(* Each kind implements Ticket.                                            *)

Counted == CountersOK /\ CodesCounted /\ RecoveryCounted /\ ChallengesCounted

LEMMA InitCounted == Init => Counted
  BY DEF Init, StoreInit, SessionsInit, ChallengesInit, Counted, CountersOK, CodesCounted,
         RecoveryCounted, ChallengesCounted, Tickets

LEMMA CountedKept == Typed /\ Counted /\ [Next]_vars => Counted'
  BY CountersKept, CodeSteps, CodesCountedKept, RecoverySteps, RecoveryCountedKept,
     ChallengeSteps, ChallengesCountedKept DEF Counted

LEMMA AlwaysCounted == Spec => [](Typed /\ Counted)
  BY AlwaysTyped, InitCounted, CountedKept, PTL DEF Spec

\* Every behaviour of the plugin treats one-time codes as tickets of
\* MaxAttempts answers: redeemed once at most, whatever requests race for them.
THEOREM CodesImplementTicket == Spec => CodesAreTickets
<1>1. Init => CodeTickets!Init
  BY DEF Init, SessionsInit, Tickets, CodeTickets!Init
<1>2. Typed /\ Counted /\ [Next]_vars =>
        [CodeTickets!Next]_<<[c \in CodeIDs |-> IF c \notin drawn THEN "new"
                               ELSE IF codes[c] # None THEN "open" ELSE "closed"],
                            tries, [c \in CodeIDs |-> accepts[c]]>>
  BY CodeSteps, CodeStepIsTicket DEF Counted
<1> QED BY <1>1, <1>2, AlwaysCounted, PTL DEF Spec, CodesAreTickets, CodeTickets!Spec

\* A recovery code is consumed once at most and never comes back, whatever
\* confirmTOTP and loginRecovery interleave.
THEOREM RecoveryCodesImplementTicket == Spec => RecoveryCodesAreTickets
<1>1. Init => RecoveryTickets!Init
  BY DEF Init, SessionsInit, Tickets, RecoveryTickets!Init
<1>2. Typed /\ Counted /\ [Next]_vars =>
        [RecoveryTickets!Next]_<<[c \in RecoveryCodes |->
                IF c \notin drawn THEN "new"
                ELSE IF \E u \in UserIDs : recovery[u][c] = "unused"
                THEN "open" ELSE "closed"],
              [c \in RecoveryCodes |-> accepts[c]], [c \in RecoveryCodes |-> accepts[c]]>>
  BY RecoverySteps, RecoveryStepIsTicket DEF Counted
<1> QED BY <1>1, <1>2, AlwaysCounted, PTL DEF Spec, RecoveryCodesAreTickets, RecoveryTickets!Spec

\* A passkey challenge is taken once at most, by a request it fits or not.
THEOREM ChallengesImplementTicket == Spec => ChallengesAreTickets
<1>1. Init => ChallengeTickets!Init
  BY DEF Init, SessionsInit, Tickets, ChallengeTickets!Init
<1>2. Typed /\ Counted /\ [Next]_vars =>
        [ChallengeTickets!Next]_<<[c \in ChallengeIDs |->
                IF c \notin drawn THEN "new"
                ELSE IF challenges[c] # NoChallenge THEN "open" ELSE "closed"],
              [c \in ChallengeIDs |-> accepts[c]], [c \in ChallengeIDs |-> accepts[c]]>>
  BY ChallengeSteps, ChallengeStepIsTicket DEF Counted
<1> QED BY <1>1, <1>2, AlwaysCounted, PTL DEF Spec, ChallengesAreTickets, ChallengeTickets!Spec

-----------------------------------------------------------------------------
(* What TicketProofs proves of every Ticket, for the three kinds.          *)

CodePresenting == INSTANCE TicketProofs WITH
    Tickets <- CodeIDs, Budget <- MaxAttempts, tries <- tries,
    accepted <- [c \in CodeIDs |-> accepts[c]],
    state <- [c \in CodeIDs |-> IF c \notin drawn THEN "new"
                               ELSE IF codes[c] # None THEN "open" ELSE "closed"]

RecoveryPresenting == INSTANCE TicketProofs WITH
    Tickets <- RecoveryCodes, Budget <- 1,
    tries <- [c \in RecoveryCodes |-> accepts[c]],
    accepted <- [c \in RecoveryCodes |-> accepts[c]],
    state <- [c \in RecoveryCodes |->
                IF c \notin drawn THEN "new"
                ELSE IF \E u \in UserIDs : recovery[u][c] = "unused"
                THEN "open" ELSE "closed"]

ChallengePresenting == INSTANCE TicketProofs WITH
    Tickets <- ChallengeIDs, Budget <- 1,
    tries <- [c \in ChallengeIDs |-> accepts[c]],
    accepted <- [c \in ChallengeIDs |-> accepts[c]],
    state <- [c \in ChallengeIDs |->
                IF c \notin drawn THEN "new"
                ELSE IF challenges[c] # NoChallenge THEN "open" ELSE "closed"]

LEMMA CodesPresentedOnce ==
  Spec => [](\A c \in CodeIDs : accepts[c] <= 1 /\ tries[c] <= MaxAttempts)
<1>1. CodePresenting!Spec => []CodePresenting!PresentedOnce
  BY CodePresenting!PresentedAtMostOnce, NumbersAssumption
<1>2. CodeTickets!Init <=> CodePresenting!Init
  BY DEF CodeTickets!Init, CodePresenting!Init
<1>3. CodeTickets!Next <=> CodePresenting!Next
  BY DEF CodeTickets!Next, CodePresenting!Next, CodeTickets!Replace, CodeTickets!Answer,
         CodePresenting!Replace, CodePresenting!Answer
<1>4. CodePresenting!PresentedOnce =>
        \A c \in CodeIDs : accepts[c] <= 1 /\ tries[c] <= MaxAttempts
  BY DEF CodePresenting!PresentedOnce
<1> QED BY <1>1, <1>2, <1>3, <1>4, CodesImplementTicket, PTL
           DEF CodesAreTickets, CodeTickets!Spec, CodePresenting!Spec

LEMMA RecoveryCodesPresentedOnce == Spec => [](\A c \in RecoveryCodes : accepts[c] <= 1)
<1>1. RecoveryPresenting!Spec => []RecoveryPresenting!PresentedOnce
  BY RecoveryPresenting!PresentedAtMostOnce
<1>2. RecoveryTickets!Init <=> RecoveryPresenting!Init
  BY DEF RecoveryTickets!Init, RecoveryPresenting!Init
<1>3. RecoveryTickets!Next <=> RecoveryPresenting!Next
  BY DEF RecoveryTickets!Next, RecoveryPresenting!Next, RecoveryTickets!Replace,
         RecoveryTickets!Answer, RecoveryPresenting!Replace, RecoveryPresenting!Answer
<1>4. RecoveryPresenting!PresentedOnce => \A c \in RecoveryCodes : accepts[c] <= 1
  BY DEF RecoveryPresenting!PresentedOnce
<1> QED BY <1>1, <1>2, <1>3, <1>4, RecoveryCodesImplementTicket, PTL
           DEF RecoveryCodesAreTickets, RecoveryTickets!Spec, RecoveryPresenting!Spec

LEMMA ChallengesPresentedOnce == Spec => [](\A c \in ChallengeIDs : accepts[c] <= 1)
<1>1. ChallengePresenting!Spec => []ChallengePresenting!PresentedOnce
  BY ChallengePresenting!PresentedAtMostOnce
<1>2. ChallengeTickets!Init <=> ChallengePresenting!Init
  BY DEF ChallengeTickets!Init, ChallengePresenting!Init
<1>3. ChallengeTickets!Next <=> ChallengePresenting!Next
  BY DEF ChallengeTickets!Next, ChallengePresenting!Next, ChallengeTickets!Replace,
         ChallengeTickets!Answer, ChallengePresenting!Replace, ChallengePresenting!Answer
<1>4. ChallengePresenting!PresentedOnce => \A c \in ChallengeIDs : accepts[c] <= 1
  BY DEF ChallengePresenting!PresentedOnce
<1> QED BY <1>1, <1>2, <1>3, <1>4, ChallengesImplementTicket, PTL
           DEF ChallengesAreTickets, ChallengeTickets!Spec, ChallengePresenting!Spec

\* Whatever requests race for it, a one-time code, a recovery code or a
\* passkey challenge is accepted once at most, and a one-time code compared
\* with no more than MaxAttempts answers.
THEOREM TicketsAcceptedOnce ==
  Spec => [](/\ \A t \in Tickets : accepts[t] <= 1
             /\ \A c \in CodeIDs : tries[c] <= MaxAttempts)
<1>1. /\ \A c \in CodeIDs : accepts[c] <= 1 /\ tries[c] <= MaxAttempts
      /\ \A c \in RecoveryCodes : accepts[c] <= 1
      /\ \A c \in ChallengeIDs : accepts[c] <= 1
      => (\A t \in Tickets : accepts[t] <= 1) /\ \A c \in CodeIDs : tries[c] <= MaxAttempts
  BY DEF Tickets
<1> QED BY <1>1, CodesPresentedOnce, RecoveryCodesPresentedOnce, ChallengesPresentedOnce, PTL

-----------------------------------------------------------------------------
(* From a ticket to one session.                                           *)

\* A request holds the ticket t from the call that accepted it to the call
\* that opens its session.
Holds(q, t) ==
    \/ /\ q.op = "login_recovery" /\ q.pc \in {"rotate", "create"}
       /\ t = q.given
    \/ /\ q.op = "verify_code" /\ q.pc \in {"code_user", "apply", "rotate", "create"}
       /\ t = q.given.id
    \/ /\ q.op = "login_passkey"
       /\ q.pc \in {"handle", "assertion", "find", "update", "rotate", "create"}
       /\ t = q.given.challenge

\* The session s was opened with t.
OpenedWith(s, t) ==
    /\ origin[s] # None
    /\ origin[s].op \in {"login_recovery", "verify_code", "login_passkey"}
    /\ t = TicketOf(s)

\* What holds a ticket, or was opened with it, is one request or one session,
\* and the ticket was accepted.
HeldOnce ==
    /\ DOMAIN origin = SessionIDs
    /\ \A s \in SessionIDs : origin[s] # None => s \in drawn
    /\ \A t \in Tickets, r \in Requests : Holds(req[r], t) =>
          /\ accepts[t] # 0
          /\ \A o \in Requests : Holds(req[o], t) => o = r
          /\ \A s \in SessionIDs : ~OpenedWith(s, t)
    /\ \A s \in SessionIDs : \A t : OpenedWith(s, t) =>
          /\ t \in Tickets /\ accepts[t] # 0
          /\ \A p \in SessionIDs : OpenedWith(p, t) => p = s

\* A request that comes to hold a ticket has just accepted it, for the first
\* time.
LEMMA HoldsFrom ==
  ASSUME Typed, Counted, [Next]_vars, NEW r \in Requests, NEW t \in Tickets,
         Holds(req[r], t)', ~Holds(req[r], t)
  PROVE  accepts[t] = 0 /\ accepts'[t] # 0
<1>0. RequestOK(req[r]) /\ accepts \in [Tickets -> Nat]
  BY DEF Typed, RequestsOK, Counted, CountersOK
<1>1. GoesOn(r)
  <2>1. Moves(r)
    BY NextMoves DEF Moves
  <2> QED BY <2>1 DEF Moves, Begins, Delivered, Refused, Answered, Idle, Holds
<1>2. req'[r].op = req[r].op /\ req'[r].given = req[r].given
  BY <1>1 DEF GoesOn
<1>3. \/ req[r].op = "login_recovery" /\ ConsumeRecovery(r) /\ t = req[r].given
                                      /\ req'[r].pc = "rotate"
      \/ req[r].op = "verify_code" /\ SpendAttempt(r) /\ t = req[r].given.id
                                   /\ req'[r].pc = "code_user"
      \/ req[r].op = "login_passkey" /\ TakePasskeyChallenge(r) /\ t = req[r].given.challenge
                                     /\ req'[r].pc = "handle"
  BY <1>0, <1>1, <1>2 DEF GoesOn, Holds, RequestOK, Points, Logins, After, Gated
<1>4. ~Refuse(r)
  BY <1>3 DEF Refuse, Typed, RequestsOK, Shaped, Idle
<1>5. CASE ConsumeRecovery(r) /\ t = req[r].given
  <2>1. recovery[req[r].user][t] = "unused" /\ Accept(t)
    BY <1>4, <1>5 DEF ConsumeRecovery, ConsumeRecoveryCode, CanConsumeRecoveryCode
  <2>2. t \in RecoveryCodes /\ req[r].user \in UserIDs
    BY <1>5, Presented
  <2> QED BY <1>0, <2>1, <2>2 DEF Counted, RecoveryCounted, Accept
<1>6. CASE SpendAttempt(r) /\ t = req[r].given.id
  <2>1. codes[t] # None /\ Accept(t)
    BY <1>4, <1>6 DEF SpendAttempt, CodeLive
  <2>2. t \in CodeIDs
    BY <1>6, Presented DEF CodeAnswer
  <2> QED BY <1>0, <2>1, <2>2 DEF Counted, CodesCounted, Accept
<1>7. CASE TakePasskeyChallenge(r) /\ t = req[r].given.challenge
  <2>1. challenges[t] # NoChallenge /\ Accept(t)
    BY <1>4, <1>7 DEF TakePasskeyChallenge, Takable
  <2>2. t \in ChallengeIDs
    BY <1>7, Presented
  <2> QED BY <1>0, <2>1, <2>2 DEF Counted, ChallengesCounted, Accept
<1> QED BY <1>3, <1>5, <1>6, <1>7

\* The session createSession opens takes the ticket over from the request.
LEMMA OpensWith ==
  ASSUME Typed, HeldOnce, NEW r \in Requests, CreateNew(r)
  PROVE  \E s \in SessionIDs :
            /\ DOMAIN origin' = SessionIDs /\ s \in drawn' /\ drawn \subseteq drawn'
            /\ \A p \in SessionIDs \ {s} : origin'[p] = origin[p]
            /\ \A t : ~OpenedWith(s, t)
            /\ \A t : OpenedWith(s, t)' => t \in Tickets /\ Holds(req[r], t)
            /\ \A t : ~Holds(req[r], t)'
            /\ \A o \in Requests \ {r} : req'[o] = req[o]
            /\ accepts' = accepts
<1>1. PICK s \in Fresh(SessionIDs) :
          /\ drawn' = drawn \cup {s}
          /\ origin' = [origin EXCEPT ![s] =
                          [user |-> req[r].user, op |-> req[r].op,
                           via |-> req[r].cookie, given |-> req[r].given,
                           since |-> req[r].since, born |-> resets]]
          /\ req' = [req EXCEPT ![r].pc = "cookie", ![r].set = s]
  BY DEF CreateNew
<1>2. /\ DOMAIN origin = SessionIDs /\ s \in SessionIDs /\ s \notin drawn
      /\ At(r, "create") /\ RequestOK(req[r]) /\ accepts' = accepts
  BY <1>1 DEF Fresh, CreateNew, HeldOnce, Typed, RequestsOK
<1>3. origin'[s].op = req[r].op /\ origin'[s].given = req[r].given
  BY <1>1, <1>2
<1>4. /\ req'[r].pc = "cookie"
      /\ \A o \in Requests \ {r} : req'[o] = req[o]
  BY <1>1 DEF Typed, RequestsOK, Shaped, Idle
<1>5. ASSUME NEW t, OpenedWith(s, t)' PROVE t \in Tickets /\ Holds(req[r], t)
  <2>1. /\ req[r].op \in {"login_recovery", "verify_code", "login_passkey"}
        /\ req[r].op = "login_recovery" => t = req[r].given
        /\ req[r].op = "verify_code" => t = req[r].given.id
        /\ req[r].op = "login_passkey" => t = req[r].given.challenge
    BY <1>3, <1>5 DEF OpenedWith, TicketOf
  <2>2. req[r].given \in Given(req[r].op)
    BY <1>2 DEF RequestOK, At
  <2>3. /\ req[r].op = "login_recovery" => req[r].given \in RecoveryCodes
        /\ req[r].op = "verify_code" => req[r].given \in CodeAnswer
        /\ req[r].op = "login_passkey" => req[r].given \in Assertion
    BY <2>2, GivenValues
  <2>4. t \in RecoveryCodes \/ t \in CodeIDs \/ t \in ChallengeIDs
    BY <2>1, <2>3 DEF CodeAnswer, Assertion
  <2> QED BY <1>2, <2>1, <2>4 DEF Holds, At, Tickets
<1>6. \A t : ~Holds(req[r], t)'
  BY <1>4 DEF Holds
<1>7. \A t : ~OpenedWith(s, t)
  BY <1>2 DEF OpenedWith, HeldOnce
<1>8. \A p \in SessionIDs \ {s} : origin'[p] = origin[p]
  BY <1>1, <1>2
<1> QED BY <1>1, <1>2, <1>4, <1>5, <1>6, <1>7, <1>8

LEMMA HeldOnceKept == Typed /\ Counted /\ HeldOnce /\ [Next]_vars => HeldOnce'
<1> SUFFICES ASSUME Typed, Counted, HeldOnce, [Next]_vars PROVE HeldOnce'
  OBVIOUS
<1>1. ASSUME NEW r \in Requests, CreateNew(r) PROVE HeldOnce'
  <2>1. PICK s \in SessionIDs :
            /\ DOMAIN origin' = SessionIDs /\ s \in drawn' /\ drawn \subseteq drawn'
            /\ \A p \in SessionIDs \ {s} : origin'[p] = origin[p]
            /\ \A t : ~OpenedWith(s, t)
            /\ \A t : OpenedWith(s, t)' => t \in Tickets /\ Holds(req[r], t)
            /\ \A t : ~Holds(req[r], t)'
            /\ \A o \in Requests \ {r} : req'[o] = req[o]
            /\ accepts' = accepts
    BY <1>1, OpensWith
  <2>2. \A p \in SessionIDs \ {s} : \A t : OpenedWith(p, t)' <=> OpenedWith(p, t)
    BY <2>1 DEF OpenedWith, TicketOf
  <2>3. \A o \in Requests : \A t : Holds(req[o], t)' => o # r /\ Holds(req[o], t)
    BY <2>1 DEF Holds
  <2>4. ASSUME NEW t \in Tickets, NEW o \in Requests, Holds(req[o], t)'
        PROVE  /\ accepts'[t] # 0
               /\ \A q \in Requests : Holds(req[q], t)' => q = o
               /\ \A p \in SessionIDs : ~OpenedWith(p, t)'
    BY <2>1, <2>2, <2>3, <2>4 DEF HeldOnce
  <2>5. ASSUME NEW p \in SessionIDs, NEW t, OpenedWith(p, t)'
        PROVE  /\ t \in Tickets /\ accepts'[t] # 0
               /\ \A q \in SessionIDs : OpenedWith(q, t)' => q = p
    BY <2>1, <2>2, <2>5 DEF HeldOnce
  <2>6. \A p \in SessionIDs : origin'[p] # None => p \in drawn'
    BY <2>1 DEF HeldOnce
  <2> QED BY <2>1, <2>4, <2>5, <2>6 DEF HeldOnce
<1>2. CASE UNCHANGED origin
  <2>1. \A p \in SessionIDs : \A t : OpenedWith(p, t)' <=> OpenedWith(p, t)
    BY <1>2 DEF OpenedWith, TicketOf
  <2>2. /\ accepts \in [Tickets -> Nat] /\ accepts' \in [Tickets -> Nat]
        /\ \A t \in Tickets : accepts'[t] >= accepts[t]
    BY CountersKept DEF Counted, CountersOK
  <2>3. \A t \in Tickets : accepts[t] # 0 => accepts'[t] # 0
    BY <2>2
  <2>4. ASSUME NEW t \in Tickets, NEW o \in Requests, Holds(req[o], t)'
        PROVE  /\ accepts'[t] # 0
               /\ \A q \in Requests : Holds(req[q], t)' => q = o
               /\ \A p \in SessionIDs : ~OpenedWith(p, t)'
    <3>1. CASE Holds(req[o], t)
      <4>1. \A q \in Requests : Holds(req[q], t)' => Holds(req[q], t)
        BY <3>1, HoldsFrom DEF HeldOnce
      <4> QED BY <2>1, <2>3, <3>1, <4>1 DEF HeldOnce
    <3>2. CASE ~Holds(req[o], t)
      <4>1. accepts[t] = 0 /\ accepts'[t] # 0
        BY <2>4, <3>2, HoldsFrom
      <4>2. \A q \in Requests : ~Holds(req[q], t)
        BY <4>1 DEF HeldOnce
      <4>3. PICK r \in Requests : Moves(r)
        BY <2>4, <3>2, NextMoves DEF Holds
      <4>4. \A q \in Requests \ {r} : Holds(req[q], t)' <=> Holds(req[q], t)
        BY <4>3 DEF Moves, Holds
      <4> QED BY <2>1, <2>4, <4>1, <4>2, <4>4 DEF HeldOnce
    <3> QED BY <3>1, <3>2
  <2>5. ASSUME NEW p \in SessionIDs, NEW t, OpenedWith(p, t)'
        PROVE  /\ t \in Tickets /\ accepts'[t] # 0
               /\ \A q \in SessionIDs : OpenedWith(q, t)' => q = p
    BY <2>1, <2>3, <2>5 DEF HeldOnce
  <2>6. drawn \subseteq drawn'
    BY NextChanges DEF Changes, vars, sessionVars
  <2> QED BY <1>2, <2>4, <2>5, <2>6 DEF HeldOnce
<1> QED BY <1>1, <1>2, NextChanges DEF Changes, vars, sessionVars, history

\* No two sessions are opened with one recovery code, one-time code or
\* passkey challenge, whatever requests race for it.
THEOREM TicketsOpenOneSession == Spec => []OneSessionPerTicket
<1>1. Init => HeldOnce
  BY NoneAssumption DEF Init, SessionsInit, HeldOnce, Holds, OpenedWith, Idle
<1>2. HeldOnce => OneSessionPerTicket
  BY DEF HeldOnce, OpenedWith, OneSessionPerTicket
<1> QED BY <1>1, <1>2, AlwaysCounted, HeldOnceKept, PTL DEF Spec
=============================================================================
