---------------------------- MODULE TicketProofs ----------------------------
(***************************************************************************)
(* What it means to be a Ticket, for every set of tickets and every        *)
(* budget.  The runs of Auth check that one-time codes, recovery codes and *)
(* passkey challenges are tickets; this is what they get from it.          *)
(***************************************************************************)
EXTENDS Ticket, TLAPS

\* PresentedOnce is not inductive: that a ticket can take one more answer
\* has to be known of the open ones, that it took none of the new ones.
Unspent ==
    \A t \in Tickets :
        /\ state[t] = "new"  => tries[t] = 0 /\ accepted[t] = 0
        /\ state[t] = "open" => tries[t] < Budget /\ accepted[t] = 0

TicketInv == TypeOK /\ Unspent /\ PresentedOnce

\* An answer to an open ticket leaves it open only while answers are left.
LEMMA AnswerKeeps ==
  ASSUME Budget \in Nat \ {0}, TicketInv, NEW t \in Tickets, NEW right \in BOOLEAN,
         NEW old \in SUBSET Tickets, Answer(t, right, old)
  PROVE  TicketInv'
<1>1. /\ tries[t] < Budget /\ accepted[t] = 0 /\ tries[t] \in Nat
      /\ tries'[t] = tries[t] + 1
      /\ accepted'[t] = IF right THEN 1 ELSE 0
  BY DEF TicketInv, TypeOK, Unspent, Answer
<1>2. \A s \in Tickets \ {t} : tries'[s] = tries[s] /\ accepted'[s] = accepted[s]
  BY DEF TicketInv, TypeOK, Answer
<1>3. TypeOK'
  <2>1. /\ tries[t] + 1 \in Nat
        /\ (IF right THEN accepted[t] + 1 ELSE accepted[t]) \in Nat
    BY <1>1
  <2> QED BY <2>1 DEF TicketInv, TypeOK, Answer
<1>4. \A s \in Tickets : state'[s] = IF s \in old THEN "closed" ELSE state[s]
  BY DEF Answer
<1>5. Unspent'
  <2>1. state[t] = "open" /\ (right \/ tries'[t] >= Budget => t \in old)
    BY DEF Answer
  <2>2. state'[t] = "open" => tries'[t] < Budget /\ accepted'[t] = 0
    BY <1>1, <1>4, <2>1
  <2> QED BY <1>2, <1>4, <2>1, <2>2 DEF TicketInv, Unspent
<1>6. PresentedOnce'
  BY <1>1, <1>2 DEF TicketInv, PresentedOnce
<1> QED BY <1>3, <1>5, <1>6 DEF TicketInv

\* Issuing, withdrawing and replacing compare nothing.
LEMMA ReplaceKeeps ==
  ASSUME Budget \in Nat \ {0}, TicketInv, NEW new \in SUBSET Tickets,
         NEW old \in SUBSET Tickets, Replace(new, old)
  PROVE  TicketInv'
<1>1. TypeOK'
  BY DEF TicketInv, TypeOK, Replace
<1>2. Unspent'
  <2> SUFFICES ASSUME NEW t \in Tickets
               PROVE  /\ state'[t] = "new"  => tries'[t] = 0 /\ accepted'[t] = 0
                      /\ state'[t] = "open" => tries'[t] < Budget /\ accepted'[t] = 0
    BY DEF Unspent
  <2>1. state'[t] # "closed" => state[t] # "closed"
    BY DEF Replace, TicketInv, TypeOK
  <2>2. state'[t] = "new" => state[t] = "new"
    BY DEF Replace, TicketInv, TypeOK
  <2> QED BY <2>1, <2>2 DEF TicketInv, TypeOK, Unspent, Replace
<1> QED BY <1>1, <1>2 DEF TicketInv, PresentedOnce, Replace

\* A ticket is accepted at most once and compared with at most Budget
\* answers, however its callers interleave.
THEOREM PresentedAtMostOnce ==
  ASSUME Budget \in Nat \ {0}
  PROVE  Spec => []PresentedOnce
<1>1. Init => TicketInv
  BY DEF Init, TicketInv, TypeOK, Unspent, PresentedOnce
<1>2. TicketInv /\ [Next]_<<state, tries, accepted>> => TicketInv'
  <2>1. ASSUME TicketInv, UNCHANGED <<state, tries, accepted>> PROVE TicketInv'
    BY <2>1 DEF TicketInv, TypeOK, Unspent, PresentedOnce
  <2> QED BY <2>1, AnswerKeeps, ReplaceKeeps DEF Next
<1>3. TicketInv => PresentedOnce
  BY DEF TicketInv
<1> QED BY <1>1, <1>2, <1>3, PTL DEF Spec
=============================================================================
