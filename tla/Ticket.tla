------------------------------- MODULE Ticket -------------------------------
(***************************************************************************)
(* What the plugin promises of everything it gives out to be presented     *)
(* once: a one-time code, a recovery code, a passkey challenge.  A ticket  *)
(* is issued once, is compared with at most Budget answers, is accepted at *)
(* most once, and is then closed for good; it may also be withdrawn,       *)
(* replaced or found expired.                                              *)
(***************************************************************************)
EXTENDS Naturals

CONSTANTS Tickets, Budget

VARIABLES state, tries, accepted

Init == /\ state \in [Tickets -> {"new", "open"}]
        /\ tries    = [t \in Tickets |-> 0]
        /\ accepted = [t \in Tickets |-> 0]

\* Tickets are issued, alone or in sets; open ones may be given up, by
\* themselves or because new ones take their place.
Replace(new, old) ==
    /\ \A t \in new : state[t] = "new"
    /\ \A t \in old : state[t] = "open"
    /\ state' = [t \in Tickets |-> IF t \in new THEN "open"
                                   ELSE IF t \in old THEN "closed" ELSE state[t]]
    /\ UNCHANGED <<tries, accepted>>

\* An answer is compared with an open ticket: a right one closes it, and so
\* does the last wrong one.  Others may be given up at the same time, and so
\* may this one before its budget is spent.
Answer(t, right, old) ==
    /\ state[t] = "open"
    /\ \A s \in old : state[s] = "open"
    /\ tries' = [tries EXCEPT ![t] = @ + 1]
    /\ accepted' = [accepted EXCEPT ![t] = IF right THEN @ + 1 ELSE @]
    /\ right \/ tries'[t] >= Budget => t \in old
    /\ state' = [s \in Tickets |-> IF s \in old THEN "closed" ELSE state[s]]

Next == \/ \E new, old \in SUBSET Tickets : Replace(new, old)
        \/ \E t \in Tickets, right \in BOOLEAN, old \in SUBSET Tickets : Answer(t, right, old)

Spec == Init /\ [][Next]_<<state, tries, accepted>>

-----------------------------------------------------------------------------
\* The types of the three maps; an open ticket still has an answer to come.
TypeOK ==
    /\ state \in [Tickets -> {"new", "open", "closed"}]
    /\ tries \in [Tickets -> Nat] /\ accepted \in [Tickets -> Nat]

\* However many callers present a ticket, it is accepted once at most, and
\* no more than Budget answers are ever compared with it.
PresentedOnce == \A t \in Tickets : accepted[t] <= 1 /\ tries[t] <= Budget
=============================================================================
