--------------------------------- MODULE TOTP ---------------------------------
(***************************************************************************)
(* Which codes verifyTOTP accepts at an instant (totp.go).  A code is      *)
(* known by its counter.  Instants and periods are in ticks, Second of     *)
(* them to a second: an option may give a period that is not a whole       *)
(* number of seconds, but codes change with whole seconds.                 *)
(***************************************************************************)
EXTENDS Integers

CONSTANT Second

ASSUME SecondAssumption == Second \in Nat \ {0}

\* int64(Period / time.Second), also what setupTOTP tells authenticators.
Seconds(period) == period \div Second

\* generateTOTP: the counter of the code that belongs to the instant t.
Counter(t, period) == (t \div Second) \div Seconds(period)

\* Mutants: the code after the current one is not tried; two on each side are.
Accepted_Wide(t, period) == {Counter(t + k * period, period) : k \in -2 .. 2}
Accepted_Past(t, period) == {Counter(t + k * period, period) : k \in -1 .. 0}

\* verifyTOTP
Accepted(t, period) == {Counter(t + k * period, period) : k \in -1 .. 1}

\* Codes move on after so many ticks, and all repeats.
Step(period) == Second * Seconds(period)
=============================================================================
