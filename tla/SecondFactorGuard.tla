-------------------------- MODULE SecondFactorGuard --------------------------
(***************************************************************************)
(* How often a TOTP code can be guessed from one client address: loginTOTP *)
(* asks the rate limiter for each call (allowSecondFactor,                 *)
(* handlers_totp.go), reads the body and the credential, and only then     *)
(* compares the candidate with the codes around the present one.  The      *)
(* limiter counts in windows of its own, a code lives for three periods,   *)
(* and the period is an option: numbers from three files that have to fit. *)
(*                                                                         *)
(* Time is relative: phase is how far the present code is into its step,   *)
(* and a code is known by its distance from the present one.               *)
(***************************************************************************)
EXTENDS RateLimiter, TOTP, Options

CONSTANTS
    Given,    \* the options Register is called with
    secondFactor,  \* the key of one address and one user: addresses share nothing
    MaxDelay       \* bound: the time from a call's admission to the comparison

\* The least period is 15 seconds, the longest one minute.  Three of those
\* leave two of the five minutes of the window for MaxDelay, which the code
\* does not bound: how slow a body may be read is the server's to say.
ASSUME GuardAssumption ==
    /\ \A o \in Given : DOMAIN o = OptionFields
    /\ secondFactor \in Keys
    /\ Second <= Bounds["period"].least
    /\ MaxDelay \in Nat
    /\ 3 * Bounds["period"].most + MaxDelay <= Window[secondFactor]

VARIABLES
    options,  \* Auth.options, once started
    phase,
    waiting,  \* calls of loginTOTP admitted and not compared yet
    tried     \* history: guesses compared with the codes at each distance

guardVars == <<vars, options, phase, waiting, tried>>

Distances == -2 .. 2
Period == options.period
HasTOTP == "totp" \in options.features

\* Register on any options; only what is accepted is served.
GuardInit ==
    /\ Init
    /\ \E o \in Given : Accepts(o) /\ options = Normalized(o)
    /\ phase \in IF HasTOTP THEN 0 .. Step(Period) - 1 ELSE {0}
    /\ waiting = 0
    /\ tried = [d \in Distances |-> 0]

\* loginTOTP asks the limiter.
Admit ==
    /\ HasTOTP
    /\ Allow(secondFactor)
    /\ waiting' = IF Allowed(secondFactor) THEN waiting + 1 ELSE waiting
    /\ UNCHANGED <<options, phase, tried>>

\* verifyTOTP compares the candidate with the codes accepted by then; without
\* a body, or a confirmed factor, there is nothing to compare.
Compare ==
    /\ waiting > 0 /\ waiting' = waiting - 1
    /\ \/ tried' = [d \in Distances |-> IF d \in Accepted(phase, Period)
                                        THEN tried[d] + 1 ELSE tried[d]]
       \/ UNCHANGED tried
    /\ UNCHANGED <<vars, options, phase>>

\* Other calls under the limiter: loginRecovery, which has the same key, and
\* the routes with other keys.
OtherCall(k) == Allow(k) /\ UNCHANGED <<options, phase, waiting, tried>>

\* The n latest calls that were admitted are no older than age.
Latest(n, age) == \A i \in Recent(secondFactor) : i <= n => granted[secondFactor][i] <= age

\* When the step is over every code is one further away.  The calls waiting
\* are at least as old as the latest admitted ones: none exceeds MaxDelay.
Pass ==
    /\ Tick
    /\ Latest(waiting, MaxDelay - 1)
    /\ IF HasTOTP /\ phase + 1 = Step(Period)
       THEN /\ phase' = 0
            /\ tried' = [d \in Distances |-> IF d = 2 THEN 0 ELSE tried[d + 1]]
       ELSE /\ phase' = IF HasTOTP THEN phase + 1 ELSE 0
            /\ UNCHANGED tried
    /\ UNCHANGED <<options, waiting>>

GuardNext == Admit \/ Compare \/ Pass \/ \E k \in Keys : OtherCall(k)

\* Time passes, and a handler that was let in goes on to its end.
GuardSpec == /\ GuardInit /\ [][GuardNext]_guardVars
             /\ WF_guardVars(Pass) /\ WF_guardVars(Compare)

-----------------------------------------------------------------------------
\* However the calls from one address are timed, and however long each takes
\* within MaxDelay from the limiter to the comparison, at most twice the limit
\* are compared with one code while it is accepted: its life and that delay
\* never touch three windows.  options.go bounds the period, handlers_totp.go
\* passes the window.
GuessesPerCode == \A d \in Distances : tried[d] <= 2 * Limit[secondFactor]

\* A code is accepted when the authenticator's clock is up to one period off
\* in either direction, for a period of whole seconds.
ClockTolerated ==
    HasTOTP /\ Period % Second = 0 =>
        \A drift \in -Period .. Period :
            Counter(phase + drift, Period) \in Accepted(phase, Period)

\* With a period that has a fraction of a second the code of the present is
\* still accepted, and none further than two steps away.
PresentAccepted ==
    HasTOTP => 0 \in Accepted(phase, Period) /\ Accepted(phase, Period) \subseteq Distances

\* Whatever Register accepts is what the other modules assume of the options
\* they are given: lifetimes and budgets of at least one, a window of the
\* limiter that a code does not outlive, and a way to log in.
StartedFits ==
    /\ options.features \cap LoginMethods # {}
    /\ options.sessionLifetime > 0
    /\ "codes" \in options.features => options.codeLifetime > 0 /\ options.maxAttempts > 0
    /\ HasTOTP => Seconds(Period) > 0 /\ 3 * Period + MaxDelay <= Window[secondFactor]
    /\ Accepts(options) /\ Normalized(options) = options
=============================================================================
