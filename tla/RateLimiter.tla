----------------------------- MODULE RateLimiter -----------------------------
(***************************************************************************)
(* MemoryRateLimiter (limiter.go): one counter per key, in windows that    *)
(* start with the first call after the last window has passed.  A refused  *)
(* call counts as well, but never moves the end of the window.  Buckets    *)
(* are never removed; an old one behaves like a missing one.               *)
(*                                                                         *)
(* Allow reads the clock under its mutex, so a call is atomic and time can *)
(* be kept relative: left is what remains of the window of a bucket.       *)
(***************************************************************************)
EXTENDS Naturals

CONSTANTS
    Keys,             \* "password:<ip>:<identifier>", "second-factor:..", ..
    Limit, Window,    \* by key: the limit and window its handler passes
    MaxCount          \* bound: the count is not told apart above this

ASSUME LimiterAssumption ==
    /\ Limit \in [Keys -> Nat \ {0}] /\ Window \in [Keys -> Nat \ {0}]
    /\ MaxCount \in Nat /\ \A k \in Keys : Limit[k] < MaxCount

VARIABLES
    count, left,      \* rateBucket: count, and reset - now
    granted           \* history: how long ago the last calls were allowed,
                      \* by key, the latest first

vars == <<count, left, granted>>

\* Bound: that many calls are remembered, with ages up to Window, which also
\* stands for longer ago and for never.
Recent(k) == 1 .. 2 * Limit[k] + 1

Init ==
    /\ count   = [k \in Keys |-> 0]
    /\ left    = [k \in Keys |-> 0]
    /\ granted = [k \in Keys |-> [i \in Recent(k) |-> Window[k]]]

\* The zero bucket, or one whose reset is not after now.
Expired(k) == left[k] = 0

\* Mutants: every call starts the window anew; a new window is added to what
\* is left of the present one.
Remaining_Moved(k) == Window[k]
Remaining_Added(k) == left[k] + Window[k]
Remaining(k) == IF Expired(k) THEN Window[k] ELSE left[k]

Counted(k) == IF Expired(k) THEN 1
              ELSE IF count[k] < MaxCount THEN count[k] + 1 ELSE MaxCount

\* Mutant: the call after the last one allowed is allowed too.
Allowed_OneMore(k) == Counted(k) <= Limit[k] + 1
Allowed(k) == Counted(k) <= Limit[k]

Allow(k) ==
    /\ count' = [count EXCEPT ![k] = Counted(k)]
    /\ left'  = [left EXCEPT ![k] = Remaining(k)]
    /\ granted' = IF Allowed(k)
                  THEN [granted EXCEPT ![k] =
                          [i \in Recent(k) |-> IF i = 1 THEN 0 ELSE granted[k][i - 1]]]
                  ELSE granted

Tick ==
    /\ left' = [k \in Keys |-> IF left[k] = 0 THEN 0 ELSE left[k] - 1]
    /\ granted' = [k \in Keys |-> [i \in Recent(k) |->
                     IF granted[k][i] < Window[k] THEN granted[k][i] + 1 ELSE Window[k]]]
    /\ UNCHANGED count

Next == Tick \/ \E k \in Keys : Allow(k)

\* The clock does not stop; callers may.
Spec == Init /\ [][Next]_vars /\ WF_vars(Tick)

-----------------------------------------------------------------------------
\* A bucket never has more than its window to go, and ages are capped.
TypeOK ==
    /\ count \in [Keys -> 0 .. MaxCount]
    /\ left \in [Keys -> Nat] /\ \A k \in Keys : left[k] <= Window[k]
    /\ DOMAIN granted = Keys
    /\ \A k \in Keys : granted[k] \in [Recent(k) -> 0 .. Window[k]]

\* A window lets Limit calls through: with left of it still to come, the call
\* before the last Limit ones was allowed before it began.
WithinWindow ==
    \A k \in Keys : left[k] > 0 => granted[k][Limit[k] + 1] > Window[k] - left[k]

\* Windows are fixed, not sliding: over any stretch of Window ticks, two
\* adjacent windows can meet, and up to twice Limit calls pass; never more.
TwiceLimit == \A k \in Keys : granted[k][2 * Limit[k] + 1] >= Window[k]

\* A caller that keeps knocking is let in again: refused calls do not move
\* the end of the window.
WindowEnds == \A k \in Keys : count[k] > Limit[k] ~> Expired(k)
=============================================================================
