-------------------------- MODULE ConfiguredProofs --------------------------
(***************************************************************************)
(* The rate limiter for every limit and window, guesses at a TOTP code for *)
(* every period that Register accepts, and stored password hashes for all  *)
(* Argon2id parameters.                                                    *)
(***************************************************************************)
EXTENDS SecondFactorGuard, PasswordHash, TLAPS

-----------------------------------------------------------------------------
(* The limiter.                                                            *)

\* How many calls the present window of k has let through.
Let(k) == IF count[k] < Limit[k] THEN count[k] ELSE Limit[k]

\* WithinWindow and TwiceLimit are not inductive: of an open window it has to
\* be known how many calls it let through, and that it opened with no more
\* than Limit calls of the last one recent enough to matter.
Windows ==
    \A k \in Keys :
        /\ \A i, j \in Recent(k) : i <= j => granted[k][i] <= granted[k][j]
        /\ left[k] > 0 => /\ granted[k][Let(k) + 1] > Window[k] - left[k]
                          /\ granted[k][Let(k) + Limit[k] + 1] = Window[k]
        /\ left[k] = 0 => granted[k][1] > 0 /\ granted[k][Limit[k] + 1] = Window[k]

LimiterInv == TypeOK /\ Windows

\* The counters of one key are numbers, and so are the places in its history.
LEMMA Limits ==
  ASSUME TypeOK, NEW k \in Keys
  PROVE  /\ Limit[k] \in Nat \ {0} /\ Window[k] \in Nat \ {0} /\ Limit[k] < MaxCount
         /\ count[k] \in 0 .. MaxCount /\ left[k] \in 0 .. Window[k] /\ MaxCount \in Nat
         /\ granted[k] \in [Recent(k) -> 0 .. Window[k]]
         /\ Let(k) \in 0 .. Limit[k]
         /\ 1 \in Recent(k) /\ Let(k) + 1 \in Recent(k) /\ Let(k) + Limit[k] + 1 \in Recent(k)
         /\ Limit[k] + 1 \in Recent(k) /\ 2 * Limit[k] + 1 \in Recent(k)
<1>1. Limit[k] \in Nat \ {0} /\ Window[k] \in Nat \ {0} /\ Limit[k] < MaxCount /\ MaxCount \in Nat
  BY LimiterAssumption
<1>2. count[k] \in 0 .. MaxCount /\ left[k] \in 0 .. Window[k]
  BY <1>1 DEF TypeOK
<1>3. granted[k] \in [Recent(k) -> 0 .. Window[k]]
  BY DEF TypeOK
<1>4. Let(k) \in 0 .. Limit[k]
  BY <1>1, <1>2 DEF Let
<1>5. /\ 1 \in Recent(k) /\ Let(k) + 1 \in Recent(k) /\ Let(k) + Limit[k] + 1 \in Recent(k)
      /\ Limit[k] + 1 \in Recent(k) /\ 2 * Limit[k] + 1 \in Recent(k)
  BY <1>1, <1>4 DEF Recent
<1> QED BY <1>1, <1>2, <1>3, <1>4, <1>5

LEMMA LimiterInit == Init => LimiterInv
  BY LimiterAssumption DEF Init, LimiterInv, TypeOK, Windows, Recent, Let

\* A call that is allowed comes first in the history, and nothing else
\* changes but the count and, with a new window, what is left of it.
LEMMA AllowShape ==
  ASSUME TypeOK, NEW k \in Keys, Allow(k)
  PROVE  /\ \A l \in Keys \ {k} : /\ count'[l] = count[l] /\ left'[l] = left[l]
                                  /\ granted'[l] = granted[l]
         /\ count'[k] = Counted(k) /\ left'[k] = Remaining(k)
         /\ ~Allowed(k) => granted'[k] = granted[k]
         /\ Allowed(k) => /\ DOMAIN granted'[k] = Recent(k) /\ granted'[k][1] = 0
                          /\ \A i \in Recent(k) : i > 1 => granted'[k][i] = granted[k][i - 1]
         /\ DOMAIN count' = Keys /\ DOMAIN left' = Keys /\ DOMAIN granted' = Keys
  BY Limits DEF TypeOK, Allow

LEMMA AllowKeeps ==
  ASSUME LimiterInv, NEW k \in Keys, Allow(k)
  PROVE  LimiterInv'
<1> USE DEF LimiterInv
<1>1. /\ Limit[k] \in Nat \ {0} /\ Window[k] \in Nat \ {0} /\ Limit[k] < MaxCount
      /\ count[k] \in 0 .. MaxCount /\ left[k] \in 0 .. Window[k] /\ MaxCount \in Nat
      /\ granted[k] \in [Recent(k) -> 0 .. Window[k]]
  BY Limits
<1>2. Counted(k) \in 0 .. MaxCount /\ Remaining(k) \in 0 .. Window[k]
  BY <1>1 DEF Counted, Remaining, Expired
<1>3. granted'[k] \in [Recent(k) -> 0 .. Window[k]]
  <2>1. CASE ~Allowed(k)
    BY <1>1, <2>1, AllowShape
  <2>2. CASE Allowed(k)
    <3>1. \A i \in Recent(k) : i > 1 => i - 1 \in Recent(k)
      BY <1>1 DEF Recent
    <3>2. \A i \in Recent(k) : i = 1 \/ i > 1
      BY <1>1 DEF Recent
    <3>3. granted' = [granted EXCEPT ![k] =
                        [i \in Recent(k) |-> IF i = 1 THEN 0 ELSE granted[k][i - 1]]]
      BY <2>2 DEF Allow
    <3> QED BY <1>1, <3>1, <3>2, <3>3 DEF TypeOK
  <2> QED BY <2>1, <2>2
<1>4. TypeOK'
  BY <1>2, <1>3, AllowShape DEF TypeOK, Recent, Allow
<1>5. Windows'
  <2> SUFFICES ASSUME NEW l \in Keys
      PROVE  /\ \A i, j \in Recent(l) : i <= j => granted'[l][i] <= granted'[l][j]
             /\ left'[l] > 0 => /\ granted'[l][Let(l)' + 1] > Window[l] - left'[l]
                                /\ granted'[l][Let(l)' + Limit[l] + 1] = Window[l]
             /\ left'[l] = 0 => granted'[l][1] > 0 /\ granted'[l][Limit[l] + 1] = Window[l]
    BY DEF Windows, Recent
  <2>1. CASE l # k
    BY <2>1, AllowShape DEF Windows, Let
  <2>2. CASE l = k
    <3>1. \A i, j \in Recent(k) : i <= j => granted'[k][i] <= granted'[k][j]
      <4>1. CASE ~Allowed(k)
        BY <4>1, AllowShape DEF Windows
      <4>2. ASSUME Allowed(k), NEW i \in Recent(k), NEW j \in Recent(k), i <= j
            PROVE  granted'[k][i] <= granted'[k][j]
        <5>1. CASE i = 1
          <6>1. granted'[k][i] = 0 /\ granted'[k][j] \in 0 .. Window[k]
            BY <1>3, <4>2, <5>1, AllowShape
          <6> QED BY <1>1, <6>1
        <5>2. CASE i > 1
          <6>1. /\ i - 1 \in Recent(k) /\ j - 1 \in Recent(k) /\ i - 1 <= j - 1 /\ j > 1
            BY <1>1, <4>2, <5>2 DEF Recent
          <6> QED BY <4>2, <5>2, <6>1, AllowShape DEF Windows
        <5> QED BY <1>1, <5>1, <5>2 DEF Recent
      <4> QED BY <4>1, <4>2
    <3>2. CASE Expired(k)
      <4>1. /\ left'[k] = Window[k] /\ count'[k] = 1 /\ Allowed(k) /\ Let(k)' = 1
        BY <1>1, <3>2, AllowShape DEF Remaining, Counted, Allowed, Let
      <4>2. granted'[k][2] = granted[k][1] /\ granted'[k][Limit[k] + 2] = granted[k][Limit[k] + 1]
        <5>1. /\ 2 \in Recent(k) /\ 2 > 1 /\ 2 - 1 = 1 /\ Limit[k] + 2 \in Recent(k)
              /\ Limit[k] + 2 > 1 /\ (Limit[k] + 2) - 1 = Limit[k] + 1
          BY <1>1 DEF Recent
        <5>2. \A i \in Recent(k) : i > 1 => granted'[k][i] = granted[k][i - 1]
          BY <4>1, AllowShape
        <5>3. granted'[k][2] = granted[k][2 - 1]
          BY <5>1, <5>2
        <5>4. granted'[k][Limit[k] + 2] = granted[k][(Limit[k] + 2) - 1]
          BY <5>1, <5>2
        <5> QED BY <5>1, <5>3, <5>4
      <4>3. granted[k][1] > 0 /\ granted[k][Limit[k] + 1] = Window[k]
        BY <3>2 DEF Windows, Expired
      <4> QED BY <1>1, <2>2, <3>1, <4>1, <4>2, <4>3
    <3>3. CASE ~Expired(k)
      <4>1. left'[k] = left[k] /\ left[k] > 0
        BY <1>1, <3>3, AllowShape DEF Remaining, Expired
      <4>2. /\ granted[k][Let(k) + 1] > Window[k] - left[k]
            /\ granted[k][Let(k) + Limit[k] + 1] = Window[k]
        BY <4>1 DEF Windows
      <4>3. CASE Allowed(k)
        <5>1. Let(k)' = Let(k) + 1 /\ Let(k) \in Nat /\ Let(k) < Limit[k]
          BY <1>1, <3>3, <4>3, AllowShape DEF Allowed, Counted, Let
        <5>2. /\ granted'[k][Let(k)' + 1] = granted[k][Let(k) + 1]
              /\ granted'[k][Let(k)' + Limit[k] + 1] = granted[k][Let(k) + Limit[k] + 1]
          <6>1. /\ Let(k)' + 1 \in Recent(k) /\ Let(k)' + 1 > 1
                /\ (Let(k)' + 1) - 1 = Let(k) + 1
                /\ Let(k)' + Limit[k] + 1 \in Recent(k) /\ Let(k)' + Limit[k] + 1 > 1
                /\ (Let(k)' + Limit[k] + 1) - 1 = Let(k) + Limit[k] + 1
            <7> DEFINE n == Let(k)
            <7>1. n \in Nat /\ n < Limit[k] /\ Limit[k] \in Nat /\ Let(k)' = n + 1
              BY <1>1, <5>1
            <7> HIDE DEF n
            <7>2. /\ (n + 1) + 1 \in Recent(k) /\ (n + 1) + 1 > 1 /\ ((n + 1) + 1) - 1 = n + 1
                  /\ (n + 1) + Limit[k] + 1 \in Recent(k) /\ (n + 1) + Limit[k] + 1 > 1
                  /\ ((n + 1) + Limit[k] + 1) - 1 = n + Limit[k] + 1
              BY <7>1 DEF Recent
            <7> QED BY <7>1, <7>2 DEF n
          <6>2. \A i \in Recent(k) : i > 1 => granted'[k][i] = granted[k][i - 1]
            BY <4>3, AllowShape
          <6>3. granted'[k][Let(k)' + 1] = granted[k][(Let(k)' + 1) - 1]
            BY <6>1, <6>2
          <6>4. granted'[k][Let(k)' + Limit[k] + 1] = granted[k][(Let(k)' + Limit[k] + 1) - 1]
            BY <6>1, <6>2
          <6> QED BY <6>1, <6>3, <6>4
        <5> QED BY <1>1, <2>2, <3>1, <4>1, <4>2, <5>2
      <4>4. CASE ~Allowed(k)
        <5>1. Let(k)' = Let(k)
          BY <1>1, <3>3, <4>4, AllowShape DEF Allowed, Counted, Let
        <5> QED BY <1>1, <2>2, <3>1, <4>1, <4>2, <4>4, <5>1, AllowShape
      <4> QED BY <4>3, <4>4
    <3> QED BY <3>2, <3>3
  <2> QED BY <2>1, <2>2
<1> QED BY <1>4, <1>5

\* With every tick all that was allowed is longer ago.
LEMMA TickKeeps == LimiterInv /\ Tick => LimiterInv'
<1> SUFFICES ASSUME LimiterInv, Tick PROVE LimiterInv'
  OBVIOUS
<1> USE DEF LimiterInv
<1>1. ASSUME NEW k \in Keys
      PROVE  /\ left'[k] = IF left[k] = 0 THEN 0 ELSE left[k] - 1
             /\ DOMAIN granted'[k] = Recent(k)
             /\ \A i \in Recent(k) : granted'[k][i] =
                   IF granted[k][i] < Window[k] THEN granted[k][i] + 1 ELSE Window[k]
             /\ count'[k] = count[k]
  BY DEF Tick
<1>2. TypeOK'
  <2>1. left' \in [Keys -> Nat] /\ count' \in [Keys -> 0 .. MaxCount] /\ DOMAIN granted' = Keys
    <3>1. \A k \in Keys : left[k] \in Nat /\ (left[k] = 0 \/ left[k] - 1 \in Nat)
      <4> TAKE k \in Keys
      <4>1. left[k] \in Nat
        BY DEF TypeOK
      <4> QED BY <4>1
    <3>2. left' \in [Keys -> Nat]
      BY <3>1 DEF Tick
    <3> QED BY <3>2 DEF Tick, TypeOK
  <2>2. ASSUME NEW k \in Keys
        PROVE  left'[k] <= Window[k] /\ granted'[k] \in [Recent(k) -> 0 .. Window[k]]
    BY Limits DEF Tick
  <2> QED BY <2>1, <2>2 DEF TypeOK, Recent
<1>3. ASSUME NEW k \in Keys
      PROVE  /\ \A i, j \in Recent(k) : i <= j => granted'[k][i] <= granted'[k][j]
             /\ left'[k] > 0 => /\ granted'[k][Let(k)' + 1] > Window[k] - left'[k]
                                /\ granted'[k][Let(k)' + Limit[k] + 1] = Window[k]
             /\ left'[k] = 0 => granted'[k][1] > 0 /\ granted'[k][Limit[k] + 1] = Window[k]
  <2>1. Let(k)' = Let(k)
    BY <1>1 DEF Let
  <2>2. \A i, j \in Recent(k) : i <= j => granted'[k][i] <= granted'[k][j]
    <3>1. \A i, j \in Recent(k) : i <= j => granted[k][i] <= granted[k][j]
      BY DEF Windows
    <3> QED BY <1>1, <3>1, Limits
  <2>3. left'[k] > 0 => /\ granted'[k][Let(k) + 1] > Window[k] - left'[k]
                        /\ granted'[k][Let(k) + Limit[k] + 1] = Window[k]
    BY <1>1, Limits DEF Windows
  <2>4. left'[k] = 0 => granted'[k][1] > 0 /\ granted'[k][Limit[k] + 1] = Window[k]
    <3>1. CASE left[k] = 0
      BY <1>1, <3>1, Limits DEF Windows
    <3>2. CASE left[k] = 1
      <4>1. granted[k][Let(k) + 1] = Window[k] /\ granted[k][Let(k) + 1] <= granted[k][Limit[k] + 1]
        BY <3>2, Limits DEF Windows
      <4> QED BY <1>1, <3>2, <4>1, Limits
    <3> QED BY <1>1, <3>1, <3>2, Limits
  <2> QED BY <2>1, <2>2, <2>3, <2>4
<1> QED BY <1>2, <1>3 DEF Windows, Recent

LEMMA LimiterKept == LimiterInv /\ [Next]_vars => LimiterInv'
<1>1. LimiterInv /\ UNCHANGED vars => LimiterInv'
  BY DEF vars, LimiterInv, TypeOK, Windows, Let, Recent
<1> QED BY <1>1, AllowKeeps, TickKeeps DEF Next

\* What the invariant is for.
LEMMA LimiterShows == LimiterInv => WithinWindow /\ TwiceLimit
<1> SUFFICES ASSUME LimiterInv, NEW k \in Keys
             PROVE  /\ left[k] > 0 => granted[k][Limit[k] + 1] > Window[k] - left[k]
                    /\ granted[k][2 * Limit[k] + 1] >= Window[k]
  BY DEF WithinWindow, TwiceLimit
<1>1. \A i, j \in Recent(k) : i <= j => granted[k][i] <= granted[k][j]
  BY DEF LimiterInv, Windows
<1>2. CASE left[k] > 0
  <2>1. /\ granted[k][Let(k) + 1] > Window[k] - left[k]
        /\ granted[k][Let(k) + Limit[k] + 1] = Window[k]
    BY <1>2 DEF LimiterInv, Windows
  <2>2. /\ granted[k][Let(k) + 1] <= granted[k][Limit[k] + 1]
        /\ granted[k][Let(k) + Limit[k] + 1] <= granted[k][2 * Limit[k] + 1]
    BY <1>1, Limits DEF LimiterInv
  <2> QED BY <2>1, <2>2, Limits DEF LimiterInv
<1>3. CASE left[k] = 0
  <2>1. granted[k][Limit[k] + 1] = Window[k]
    BY <1>3 DEF LimiterInv, Windows
  <2>2. granted[k][Limit[k] + 1] <= granted[k][2 * Limit[k] + 1]
    BY <1>1, Limits DEF LimiterInv
  <2> QED BY <1>3, <2>1, <2>2, Limits DEF LimiterInv
<1> QED BY <1>2, <1>3, Limits DEF LimiterInv

LEMMA LimiterShowsNext == (LimiterInv => WithinWindow /\ TwiceLimit)'
  BY LimiterShows, PTL

\* However its callers time their calls, a window lets Limit of them through,
\* and any stretch of Window ticks twice as many, for every limit and window.
THEOREM LimiterBounds == Spec => [](TypeOK /\ WithinWindow /\ TwiceLimit)
<1>1. LimiterInv => TypeOK
  BY DEF LimiterInv
<1> QED BY <1>1, LimiterInit, LimiterKept, LimiterShows, PTL DEF Spec

-----------------------------------------------------------------------------
(* Which codes are accepted when.                                          *)

LEMMA DivBounds ==
  ASSUME NEW t \in Int, NEW n \in Nat \ {0}
  PROVE  t \div n \in Int /\ (t \div n) * n <= t /\ t < (t \div n) * n + n
  OBVIOUS

LEMMA MulMono ==
  ASSUME NEW a \in Int, NEW b \in Int, NEW n \in Nat, a <= b
  PROVE  a * n <= b * n
  OBVIOUS

\* A step is as long as the period but for the fraction of a second.
LEMMA StepBounds ==
  ASSUME NEW P \in Nat, Second <= P
  PROVE  /\ Seconds(P) \in Nat \ {0} /\ Step(P) \in Nat \ {0}
         /\ Step(P) <= P /\ P < Step(P) + Second /\ Second <= Step(P)
         /\ P % Second = 0 => Step(P) = P
<1> DEFINE m == Seconds(P)
<1>1. Second \in Nat \ {0}
  BY SecondAssumption
<1>2. m \in Int /\ m * Second <= P /\ P < m * Second + Second
  BY <1>1, DivBounds DEF Seconds
<1>3. P % Second = 0 => m * Second = P
  BY <1>1 DEF Seconds
<1> HIDE DEF m
<1>4. m > 0
  <2> SUFFICES ASSUME m <= 0 PROVE FALSE
    BY <1>2
  <2>1. m * Second <= 0 * Second
    BY <1>1, <1>2, MulMono
  <2> QED BY <1>1, <1>2, <2>1
<1>5. Second * m = m * Second /\ 1 * Second <= m * Second
  BY <1>1, <1>2, <1>4, MulMono
<1>6. m * Second \in Nat \ {0}
  BY <1>1, <1>2, <1>4, <1>5
<1> QED BY <1>1, <1>2, <1>3, <1>4, <1>5, <1>6 DEF Step, m

\* The counter of an instant is the number of whole steps before it.
LEMMA CounterBounds ==
  ASSUME NEW P \in Nat, Second <= P, NEW t \in Int
  PROVE  /\ Counter(t, P) \in Int
         /\ Counter(t, P) * Step(P) <= t /\ t < Counter(t, P) * Step(P) + Step(P)
<1> DEFINE m == Seconds(P)
           s == t \div Second
           c == s \div m
<1>1. Second \in Nat \ {0} /\ m \in Nat \ {0}
  BY SecondAssumption, StepBounds
<1>2. s \in Int /\ s * Second <= t /\ t < s * Second + Second
  BY <1>1, DivBounds
<1> HIDE DEF m, s
<1>3. c \in Int /\ c * m <= s /\ s < c * m + m
  BY <1>1, <1>2, DivBounds
<1> HIDE DEF c
<1>4. c * m \in Int /\ s + 1 <= c * m + m
  BY <1>1, <1>2, <1>3
<1>5. (c * m) * Second <= s * Second /\ (s + 1) * Second <= (c * m + m) * Second
  BY <1>1, <1>2, <1>3, <1>4, MulMono
<1>6. /\ (c * m) * Second = c * (Second * m)
      /\ (c * m + m) * Second = c * (Second * m) + Second * m
      /\ (s + 1) * Second = s * Second + Second
      /\ c * (Second * m) \in Int /\ Second * m \in Int /\ s * Second \in Int
  BY <1>1, <1>2, <1>3, <1>4
<1>7. c * (Second * m) <= t /\ t < c * (Second * m) + Second * m
  BY <1>1, <1>2, <1>5, <1>6
<1> QED BY <1>3, <1>7 DEF Counter, Step, c, m, s

\* A counter is the only number of steps with that property.
LEMMA CounterIs ==
  ASSUME NEW P \in Nat, Second <= P, NEW t \in Int, NEW d \in Int,
         d * Step(P) <= t, t < d * Step(P) + Step(P)
  PROVE  Counter(t, P) = d
<1> DEFINE c == Counter(t, P)
           S == Step(P)
<1>1. c \in Int /\ c * S <= t /\ t < c * S + S /\ S \in Nat \ {0} /\ c * S \in Int
  BY CounterBounds, StepBounds
<1>2. d * S <= t /\ t < d * S + S /\ d * S \in Int
  BY <1>1
<1> HIDE DEF c, S
<1>3. ASSUME c < d PROVE FALSE
  <2>1. (c + 1) * S <= d * S
    BY <1>1, <1>3, MulMono
  <2>2. (c + 1) * S = c * S + S
    BY <1>1
  <2> QED BY <1>1, <1>2, <2>1, <2>2
<1>4. ASSUME d < c PROVE FALSE
  <2>1. (d + 1) * S <= c * S
    BY <1>1, <1>4, MulMono
  <2>2. (d + 1) * S = d * S + S
    BY <1>1
  <2> QED BY <1>1, <1>2, <2>1, <2>2
<1>5. c = d
  BY <1>1, <1>3, <1>4
<1> QED BY <1>5 DEF c
-----------------------------------------------------------------------------
(* The options.                                                            *)

\* What Register serves is what it made of the options it was called with.
Started == \E o \in Given : Accepts(o) /\ options = Normalized(o)

\* The period fits in the window; a step fits in the period.
LEMMA PeriodFits ==
  ASSUME Started, HasTOTP
  PROVE  /\ Period \in Nat /\ Second <= Period /\ MaxDelay \in Nat
         /\ 3 * Period + MaxDelay <= Window[secondFactor]
<1>1. PICK o \in Given : Accepts(o) /\ options = Normalized(o)
  BY DEF Started
<1>2. "period" \in Numbers /\ Applies("period", options)
  BY DEF Applies, Numbers, FeatureOf, HasTOTP
<1>3. /\ Period \in Bounds["period"].least .. Bounds["period"].most
      /\ Bounds["period"].least \in Nat \ {0} /\ Bounds["period"].most \in Nat
  BY <1>1, <1>2, RangeAssumption DEF Accepts, InRange, Period
<1> QED BY <1>3, SecondAssumption, GuardAssumption, LimiterAssumption

\* A default does not need a default, and what the ranges say reaches every
\* module that is given the options.
LEMMA OptionsFit ==
  ASSUME Started
  PROVE  StartedFits
<1>1. PICK o \in Given : Accepts(o) /\ options = Normalized(o)
  BY DEF Started
<1>2. DOMAIN o = OptionFields /\ DOMAIN options = OptionFields
  BY <1>1, GuardAssumption DEF Normalized
<1>3. Complete(options) /\ InRange(options)
  BY <1>1 DEF Accepts
<1>4. ASSUME NEW n \in Numbers, Applies(n, options)
      PROVE  /\ options[n] \in Bounds[n].least .. Bounds[n].most
             /\ Bounds[n].least \in Nat \ {0} /\ Bounds[n].most \in Nat
  BY <1>3, <1>4, RangeAssumption DEF InRange
<1>5. Normalized(options) = options
  <2>1. ASSUME NEW f \in OptionFields PROVE Default(f, options) = options[f]
    <3>1. ~(f = "basePath" /\ options[f] = "")
      BY <1>3 DEF Complete
    <3>2. ~(f = "digits" /\ options[f] = 0 /\ "totp" \in options.features)
      BY <1>3 DEF Complete
    <3>3. ~(f \in Numbers /\ options[f] = 0 /\ Applies(f, options))
      BY <1>4
    <3> QED BY <3>1, <3>2, <3>3, Zenon DEF Default
  <2>2. options = [f \in OptionFields |-> options[f]]
    BY <1>1, <1>2 DEF Normalized
  <2> QED BY <1>2, <2>1, <2>2 DEF Normalized
<1>6. /\ "sessionLifetime" \in Numbers /\ Applies("sessionLifetime", options)
      /\ "codeLifetime" \in Numbers /\ "maxAttempts" \in Numbers
      /\ "codes" \in options.features =>
            Applies("codeLifetime", options) /\ Applies("maxAttempts", options)
  BY DEF Applies, Numbers, FeatureOf
<1>7. options.sessionLifetime > 0
  BY <1>4, <1>6
<1>8. "codes" \in options.features => options.codeLifetime > 0 /\ options.maxAttempts > 0
  BY <1>4, <1>6
<1>9. HasTOTP => Seconds(Period) > 0 /\ 3 * Period + MaxDelay <= Window[secondFactor]
  BY PeriodFits, StepBounds
<1>10. options.features \cap LoginMethods # {}
  BY <1>3 DEF Complete
<1>11. Accepts(options)
  BY <1>3, <1>5 DEF Accepts
<1> QED BY <1>5, <1>7, <1>8, <1>9, <1>10, <1>11 DEF StartedFits

-----------------------------------------------------------------------------
(* Guesses at a code.                                                      *)

\* A code has been accepted since its step was a period away; the guesses
\* compared with it were admitted at most MaxDelay before that.  So were the
\* calls that wait, which may be compared with it as well.
GuessesRecent ==
    /\ DOMAIN tried = Distances /\ waiting \in Nat
    /\ \A d \in Distances : tried[d] \in 0 .. 2 * Limit[secondFactor]
    /\ Latest(waiting, MaxDelay)
    /\ ~HasTOTP => waiting = 0 /\ \A d \in Distances : tried[d] = 0
    /\ HasTOTP => /\ phase \in 0 .. Step(Period) - 1
                  /\ \A d \in Distances : tried[d] > 0 =>
                        Latest(tried[d] + waiting, phase - d * Step(Period) + Period + MaxDelay)

GuardInv == LimiterInv /\ Started /\ GuessesRecent

\* A code that is accepted is less than a period from its step.
LEMMA AcceptedNear ==
  ASSUME NEW P \in Nat, Second <= P, NEW t \in Nat, NEW d \in Accepted(t, P)
  PROVE  d \in Int /\ d * Step(P) <= t + P /\ t - P < d * Step(P) + Step(P)
<1>1. PICK k \in -1 .. 1 : d = Counter(t + k * P, P)
  BY DEF Accepted
<1>2. k * P \in Int /\ -P <= k * P /\ k * P <= P
  BY MulMono
<1>3. t + k * P \in Int
  BY <1>2
<1>4. d \in Int /\ d * Step(P) <= t + k * P /\ t + k * P < d * Step(P) + Step(P)
  BY <1>1, <1>3, CounterBounds
<1>5. Step(P) \in Nat /\ d * Step(P) \in Int
  BY <1>4, StepBounds
<1> QED BY <1>2, <1>4, <1>5

\* Sums that change on one side or on both.
LEMMA Cancel ==
  ASSUME NEW n \in Nat, NEW a \in Nat, NEW b \in Nat
  PROVE  a + (b - a) = b /\ (n + a) + (b - a) = n + b /\ 0 + a = a
  OBVIOUS

LEMMA OneLess ==
  ASSUME NEW n \in Nat, NEW a \in Nat, NEW b \in Nat, b + 1 = a
  PROVE  /\ \A i \in Nat : i <= n + b => i <= n + a
         /\ n + 1 <= n + a
  OBVIOUS

LEMMA OneMoved ==
  ASSUME NEW n \in Nat, NEW b \in Nat
  PROVE  (n + 1) + b = n + (b + 1)
  OBVIOUS

\* At the start nothing was tried.
LEMMA GuardStart == GuardInit => GuardInv
<1> SUFFICES ASSUME GuardInit PROVE GuardInv
  OBVIOUS
<1>1. LimiterInv /\ Started
  BY LimiterInit DEF GuardInit, Started
<1>2. Limit[secondFactor] \in Nat
  BY LimiterAssumption, GuardAssumption
<1>3. Latest(0, MaxDelay)
  BY DEF Latest, Recent
<1> QED BY <1>1, <1>2, <1>3 DEF GuardInit, GuardInv, GuessesRecent

\* What is known of the numbers while the second factor is served.
LEMMA GuardNumbers ==
  ASSUME GuardInv
  PROVE  /\ secondFactor \in Keys /\ Limit[secondFactor] \in Nat \ {0} /\ MaxDelay \in Nat
         /\ Window[secondFactor] \in Nat
         /\ granted[secondFactor] \in [Recent(secondFactor) -> 0 .. Window[secondFactor]]
         /\ Recent(secondFactor) = 1 .. 2 * Limit[secondFactor] + 1
         /\ HasTOTP => /\ Period \in Nat /\ Second <= Period
                       /\ 3 * Period + MaxDelay <= Window[secondFactor]
                       /\ Step(Period) \in Nat \ {0} /\ Step(Period) <= Period
                       /\ phase \in 0 .. Step(Period) - 1 /\ phase \in Nat
<1>1. /\ secondFactor \in Keys /\ Limit[secondFactor] \in Nat \ {0} /\ MaxDelay \in Nat
      /\ Window[secondFactor] \in Nat
  BY GuardAssumption, LimiterAssumption
<1>2. granted[secondFactor] \in [Recent(secondFactor) -> 0 .. Window[secondFactor]]
  BY <1>1 DEF GuardInv, LimiterInv, TypeOK
<1>3. Recent(secondFactor) = 1 .. 2 * Limit[secondFactor] + 1
  BY DEF Recent
<1>4. ASSUME HasTOTP
      PROVE  /\ Period \in Nat /\ Second <= Period
             /\ 3 * Period + MaxDelay <= Window[secondFactor]
             /\ Step(Period) \in Nat \ {0} /\ Step(Period) <= Period
             /\ phase \in 0 .. Step(Period) - 1 /\ phase \in Nat
  BY <1>4, PeriodFits, StepBounds DEF GuardInv, GuessesRecent
<1> QED BY <1>1, <1>2, <1>3, <1>4

\* An admitted call of the second factor's key is one more of the latest; any
\* other call leaves those there are no older than they were.
LEMMA CallAges ==
  ASSUME GuardInv, NEW k \in Keys, Allow(k), NEW n \in Nat, NEW age \in Nat, Latest(n, age)
  PROVE  /\ Latest(n, age)'
         /\ k = secondFactor /\ Allowed(k) => Latest(n + 1, age)'
<1> USE GuardNumbers
<1>1. CASE k = secondFactor /\ Allowed(k)
  <2>1. ASSUME NEW i \in Recent(secondFactor), i <= n + 1
        PROVE  granted'[secondFactor][i] <= age
    <3>1. granted'[secondFactor][i] = IF i = 1 THEN 0 ELSE granted[secondFactor][i - 1]
      BY <1>1 DEF Allow, GuardInv, LimiterInv, TypeOK
    <3>2. CASE i = 1
      BY <3>1, <3>2
    <3>3. CASE i # 1
      <4>1. i - 1 \in Recent(secondFactor) /\ i - 1 <= n
        BY <2>1, <3>3
      <4> QED BY <3>1, <3>3, <4>1 DEF Latest
    <3> QED BY <3>2, <3>3
  <2> QED BY <2>1 DEF Latest, Recent
<1>2. CASE ~(k = secondFactor /\ Allowed(k))
  <2>1. granted'[secondFactor] = granted[secondFactor]
    BY <1>2 DEF Allow, GuardInv, LimiterInv, TypeOK
  <2> QED BY <1>2, <2>1 DEF Latest, Recent
<1> QED BY <1>1, <1>2

\* The time since the first call that was, or could be, compared with a code.
LEMMA Since ==
  ASSUME GuardInv, HasTOTP, NEW d \in Distances
  PROVE  /\ phase - d * Step(Period) + Period + MaxDelay \in Int
         /\ tried[d] \in Nat /\ waiting \in Nat
         /\ tried[d] > 0 => phase - d * Step(Period) + Period + MaxDelay \in Nat
<1> DEFINE b == phase - d * Step(Period) + Period + MaxDelay
<1>1. b \in Int
  BY GuardNumbers DEF Distances
<1>2. tried[d] \in Nat /\ waiting \in Nat
  BY GuardNumbers DEF GuardInv, GuessesRecent
<1>3. tried[d] > 0 => Latest(tried[d] + waiting, b)
  BY DEF GuardInv, GuessesRecent
<1> HIDE DEF b
<1>4. tried[d] > 0 => granted[secondFactor][1] <= b /\ granted[secondFactor][1] \in Nat
  <2>1. 1 \in Recent(secondFactor) /\ granted[secondFactor][1] \in 0 .. Window[secondFactor]
    <3>1. 1 \in 1 .. 2 * Limit[secondFactor] + 1
      BY LimiterAssumption, GuardAssumption
    <3> QED BY <3>1, GuardNumbers
  <2>2. tried[d] > 0 => 1 <= tried[d] + waiting
    BY <1>2
  <2> QED BY <1>3, <2>1, <2>2 DEF Latest
<1> QED BY <1>1, <1>2, <1>4 DEF b

\* A call of the limiter, whoever makes it.
LEMMA CallKeeps ==
  ASSUME GuardInv, NEW k \in Keys, Allow(k), UNCHANGED <<options, phase, tried>>,
         \/ waiting' = waiting
         \/ HasTOTP /\ k = secondFactor /\ Allowed(k) /\ waiting' = waiting + 1
  PROVE  GuardInv'
<1>1. LimiterInv' /\ Started' /\ HasTOTP' = HasTOTP /\ Period' = Period
  BY AllowKeeps DEF GuardInv, Started, HasTOTP, Period
<1>2. waiting \in Nat /\ waiting' \in Nat
  BY DEF GuardInv, GuessesRecent
<1>3. ASSUME NEW n \in Nat, NEW age \in Nat, Latest(n, age)
      PROVE  \A i \in Recent(secondFactor) :
                i <= n + (waiting' - waiting) => granted'[secondFactor][i] <= age
  <2>1. CASE waiting' = waiting
    <3>1. n + (waiting' - waiting) = n
      BY <1>2, <2>1
    <3> QED BY <1>3, <3>1, CallAges DEF Latest, Recent
  <2>2. CASE k = secondFactor /\ Allowed(k) /\ waiting' = waiting + 1
    <3>1. n + (waiting' - waiting) = n + 1
      BY <1>2, <2>2
    <3> QED BY <1>3, <2>2, <3>1, CallAges DEF Latest, Recent
  <2> QED BY <2>1, <2>2
<1>4. Latest(waiting, MaxDelay)'
  <2>1. Latest(waiting, MaxDelay)
    BY DEF GuardInv, GuessesRecent
  <2>2. \A i \in Recent(secondFactor) :
           i <= waiting + (waiting' - waiting) => granted'[secondFactor][i] <= MaxDelay
    BY <1>2, <1>3, <2>1, GuardNumbers
  <2>3. waiting + (waiting' - waiting) = waiting'
    BY <1>2, Cancel
  <2> QED BY <2>2, <2>3 DEF Latest, Recent
<1>5. ASSUME HasTOTP, NEW d \in Distances, tried[d] > 0
      PROVE  \A i \in Recent(secondFactor) : i <= tried[d] + waiting' =>
                granted'[secondFactor][i] <= phase - d * Step(Period) + Period + MaxDelay
  <2> DEFINE b == phase - d * Step(Period) + Period + MaxDelay
  <2>1. Latest(tried[d] + waiting, b) /\ b \in Nat /\ tried[d] \in Nat
    BY <1>5, Since DEF GuardInv, GuessesRecent
  <2> HIDE DEF b
  <2>2. \A i \in Recent(secondFactor) :
           i <= (tried[d] + waiting) + (waiting' - waiting) => granted'[secondFactor][i] <= b
    BY <1>2, <1>3, <2>1
  <2>3. (tried[d] + waiting) + (waiting' - waiting) = tried[d] + waiting'
    BY <1>2, <2>1, Cancel
  <2> QED BY <2>2, <2>3 DEF b
<1> QED BY <1>1, <1>2, <1>4, <1>5 DEF GuardInv, GuessesRecent, Latest, Recent

\* A comparison makes one of the calls that wait one of those compared.  One
\* too many would be the first of more than twice the limit, admitted in less
\* than three periods and the delay, which fit in a window.
LEMMA CompareKeeps ==
  ASSUME GuardInv, Compare
  PROVE  GuardInv'
<1>1. LimiterInv' /\ Started' /\ HasTOTP' = HasTOTP /\ Period' = Period
  BY DEF GuardInv, Compare, vars, Started, HasTOTP, Period, LimiterInv, TypeOK, Windows, Let
<1>2. HasTOTP /\ waiting \in Nat /\ waiting' \in Nat /\ waiting' + 1 = waiting
  BY DEF Compare, GuardInv, GuessesRecent
<1>3. UNCHANGED <<granted, phase>>
  BY DEF Compare, vars
<1>7. \A i \in Recent(secondFactor), n \in Nat : i <= n + waiting' => i <= n + waiting
  <2>1. \A i \in Recent(secondFactor) : i \in Nat
    BY GuardNumbers
  <2> QED BY <1>2, <2>1, OneLess
<1>4. Latest(waiting, MaxDelay)'
  <2>1. Latest(waiting, MaxDelay)
    BY DEF GuardInv, GuessesRecent
  <2>2. 0 + waiting' = waiting' /\ 0 + waiting = waiting
    BY <1>2, Cancel
  <2> QED BY <1>3, <1>7, <2>1, <2>2 DEF Latest, Recent
<1>5. ASSUME NEW d \in Distances
      PROVE  /\ tried'[d] \in 0 .. 2 * Limit[secondFactor]
             /\ tried'[d] > 0 => \A i \in Recent(secondFactor) : i <= tried'[d] + waiting' =>
                   granted[secondFactor][i] <= phase - d * Step(Period) + Period + MaxDelay
  <2> DEFINE b == phase - d * Step(Period) + Period + MaxDelay
  <2>1. /\ tried[d] \in 0 .. 2 * Limit[secondFactor]
        /\ tried[d] > 0 => Latest(tried[d] + waiting, b)
        /\ b \in Int /\ tried[d] \in Nat
    BY <1>2, Since DEF GuardInv, GuessesRecent
  <2>4. tried[d] \in Nat
    BY <2>1
  <2>2. CASE tried'[d] = tried[d]
    <3> HIDE DEF b
    <3>2. tried[d] > 0 => \A i \in Recent(secondFactor) : i <= tried[d] + waiting' =>
             granted[secondFactor][i] <= b
      BY <1>7, <2>1 DEF Latest
    <3> QED BY <2>1, <2>2, <3>2 DEF b
  <2>3. CASE tried'[d] = tried[d] + 1 /\ d \in Accepted(phase, Period)
    <3>1. d * Step(Period) <= phase + Period /\ phase - Period < d * Step(Period) + Step(Period)
      BY <1>2, <2>3, AcceptedNear, GuardNumbers
    <3>2. d * Step(Period) \in Int
      BY <1>2, GuardNumbers DEF Distances
    <3>3. MaxDelay <= b /\ b < 3 * Period + MaxDelay
      <4>1. /\ Period \in Nat /\ Step(Period) \in Nat /\ Step(Period) <= Period
            /\ phase \in Nat /\ MaxDelay \in Nat
        BY <1>2, GuardNumbers
      <4> QED BY <3>1, <3>2, <4>1
    <3> HIDE DEF b
    <3>4. Latest(tried[d] + waiting, b)
      <4>1. CASE tried[d] = 0
        <5>1. Latest(waiting, MaxDelay)
          BY DEF GuardInv, GuessesRecent
        <5>2. ASSUME NEW i \in Recent(secondFactor), i <= waiting PROVE granted[secondFactor][i] <= b
          <6>1. granted[secondFactor][i] <= MaxDelay /\ granted[secondFactor][i] \in Nat
            BY <5>1, <5>2, GuardNumbers DEF Latest
          <6> QED BY <2>1, <3>3, <6>1, GuardNumbers
        <5>3. tried[d] + waiting = waiting
          BY <1>2, <4>1
        <5> QED BY <5>2, <5>3 DEF Latest
      <4> QED BY <2>1, <4>1
    <3>5. tried[d] # 2 * Limit[secondFactor]
      <4>1. SUFFICES ASSUME tried[d] = 2 * Limit[secondFactor] PROVE FALSE
        OBVIOUS
      <4>2. 2 * Limit[secondFactor] + 1 \in Recent(secondFactor)
        BY GuardNumbers
      <4>3. 2 * Limit[secondFactor] + 1 <= tried[d] + waiting
        BY <1>2, <2>4, <4>1, OneLess
      <4>4. granted[secondFactor][2 * Limit[secondFactor] + 1] <= b
        BY <3>4, <4>2, <4>3 DEF Latest
      <4>5. granted[secondFactor][2 * Limit[secondFactor] + 1] >= Window[secondFactor]
        BY LimiterShows, GuardNumbers DEF GuardInv, TwiceLimit
      <4>6. granted[secondFactor][2 * Limit[secondFactor] + 1] \in Nat
        BY <4>2, GuardNumbers
      <4>7. b < Window[secondFactor]
        BY <1>2, <2>1, <3>3, GuardNumbers
      <4> QED BY <2>1, <4>4, <4>5, <4>6, <4>7, GuardNumbers
    <3>6. tried'[d] + waiting' = tried[d] + waiting
      <4>1. (tried[d] + 1) + waiting' = tried[d] + (waiting' + 1)
        BY <1>2, <2>4, OneMoved
      <4> QED BY <1>2, <2>3, <4>1
    <3>7. \A i \in Recent(secondFactor) : i <= tried'[d] + waiting' => granted[secondFactor][i] <= b
      BY <3>4, <3>6 DEF Latest
    <3> QED BY <2>1, <2>3, <3>5, <3>7, GuardNumbers DEF b
  <2> QED BY <2>2, <2>3 DEF Compare, GuardInv, GuessesRecent
<1>6. DOMAIN tried' = Distances
  BY DEF Compare, GuardInv, GuessesRecent
<1> QED BY <1>1, <1>2, <1>3, <1>4, <1>5, <1>6, GuardNumbers
        DEF GuardInv, GuessesRecent, Latest, Recent

\* With a tick every age grows by one, and so does the time since a code was
\* first accepted, also where the codes move on.
LEMMA PassKeeps ==
  ASSUME GuardInv, Pass
  PROVE  GuardInv'
<1>1. LimiterInv' /\ Tick /\ Started' /\ HasTOTP' = HasTOTP /\ Period' = Period
  BY TickKeeps DEF GuardInv, Pass, Started, HasTOTP, Period
<1>2. waiting' = waiting /\ waiting \in Nat
  BY DEF Pass, GuardInv, GuessesRecent
<1>3. ASSUME NEW n \in Nat, NEW age \in Int, Latest(n, age)
      PROVE  \A i \in Recent(secondFactor) : i <= n => granted'[secondFactor][i] <= age + 1
  <2> SUFFICES ASSUME NEW i \in Recent(secondFactor), i <= n
               PROVE  granted'[secondFactor][i] <= age + 1
    OBVIOUS
  <2>1. granted[secondFactor][i] \in 0 .. Window[secondFactor] /\ granted[secondFactor][i] <= age
    BY <1>3, GuardNumbers DEF Latest
  <2>2. granted'[secondFactor][i] =
          IF granted[secondFactor][i] < Window[secondFactor]
          THEN granted[secondFactor][i] + 1 ELSE Window[secondFactor]
    BY <1>1, GuardNumbers DEF Tick
  <2> QED BY <2>1, <2>2, GuardNumbers
<1>4. Latest(waiting, MaxDelay)'
  <2>1. Latest(waiting, MaxDelay - 1) /\ MaxDelay - 1 \in Int /\ (MaxDelay - 1) + 1 = MaxDelay
    BY GuardNumbers DEF Pass
  <2>2. \A i \in Recent(secondFactor) :
           i <= waiting => granted'[secondFactor][i] <= (MaxDelay - 1) + 1
    BY <1>2, <1>3, <2>1
  <2> QED BY <1>2, <2>1, <2>2 DEF Latest, Recent
<1>5. CASE ~HasTOTP
  <2>1. tried' = tried
    BY <1>5 DEF Pass
  <2> QED BY <1>1, <1>2, <1>4, <1>5, <2>1 DEF GuardInv, GuessesRecent
<1>6. CASE HasTOTP
  <2>1. ASSUME NEW d \in Distances, tried[d] > 0
        PROVE  \A i \in Recent(secondFactor) : i <= tried[d] + waiting =>
                 granted'[secondFactor][i] <= phase - d * Step(Period) + Period + MaxDelay + 1
    <3> DEFINE b == phase - d * Step(Period) + Period + MaxDelay
    <3>1. Latest(tried[d] + waiting, b) /\ b \in Int /\ tried[d] + waiting \in Nat
      BY <1>6, <2>1, Since DEF GuardInv, GuessesRecent
    <3> HIDE DEF b
    <3>2. \A i \in Recent(secondFactor) : i <= tried[d] + waiting => granted'[secondFactor][i] <= b + 1
      BY <1>3, <3>1
    <3> QED BY <3>2 DEF b
  <2>2. \A d \in Distances : tried[d] \in 0 .. 2 * Limit[secondFactor]
    BY DEF GuardInv, GuessesRecent
  <2>3. CASE phase + 1 = Step(Period)
    <3>1. phase' = 0 /\ tried' = [d \in Distances |-> IF d = 2 THEN 0 ELSE tried[d + 1]]
      BY <1>6, <2>3 DEF Pass
    <3>2. ASSUME NEW d \in Distances
          PROVE  /\ tried'[d] \in 0 .. 2 * Limit[secondFactor]
                 /\ tried'[d] > 0 => \A i \in Recent(secondFactor) : i <= tried'[d] + waiting =>
                      granted'[secondFactor][i] <= 0 - d * Step(Period) + Period + MaxDelay
      <4>1. CASE d = 2
        BY <3>1, <4>1, GuardNumbers
      <4>2. CASE d # 2
        <5>1. d + 1 \in Distances /\ tried'[d] = tried[d + 1]
          BY <3>1, <4>2 DEF Distances
        <5>2. phase - (d + 1) * Step(Period) + Period + MaxDelay + 1
                = 0 - d * Step(Period) + Period + MaxDelay
          <6>1. phase \in Nat /\ Step(Period) \in Nat /\ Period \in Nat /\ MaxDelay \in Nat
            BY <1>6, GuardNumbers
          <6> QED BY <2>3, <6>1 DEF Distances
        <5> QED BY <2>1, <2>2, <5>1, <5>2
      <4> QED BY <4>1, <4>2
    <3>3. phase' \in 0 .. Step(Period) - 1 /\ DOMAIN tried' = Distances
      BY <1>6, <3>1, GuardNumbers
    <3> QED BY <1>1, <1>2, <1>4, <1>6, <3>1, <3>2, <3>3 DEF GuardInv, GuessesRecent, Latest, Recent
  <2>4. CASE phase + 1 # Step(Period)
    <3>1. phase' = phase + 1 /\ tried' = tried
      BY <1>6, <2>4 DEF Pass
    <3>2. phase' \in 0 .. Step(Period) - 1
      BY <1>6, <2>4, <3>1, GuardNumbers
    <3>3. \A d \in Distances :
            phase - d * Step(Period) + Period + MaxDelay + 1
              = phase' - d * Step(Period) + Period + MaxDelay
      BY <1>6, <3>1, GuardNumbers DEF Distances
    <3>4. DOMAIN tried = Distances
      BY DEF GuardInv, GuessesRecent
    <3> QED BY <1>1, <1>2, <1>4, <1>6, <2>1, <2>2, <3>1, <3>2, <3>3, <3>4
            DEF GuardInv, GuessesRecent, Latest, Recent
  <2> QED BY <2>3, <2>4
<1> QED BY <1>5, <1>6

LEMMA GuardKept == GuardInv /\ [GuardNext]_guardVars => GuardInv'
<1>1. GuardInv /\ UNCHANGED guardVars => GuardInv'
  <2> SUFFICES ASSUME GuardInv, UNCHANGED guardVars PROVE GuardInv'
    OBVIOUS
  <2>1. LimiterInv'
    BY LimiterKept DEF guardVars, GuardInv
  <2> QED BY <2>1 DEF guardVars, vars, GuardInv, Started, GuessesRecent, HasTOTP, Period, Latest, Recent
<1>2. GuardInv /\ Admit => GuardInv'
  BY CallKeeps, GuardAssumption DEF Admit
<1>3. ASSUME GuardInv, NEW k \in Keys, OtherCall(k) PROVE GuardInv'
  BY <1>3, CallKeeps DEF OtherCall
<1> QED BY <1>1, <1>2, <1>3, CompareKeeps, PassKeeps DEF GuardNext

\* No more than twice the limit of guesses from one address are compared with
\* one TOTP code, for every limit, every period that Register accepts and
\* every delay on the way that the window leaves room for.
THEOREM GuessesBounded == GuardSpec => []GuessesPerCode
<1>1. GuardInv => GuessesPerCode
  <2> SUFFICES ASSUME GuardInv, NEW d \in Distances PROVE tried[d] <= 2 * Limit[secondFactor]
    BY DEF GuessesPerCode
  <2>1. tried[d] \in 0 .. 2 * Limit[secondFactor]
    BY DEF GuardInv, GuessesRecent
  <2> QED BY <2>1, LimiterAssumption, GuardAssumption
<1> QED BY <1>1, GuardStart, GuardKept, PTL DEF GuardSpec

\* The limiter keeps its promise under the second factor too, and what
\* Register accepts fits what the other modules assume of it.
THEOREM ConfigurationFits == GuardSpec => [](TypeOK /\ WithinWindow /\ TwiceLimit /\ StartedFits)
<1>1. GuardInv => TypeOK /\ WithinWindow /\ TwiceLimit /\ StartedFits
  BY LimiterShows, OptionsFit DEF GuardInv, LimiterInv
<1> QED BY <1>1, GuardStart, GuardKept, PTL DEF GuardSpec
\* Each period before and after the present has its own code.
LEMMA NeighboursAccepted ==
  ASSUME GuardInv, HasTOTP
  PROVE  PresentAccepted /\ ClockTolerated
<1> DEFINE S == Step(Period)
<1>1. /\ Period \in Nat /\ Second <= Period /\ S \in Nat \ {0} /\ S <= Period
      /\ Period < S + Second /\ Second <= S /\ phase \in 0 .. S - 1 /\ Second \in Nat
      /\ Period % Second = 0 => S = Period
  BY PeriodFits, StepBounds, SecondAssumption DEF GuardInv, GuessesRecent
<1>2. ASSUME NEW d \in Int, NEW t \in Int, d * S <= t, t < d * S + S
      PROVE  Counter(t, Period) = d
  BY <1>1, <1>2, CounterIs
<1>3. ASSUME NEW d \in Accepted(phase, Period) PROVE d \in Distances
  <2>1. d \in Int /\ d * S <= phase + Period /\ phase - Period < d * S + S
    BY <1>1, AcceptedNear
  <2> HIDE DEF S
  <2>2. d * S \in Int
    BY <1>1, <2>1
  <2>3. d * S < 3 * S /\ (-3) * S < d * S
    BY <1>1, <2>1, <2>2
  <2>4. ~(3 <= d) /\ ~(d <= -3)
    BY <1>1, <2>1, <2>2, <2>3, MulMono
  <2> QED BY <2>1, <2>4 DEF Distances
<1>4. 0 \in Accepted(phase, Period)
  <2>1. 0 * S = 0 /\ phase \in Int /\ phase + 0 * Period = phase
    BY <1>1
  <2>2. Counter(phase + 0 * Period, Period) = 0
    BY <1>1, <1>2, <2>1
  <2> QED BY <2>2 DEF Accepted
<1>5. ASSUME Period % Second = 0, NEW drift \in -Period .. Period
      PROVE  Counter(phase + drift, Period) \in Accepted(phase, Period)
  <2>1. S = Period
    BY <1>1, <1>5
  <2> HIDE DEF S
  <2>2. \A k \in -1 .. 1 : k * S \in Int /\ k * Period = k * S
    BY <1>1, <2>1
  <2>3. \A k \in -1 .. 1 : Counter(phase + k * Period, Period) = k
    <3> TAKE k \in -1 .. 1
    <3>1. phase + k * Period \in Int /\ k * S <= phase + k * Period
          /\ phase + k * Period < k * S + S
      BY <1>1, <2>2
    <3> QED BY <1>2, <3>1
  <2>4. PICK k \in -1 .. 1 : k * S <= phase + drift /\ phase + drift < k * S + S
    <3>1. CASE phase + drift < 0
      BY <1>1, <2>1, <3>1
    <3>2. CASE phase + drift >= 0 /\ phase + drift < S
      BY <1>1, <2>1, <3>2
    <3>3. CASE phase + drift >= S
      BY <1>1, <2>1, <3>3
    <3> QED BY <1>1, <2>1, <3>1, <3>2, <3>3
  <2>5. Counter(phase + drift, Period) = k
    BY <1>1, <1>2, <2>4
  <2> QED BY <2>3, <2>5 DEF Accepted
<1> QED BY <1>3, <1>4, <1>5 DEF PresentAccepted, ClockTolerated

\* An authenticator whose clock is a period off is still served when the
\* period is of whole seconds, and the code of the present always is, for
\* every period that Register accepts.
THEOREM ClocksTolerated == GuardSpec => [](ClockTolerated /\ PresentAccepted)
<1>1. GuardInv => ClockTolerated /\ PresentAccepted
  BY NeighboursAccepted DEF ClockTolerated, PresentAccepted
<1> QED BY <1>1, GuardStart, GuardKept, PTL DEF GuardSpec

-----------------------------------------------------------------------------
(* Stored hashes.                                                          *)

\* The stored hash is one of the password the account was given, made with
\* some parameters and perhaps not well formed; the hasher's are allowed.
HashInv ==
    /\ hasher \in Params /\ ValidParams(hasher)
    /\ password \in Clear
    /\ \E p \in Params, f \in BOOLEAN :
          stored = [wellFormed |-> f, params |-> p, key |-> Key(password, p)]

LEMMA HashParts ==
  ASSUME NEW c, NEW p, NEW f
  PROVE  LET e == [wellFormed |-> f, params |-> p, key |-> Key(c, p)]
         IN  e.wellFormed = f /\ e.params = p /\ e.key.clear = c /\ e.key.params = p
  BY DEF Key

\* Numbers that are in their ranges read back as they were written; those
\* that are not may read as others, but then the key is of others.
LEMMA ReadBack ==
  ASSUME NEW p \in Params, NEW e, e.params = p
  PROVE  /\ Fields(e) \in Params
         /\ ValidParams(p) => Fields(e) = p
         /\ Fields(e) = p => (ValidParams(Fields(e)) <=> ValidParams(p))
<1>1. p.parallelism \in Nat /\ p.parallelism % 256 \in Nat
  BY DEF Params
<1>2. Fields(e) = [p EXCEPT !.parallelism = p.parallelism % 256]
  BY DEF Fields
<1>3. Fields(e) \in Params
  BY <1>1, <1>2 DEF Params
<1>4. ValidParams(p) => p.parallelism % 256 = p.parallelism
  <2>1. \A n \in 1 .. 32 : n % 256 = n
    OBVIOUS
  <2> QED BY <2>1 DEF ValidParams
<1>5. ValidParams(p) => Fields(e) = p
  BY <1>2, <1>4 DEF Params
<1> QED BY <1>3, <1>5

LEMMA InvVerifies ==
  ASSUME HashInv
  PROVE  VerifiesOwner
<1>1. PICK p \in Params, f \in BOOLEAN :
         stored = [wellFormed |-> f, params |-> p, key |-> Key(password, p)]
  BY DEF HashInv
<1>2. stored.wellFormed = f /\ stored.params = p /\ stored.key = Key(password, p)
  BY <1>1
<1>3. ASSUME NEW c \in Clear
      PROVE  Key(c, Fields(stored)) = stored.key <=> c = password /\ Fields(stored) = p
  <2>1. Key(c, Fields(stored)).clear = c /\ Key(c, Fields(stored)).params = Fields(stored)
    BY DEF Key
  <2>2. Key(password, p).clear = password /\ Key(password, p).params = p
    BY DEF Key
  <2> QED BY <1>2, <2>1, <2>2
<1>4. /\ ValidParams(p) => Fields(stored) = p
      /\ Fields(stored) = p => (ValidParams(Fields(stored)) <=> ValidParams(p))
  BY <1>2, ReadBack
<1> QED BY <1>2, <1>3, <1>4 DEF VerifiesOwner, Verify, Readable

LEMMA HashStart == HashInit => HashInv
<1> SUFFICES ASSUME HashInit PROVE HashInv
  OBVIOUS
<1>1. hasher \in Params /\ ValidParams(hasher) /\ password \in Clear
  <2>1. hasher = DefaultArgon2idParams /\ password \in Clear
    BY DEF HashInit
  <2>2. DefaultArgon2idParams \in Params
    BY DEF DefaultArgon2idParams, Params
  <2>3. /\ DefaultArgon2idParams.memory = 64 * 1024 /\ DefaultArgon2idParams.iterations = 3
        /\ DefaultArgon2idParams.parallelism = 2 /\ DefaultArgon2idParams.saltLength = 16
        /\ DefaultArgon2idParams.keyLength = 32
    BY DEF DefaultArgon2idParams
  <2>4. ValidParams(DefaultArgon2idParams)
    BY <2>3 DEF ValidParams
  <2> QED BY <2>1, <2>2, <2>4
<1>2. CASE stored = Hash(password, hasher)
  BY <1>1, <1>2 DEF HashInv, Hash
<1>3. CASE stored \in Imported /\ stored.key.clear = password
  <2>1. PICK c \in Clear, f \in BOOLEAN :
           stored.params \in Params /\ stored = [Hash(c, stored.params) EXCEPT !.wellFormed = f]
    BY <1>3, HashAssumption
  <2>2. PICK p \in Params : p = stored.params
    BY <2>1
  <2>3. stored = [wellFormed |-> f, params |-> p, key |-> Key(c, p)]
    BY <2>1, <2>2 DEF Hash
  <2>4. c = password
    BY <1>3, <2>3 DEF Key
  <2> QED BY <1>1, <2>3, <2>4 DEF HashInv
<1> QED BY <1>2, <1>3 DEF HashInit

\* A hash that is written is of the password and for the hasher of the present.
LEMMA WrittenFresh ==
  ASSUME HashInv, NEW c, stored' = Hash(c, hasher), hasher' = hasher
  PROVE  ~NeedsRehash(stored)'
<1>1. stored' = [wellFormed |-> TRUE, params |-> hasher, key |-> Key(c, hasher)]
  BY DEF Hash
<1>2. stored'.wellFormed /\ stored'.params = hasher
  BY <1>1
<1>3. Fields(stored') = hasher
  BY <1>2, ReadBack DEF HashInv
<1> QED BY <1>2, <1>3 DEF HashInv, NeedsRehash, Readable

LEMMA HashKept ==
  ASSUME HashInv, [HashNext]_hashVars
  PROVE  HashInv' /\ (stored' # stored => ~NeedsRehash(stored)')
<1>1. CASE UNCHANGED hashVars
  BY <1>1 DEF hashVars, HashInv
<1>2. ASSUME NEW p \in Asked, Deploy(p)
      PROVE  HashInv' /\ stored' = stored
  BY <1>2, HashAssumption DEF HashInv, Deploy
<1>3. ASSUME NEW c \in Clear, Login(c)
      PROVE  HashInv' /\ (stored' # stored => ~NeedsRehash(stored)')
  <2>1. c = password
    BY <1>3, InvVerifies DEF Login, VerifiesOwner
  <2>2. hasher' = hasher /\ password' = password /\ stored' \in {stored, Hash(c, hasher)}
    BY <1>3 DEF Login
  <2>3. CASE stored' = stored
    BY <2>2, <2>3 DEF HashInv
  <2>4. CASE stored' = Hash(c, hasher)
    BY <2>1, <2>2, <2>4, WrittenFresh DEF HashInv, Hash
  <2> QED BY <2>2, <2>3, <2>4
<1>4. ASSUME NEW c \in Clear, Reset(c)
      PROVE  HashInv' /\ ~NeedsRehash(stored)'
  <2>1. hasher' = hasher /\ password' = c /\ stored' = Hash(c, hasher)
    BY <1>4 DEF Reset
  <2> QED BY <2>1, WrittenFresh DEF HashInv, Hash
<1> QED BY <1>1, <1>2, <1>3, <1>4 DEF HashNext

\* The account's password is accepted and no other, for all parameters, all
\* deployments and all imported hashes; and what a login or a reset writes is
\* not written again by the next login.
THEOREM HashesHold == HashSpec => []VerifiesOwner /\ UpgradeSettles
<1>1. HashInv => VerifiesOwner
  BY InvVerifies
<1>2. HashInv /\ [HashNext]_hashVars => HashInv'
  BY HashKept
<1>3. HashInv /\ [HashNext]_hashVars => [stored' # stored => ~NeedsRehash(stored)']_hashVars
  BY HashKept
<1> QED BY <1>1, <1>2, <1>3, HashStart, PTL DEF HashSpec, UpgradeSettles
=============================================================================
