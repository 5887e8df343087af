------------------------------- MODULE Options -------------------------------
(***************************************************************************)
(* normalizeOptions (options.go): what Register starts with.  A number     *)
(* that is left at zero gets its default, then every number has to be in   *)
(* its range; both only where the option it belongs to is enabled.         *)
(*                                                                         *)
(* A path, an origin, a name are good or not; defaults that are values of  *)
(* Go interfaces (hasher, limiter, challenge store) are left out.          *)
(***************************************************************************)
EXTENDS Naturals

CONSTANT Bounds  \* by number: [default, least, most]

LoginMethods == {"password", "passkeys", "codes"}

\* The numbers and the feature each belongs to; sessions are always there.
FeatureOf ==
    [sessionLifetime |-> "", minimumLength |-> "password", period |-> "totp",
     codeLifetime |-> "codes", maxAttempts |-> "codes"]
Numbers == DOMAIN FeatureOf

\* No range reaches down to zero, which stands for a number not given.
ASSUME RangeAssumption ==
    \A n \in Numbers :
        /\ Bounds[n].least \in Nat \ {0} /\ Bounds[n].most \in Nat
        /\ Bounds[n].default \in Bounds[n].least .. Bounds[n].most

\* The options a caller fills in.
OptionFields ==
    {"features", "store", "sessionStore", "secret", "basePath", "relyingParty",
     "issuer", "messenger", "digits"} \cup Numbers

Applies(n, o) == FeatureOf[n] \in o.features \cup {""}

Default(f, o) ==
    CASE f = "basePath" /\ o[f] = ""                        -> "clean"
      [] f = "digits" /\ o[f] = 0 /\ "totp" \in o.features  -> 6
      [] f \in Numbers /\ o[f] = 0 /\ Applies(f, o)         -> Bounds[f].default
      [] OTHER                                              -> o[f]

Normalized(o) == [f \in DOMAIN o |-> Default(f, o)]

\* What has to be given, and to be well formed.
Complete(o) ==
    /\ o.store /\ o.sessionStore /\ o.secret >= 32
    /\ o.features \cap LoginMethods # {}
    /\ o.basePath = "clean"
    /\ "passkeys" \in o.features => o.relyingParty
    /\ "totp" \in o.features => o.issuer /\ o.digits \in {6, 8}
    /\ "codes" \in o.features => o.messenger

\* Mutant: no upper bound.
InRange_Least(o) == \A n \in Numbers : Applies(n, o) => o[n] >= Bounds[n].least

InRange(o) ==
    \A n \in Numbers : Applies(n, o) => o[n] \in Bounds[n].least .. Bounds[n].most

Accepts(o) == Complete(Normalized(o)) /\ InRange(Normalized(o))
=============================================================================
