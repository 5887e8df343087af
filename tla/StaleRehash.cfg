\* The hash is out of date: the login that rehashes it and a reset overlap.
SPECIFICATION MCSpec
CONSTANTS
    None = None
    NoChallenge = None
    UserIDs = {u1}
    Identifiers = {alice}
    WebAuthnIDs = {w1}
    Passwords = {old, new}
    DummyPassword = old
    PasskeyIDs = {}
    Counts = {}
    Secrets = {}
    RecoveryCodes = {}
    RecoverySetSize = 1
    CodeIDs = {c1}
    MaxAttempts = 3
    CodeLifetime = 1
    ChallengeIDs = {}
    ChallengeLifetime = 1
    SessionIDs = {s1, s2, s3}
    Times = {0, 1, 2}
    Requests = {r1, r2}
    Browsers = {b1}
    Features = {"password", "totp", "codes", "passkeys"}
    SessionLifetime = 1
    MaxNow = 0
    FaultsHappen = FALSE
    Mixes <- RehashMixes
SYMMETRY Symmetry
INVARIANTS
    ResetReplacesPassword
