\* Two assertions of one passkey overlap, with counters 1 and 2.
SPECIFICATION MCSpec
CONSTANTS
    None = None
    NoChallenge = None
    UserIDs = {u1}
    Identifiers = {alice}
    WebAuthnIDs = {w1}
    Passwords = {old}
    DummyPassword = old
    PasskeyIDs = {k1}
    Counts = {0, 1, 2}
    Secrets = {}
    RecoveryCodes = {}
    RecoverySetSize = 1
    CodeIDs = {}
    MaxAttempts = 3
    CodeLifetime = 1
    ChallengeIDs = {h1, h2}
    ChallengeLifetime = 1
    SessionIDs = {s1, s2, s3}
    Times = {0, 1, 2}
    Requests = {r1, r2}
    Browsers = {b1}
    Features = {"password", "totp", "codes", "passkeys"}
    SessionLifetime = 1
    MaxNow = 0
    FaultsHappen = FALSE
    Mixes <- CounterMixes
PROPERTIES
    CounterNeverFalls
