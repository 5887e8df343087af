\* Two requests at a time, of up to two users of one browser: visits beside
\* what ends sessions, a reset racing logins, and passkey ceremonies.
SPECIFICATION MCSpec
CONSTANTS
    None = None
    NoChallenge = None
    UserIDs = {u1, u2}
    Identifiers = {alice, bob}
    WebAuthnIDs = {w1, w2}
    Passwords = {old, new}
    DummyPassword = old
    PasskeyIDs = {k1}
    Counts = {0}
    Secrets = {}
    RecoveryCodes = {}
    RecoverySetSize = 1
    CodeIDs = {c1}
    MaxAttempts = 3
    CodeLifetime = 1
    ChallengeIDs = {h1, h2}
    ChallengeLifetime = 1
    SessionIDs = {s1, s2, s3}
    Times = {0, 1, 2}
    Requests = {r1, r2}
    Browsers = {b1}
    Features = {"password", "totp", "codes", "passkeys"}
    SessionLifetime = 1
    MaxNow = 1
    FaultsHappen = FALSE
    Mixes <- SessionMixes
SYMMETRY Symmetry
INVARIANTS
    PresentedSessionEnds
    ResetEndsSessions
    CeremonyKeepsUser
PROPERTIES
    VisitServedLive
    ResetUndoneOnlyByEarlierLogin
