\* The plugin over the JSON store: up to two writes fail and the process is
\* started again once, at any point of two overlapping requests.
SPECIFICATION MCDurableSpec
CONSTANTS
    None = None
    NoChallenge = None
    UserIDs = {u1, u2}
    Identifiers = {alice, bob}
    WebAuthnIDs = {w1, w2}
    Passwords = {old, new}
    DummyPassword = old
    PasskeyIDs = {}
    Counts = {}
    Secrets = {x1}
    RecoveryCodes = {c1, c2}
    RecoverySetSize = 1
    CodeIDs = {d1}
    MaxAttempts = 3
    CodeLifetime = 1
    ChallengeIDs = {}
    ChallengeLifetime = 1
    SessionIDs = {s1, s2, s3}
    Times = {0, 1, 2}
    Requests = {r1, r2}
    Browsers = {b1}
    Features = {"password", "totp", "codes", "passkeys"}
    SessionLifetime = 1
    MaxNow = 1
    FaultsHappen = FALSE
    MaxFailures = 2
    MaxRestarts = 1
    Mixes <- DurableMixes
SYMMETRY Symmetry
INVARIANTS
    JsonTypeOK
    SameAccounts
    FileConsistent
    EndedForGood
    SentOnFile
PROPERTIES
    CodesSurviveAsTickets
    RecoveryCodesSurviveAsTickets
