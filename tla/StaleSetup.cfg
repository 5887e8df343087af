\* A setup that passed its gate overlaps the confirmation of an earlier setup.
SPECIFICATION MCSpec
CONSTANTS
    None = None
    NoChallenge = None
    UserIDs = {u1}
    Identifiers = {alice}
    WebAuthnIDs = {w1}
    Passwords = {old}
    DummyPassword = old
    PasskeyIDs = {}
    Counts = {}
    Secrets = {x1, x2}
    RecoveryCodes = {c1, c2}
    RecoverySetSize = 1
    CodeIDs = {}
    MaxAttempts = 3
    CodeLifetime = 1
    ChallengeIDs = {}
    ChallengeLifetime = 1
    SessionIDs = {s1, s2, s3}
    Times = {0, 1, 2}
    Requests = {r1, r2}
    Browsers = {b1}
    Features = {"password", "totp", "codes", "passkeys"}
    SessionLifetime = 1
    MaxNow = 0
    FaultsHappen = FALSE
    Mixes <- SetupMixes
PROPERTIES
    ConfirmedFactorKept
