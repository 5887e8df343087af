\* Two enrolments of one user, each with its secret and its recovery code, beside
\* logins that use them; and requests behind every guard.
SPECIFICATION MCFairSpec
CONSTANTS
    None = None
    NoChallenge = None
    UserIDs = {u1, u2}
    Identifiers = {alice}
    WebAuthnIDs = {w1, w2}
    Passwords = {old}
    DummyPassword = old
    PasskeyIDs = {k1}
    Counts = {0}
    Secrets = {x1, x2}
    RecoveryCodes = {c1, c2}
    RecoverySetSize = 1
    CodeIDs = {d1}
    MaxAttempts = 3
    CodeLifetime = 1
    ChallengeIDs = {h1, h2}
    ChallengeLifetime = 1
    SessionIDs = {s1, s2}
    Times = {0, 1, 2}
    Requests = {r1, r2}
    Browsers = {b1}
    Features = {"password", "totp", "codes", "passkeys"}
    SessionLifetime = 1
    MaxNow = 0
    FaultsHappen = FALSE
    Mixes <- EnrolmentMixes
INVARIANTS
    ConfirmedHasRecovery
PROPERTIES
    RecoveryCodesAreTickets
    EveryRequestAnswered
