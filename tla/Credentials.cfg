\* Two requests at a time that redeem what is good for one session, or ask for
\* one name, while store calls, cookies and the Messenger may fail.
SPECIFICATION MCSpec
CONSTANTS
    None = None
    NoChallenge = None
    UserIDs = {u1, u2, u3}
    Identifiers = {alice, bob}
    WebAuthnIDs = {w1, w2, w3}
    Passwords = {old, new}
    DummyPassword = old
    PasskeyIDs = {k1}
    Counts = {0, 1}
    Secrets = {x1, x2}
    RecoveryCodes = {c1}
    RecoverySetSize = 1
    CodeIDs = {d1}
    MaxAttempts = 3
    CodeLifetime = 1
    ChallengeIDs = {h1, h2}
    ChallengeLifetime = 1
    SessionIDs = {s1, s2, s3, s4}
    Times = {0, 1, 2}
    Requests = {r1, r2}
    Browsers = {b1}
    Features = {"password", "totp", "codes", "passkeys"}
    SessionLifetime = 1
    MaxNow = 1
    FaultsHappen = TRUE
    Mixes <- CredentialMixes
SYMMETRY Symmetry
INVARIANTS
    AuthTypeOK
    WinnerOwnsAccount
    SecondFactorPedigree
    OneSessionPerTicket
PROPERTIES
    LevelServedAsGranted
    CodesAreTickets
    ChallengesAreTickets
