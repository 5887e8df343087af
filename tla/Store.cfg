\* Two accounts with every credential a user can own; one code and two sessions
\* with IDs that are used again, and two instants.
SPECIFICATION MCSpec
CONSTANTS
    None = None
    UserIDs = {u1, u2}
    Identifiers = {alice, bob}
    WebAuthnIDs = {w1, w2}
    Passwords = {pw}
    PasskeyIDs = {k1, k2}
    Counts = {0, 1}
    Secrets = {x1}
    RecoveryCodes = {c1}
    CodeIDs = {d1}
    MaxAttempts = 3
    SessionIDs = {s1, s2}
    Times = {0, 1}
SYMMETRY Symmetry
INVARIANTS
    TypeOK
    IndexesAgree
    CredentialsOwned
    PasskeyIDsUnique
PROPERTIES
    TicketsOnlyAge
