\* One account in the store of the demo.
SPECIFICATION JsonSpec
CONSTANTS
    None = None
    UserIDs = {u1}
    Identifiers = {alice}
    WebAuthnIDs = {w1}
    Passwords = {old}
    PasskeyIDs = {k1}
    Counts = {0}
    Secrets = {}
    RecoveryCodes = {}
    CodeIDs = {}
    MaxAttempts = 3
    SessionIDs = {}
    Times = {0, 1}
INVARIANTS
    HandleReturned
