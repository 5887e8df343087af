\* Options on both sides of every bound; one code and its limiter at every
\* phase; one stored hash through changes of the hasher.
SPECIFICATION MCSpec
CONSTANTS
    login = login
    secondFactor = secondFactor
    MaxDelay = 1
    Keys = {login, secondFactor}
    Limit <- Limits
    Window <- Windows
    MaxCount = 5
    Second = 2
    Bounds <- Ranges
    Given <- Calls
    Asked <- MCAsked
    Imported <- MCImported
    Clear = {"old", "new"}
INVARIANTS
    TypeOK
    WithinWindow
    TwiceLimit
    GuessesPerCode
    ClockTolerated
    PresentAccepted
    StartedFits
    VerifiesOwner
PROPERTIES
    WindowEnds
    UpgradeSettles
