\* Three failures within three ticks block for four; a row every two ticks.
SPECIFICATION Spec
CONSTANTS
    Ips <- MCIps
    Threshold = 3
    Window = 3
    BlockTime = 4
    LogEvery = 2
    MaxInFlight = 4
    MaxTime = 7
INVARIANTS
    TypeOK
    BlockEarned
    RollingBound
    GuessesBounded
PROPERTIES
    LinesSpaced
    BlockServed
    StalePruned
