SPECIFICATION FairSpec
CONSTANTS
    Readers = {r1, r2}
    MaxLength = 2
    Declared = 2
    BufMax = 2
    SendAllResults = {"SUCCESS", "FAILURE"}
CHECK_DEADLOCK FALSE
INVARIANTS
    SignalledCondAlive
    UsersCounted
    DrainCopiesFit
    ShortOnlyIfUnfinished
    IInv
PROPERTIES
    ImplementsStream
    NoBusyLoop
    ReachedAreReleased
