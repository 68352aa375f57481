SPECIFICATION FairSpec
CONSTANTS
    Conns = 3
    MaxFds = 4
CHECK_DEADLOCK FALSE
INVARIANTS
    Inv
PROPERTIES
    LockServed
