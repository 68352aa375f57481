SPECIFICATION FairSpec
CONSTANTS
    Threads = {t1, t2, t3}
    Keys = {k1, k2}
    None = None
CHECK_DEADLOCK FALSE
INVARIANTS
    CrashOnlyByEviction
    DuplicatesOverlap
    Inv
PROPERTIES
    EvictsOnlyUncounted
    AddEnds
