SPECIFICATION Spec
CONSTANTS
    MaxClients = 2
    CacheSize = 3
    BufferSize = 2
    Titles = {"a", "b"}
    Others = {"https", "post"}
    Ranges <- MCRanges
    Length = 2
    Conns = 5
CONSTRAINT Bounded
CHECK_DEADLOCK FALSE
INVARIANTS
    Inv
    InOrder
    FoundIsServed
PROPERTIES
    ServedWhole
