SPECIFICATION Spec
CONSTANTS
    MaxClients = 2
    CacheSize = 2
    BufferSize = 2
    Titles = {"a", "b", "c"}
    RangeOf <- MCRangeOf
    Length = 2
    Conns = 2
    Connects = 3
    Again = 1
CHECK_DEADLOCK FALSE
INVARIANTS
    Inv
PROPERTIES
    WholeStays
