SPECIFICATION FairSpec
CONSTANTS
    MaxClients = 2
    CacheSize = 1
    BufferSize = 2
    Titles = {"a", "b"}
    RangeOf <- MCRangeOf
    Length = 2
    Conns = 2
    Connects = 3
    Again = 1
CHECK_DEADLOCK FALSE
PROPERTIES
    LetGo
