SPECIFICATION FairSpec
CONSTANTS
    Readers = {r1}
    MaxLength = 2
    Declared = 2
    BufMax = 2
    SendAllResults = {"SUCCESS"}
CHECK_DEADLOCK FALSE
PROPERTY
    ReadersReleased
