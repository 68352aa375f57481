SPECIFICATION FairSpec
CONSTANTS
    NoLength = none
    Kinds = {"get", "post", "bad"}
    Replies <- ReplySet
    Posted = 2
    Longest = 6
CHECK_DEADLOCK FALSE
PROPERTIES
    ServerGoneEnds
