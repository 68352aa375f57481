SPECIFICATION FairSpec
CONSTANTS
    Lines = {0, 2, 3}
    SortLines = 4
    BufferSize = 2
    SleepLines = 3
    Lengths = {1, 2, 3}
    Rest = {0, 1}
    Factor = 2
    Delay = 1
CHECK_DEADLOCK FALSE
INVARIANTS
    Inv
    PrintMissesOnlySmaller
    Sorted
    PrintedOnce
PROPERTIES
    Ends
