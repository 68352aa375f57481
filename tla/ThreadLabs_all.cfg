SPECIFICATION FairSpec
CONSTANTS
    Mutexes = 3
    Lines = 10
    Count = 4
    Chunk = 6
    MaxRounds = 3
    Philo = 5
    Food = 4
CHECK_DEADLOCK FALSE
INVARIANTS
    Inv
    WorkShared
PROPERTIES
    InTurn
    Ends
    WorkEnds
