SPECIFICATION Spec
CONSTANTS
    Labs = {"lab6", "lab7", "lab8", "lab9", "lab10"}
    Sums <- MCSums
    Exprs <- MCExprs
    Names <- MCNames
    Envs <- MCEnvs
    Sources <- MCSources
    DeclLists <- MCDeclLists
    InitVars <- MCInitVars
CHECK_DEADLOCK FALSE
INVARIANTS
    Inv
    MeaningKept
