\* Three tasks on two pids: every third dispatch evicts.
SPECIFICATION KSpec
CONSTANTS
    Spaces = {t1, t2, t3}
    NULL = NULL
    Vals = {v1}
    T0 = 1
    T1 = 2
    KMax = 1
    NPages = 4
    NBindings = 2
    MaxStamp = 5
SYMMETRY Symmetry
INVARIANTS
    OthersRegistersUnreachable
    RunsInItsSpace
    RunnableIsLoaded
CHECK_DEADLOCK FALSE
