\* An interrupt raised inside a handler outlives the dispatch.
SPECIFICATION FairSpec
CONSTANTS
    Tasks = {t1, t2}
    NULL = NULL
    Vals = {}
    T0 = 2
    T1 = 2
    KMax = 1
INVARIANT FullTimeslice
CHECK_DEADLOCK FALSE
