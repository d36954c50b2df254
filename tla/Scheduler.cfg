\* Three tasks with one register value of their own; KMax + 1 = T1 is the tight case.
\* No symmetry: liveness.
SPECIFICATION FairSpec
CONSTANTS
    Tasks = {t1, t2, t3}
    NULL = NULL
    Vals = {v1}
    T0 = 1
    T1 = 2
    KMax = 1
INVARIANTS
    TypeOK
    QueueIntegrity
    StatusAgrees
    HandlersNeverSpin
    Preemptible
PROPERTIES
    ResetOnlyAfterStall
    TakesTurns
    StarvationFree
    HangReboots
CHECK_DEADLOCK FALSE
