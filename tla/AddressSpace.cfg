\* Four spaces for three pids: every dispatch order with evictions.
SPECIFICATION Spec
CONSTANTS
    Spaces = {s1, s2, s3, s4}
    NULL = NULL
    NPages = 5
    NBindings = 3
    MaxStamp = 8
SYMMETRY Symmetry
INVARIANTS
    TypeOK
    HardwareAgrees
    PagesOwnedOnce
    RunsUnderItsPid
PROPERTIES
    EvictsLeastRecent
CHECK_DEADLOCK FALSE
