\* Every set of live windows under bases that wrap or not; any task dispatched after any
\* other of the same base.
SPECIFICATION Spec
CONSTANTS
    NPanes = 8
    Bases = {0, 1, 7}
    Junk = {0, 5}
    OtherBases = FALSE
INVARIANTS
    SavesExactly
    RestoresFrame
    NothingLeaks
CHECK_DEADLOCK FALSE
