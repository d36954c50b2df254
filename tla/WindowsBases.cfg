\* Tasks with different values of WINDOWBASE.
SPECIFICATION Spec
CONSTANTS
    NPanes = 6
    Bases = {0, 2}
    Junk = {0, 3}
    OtherBases = TRUE
INVARIANTS
    RestoresAnyFrame
CHECK_DEADLOCK FALSE
