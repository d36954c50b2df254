\* A task that never ran is dispatched over one that did.
SPECIFICATION Spec
CONSTANTS
    NPanes = 6
    Bases = {0, 2}
    Junk = {0, 3}
    OtherBases = FALSE
INVARIANTS
    RestoreMasked
CHECK_DEADLOCK FALSE
