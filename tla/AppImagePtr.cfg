\* Log calls with any pointer into the data space.
SPECIFICATION Spec
CONSTANTS
    PageSize = 2
    NPages = 4
    Word = 32
    HeaderSize = 1
    USER_CODE_BASE = 8
    USER_DATA_BASE = 16
    Apps <- AnyApps
    FreePages <- SomeFree
    MaxLog = 3
    NULL = NULL
INVARIANTS
    FullAddress
CHECK_DEADLOCK FALSE
