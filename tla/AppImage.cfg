\* Headers with sizes up to the largest, in files of any size.
SPECIFICATION Spec
CONSTANTS
    PageSize = 2
    NPages = 4
    Word = 32
    HeaderSize = 1
    USER_CODE_BASE = 8
    USER_DATA_BASE = 16
    Apps <- AnyApps
    FreePages <- SomeFree
    MaxLog = 3
    NULL = NULL
INVARIANTS
    TypeOK
    ProgramInPlace
    ReservedPagesKept
    FailureFreesLoaded
    ReadsBounded
    LogShowsOwnPage
CHECK_DEADLOCK FALSE
