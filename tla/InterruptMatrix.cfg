\* Five sources, two of them beyond what the level lines can take.
SPECIFICATION FairSpec
CONSTANTS
    MaxSource = 4
    WDT = 1
    FreeLines = {0, 1, 2, 10}
    EdgeLines = {10, 22}
    UNUSABLE = 16
    BootLines = {0, 16}
INVARIANTS
    TypeOK
    OneSourcePerLine
    TriggerKept
    NothingElseTraps
PROPERTY
    WatchdogServed
CHECK_DEADLOCK FALSE
