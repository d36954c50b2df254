\* Every mix of flags, width, precision, length and specifier, into buffers and
\* to a uart that queues two characters.
SPECIFICATION Spec
CONSTANTS
    Calls <- AllCalls
    CharBits = 4
    ShortBits = 6
    IntBits = 8
    LongLongBits = 12
    NTOA = 13
    FIFO = 2
    KILO = 4
INVARIANTS
    TypeOK
    SnprintfContract
    FormatsAsC
PROPERTY
    AllIsSent
CHECK_DEADLOCK FALSE
