SPECIFICATION Spec
CONSTANTS
    NULL = NULL
    Threads = {t1, t2}
    Paths = {p}
    Byte = {5, 6}
    MaxContent = 1
    MaxCount = 2
    MaxOffset = 3
    MaxWrites = 2
    MaxNodes = 3
    MaxFiles = 2
    MaxName = 2
    SizeMod = 64
INVARIANTS
    TypeOK
    DataIsOwn
    ReadWithinData
    CountsEntries
PROPERTIES
    InodeIsForever
CHECK_DEADLOCK FALSE
