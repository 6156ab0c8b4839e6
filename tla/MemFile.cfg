SPECIFICATION Spec
CONSTANTS
    Handle = {h1, h2}
    Byte = {0, 1}
    MaxCount = 3
    MaxOffset = 4
    SizeMod = 16
    PastEnd = FALSE
INVARIANTS
    TypeOK
    LenWithinCapacity
    NoOverrun
    NoGarbageInFile
PROPERTIES
    ReadWithinFile
    ImplementsFile
