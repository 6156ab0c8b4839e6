SPECIFICATION Spec
CONSTANTS
    Handle = {h1, h2}
    Byte = {0, 1}
    MaxCount = 2
    MaxOffset = 4
    SizeMod = 16
    PastEnd = TRUE
INVARIANTS
    NoGarbageInFile
