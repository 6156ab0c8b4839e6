SPECIFICATION TSpec
CONSTANTS
    NULL = NULL
    Names = {a, b}
    MaxDepth = 1
    MaxNodes = 3
    MaxDirUse = 1
    MaxFds = 2
    Unguarded = {}
    Threads = {t1, t2}
SYMMETRY ThreadSymmetry
INVARIANTS
    TablesMatch
    IntactUnlessFreedEarly
CHECK_DEADLOCK FALSE
