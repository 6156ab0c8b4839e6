SPECIFICATION TSpec
CONSTANTS
    NULL = NULL
    Names = {a, b}
    MaxDepth = 1
    MaxNodes = 3
    MaxDirUse = 1
    MaxFds = 2
    Unguarded = {"close_race"}
    Threads = {t1, t2}
SYMMETRY ThreadSymmetry
INVARIANTS
    ChildUnlessFreedEarly
CHECK_DEADLOCK FALSE
