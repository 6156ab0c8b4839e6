SPECIFICATION Spec
CONSTANTS
    NULL = NULL
    Names = {a, b}
    MaxDepth = 2
    MaxNodes = 3
    MaxDirUse = 1
    MaxFds = 2
    Unguarded = {"rmdir_open"}
INVARIANTS
    NoDanglingChild
CHECK_DEADLOCK FALSE
