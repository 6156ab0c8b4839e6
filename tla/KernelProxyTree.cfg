SPECIFICATION MappedSpec
CONSTANTS
    NULL = NULL
    Names = {a, b}
    MaxDepth = 2
    MaxNodes = 4
    MaxDirUse = 1
    MaxFds = 2
    Unguarded = {"open_root"}
SYMMETRY NameSymmetry
INVARIANTS
    TypeOK
    FdsMatchHandles
    NoDanglingChild
    TreeWellFormed
    UseCountMatches
    NoCrash
PROPERTIES
    ImplementsTree
CHECK_DEADLOCK FALSE
