SPECIFICATION Spec
CONSTANTS
    NULL = NULL
    Mounts = {root, other}
    DefaultMount = root
    Chars = {"/", ".", "m"}
    MountPaths <- MCMountPaths
    CallPaths <- MCCallPaths
    Strings <- MCStrings
    MaxNodes = 2
    MaxDirUse = 1
    SizeMod = 16
INVARIANTS
    TypeOK
    NoNullMount
    ResolvesLexically
    CwdRoundTrip
    GetcwdFits
    RoutesToInnermost
    CanonicalAgree
