SPECIFICATION Spec
CONSTANTS
    NULL = NULL
    Object = {o1, o2}
    MaxSlots = 4
INVARIANTS
    TypeOK
    HeapIsFreeList
PROPERTIES
    GrowsOnlyWhenFull
    ImplementsPool
CHECK_DEADLOCK TRUE
