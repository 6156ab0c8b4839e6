SPECIFICATION Spec
CONSTANTS
    Workers = {w1, w2}
    MaxChunks = 2
    Ops = {"read", "write", "list", "remove"}
    Env = {"open_error", "read_error", "sync_open", "sync_read", "raw_lock"}
INVARIANTS
    TypeOK
    OneDriver
    EntryInOnePlace
CHECK_DEADLOCK FALSE
