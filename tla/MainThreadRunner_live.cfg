SPECIFICATION FairSpec
CONSTANTS
    Workers = {w1, w2}
    MaxChunks = 2
    Ops = {"read", "write", "list", "remove"}
    Env = {"sync_read"}
INVARIANTS
    NoSelfDeadlock
PROPERTIES
    AnswerIsServers
    RunJobReturns
