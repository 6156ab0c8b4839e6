SPECIFICATION FairSpec
CONSTANTS
    Workers = {w1, w2}
    Ops = {"read"}
    MaxChunks = 1
    Env = {"open_error"}
PROPERTIES
    RunJobReturns
CHECK_DEADLOCK FALSE
