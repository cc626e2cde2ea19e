CONSTANTS
    MaxThreads = 2
    Limit = 1
    Ops = {"add1"}
SPECIFICATION Spec
INVARIANT FinalTotal
CHECK_DEADLOCK FALSE
