CONSTANTS
    MaxThreads = 2
    Limit = 2
    Ops = {"add1", "sub1"}
SPECIFICATION Spec
INVARIANTS Registered TotalNotAhead FinalTotalKnown
PROPERTIES AllJoined JoinEnds TotalMonotone
\* an assertion and a join of a freed thread end the program
CHECK_DEADLOCK FALSE
