\* The bounds of GcSharing.cfg without growth.
CONSTANTS
    HeapSize = 5
    RootSize = 2
    MaxHeap = 5
    MaxTuple = 1
    MaxHeader = 4
    Sizes = {1}
    Atoms = {0}
    Names = {x, y}
    None = None
SPECIFICATION FairSpec
INVARIANTS NeverAborts
CHECK_DEADLOCK FALSE
