\* Two spaces that grow from 3 to 6 words: room for two tuples of one field,
\* for every graph of two tuples, cycles included.
CONSTANTS
    HeapSize = 3
    RootSize = 2
    MaxHeap = 6
    MaxTuple = 1
    MaxHeader = 4
    Sizes = {1}
    Atoms = {0}
    Names = {x, y}
    None = None
SPECIFICATION FairSpec
INVARIANTS SharingKept TuplesWhole
PROPERTIES ImplementsHeap
\* the program stops at a failed assertion and when memory is exhausted
CHECK_DEADLOCK FALSE
