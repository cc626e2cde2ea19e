\* Tuples of one and of two fields, so that old words are read as headers, and
\* an atom whose bits are those of the header of a tuple of one tuple.
CONSTANTS
    HeapSize = 2
    RootSize = 2
    MaxHeap = 4
    MaxTuple = 2
    MaxHeader = 8
    Sizes = {1, 2}
    Atoms = {0, 130}
    Names = {x, y}
    None = None
SPECIFICATION FairSpec
PROPERTY CollectionEnds
\* the program stops at a failed assertion and when memory is exhausted
CHECK_DEADLOCK FALSE
