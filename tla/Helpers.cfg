CONSTANTS
    v1 = v1
    v2 = v2
    t1 = t1
    t2 = t2
    NULL = NULL
    Values = {v1, v2}
    Addresses = {1, 2, 3}
    Equal <- MCEqual
    Entries = {1, 2, 3}
    Primes <- MCPrimes
    Keys <- MCKeys
    HashValues = {v1}
    SizeRange = 16
    Threads = {t1, t2}
    Calls <- MCCalls
    DequeBound = 2
    Sizes = {1, 2}
    SizeBound = 4
    Sources <- MCSources
    IntMax = 127
    PathStrings <- MCPathStrings
    PathBound = 4
    CodePoints = {127, 128, 2047, 2048, 65535, 65536, 1114111}
    TextBound = 2
SPECIFICATION Spec
INVARIANTS NoneMissed EachOnce KeysLive TokensTile PrintReads IntsAreRead RelativeLeadsThere TextRoundTrip
PROPERTIES ListIsSequence HashIsMap DequeIsAtomic ArrayIsGrowable
CHECK_DEADLOCK FALSE
