\* Two threads, each of which can hold enough values to fill its cache and to
\* flush it, and one value less than is enough for both.
CONSTANTS
    Threads = {t1, t2}
    Values = {1, 2, 3, 4, 5}
    CacheSize = 1
    Hold = 3
    NULL = 0
SPECIFICATION OneOrder
INVARIANTS MutexHeld Conserved CacheBound EmptyWhenRefused OwnsLittle
PROPERTIES MutexReleased
