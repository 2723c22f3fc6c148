\* Two threads, one with a signal handler, and a few small blocks.
CONSTANTS
    t1 = t1
    t2 = t2
    Thread = {t1, t2}
    MainThread = t1
    Handling = {t1}
    Header = 1
    USER_HEAP = 1
    USER_HEAP_SIZE = 4
    Page = 3
    Sizes = {1, 4}
    ArgSizes <- MCArgSizes
    Limit = 17
SPECIFICATION Spec
INVARIANTS HeldIsUsed HeapSound
PROPERTIES IsPartition LockReleased
\* Nobody has to call the allocator.
CHECK_DEADLOCK FALSE
