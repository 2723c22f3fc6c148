\* Three process structures, any priorities, up to two threads.
CONSTANTS
    p1 = p1
    p2 = p2
    p3 = p3
    Proc = {p1, p2, p3}
    InitProc = p1
    Nil = Nil
    UINT_MAX = 5
    Mortal = {p2, p3}
    MayRaise = TRUE
    MaxThreads = 2
SPECIFICATION FairSpec
INVARIANTS Consistent GroupsLinked
PROPERTIES DispatchFindsReady EveryReadyRuns
