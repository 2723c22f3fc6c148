\* Three pids; a stack of one page, a heap of one or two, two pages of the
\* shared region that create_process maps and two that it does not; blocks of a
\* page (of two units).
CONSTANTS
    Pid = {p1, p2, p3}
    Heap = 2
    HeapPages = 1
    Shm = 4
    ShmEnd = 6
    Top = 7
    Unit = 2
    Sizes = {2}
    Brks = {1}
    MaxFrames = 14
    MaxCalls = 4
SPECIFICATION Spec
INVARIANTS PrivateMemory HeapsAgree BlocksShow
SYMMETRY Symmetry
CHECK_DEADLOCK FALSE
