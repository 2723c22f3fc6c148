\* The programs shipped with the system.
CONSTANTS
    Proc = {1, 2, 3, 4}
    InitProc = 1
    Nil = Nil
    UINT_MAX = 7
    MAX_PROCESSES = 6
    MAX_SIGSTACK_SIZE = 1
    Pipe = {kbd}
    Device = {kbd}
    kbd = kbd
    Durations = {2}
    Programs <- MCShipped
SPECIFICATION Spec
INVARIANTS TablesAgree RunsReady FamilyAlive
PROPERTY OutputOutlives
