\* A parent that waits for a child and handles SIGCHLD.
CONSTANTS
    Proc = {1, 2, 3}
    InitProc = 1
    Nil = Nil
    UINT_MAX = 7
    MAX_PROCESSES = 6
    MAX_SIGSTACK_SIZE = 1
    Pipe = {kbd}
    Device = {kbd}
    kbd = kbd
    Durations = {2}
    Programs <- MCWaitpidHandler
SPECIFICATION Spec
INVARIANT WaitsForSomething
