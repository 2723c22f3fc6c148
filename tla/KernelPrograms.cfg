\* Two sets of programs: threads of one process that sleep, wait and write;
\* parents that wait for children by pid, and children that fault at any time.
CONSTANTS
    Proc = {1, 2, 3, 4}
    InitProc = 1
    Nil = Nil
    UINT_MAX = 7
    MAX_PROCESSES = 6
    MAX_SIGSTACK_SIZE = 1
    Pipe = {kbd}
    Device = {kbd}
    kbd = kbd
    Durations = {2}
    Programs <- MCAllowed
SPECIFICATION FairSpec
INVARIANTS TablesAgree WaitsForSomething
PROPERTIES TickRecovers ReadyRuns WaitpidReturns DeadAreCleaned
