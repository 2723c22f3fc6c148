\* Three processes, that may all be asleep; it ends with an insertion between two.
CONSTANTS
    p1 = p1
    p2 = p2
    p3 = p3
    Proc = {p1, p2, p3}
    Nil = Nil
    UINT_MAX = 15
    MAX_PROCESSES = 4
    Durations = {0, 1, 2, 4}
SPECIFICATION Spec
CHECK_DEADLOCK FALSE
INVARIANTS ListedOnce EarlyByThoseAhead
PROPERTY SleepersWake
