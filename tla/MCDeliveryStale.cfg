CONSTANTS
    Jobs = {m1}
    Capacity = 1
    w1 = w1
    w2 = w2
    p1 = p1
    p2 = p2
    Procs = {p1, p2}
    Workers = {w1, w2}
    ProcOf <- TwoProcesses
    TempReplies = {t421, t451}
    MaxAttempts = 3
    LapseLive = FALSE
    PanicPlaces = {}
    MaxFaults = 0
    MaxDelays = 0
    MaxToken = 4
SPECIFICATION Spec
CHECK_DEADLOCK FALSE
INVARIANT
    StartsFromDurable
