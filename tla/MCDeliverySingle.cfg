CONSTANTS
    Jobs = {m1}
    Capacity = 1
    w1 = w1
    w2 = w2
    p1 = p1
    p2 = p2
    Procs = {p1}
    Workers = {w1, w2}
    ProcOf <- OneProcess
    TempReplies = {t421}
    MaxAttempts = 2
    LapseLive = FALSE
    PanicPlaces = {"smtp"}
    MaxFaults = 1
    MaxDelays = 2
    MaxToken = 7
SPECIFICATION LiveSpec
CHECK_DEADLOCK FALSE
INVARIANTS
    OperationsAreSound
PROPERTIES
    OutcomesAreDurable
    EveryMessageFinishes
