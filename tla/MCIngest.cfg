SPECIFICATION IngestSpec
CONSTANTS
    l1 = l1
    l2 = l2
    a1 = a1
    b1 = b1
    A = A
    Names = {a1, b1}
    Apexes = {A}
    ApexOf <- MCApexOf
    Dates = {1, 2, 3}
    Logs = {l1, l2}
    Callers = {l1, l2}
    QueueCap = 1
    FlushAt = 2
    CountChunk = 1
    MaxSeq = 0
    MaxMark = 2
    FailingReads = {"seq", "record", "mark"}
    None = None
    Entries <- MCTwoLogs
    Frozen = {l2}
    Window = 2
    MaxRestarts = 1
CHECK_DEADLOCK FALSE
INVARIANTS
    WatermarkCovered
PROPERTIES
    WatermarkNeverMovesBack
