SPECIFICATION MCSpec
CONSTANTS
    b1 = b1
    c1 = c1
    A = A
    B = B
    Names = {a1, a2}
    Apexes = {A}
    ApexOf <- MCApexOf
    Dates = {1}
    Logs = {l1}
    Callers = {c1}
    QueueCap = 2
    FlushAt = 2
    CountChunk = 1
    MaxSeq = 2
    MaxMark = 2
    FailingReads = {"record", "counter", "mark"}
    None = None
INVARIANTS
    ShutdownLosesNothing
