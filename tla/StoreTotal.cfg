SPECIFICATION MCSpec
CONSTANTS
    b1 = b1
    c1 = c1
    A = A
    B = B
    Names = {a1, a2, b1}
    Apexes = {A, B}
    ApexOf <- MCApexOf
    Dates = {1, 2}
    Logs = {}
    Callers = {c1}
    QueueCap = 1
    FlushAt = 2
    CountChunk = 1
    MaxSeq = 4
    MaxMark = 0
    FailingReads = {}
    None = None
INVARIANTS
    TotalIsRecordCount
