SPECIFICATION MCSpec
CONSTANTS
    b1 = b1
    c1 = c1
    A = A
    B = B
    Names = {a1, a2, b1}
    Apexes = {A, B}
    ApexOf <- MCApexOf
    Dates = {1, 2}
    Logs = {l1}
    Callers = {c1, c2}
    QueueCap = 1
    FlushAt = 2
    CountChunk = 1
    MaxSeq = 3
    MaxMark = 1
    FailingReads = {"record", "total", "recount"}
    None = None
INVARIANTS
    TypeOK
    SeqsDistinct
    CountersNeverOvercount
PROPERTIES
    CursorMissesNothing
    StoredNamesAreKept
    OnlyShutdownBreaksCounts
    RecountRepairs
    RecountsAreAnswered
