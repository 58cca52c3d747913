SPECIFICATION FairIngestSpec
CONSTANTS
    l1 = l1
    l2 = l2
    a1 = a1
    b1 = b1
    A = A
    Names = {a1, b1}
    Apexes = {A}
    ApexOf <- MCApexOf
    Dates = {1, 2, 3}
    Logs = {l1}
    Callers = {l1}
    QueueCap = 1
    FlushAt = 2
    CountChunk = 1
    MaxSeq = 0
    MaxMark = 3
    FailingReads = {}
    None = None
    Entries <- MCOneLog
    Frozen = {}
    Window = 2
    MaxRestarts = 2
CHECK_DEADLOCK FALSE
INVARIANTS
    StopLeavesNothingBehind
PROPERTIES
    EverythingIsStored
    ImplementsIndex
