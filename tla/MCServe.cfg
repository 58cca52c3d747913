SPECIFICATION FairServeSpec
CONSTANTS
    a1 = a1
    a2 = a2
    a3 = a3
    A = A
    Names = {a1, a2}
    Apexes = {A}
    ApexOf <- MCApexOf
    Dates = {1}
    Logs = {}
    Callers = {t1, t2, main}
    QueueCap = 1
    FlushAt = 2
    CountChunk = 1
    MaxSeq = 2
    MaxMark = 0
    FailingReads = {}
    None = None
    Tailers = {t1, t2}
    Main = main
    Clients = {r1}
    Wants <- MCWants
    KeyOrder <- MCKeyOrder
    MaxResults = 1
INVARIANTS
    PollerMissesNothing
    ReadsOutliveClose
    OrderlyStopLosesNothing
PROPERTIES
    TotalCountsTheRows
    SendersReturn
    EveryStopEnds
