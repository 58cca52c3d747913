SPECIFICATION FairSpec
CONSTANTS
    a1 = a1
    Names = {n1, n2, n3}
    Apexes = {a1, a2}
    ApexOf <- MCApexOf
    MaxResults = 1
    Capacity = 1
    MaxMoves = 3
    MaxTimers = 1
    MaxCrashes = 1
    None = None
INVARIANTS
    TypeOK
    CursorCoversThePage
    OnlyLateAnswersMixApexes
PROPERTIES
    LivePageLearns
