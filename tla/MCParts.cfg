SPECIFICATION MCSpec
CONSTANTS
    s1 = s1
    Keys = {k1, k2}
    Shards = {s1}
    ShardOf <- MCShardOf
    Handlers = {h1, h2}
    Limit = 2
    Window = 2
    MaxBuckets = 1
    MaxTime = 4
    None = None
    Tops = {n10, n100}
    StatsRequests = {q1, q2}
    StatsTTL = 2
    LastTick = 5
    NoEntry = NoEntry
    x = x
    y = y
    MaxSize = 5
    MaxPath = 4
    LogIds = {x, y}
    Lists <- MCLists
    Sources = 3
    Drain = FALSE
    MaxRefreshes = 2
    NoId = NoId
    HashWidth = 3
    StampWidth = 2
    Leaves <- MCLeaves
    CutsOf <- MCCuts
    Labels = {"", "*", "a", "A", "b", "uni", "xn", "_", "ctl", "long", "com", "local",
              "home", "arpa", "rtl", "1"}
    MaxLabels = 4
    PublicSuffixes <- MCPublicSuffixes
    Ascii <- MCAscii
    Lower <- MCLower
    NonAscii = {"uni"}
    Controls = {"ctl"}
    Service = {"_"}
    TooLong = {"long"}
    RightToLeft = {"rtl"}
    BreaksBidi = {"1"}
    Special <- MCSpecial
CHECK_DEADLOCK FALSE
INVARIANTS
    TypeOK
    WindowBounded
    BucketsBounded
    CachedAnswersAreRecent
    AcceptsExactlyProofs
    MergedIsTheUnion
    ListedLogsAreFollowed
    OneTailerPerLog
    ReadAsEncoded
    
PROPERTIES
    RetryAfterIsEnough
