SPECIFICATION MCSpec
CONSTANTS
    a1 = a1
    s3 = s3
    n1 = n1
    n2 = n2
    n3 = n3
    Names = {n1, n2, n3}
    Apexes = {a1}
    ApexOf <- MCApexOf
    Sessions = {s1, s2, s3}
    MaxActiveFeeds = 2
    Capacity = 1
    None = None
INVARIANTS
    TypeOK
    NothingIsForgotten
    StreamsAreCounted
    HubHoldsOpenChannels
PROPERTIES
    StopEndsStreams
    ImplementsStream
