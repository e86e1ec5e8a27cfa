SPECIFICATION TierSpec
CONSTANTS
    q1 = q1
    h1 = h1
    d1 = d1
    d2 = d2
    p1 = p1
    Query <- MCOneQuery
    Handler <- MCHandler
    Deleter <- MCDeleters
    Property <- MCProperty
    EventsCap = 1
    SubCap = 1
    InboxCap = 2
    MaxEvent = 2
INVARIANTS
    TierTypeOK
    StopsForAReason
    NoOrphan
    HubSendsOnOpen
PROPERTIES
    RefinesFanout
    CancelEndsQuery
    FailureReachesReaders
