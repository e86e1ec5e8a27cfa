SPECIFICATION TierSpec
CONSTANTS
    q1 = q1
    h1 = h1
    d1 = d1
    d2 = d2
    p1 = p1
    Query <- MCOneQuery
    Handler <- MCHandler
    Deleter <- MCOneDeleter
    Property <- MCProperty
    EventsCap = 1
    SubCap = 1
    InboxCap = 1
    MaxEvent = 1
INVARIANT
    FailedIsReported
