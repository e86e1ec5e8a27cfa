SPECIFICATION FanoutSpec
CONSTANTS
    q1 = q1
    h1 = h1
    h2 = h2
    Query <- MCQuery
    Handler <- MCHandler
    EventsCap = 2
    SubCap = 1
    MaxEvent = 3
INVARIANTS
    FanoutTypeOK
    ChannelDiscipline
    InOrder
    NoSilentLoss
    ReaderIsServed
PROPERTIES
    RefinesBroadcast
    EveryReaderReturns
