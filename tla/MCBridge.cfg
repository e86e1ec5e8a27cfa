\* One query on a bridge runtime, with a timestamp queue smaller than the records in
\* flight and a result channel of one event.
SPECIFICATION BridgeSpec
CONSTANTS
    TsCap = 2
    ResultsCap = 1
    PipeCap = 2
    MaxRecord = 4
INVARIANTS
    BridgeTypeOK
    Paired
PROPERTIES
    EveryRecordIsAnswered
    CancelEndsBridge
    DeathClosesResults
