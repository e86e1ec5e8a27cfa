\* Every window type over every stream of up to four records, in any order, readable or not.
SPECIFICATION MCSpec
CONSTANTS
    Window <- MCWindow
    Time <- MCTime
    Readable = {TRUE, FALSE}
    MaxRecord = 4
    Rows <- MCRows
    ShipType = {"Cargo", "Other"}
    Step = 3
    Null = null
INVARIANTS
    WindowTypeOK
    EachRecordInOneWindow
    TumblingFollowsGrid
    HoppingIsExact
    FleetViewsAreExact
CHECK_DEADLOCK FALSE
