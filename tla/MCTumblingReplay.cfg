\* A tumbling window over a replay: stored instants have the MF-JSON form.
SPECIFICATION MCSpec
CONSTANTS
    Window <- MCTumbling
    Time <- MCFewTimes
    Readable = {FALSE}
    MaxRecord = 4
    Rows = {}
    ShipType = {"Cargo", "Other"}
    Step = 3
    Null = null
INVARIANT
    TumblingIsFixedDuration
CHECK_DEADLOCK FALSE
