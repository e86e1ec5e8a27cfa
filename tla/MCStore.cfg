\* Three requests on a store that holds the feature, with any of its properties, or nothing;
\* two member values in every row that is stored, and room for a third, earlier one.
SPECIFICATION StoreSpec
CONSTANTS
    Request = {r1, r2, r3}
    Feature <- TheFeature
    Name <- TheNames
    Time = {1, 2, 3}
    StoredTimes = {2, 3}
    Ops <- Requests
    Trip = trip
    None = none
    v = v
    n1 = n1
    n2 = n2
    r1 = r1
    r2 = r2
    r3 = r3
INVARIANTS
    StoreTypeOK
    OrphansComeFromRaces
    DroppedLeavesNothing
    StraysComeFromRaces
PROPERTIES
    PostedTogether
    UnracedDeleteRemovesOne
    UnracedReadIsWhole
    EveryRequestIsAnswered
