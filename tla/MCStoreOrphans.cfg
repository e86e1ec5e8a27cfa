\* A DELETE of a feature against a POST of properties on it.
SPECIFICATION StoreSafetySpec
CONSTANTS
    Request = {r1, r2, r3}
    Feature <- TheFeature
    Name <- TheNames
    Time = {1, 2}
    StoredTimes = {1, 2}
    Ops <- Requests
    Trip = trip
    None = none
    v = v
    n1 = n1
    n2 = n2
    r1 = r1
    r2 = r2
    r3 = r3
INVARIANTS
    DeletedLeavesNothing
