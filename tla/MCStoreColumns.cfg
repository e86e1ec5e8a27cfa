\* A POST of properties of type bigint, and two readers of one of them.
SPECIFICATION StoreSafetySpec
CONSTANTS
    Request = {r1, r2, r3}
    Feature <- TheFeature
    Name <- TheNames
    Time = {1, 2}
    StoredTimes = {1, 2}
    Ops <- ColumnRequests
    Trip = trip
    None = none
    v = v
    n1 = n1
    n2 = n2
    r1 = r1
    r2 = r2
    r3 = r3
PROPERTIES
    PropertyIsServedWhole
