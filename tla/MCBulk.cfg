\* Two batches of up to two observations of two vehicles, which may be seen first by both,
\* locked in opposite orders, and deleted at any time;
\* a pool of two connections, which a batch and a DELETE, or two batches, exhaust.
SPECIFICATION BulkSpec
CONSTANTS
    Batch = {b1, b2}
    Feature = {v1, v2}
    Time = {1, 2}
    MaxLen = 2
    MaxConns = 2
    None = none
INVARIANTS
    BulkTypeOK
    AllOrNothing
    CountsAreTrue
PROPERTIES
    EveryBatchIsAnswered
