\* Every set of up to five features read under every limit while up to three are inserted
\* or deleted.
SPECIFICATION PagingSpec
CONSTANTS
    Id <- MCId
    Asked = {0, 1, 3}
    DefaultLimit = 1
    MaxLimit = 2
    ExportBatch = 0
    RowGroup = 2
    MaxWrites = 3
INVARIANTS
    PagingTypeOK
    InKeysetOrder
    Complete
PROPERTIES
    ReadingEnds
