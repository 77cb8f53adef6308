SPECIFICATION FullSyncs
CONSTANTS
    N = 3
    Cap = 2
    PageSize = 2
    FetchConcurrency = 2
    Skew = 1
    Lifetime = 2
    EmptyPages = 1
    AttachmentsOf <- Attachments
\* A pull that has ended stays so.
CHECK_DEADLOCK FALSE
PROPERTIES
    KeepsPromise
