SPECIFICATION MCSpec
CONSTANTS
    N = 3
    Cap = 2
    PageSize = 2
    FetchConcurrency = 2
    Skew = 1
    Lifetime = 2
    EmptyPages = 1
    AttachmentsOf <- Attachments
\* A pull that has ended stays so; PullEnds says that it does.
CHECK_DEADLOCK FALSE
INVARIANTS
    NoGap
    NoEarlyExpiry
    NormalizeAgrees
PROPERTIES
    StreamsOrThrows
    PullEnds
