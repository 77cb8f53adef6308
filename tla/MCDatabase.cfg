SPECIFICATION MCSpec
CONSTANTS
    Branches <- MCBranches
    Matches <- MCMatches
    Task = {t1, t2}
    Conn = {c1, c2}
    Org = {o1, o2}
    NoOrg = NoOrg
    NoTask = NoTask
    NoConn = NoConn
    MaxDepth = 2
    api = api
    worker = worker
    worker2 = worker2
    App = {api, worker, worker2}
    Order <- MCOrder
    Stoppable = {worker, worker2}
    Signals = {"SIGINT", "SIGTERM"}
INVARIANTS
    SchemaIsReplay
    FailsOnlyWithMail
    OwnOrg
    SuccessMeansCommitted
    DrainedFirst
PROPERTIES
    StoredMailKept
    StatusFollows
    CallsEnd
    ShutdownEnds
