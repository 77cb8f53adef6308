SPECIFICATION FairSpec
CONSTANTS
    j1 = j1
    j2 = j2
    t1 = t1
    t2 = t2
    Job = {j1}
    Task = {t1, t2}
    JobOf <- OneJob
    Message = {m1}
    NoMessage = NoMessage
    TaskConcurrency = 2
    MaxAttempts = 2
    FaultKinds = {"fail", "lost"}
    MaxFaults = 2
    CanCrash = TRUE
\* A job that has its verdict stays as it is: the program may really stop.
CHECK_DEADLOCK FALSE
INVARIANTS
    StoredWholeOnce
    CompletedMeansStored
    VerdictLogged
    RollupAgrees
PROPERTIES
    RunsEnd
