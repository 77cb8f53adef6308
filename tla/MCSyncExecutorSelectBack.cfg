SPECIFICATION Spec
CONSTANTS
    j1 = j1
    j2 = j2
    t1 = t1
    t2 = t2
    Job = {j1, j2}
    Task = {t1, t2}
    JobOf <- TwoJobs
    Message = {m1}
    NoMessage = NoMessage
    TaskConcurrency = 2
    MaxAttempts = 1
    FaultKinds = {}
    MaxFaults = 0
    CanCrash = FALSE
\* A job that was run stays as it is.
CHECK_DEADLOCK FALSE
INVARIANTS
    SelectBackFinds
