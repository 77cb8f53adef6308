SPECIFICATION FairSpec
CONSTANTS
    Job = {j1, j2}
    Consumer = {c1}
    j3 = j3
    k1 = k1
    Key = {k1}
    NoKey = NoKey
    Nobody = Nobody
    NoJob = NoJob
    Concurrency = 2
    BatchSize = 1
    MaxAttempts = 2
    KeyOf <- AllKeyed
    FaultKinds = {"fail", "lost", "crash"}
    MaxFaults = 2
    MaxStarts = 2
PROPERTIES
    StopEnds
    EveryJobEnds
    ImplementsJobLifecycle
    ImplementsRunnableApp
