SPECIFICATION Spec
CONSTANTS
    Job = {j1, j2, j3}
    Consumer = {c1, c2}
    j3 = j3
    k1 = k1
    Key = {k1}
    NoKey = NoKey
    Nobody = Nobody
    NoJob = NoJob
    Concurrency = 1
    BatchSize = 2
    MaxAttempts = 2
    KeyOf <- Keyless
    FaultKinds = {"fail", "lost", "crash"}
    MaxFaults = 1
    MaxStarts = 2
CONSTRAINT ThirdJobBound
SYMMETRY Symmetry
INVARIANTS
    ExclusiveDelivery
    NoOrphan
    OneBatchAhead
