SPECIFICATION FairSpec
CONSTANTS
    Task = {t1, t2, t3, t4, t5}
    Waiter = {w1, w2}
    Size = 2
INVARIANTS
    Bounded
    NoLostWakeup
PROPERTIES
    Fifo
    QueuedRuns
