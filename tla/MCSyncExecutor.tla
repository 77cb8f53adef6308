---------------------------- MODULE MCSyncExecutor ----------------------------
\* Two tasks that meet in one account: of one job, whose verdict they share, or
\* of two jobs, one each, as two runs of the command line make them.
EXTENDS SyncExecutor, TLC

CONSTANTS j1, j2, t1, t2

OneJob == t1 :> j1 @@ t2 :> j1
TwoJobs == t1 :> j1 @@ t2 :> j2
===============================================================================
