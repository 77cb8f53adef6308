------------------------------- MODULE MCJobQueue -------------------------------
\* Three rows and one key, so that two rows compete for the key while a third is
\* keyless; two consumers, so that two claims are open at once.
EXTENDS JobQueue, TLC

Symmetry == Permutations(Job) \cup Permutations(Consumer)

\* BOUND: deliveries of one row.
MaxDeliveries == 2
Bounded == \A j \in Job : row[j].attempts <= MaxDeliveries
===============================================================================
