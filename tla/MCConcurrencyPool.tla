--------------------------- MODULE MCConcurrencyPool ---------------------------
\* Five thunks compete for two slots, so that up to three are parked behind two
\* that run; two waiters, so that several callers are parked at once.
EXTENDS ConcurrencyPool, TLC
===============================================================================
