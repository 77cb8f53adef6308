------------------------------ MODULE MCPoolStream ------------------------------
\* Four items through two slots: two run, one is in the producer's hand, and the
\* source still has items when the consumer leaves or a thunk rejects.
EXTENDS PoolStream
===============================================================================
