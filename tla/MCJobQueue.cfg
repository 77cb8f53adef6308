SPECIFICATION Spec
CONSTANTS
    Job = {j1, j2, j3}
    Key = {k1}
    Consumer = {c1, c2}
    NoKey = NoKey
    Nobody = Nobody
    Limit = {1, 2}
SYMMETRY Symmetry
CONSTRAINT Bounded
INVARIANTS
    DedupUnique
    ClaimsShareTheFront
