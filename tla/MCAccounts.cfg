SPECIFICATION FairSpec
CONSTANTS
    c1 = c1
    c2 = c2
    c3 = c3
    s1 = s1
    l1 = l1
    a1 = a1
    Cli = {c1, c2, c3}
    Login = {l1, l2}
    Port = {p1, p2}
    NoPort = NoPort
    Nobody = Nobody
    Seed = {s1}
    Owned <- OneAccount
    Alias = {a1}
    NoAlias = NoAlias
    NoRow = NoRow
    VerbOf <- Verbs
\* Every verb may have ended.
CHECK_DEADLOCK FALSE
INVARIANTS
    OwnConsent
    CredentialsOpenTheirMailbox
PROPERTIES
    OnlyWhatItIsFor
    FlowEnds
