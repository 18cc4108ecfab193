SPECIFICATION FairSpec
CONSTANTS
    Nodes = {n1, n2}
    Pods = {web0, web1}
    Managed = {web0}
    Budgeted = {web0, web1}
    MinAvailable = 1
    Preflights = {t1}
    Workers = {d1}
    EvictRetries = 1
    CallsFail = TRUE
INVARIANTS
    DrainKeepsAccount
    NothingComesBack
PROPERTIES
    DrainsAreOver
