SPECIFICATION Spec
CONSTANTS
    Nodes = {n1, n2}
    Pods = {web0}
    Managed = {web0}
    Budgeted = {web0}
    MinAvailable = 1
    Preflights = {t1, t2}
    Workers = {d1, d2}
    EvictRetries = 1
    CallsFail = TRUE
SYMMETRY Slots
INVARIANTS
    FlagsHaveTasks
    SuccessMeansEmptied
