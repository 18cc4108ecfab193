SPECIFICATION FairSpec
CONSTANTS
    Flows = {f1}
    Sids = {s1, s2}
    Callbacks = {c1, c2}
    Requests = {r1, r2}
    MaxTime = 5
    PendingTtl = 2
    Margin = 1
    CredentialLife = 3
    RightLife = 3
INVARIANTS
    RenewedByOne
    OneSessionPerFlow
PROPERTIES
    RenewalsInOrder
    EveryRequestEnds
