SPECIFICATION FairSpec
CONSTANTS
    a = a
    b = b
    hook = hook
    p1 = p1
    p2 = p2
    m1 = m1
    m2 = m2
    None = None
    Objects = {a, b}
    Names = {a, b, hook}
    Situations <- TwoSituations
    Messages <- OneMessage
    Probes = {p1, p2}
    Applies = {m1, m2}
    MaxOpens = 2
INVARIANTS
    RepairIsOwned
PROPERTIES
    StartsWhatWasAgreed
    RepairSettles
