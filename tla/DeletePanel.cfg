SPECIFICATION FairSpec
CONSTANTS
    a = a
    b = b
    c1 = c1
    c2 = c2
    d1 = d1
    d2 = d2
    r1 = r1
    None = None
    Gone = Gone
    Objects = {a, b}
    Manifests <- TwoManifests
    Checks = {c1, c2}
    Deletions = {d1, d2}
    Pages = {a}
    Requests = {r1}
    MaxOpens = 2
INVARIANTS
    DeletionIsOwned
PROPERTIES
    StartsWhatWasAgreed
    DeletionIsAnswered
