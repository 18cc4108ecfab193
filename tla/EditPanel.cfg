SPECIFICATION FairSpec
CONSTANTS
    None = None
    Objects = {a, b}
    Loads = {l1, l2}
    Applies = {w1, w2}
    MaxOpens = 2
    MaxVersion = 2
    Edits = {e1}
INVARIANTS
    PanelTellsItsOwn
PROPERTIES
    ReviewIsKept
    EditIsAnswered
CHECK_DEADLOCK FALSE
