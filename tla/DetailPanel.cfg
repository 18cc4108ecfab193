SPECIFICATION FairDetailSpec
CONSTANTS
    Nothing = Nothing
    Objects = {p1, p2, dep}
    Pods = {p1, p2}
    Nodes = {n1}
    MaxAsks = 2
INVARIANTS
    PanelsTellTheRow
PROPERTIES
    TextsArrive
