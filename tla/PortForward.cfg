SPECIFICATION FairSpec
CONSTANTS
    http = http
    admin = admin
    pod1 = pod1
    pod2 = pod2
    c1 = c1
    c2 = c2
    None = None
    Services = {http, admin}
    Ports = {1, 2}
    Pods = {pod1, pod2}
    EndpointLists <- TwoLists
    Conns = {c1, c2}
    MaxStarts = 2
    MaxServed = 2
INVARIANTS
    RowsTellTheTruth
PROPERTIES
    StoppedIsOver
