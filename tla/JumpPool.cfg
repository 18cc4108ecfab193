SPECIFICATION ClosingSpec
CONSTANTS
    Slots = {s1, s2}
    Spare = 1
    Windows = {w1}
    Conns = {c1}
    Refills = {r1, r2}
INVARIANTS
    PoolAccounted
PROPERTIES
    ConnectionsAnswered
