CONSTANTS
    None = None
    Used = {"nodes", "flux", "secrets", "certs", "namespaces", "pods"}
    Scopes = {all, ns1}
    AllNs = all
    MaxShots = 2
    MaxSessions = 2
SPECIFICATION Spec
INVARIANTS
    LoopsFollowTheView
    EscGoesHome
PROPERTIES
    ListCatchesUp
