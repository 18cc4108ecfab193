SPECIFICATION Spec
CONSTANTS
    MaxRequest = 2
    MaxCapacity = 2
    Tries = 3
    Events = {"e1", "e2", "e3"}
    Namespaces = {"a", "b"}
    NsOf <- mcNsOf
    Errors = {"e1"}
    Queried = {"e1", "e3"}
    Capacity = 2
    MaxTime = 3
    Nobody = Nobody
    All = All
    Hosts = {"h1", "h2"}
    Widths <- mcWidths
    Stages = 1
    Chunks = 1
    MaxTasks = 2
    NoOne = NoOne
    Configurations <- mcConfigurations
    Webhooks <- mcWebhooks
    Services = {"s"}
    OffCluster = "url"
    MaxReadings = 2
    MaxFlips = 1
    MaxUpsets = 1
INVARIANTS
    CapacityIsTold
    HintsAreTold
    TreesAreWhole
    JumpsAreFaithful
    CopiesAreJudged
    GrantsAreTold
    MirrorsAreTold
    AnswersAreOwn
    HooksAreHonest
    FeedIsKept
    CursorKeepsItsEvent
CHECK_DEADLOCK FALSE
