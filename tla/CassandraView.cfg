SPECIFICATION CassandraSpec
CONSTANTS
    Nil = Nil
    Members = {1, 2}
    Captures = {1, 2}
    Failed = {1}
    MaxCommands = 2
INVARIANTS
    JobsAreAsked
    OnlyWholeIsRestored
