SPECIFICATION AgentFairSpec
CONSTANTS
    Config = {"a", "b", "local", "unusable", "bad"}
    Valid = {"a", "b", "local", "unusable"}
    Usable = {"a", "b", "local"}
    Managed = {"a", "b", "unusable"}
    NoConfig = NoConfig
    FirstConfig = "a"
    MaxEdits = 2
    MaxPublish = 2
    MaxSignals = 2
INVARIANTS RunsDoNotOverlap
PROPERTIES RemoteWritesValid NoReloadLoop PollerConverges
CHECK_DEADLOCK FALSE
