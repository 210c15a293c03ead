SPECIFICATION HostSpec
CONSTANTS
    Platforms = {"systemd", "launchd", "scm"}
    MaxCommands = 3
    MaxFaults = 2
    MaxOperator = 2
    MaxReloads = 1
INVARIANTS StoppedMeansDrained
PROPERTIES  ForceRepairs StopEnds
CHECK_DEADLOCK FALSE
