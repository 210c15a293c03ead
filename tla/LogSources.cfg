SPECIFICATION Spec
CONSTANTS
    Entry <- SomeEntries
    Include = {}
    Exclude = {"cron"}
    Kind = {"message", "structural"}
    MaxBoots = 2
    Channel = {"System", "Security"}
    Event <- SomeEvents
    IncludeIds <- Audit
    ExcludeIds <- Noise
    ExcludeProviders = {"noise"}
    Batch = 2
    MaxEvents <- Busy
    MaxBadUpdates = 1
    SaveInterval = 2
    MaxEntries = 3
    MaxCrash = 1
    MaxBadSaves = 1
    MaxStops = 1
INVARIANTS  DedupeIsExact OnlyFaultsRepeat
CHECK_DEADLOCK FALSE
PROPERTY AtLeastOnceSpec
