SPECIFICATION FairSpec
CONSTANTS
    Entry <- FewEntries
    Include = {}
    Exclude = {"cron"}
    Kind = {"message"}
    MaxBoots = 1
    Channel = {"System", "Security"}
    Event <- FewEvents
    IncludeIds <- Audit
    ExcludeIds <- Noise
    ExcludeProviders = {"noise"}
    Batch = 2
    MaxEvents <- Busy
    MaxBadUpdates = 0
    SaveInterval = 2
    MaxEntries = 2
    MaxCrash = 0
    MaxBadSaves = 0
    MaxStops = 1
CHECK_DEADLOCK FALSE
PROPERTIES  EventuallyHandled
