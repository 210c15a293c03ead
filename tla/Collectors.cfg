SPECIFICATION FairSpec
CONSTANTS
    Disks = {"sda"}
    Interfaces = {"eth0"}
    OwnCgroup = {"own"}
    Containers = {"box"}
    Processes = {"pid"}
    MacInterfaces = {"en0"}
    Wrap = 3
    DiscoveryTicks = 2
    MaxWork = 4
    MaxRemovals = 1
    MaxJiffies = 2
    MaxTaken = 1
    Entry <- SomeEntries
    Length <- Lengths
    FsTypes = {"nfs"}
    RefreshTicks = 2
    MaxChanges = 3
    Hour = 1
    Hosts <- SomeHosts
    TickWrap = 2
    MaxReinits = 1
INVARIANTS   ResourcesBounded
CHECK_DEADLOCK FALSE
PROPERTIES EventuallyUpToDate  ShutdownEnds
