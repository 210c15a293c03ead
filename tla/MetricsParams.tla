---------------------------- MODULE MetricsParams ---------------------------
(***************************************************************************)
(* The parameters of the metric collectors: what the kernel has, the       *)
(* constants of the code, and the bounds.                                  *)
(***************************************************************************)
EXTENDS Integers, FiniteSets

CONSTANTS
    \* Counters: the names of what is counted
    Disks, Interfaces, OwnCgroup, Containers, Processes, MacInterfaces,
    Wrap,               \* 2^32
    DiscoveryTicks,     \* DISCOVERY_INTERVAL_TICKS
    MaxWork, MaxRemovals,
    \* CpuTimes
    MaxJiffies, MaxTaken,
    \* SpaceReader
    Entry,              \* what may be in /proc/mounts: [device, point, fs]
    Length,             \* the length of each mount point
    FsTypes,            \* disk_fs_types, or DEFAULT_FS_TYPES
    RefreshTicks,       \* 30
    MaxChanges,
    \* Collectors
    Hour,               \* 3600
    Hosts,              \* what is configured, and what there is on a host
    \* all of them
    TickWrap,           \* 2^32
    MaxReinits

Point == {e.point : e \in Entry}

ASSUME CountersAssumption ==
    LET sets == <<Disks, Interfaces, OwnCgroup, Containers, Processes, MacInterfaces>>
    IN  /\ \A i, j \in DOMAIN sets : i # j => sets[i] \cap sets[j] = {}
        /\ Wrap \in Nat \ {0} /\ DiscoveryTicks \in Nat \ {0}

ASSUME SpaceAssumption ==
    /\ \A e \in Entry : {"device", "point", "fs"} \subseteq DOMAIN e
    /\ Length \in [Point -> Nat] /\ RefreshTicks \in Nat \ {0}

ASSUME HostsAssumption ==
    \A h \in Hosts :
        /\ h.devices \subseteq UNION {Disks, Interfaces, OwnCgroup, Containers, Processes,
                                     MacInterfaces}
        /\ h.entries \subseteq Entry /\ h.reinits \in 0..MaxReinits

ASSUME BoundsAssumption ==
    /\ {MaxWork, MaxRemovals, MaxJiffies, MaxTaken, MaxChanges, MaxReinits} \subseteq Nat
    /\ TickWrap \in Nat \ {0}
=============================================================================
