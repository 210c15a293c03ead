------------------------------ MODULE Counters ------------------------------
(***************************************************************************)
(* Counters that are reported as the difference of two readings:           *)
(*   Kept      interfaces and disks of Linux (metrics/linux/network.rs,    *)
(*             disk.rs) and the agent's own cgroup (cgroups.rs), whose     *)
(*             readings are kept for ever;                                 *)
(*   Containers  (container.rs) are read from a list that is refreshed     *)
(*             every DiscoveryTicks, and forgotten when off the list;      *)
(*   Processes (process.rs) are listed and read at every tick, and         *)
(*             forgotten when not read;                                    *)
(*   MacInterfaces  (metrics/macos/network.rs) have 32-bit counters.       *)
(* Those of interfaces and disks are also reported as totals, at           *)
(* checkpoints.  A counter stands for all the fields of one interface,     *)
(* disk, cgroup or process, which are handled alike; a file is read in one *)
(* step.  The choice of the processes with the largest differences is left *)
(* out, and so are the gauges of cgroups and containers.                   *)
(***************************************************************************)
EXTENDS MetricsParams

\* No reading, or no such device.
None == -1

Kept == Disks \cup Interfaces \cup OwnCgroup
Counter == Kept \cup Containers \cup Processes \cup MacInterfaces

VARIABLES
    kernel,         \* the counter in the kernel
    prev,           \* the last reading, of every collector
    totals,         \* totals of the macOS collector
    containers,     \* the list of the container collector
    age,            \* its tick_count
    since,          \* the work done since the last reading
    anew,           \* "yes" if the device was made anew since then
    shown,          \* the last total reported
    sum,            \* the differences reported since then
    broken,         \* "yes" if one of them is of a device made anew
    work, removals  \* counters behind the bounds

collector == <<prev, totals, containers, age>>
reports == <<shown, sum, broken>>
world == <<kernel, work, removals>>
vars == <<collector, reports, world, since, anew>>

Init ==
    /\ kernel = [d \in Counter |-> None] /\ work = 0 /\ removals = 0
    /\ prev = [d \in Counter |-> None] /\ totals = [d \in Counter |-> None]
    /\ containers = {} /\ age = 0
    /\ since = [d \in Counter |-> 0] /\ anew = [d \in Counter |-> "no"]
    /\ shown = [d \in Counter |-> None] /\ sum = [d \in Counter |-> 0]
    /\ broken = [d \in Counter |-> "no"]

-----------------------------------------------------------------------------
(* Differences *)

Present == {d \in Counter : kernel[d] # None}

\* u64::saturating_sub
saturating_sub(a, b) == IF a >= b THEN a - b ELSE 0

\* (mutant) A counter that wrapped counts as one that did not move.
NoWrap(cur, old) == saturating_sub(cur, old)

delta32(cur, old) == IF cur >= old THEN cur - old ELSE cur + Wrap - old

\* What a reading of d reports now.
Delta(d) ==
    CASE prev[d] = None -> 0
      [] prev[d] # None /\ d \in MacInterfaces -> delta32(kernel[d], prev[d])
      [] OTHER -> saturating_sub(kernel[d], prev[d])
-----------------------------------------------------------------------------
(* The collectors *)

Totalled == Disks \cup Interfaces \cup MacInterfaces

\* The reports and the ghosts of a reading of the counters S.
Report(S) ==
    /\ since' = [d \in Counter |-> IF d \in S THEN 0 ELSE since[d]]
    /\ anew' = [d \in Counter |-> IF d \in S THEN "no" ELSE anew[d]]
    /\ sum' = [d \in Counter |-> IF d \in S THEN sum[d] + Delta(d) ELSE sum[d]]
    /\ broken' = [d \in Counter |->
                      IF d \in S /\ prev[d] # None /\ anew[d] = "yes" THEN "yes"
                      ELSE broken[d]]
    /\ UNCHANGED <<shown, world>>

\* (mutant) Only a larger reading replaces the last one.
RememberLarger(S, G) ==
    prev' = [d \in Counter |-> CASE d \in S /\ kernel[d] > prev[d] -> kernel[d]
                                 [] d \in G \ S -> None
                                 [] OTHER -> prev[d]]

\* prev after a reading of S that makes the collector forget G.
Remember(S, G) ==
    prev' = [d \in Counter |-> CASE d \in S -> kernel[d]
                                 [] d \in G \ S -> None
                                 [] OTHER -> prev[d]]

CollectKept(C) ==
    LET S == Present \cap C
    IN  Remember(S, {}) /\ Report(S) /\ UNCHANGED <<totals, containers, age>>

CollectDisks == CollectKept(Disks)
CollectNetwork == CollectKept(Interfaces)
CollectCgroup == CollectKept(OwnCgroup)

\* (mutant) Containers that are off the list are not forgotten.
NoneGone(list) == {}

\* The containers whose state is pruned.
Pruned(list) == Containers \ list

\* ContainerCollector, which found what is in list
CollectListed(list) ==
    LET S == Present \cap list
    IN  /\ containers' = list /\ age' = (age + 1) % TickWrap
        /\ Remember(S, Pruned(list)) /\ Report(S)
        /\ UNCHANGED totals

\* The containers found in the cgroup directories.
discover_containers == Present \cap Containers

CollectContainers ==
    CollectListed(IF age % DiscoveryTicks = 0 THEN discover_containers ELSE containers)

\* The directories cannot be read, which looks as if there were no containers.
NothingDiscovered == age % DiscoveryTicks = 0 /\ CollectListed({})

\* ProcessCollector
CollectProcesses ==
    LET S == Present \cap Processes
    IN  /\ Remember(S, Processes) /\ Report(S)
        /\ UNCHANGED <<totals, containers, age>>

\* (mutant) The totals are what was read last.
RawTotals(S) == totals' = [d \in Counter |-> IF d \in S THEN kernel[d] ELSE totals[d]]

\* The totals, which start from the first reading.
AddToTotals(S) ==
    totals' = [d \in Counter |-> CASE d \in S /\ prev[d] = None -> kernel[d]
                                   [] d \in S /\ prev[d] # None -> totals[d] + Delta(d)
                                   [] OTHER -> totals[d]]

\* Interfaces without any traffic are passed over.
read_if_stats == {d \in Present \cap MacInterfaces : kernel[d] # 0}

\* NetworkCollector of macOS
CollectMacNetwork ==
    LET S == read_if_stats
    IN  /\ Remember(S, {}) /\ AddToTotals(S) /\ Report(S)
        /\ UNCHANGED <<containers, age>>

\* checkpoint of the collector of the counters C
Checkpoint(C) ==
    LET S == {d \in C \cap Totalled : prev[d] # None}
    IN  /\ shown' = [d \in Counter |-> CASE d \in S \cap Kept -> prev[d]
                                         [] d \in S \cap MacInterfaces -> totals[d]
                                         [] OTHER -> shown[d]]
        /\ sum' = [d \in Counter |-> IF d \in S THEN 0 ELSE sum[d]]
        /\ broken' = [d \in Counter |-> IF d \in S THEN "no" ELSE broken[d]]
        /\ UNCHANGED <<collector, world, since, anew>>

CheckpointDisks == Checkpoint(Disks)
CheckpointNetwork == Checkpoint(Interfaces)
CheckpointMacNetwork == Checkpoint(MacInterfaces)

\* The collectors are made anew; what was reported before is not compared with what is
\* reported from now on.
Reinit ==
    /\ prev' = [d \in Counter |-> None] /\ totals' = [d \in Counter |-> None]
    /\ containers' = {} /\ age' = 0
    /\ shown' = [d \in Counter |-> None] /\ sum' = [d \in Counter |-> 0]
    /\ broken' = [d \in Counter |-> "no"]
    /\ UNCHANGED <<world, since, anew>>
-----------------------------------------------------------------------------
(* The kernel *)

\* An interface, a container, a process appears.  A name or a number may return.
Create(d) ==
    /\ kernel[d] = None /\ kernel' = [kernel EXCEPT ![d] = 0]
    /\ anew' = [anew EXCEPT ![d] = "yes"]
    /\ UNCHANGED <<collector, reports, since, work, removals>>

Remove(d) ==
    /\ kernel[d] # None /\ removals < MaxRemovals
    /\ kernel' = [kernel EXCEPT ![d] = None] /\ removals' = removals + 1
    /\ UNCHANGED <<collector, reports, since, anew, work>>

Work(d) ==
    /\ kernel[d] # None /\ work < MaxWork /\ work' = work + 1
    /\ kernel' = [kernel EXCEPT ![d] =
                      IF d \in MacInterfaces /\ @ + 1 = Wrap THEN 0 ELSE @ + 1]
    /\ since' = [since EXCEPT ![d] = @ + 1]
    /\ UNCHANGED <<collector, reports, anew, removals>>

Devices == \E d \in Counter : Create(d) \/ Remove(d) \/ Work(d)

Next ==
    \/ CollectDisks \/ CollectNetwork \/ CollectCgroup
    \/ CollectContainers \/ NothingDiscovered \/ CollectProcesses \/ CollectMacNetwork
    \/ CheckpointDisks \/ CheckpointNetwork \/ CheckpointMacNetwork
    \/ Reinit \/ Devices

Spec == Init /\ [][Next]_vars

-----------------------------------------------------------------------------
\* The variables have their types.
TypeOK ==
    /\ kernel \in [Counter -> Nat \cup {None}] /\ prev \in [Counter -> Nat \cup {None}]
    /\ totals \in [Counter -> Nat \cup {None}] /\ shown \in [Counter -> Nat \cup {None}]
    /\ since \in [Counter -> Nat] /\ sum \in [Counter -> Nat]
    /\ anew \in [Counter -> {"no", "yes"}] /\ broken \in [Counter -> {"no", "yes"}]
    /\ containers \subseteq Containers /\ age \in 0..TickWrap - 1
    /\ work \in Nat /\ removals \in Nat
    /\ \A d \in MacInterfaces : kernel[d] < Wrap /\ prev[d] < Wrap

\* What a reading reports is the work done since the reading before it, over ticks that
\* did not find the device, restarts of the collector and one wrap of a 32-bit counter;
\* if the device was made anew in between it is at most that, for 64-bit counters.
DeltaIsWork ==
    \A d \in Present : prev[d] # None =>
        /\ anew[d] = "no" /\ (d \in MacInterfaces => since[d] < Wrap) => Delta(d) = since[d]
        /\ d \notin MacInterfaces => Delta(d) <= since[d]

\* The totals of the checkpoints agree with the differences reported between them: the
\* total is the last total and the differences since, or less when one of those was of a
\* device made anew.  On macOS, where totals are added up, it is never less.
CheckpointAgrees ==
    \A d \in Totalled : shown[d] # None /\ prev[d] # None =>
        LET total == IF d \in MacInterfaces THEN totals[d] ELSE prev[d]
        IN  /\ total <= shown[d] + sum[d]
            /\ broken[d] = "no" \/ d \in MacInterfaces => total = shown[d] + sum[d]

\* A reading is remembered for the containers of the list only, so that containers that
\* come and go do not fill the map.
OnlyListedRemembered == \A d \in Containers : prev[d] # None => d \in containers
=============================================================================
