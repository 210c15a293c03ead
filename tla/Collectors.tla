----------------------------- MODULE Collectors -----------------------------
(***************************************************************************)
(* The collector task of the agent (run in main.rs) and the collectors it  *)
(* calls at every tick.  A tick runs the collectors of the configuration   *)
(* one after the other on a blocking thread; "queue" holds what is left of *)
(* it.  The gauges that need no memory (load, memory, TCP) are left out.   *)
(*                                                                         *)
(* A host is what is configured and what there is to be seen: on, the      *)
(* collectors; interval, in seconds; devices, entries, the counters and    *)
(* mounts that occur; failures, reinits, how many there may be.            *)
(***************************************************************************)
EXTENDS MetricsParams, Sequences

VARIABLES
    host, task, queue, tick_count, cancel, failures,
    \* Counters
    kernel, prev, totals, containers, discovery, since, anew, shown, sum, broken,
    work, removals,
    \* CpuTimes
    times, prev_times, back, shares, taken,
    \* SpaceReader
    table, health, mounts, age, todo, scan, cur, reply, emitted, flag, own, orphans,
    reinits, changes

N == INSTANCE Counters WITH age <- discovery
C == INSTANCE CpuTimes WITH prev <- prev_times
S == INSTANCE SpaceReader

counters == <<kernel, prev, totals, containers, discovery, since, anew, shown, sum, broken,
              work, removals>>
cpu == <<times, prev_times, back, shares, taken>>
space == <<table, health, mounts, age, todo, scan, cur, reply, emitted, flag, own, orphans,
           reinits, changes>>
loop == <<host, task, queue, tick_count, cancel, failures>>
vars == <<loop, counters, cpu, space>>

Init ==
    /\ host \in Hosts /\ task = "start" /\ queue = <<>> /\ tick_count = 0 /\ cancel = "no"
    /\ failures = 0
    /\ N!Init /\ C!Init /\ S!Init

-----------------------------------------------------------------------------
(* The loop *)

\* (mutant) The hour is taken in minutes.
InMinutes == (Hour \div 60) \div (IF host.interval > 1 THEN host.interval ELSE 1)

\* checkpoint_ticks
CheckpointTicks == Hour \div (IF host.interval > 1 THEN host.interval ELSE 1)

\* No number but 0 is a multiple of 0.
CheckpointDue ==
    tick_count > 0 /\ CheckpointTicks > 0 /\ tick_count % CheckpointTicks = 0

On(c, steps) == IF c \in host.on THEN steps ELSE <<>>
Due(step) == IF CheckpointDue THEN <<step>> ELSE <<>>

\* The order of init_collectors; checkpoint follows collect of the same collector.
Plan ==
    On("cpu", <<"cpu">>) \o
    On("disk", <<"io", "space">> \o Due("io_total")) \o
    On("network", <<"net">> \o Due("net_total")) \o
    On("mac_network", <<"mac">> \o Due("mac_total")) \o
    On("cgroups", <<"cgroup">>) \o
    On("containers", <<"containers">>) \o
    On("processes", <<"processes">>)

\* init_collectors; without any collector the task returns at once.
Begin ==
    /\ task = "start" /\ task' = IF host.on = {} THEN "ended" ELSE "idle"
    /\ UNCHANGED <<host, queue, tick_count, cancel, failures, counters, cpu, space>>

StartTick ==
    /\ task = "idle" /\ task' = "tick" /\ queue' = Plan
    /\ UNCHANGED <<host, tick_count, cancel, failures, counters, cpu, space>>

EndTick ==
    /\ task = "tick" /\ queue = <<>> /\ task' = "idle"
    /\ tick_count' = (tick_count + 1) % TickWrap
    /\ UNCHANGED <<host, queue, cancel, failures, counters, cpu, space>>

\* Step x of the tick does A.
Step(x, A) ==
    /\ task = "tick" /\ queue # <<>> /\ Head(queue) = x /\ A /\ queue' = Tail(queue)
    /\ UNCHANGED <<host, task, tick_count, cancel>>

Counts ==
    /\ \/ Step("io", N!CollectDisks) \/ Step("io_total", N!CheckpointDisks)
       \/ Step("net", N!CollectNetwork) \/ Step("net_total", N!CheckpointNetwork)
       \/ Step("mac", N!CollectMacNetwork) \/ Step("mac_total", N!CheckpointMacNetwork)
       \/ Step("cgroup", N!CollectCgroup)
       \/ Step("containers", N!CollectContainers)
       \/ Step("processes", N!CollectProcesses)
    /\ UNCHANGED <<failures, cpu, space>>

Cpu == Step("cpu", C!Collect) /\ UNCHANGED <<failures, counters, space>>

\* The space of the mounts is read in several steps.
InSpace(A) ==
    /\ task = "tick" /\ queue # <<>> /\ Head(queue) = "space" /\ A
    /\ UNCHANGED <<host, task, queue, tick_count, cancel, counters, cpu>>

Space ==
    /\ \/ InSpace((S!ListRead \/ S!ListKept) /\ S!StartScan)
       \/ InSpace(S!Reads)
       \/ Step("space", S!EndScan) /\ UNCHANGED <<counters, cpu>>
    /\ UNCHANGED failures

Tick == StartTick \/ Counts \/ Cpu \/ Space \/ EndTick

\* read_procfs, getifaddrs or read_dir fails, or a thread cannot be started.
Failure ==
    /\ failures < host.failures /\ failures' = failures + 1
    /\ \/ /\ \E x \in {"cpu", "io", "net", "mac", "cgroup", "processes"} : Step(x, TRUE)
          /\ UNCHANGED <<counters, cpu, space>>
       \/ Step("containers", N!NothingDiscovered) /\ UNCHANGED <<cpu, space>>
       \/ InSpace(S!ListUnreadable /\ S!StartScan)
       \/ InSpace(\E e \in Entry : S!SpawnFails(e))

\* New collectors know nothing of what the old ones read.
AllAnew == reinits < host.reinits /\ N!Reinit /\ C!Reinit /\ S!Reinit

\* A collector panics: the blocking task fails and the loop goes on with new ones.
Panic ==
    /\ task = "tick" /\ task' = "idle" /\ queue' = <<>>
    /\ tick_count' = (tick_count + 1) % TickWrap
    /\ AllAnew /\ UNCHANGED <<host, cancel, failures>>

\* The shutdown watch changes.
Cancel ==
    /\ cancel = "no" /\ cancel' = "yes"
    /\ UNCHANGED <<host, task, queue, tick_count, failures, counters, cpu, space>>

\* The watch is looked at between two ticks only.
End ==
    /\ task = "idle" /\ cancel = "yes" /\ task' = "ended"
    /\ UNCHANGED <<host, queue, tick_count, cancel, failures, counters, cpu, space>>

\* A reload: the next run of the agent starts the task again.
Rerun ==
    /\ task = "ended" /\ cancel = "yes" /\ task' = "start" /\ cancel' = "no"
    /\ tick_count' = 0 /\ queue' = <<>> /\ AllAnew /\ UNCHANGED <<host, failures>>

-----------------------------------------------------------------------------
(* Everything else: the kernel and the threads of SpaceReader *)

Kernel ==
    /\ \E d \in host.devices : N!Create(d) \/ N!Remove(d) \/ N!Work(d)
    /\ UNCHANGED <<loop, cpu, space>>

Clock == "cpu" \in host.on /\ C!Clock /\ UNCHANGED <<loop, counters, space>>

Filesystems ==
    /\ \/ \E e \in host.entries : S!Mount(e)
       \/ \E i \in DOMAIN table : S!Unmount(i)
       \/ \E e \in host.entries, h \in {"ok", "bad", "hung"} : S!Turns(e.point, h)
    /\ UNCHANGED <<loop, counters, cpu>>

Threads == S!Threads /\ UNCHANGED <<loop, counters, cpu>>

Next ==
    \/ Begin \/ Tick \/ Failure \/ Panic \/ End \/ Rerun \/ Cancel
    \/ Kernel \/ Clock \/ Filesystems \/ Threads

Spec == Init /\ [][Next]_vars

\* Ticks keep coming and a tick goes on; threads are scheduled; select! polls its
\* branches in random order, so a changed watch is noticed between two of the ticks.
Fairness ==
    /\ WF_vars(Begin) /\ WF_vars(Tick) /\ SF_vars(End)
    /\ \A p \in Point : WF_vars(/\ S!Answer(p) \/ S!ThreadEnds(p)
                                /\ UNCHANGED <<loop, counters, cpu>>)

FairSpec == Spec /\ Fairness

-----------------------------------------------------------------------------
\* A reading reports the work done since the reading before it, over failed ticks, new
\* lives of the device, panics and reloads of the task (Counters); the shares of the CPU
\* add up to the time between two readings, and exceed it only by what the idle and
\* iowait times of the kernel went back (CpuTimes).
ReportsAreWork == N!DeltaIsWork /\ C!SharesAddUp

\* The total of a checkpoint is the total of the one before and the differences reported
\* in between, wherever in the hour the task panicked or a device went (Counters).
CheckpointAgrees == N!CheckpointAgrees

\* What the collectors keep is bounded: readings of the containers on the list, and one
\* thread per mount point and life of the collectors, with in_flight set exactly while
\* it is at work, whatever was timed out, unmounted or forgotten (Counters, SpaceReader).
ResourcesBounded == N!OnlyListedRemembered /\ S!FlagTracksThread /\ S!ThreadsBounded

\* After everything that happened to it, every counter that is there has been read, and
\* the checkpoints have brought its total up to date: a file that could not be read, a
\* panic, a reload or a device made anew only delays it.  With an interval longer than
\* the hour between checkpoints there are no totals.
EventuallyUpToDate ==
    <>[](task = "ended" \/ \A d \in host.devices :
            /\ kernel[d] # N!None /\ (d \in MacInterfaces => kernel[d] # 0)
                   => prev[d] = kernel[d]
            /\ host.interval <= Hour /\ d \in N!Totalled /\ prev[d] # N!None
                   => shown[d] = IF d \in MacInterfaces THEN totals[d] ELSE prev[d])

\* A mount that is on the list and answers is reported again and again, however often it
\* hung before and whichever other mounts hang; one that is gone and has no thread left
\* is dropped from the map.  Of two mounts on one point, which share the flag of that
\* point, the second may be passed over at every tick.
MountsFollowed ==
    LET Listed == S!parse_mounts(table)
        Alone(e) == \A o \in Listed : o.point = e.point => o = e
    IN  /\ \A e \in Entry :
               <>[](e \in Listed /\ health[e.point] = "ok" /\ Alone(e))
                   => []<>(task = "ended" \/ e \in emitted)
        /\ \A p \in Point :
               []<>(task = "ended" \/ p \in S!Points(Listed) \/ flag[p] # "off")

\* The task ends after the watch changed, also with mounts that never answer: each of
\* them holds up the tick no longer than its timeout.
ShutdownEnds == cancel = "yes" ~> task = "ended"
=============================================================================
