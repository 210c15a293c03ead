----------------------------- MODULE SpaceReader ----------------------------
(***************************************************************************)
(* The space of the mounted filesystems: the Linux disk collector's list   *)
(* of mounts (metrics/linux/disk.rs) and the SpaceReader that asks each of *)
(* them on a thread of its own and gives up after STATVFS_TIMEOUT          *)
(* (metrics/disk_space.rs).                                                *)
(*                                                                         *)
(* A thread holds a reference to the flag of its mount.  A thread whose    *)
(* flag is still the one of the map is in "own"; the others, whose entry   *)
(* of the map is gone, are only counted, in "orphans".  Which mount of the *)
(* list is asked next is left open; figures and log lines are left out.  A *)
(* filesystem that needs longer than the timeout is one that is hung and   *)
(* recovers later.                                                         *)
(***************************************************************************)
EXTENDS MetricsParams, Sequences

NoEntry == [device |-> "none", point |-> "none", fs |-> "none"]

VARIABLES
    table,          \* /proc/mounts
    health,         \* how the filesystem at each point answers: "ok", "bad", "hung"
    mounts,         \* the list of the collector
    age,            \* its tick_count
    todo,           \* the mounts this tick still has to read
    scan,           \* "idle" between ticks, "read", or "wait" for an answer
    cur,            \* the mount waited for
    reply,          \* what is in the channel to the waiting collector
    emitted,        \* the mounts reported in this tick
    flag,           \* in_flight of each point: "on", "off", or "none": not in the map
    own,            \* the thread of that flag: "none", "reading", "replied"
    orphans,        \* the number of threads whose flag was forgotten
    reinits,        \* how often the collector was made anew
    changes         \* the changes to the filesystems

reader == <<flag, own, orphans>>
collector == <<mounts, age, todo, scan, cur, reply, emitted>>
world == <<table, health, changes>>
vars == <<reader, collector, world, reinits>>

Init ==
    /\ table = <<>> /\ health = [p \in Point |-> "ok"] /\ changes = 0
    /\ mounts = {} /\ age = 0 /\ todo = {} /\ scan = "idle" /\ cur = NoEntry
    /\ reply = "none" /\ emitted = {} /\ reinits = 0
    /\ flag = [p \in Point |-> "none"] /\ own = [p \in Point |-> "none"]
    /\ orphans = [p \in Point |-> 0]

-----------------------------------------------------------------------------
(* The list of mounts *)

\* fs_type_allowed
fs_type_allowed(fs) == fs \in FsTypes

\* parse_mounts: of the mounts of one device, the one with the shortest path, and of
\* several such the first.
parse_mounts(t) ==
    LET Ahead(j, i) == \/ Length[t[j].point] < Length[t[i].point]
                       \/ Length[t[j].point] = Length[t[i].point] /\ j < i
    IN  {t[i] : i \in {i \in DOMAIN t :
            /\ fs_type_allowed(t[i].fs)
            /\ ~\E j \in DOMAIN t : /\ fs_type_allowed(t[j].fs)
                                    /\ t[j].device = t[i].device /\ Ahead(j, i)}}

Points(entries) == {e.point : e \in entries}

\* The map forgets points; a thread that has not ended keeps its flag alone.
Forget(points) ==
    /\ flag' = [p \in Point |-> IF p \in points THEN "none" ELSE flag[p]]
    /\ own' = [p \in Point |-> IF p \in points THEN "none" ELSE own[p]]
    /\ orphans' = [p \in Point |-> IF p \in points /\ own[p] # "none" THEN orphans[p] + 1
                                   ELSE orphans[p]]

\* (mutant) Every mount that is gone is forgotten.
RetainListed(current) == Forget(Point \ current)

\* (mutant) Nothing is ever forgotten.
RetainAll(current) == Forget({})

\* retain_mounts: a mount whose read is stuck stays in the map.
retain_mounts(current) == Forget({p \in Point \ current : flag[p] # "on"})

\* /proc/mounts is read: every RefreshTicks ticks.
ListRead ==
    /\ age % RefreshTicks = 0
    /\ mounts' = parse_mounts(table) /\ retain_mounts(Points(mounts'))

\* It is due and cannot be read, or it is not due.
ListUnreadable == age % RefreshTicks = 0 /\ UNCHANGED <<mounts, reader>>
ListKept == age % RefreshTicks # 0 /\ UNCHANGED <<mounts, reader>>

\* The start of a tick.
StartScan ==
    /\ scan = "idle" /\ scan' = "read"
    /\ age' = (age + 1) % TickWrap
    /\ todo' = mounts' /\ emitted' = {}
    /\ UNCHANGED <<cur, reply, world, reinits>>

-----------------------------------------------------------------------------
(* SpaceReader::read for one mount of the list *)

\* An earlier read of this mount is still stuck.
Skip(e) ==
    /\ scan = "read" /\ e \in todo /\ flag[e.point] = "on"
    /\ todo' = todo \ {e}
    /\ UNCHANGED <<reader, mounts, age, scan, cur, reply, emitted, world, reinits>>

\* (mutant) The flag is set by the thread, which may come too late.
NotFlagged(e) == [flag EXCEPT ![e.point] = "off"]

\* The flag is set before the thread is started.
Flagged(e) == [flag EXCEPT ![e.point] = "on"]

\* spawn_read: the thread is started, and its answer is waited for.
Spawn(e) ==
    /\ scan = "read" /\ e \in todo /\ flag[e.point] # "on"
    /\ flag' = Flagged(e)
    /\ own' = [own EXCEPT ![e.point] = "reading"]
    /\ scan' = "wait" /\ cur' = e /\ reply' = "none"
    /\ UNCHANGED <<orphans, mounts, age, todo, emitted, world, reinits>>

\* The thread cannot be started; dropping its closure clears the flag.
SpawnFails(e) ==
    /\ scan = "read" /\ e \in todo /\ flag[e.point] # "on"
    /\ flag' = [flag EXCEPT ![e.point] = "off"]
    /\ todo' = todo \ {e}
    /\ UNCHANGED <<own, orphans, mounts, age, scan, cur, reply, emitted, world, reinits>>

\* On to the next mount.
Leave ==
    /\ scan' = "read" /\ todo' = todo \ {cur} /\ cur' = NoEntry /\ reply' = "none"
    /\ UNCHANGED <<reader, mounts, age, world, reinits>>

Receive ==
    /\ scan = "wait" /\ reply # "none"
    /\ emitted' = IF reply = "ok" THEN emitted \cup {cur} ELSE emitted
    /\ Leave

\* (mutant) The wait has no end.
NoTimeout == FALSE /\ UNCHANGED vars

\* recv_timeout gives up; the thread stays behind.
Timeout ==
    /\ scan = "wait" /\ reply = "none" /\ health[cur.point] = "hung"
    /\ UNCHANGED emitted /\ Leave

EndScan ==
    /\ scan = "read" /\ todo = {} /\ scan' = "idle"
    /\ UNCHANGED <<reader, mounts, age, todo, cur, reply, emitted, world, reinits>>

\* The collectors are made anew: after a panic, or in the next run of the agent.
Reinit ==
    /\ Forget(Point)
    /\ mounts' = {} /\ age' = 0 /\ todo' = {} /\ scan' = "idle" /\ cur' = NoEntry
    /\ reply' = "none" /\ emitted' = {} /\ reinits' = reinits + 1
    /\ UNCHANGED world

-----------------------------------------------------------------------------
(* The threads *)

\* statvfs returns and the answer is sent, to nobody if the collector gave up.
Answer(p) ==
    /\ own[p] = "reading" /\ health[p] # "hung"
    /\ own' = [own EXCEPT ![p] = "replied"]
    /\ reply' = IF cur.point = p THEN health[p] ELSE reply
    /\ UNCHANGED <<flag, orphans, mounts, age, todo, scan, cur, emitted, world, reinits>>

\* (mutant) The guard of an abandoned read does not clear the flag.
KeepsFlag(p) == flag' = IF cur.point = p THEN [flag EXCEPT ![p] = "off"] ELSE flag

\* InFlightGuard::drop
ClearFlag(p) == flag' = [flag EXCEPT ![p] = "off"]

ThreadEnds(p) ==
    /\ own[p] = "replied"
    /\ ClearFlag(p) /\ own' = [own EXCEPT ![p] = "none"]
    /\ UNCHANGED <<orphans, collector, world, reinits>>

\* A thread nobody knows any more ends.
OrphanEnds(p) ==
    /\ orphans[p] > 0 /\ health[p] # "hung"
    /\ orphans' = [orphans EXCEPT ![p] = @ - 1]
    /\ UNCHANGED <<flag, own, collector, world, reinits>>

-----------------------------------------------------------------------------
(* The operator and the servers behind the mounts *)

Change == changes < MaxChanges /\ changes' = changes + 1

Mount(e) ==
    /\ Change /\ e \notin {table[i] : i \in DOMAIN table} /\ table' = Append(table, e)
    /\ UNCHANGED <<health, reader, collector, reinits>>

Unmount(i) ==
    /\ Change /\ i \in DOMAIN table
    /\ table' = SubSeq(table, 1, i - 1) \o SubSeq(table, i + 1, Len(table))
    /\ UNCHANGED <<health, reader, collector, reinits>>

Turns(p, h) ==
    /\ Change /\ health[p] # h /\ health' = [health EXCEPT ![p] = h]
    /\ UNCHANGED <<table, reader, collector, reinits>>

-----------------------------------------------------------------------------
\* What the collector does in a tick after its start, and what the threads do.
Reads == (\E e \in Entry : Skip(e) \/ Spawn(e)) \/ Receive \/ Timeout
Threads == \E p \in Point : Answer(p) \/ ThreadEnds(p) \/ OrphanEnds(p)
Filesystems ==
    \/ \E e \in Entry : Mount(e)
    \/ \E i \in DOMAIN table : Unmount(i)
    \/ \E p \in Point, h \in {"ok", "bad", "hung"} : Turns(p, h)

Next ==
    \/ (ListRead \/ ListUnreadable \/ ListKept) /\ StartScan
    \/ Reads \/ EndScan \/ Threads \/ Filesystems
    \/ \E e \in Entry : SpawnFails(e)
    \/ reinits < MaxReinits /\ Reinit

Spec == Init /\ [][Next]_vars

-----------------------------------------------------------------------------
\* The variables have their types.
TypeOK ==
    /\ table \in Seq(Entry) /\ health \in [Point -> {"ok", "bad", "hung"}] /\ changes \in Nat
    /\ mounts \subseteq Entry /\ todo \subseteq mounts /\ emitted \subseteq mounts
    /\ age \in 0..TickWrap - 1 /\ scan \in {"idle", "read", "wait"}
    /\ IF scan = "wait" THEN cur \in todo ELSE cur = NoEntry
    /\ reply \in {"none", "ok", "bad"} /\ reinits \in Nat
    /\ flag \in [Point -> {"none", "off", "on"}]
    /\ own \in [Point -> {"none", "reading", "replied"}]
    /\ orphans \in [Point -> Nat]

\* in_flight of a mount is set exactly while the thread that reads it lives, whether the
\* collector waits for it, gave it up, or the mount is gone from the list: that the
\* mount is asked again after it answered, and never twice at once, rests on it.
FlagTracksThread == \A p \in Point : flag[p] = "on" <=> own[p] # "none"

\* "At most one thread per mount is ever outstanding" (disk_space.rs:115) within one
\* life of the collector: a mount has at most one thread more than the collectors were
\* made anew, by a panic or by a reload, while one was stuck.
ThreadsBounded ==
    \A p \in Point : orphans[p] + (IF own[p] = "none" THEN 0 ELSE 1) <= reinits + 1
=============================================================================
