-------------------------- MODULE Collectors_proofs -------------------------
(***************************************************************************)
(* Proofs about the metric collectors.  Every step of the loop in          *)
(* Collectors is a step of Counters, of CpuTimes and of SpaceReader, or    *)
(* leaves the component alone, so that what holds of each of them by       *)
(* itself holds in every interleaving the loop allows.                     *)
(***************************************************************************)
EXTENDS Collectors, TLAPS

-----------------------------------------------------------------------------
(* Counters *)

\* The sets of names have nothing in common.
LEMMA Apart ==
    /\ MacInterfaces \cap N!Kept = {} /\ N!Totalled \cap (Containers \cup Processes) = {}
    /\ MacInterfaces \cap (Containers \cup Processes) = {}
    /\ Containers \cap Processes = {} /\ Containers \cap N!Kept = {}
  <1> DEFINE sets == <<Disks, Interfaces, OwnCgroup, Containers, Processes, MacInterfaces>>
  <1>1. \A i, j \in 1..6 : i # j => sets[i] \cap sets[j] = {}
    BY CountersAssumption
  <1>2. /\ Disks \cap Containers = {} /\ Disks \cap Processes = {}
        /\ Disks \cap MacInterfaces = {}
    BY <1>1
  <1>3. /\ Interfaces \cap Containers = {} /\ Interfaces \cap Processes = {}
        /\ Interfaces \cap MacInterfaces = {}
    BY <1>1
  <1>4. /\ OwnCgroup \cap Containers = {} /\ OwnCgroup \cap MacInterfaces = {}
    BY <1>1
  <1>5. /\ Containers \cap Processes = {} /\ Containers \cap MacInterfaces = {}
        /\ Processes \cap MacInterfaces = {}
    BY <1>1
  <1> QED
    BY Zenon, <1>2, <1>3, <1>4, <1>5 DEF N!Kept, N!Totalled

\* The kernel has moved on from the last reading by the work done since, and by less if
\* the device was made anew.
Moved ==
    \A d \in N!Counter : kernel[d] # N!None /\ prev[d] # N!None =>
        /\ d \notin MacInterfaces =>
               /\ kernel[d] - prev[d] <= since[d]
               /\ anew[d] = "no" => kernel[d] - prev[d] = since[d]
        /\ d \in MacInterfaces =>
               (anew[d] = "no" /\ since[d] < Wrap => N!delta32(kernel[d], prev[d]) = since[d])

\* The types, without those of the bounds.
CounterTypes ==
    /\ kernel \in [N!Counter -> Nat \cup {N!None}] /\ prev \in [N!Counter -> Nat \cup {N!None}]
    /\ totals \in [N!Counter -> Nat \cup {N!None}] /\ shown \in [N!Counter -> Nat \cup {N!None}]
    /\ since \in [N!Counter -> Nat] /\ sum \in [N!Counter -> Nat]
    /\ anew \in [N!Counter -> {"no", "yes"}] /\ broken \in [N!Counter -> {"no", "yes"}]
    /\ \A d \in MacInterfaces : kernel[d] < Wrap /\ prev[d] < Wrap

\* A total that was reported is of a device that is remembered.
ShownIsRead ==
    /\ \A d \in N!Totalled : shown[d] # N!None => prev[d] # N!None
    /\ \A d \in MacInterfaces : prev[d] # N!None => totals[d] # N!None

CounterCore == CounterTypes /\ Moved /\ ShownIsRead /\ N!CheckpointAgrees

LEMMA CountersInit == N!Init => CounterCore
  BY CountersAssumption DEF N!Init, CounterCore, CounterTypes, Moved, ShownIsRead, N!CheckpointAgrees, N!None,
     N!Counter, N!Totalled, N!Kept

\* What a reading reports is a number, and no less than the counter moved.
LEMMA DeltaFacts ==
    ASSUME CounterTypes, NEW d \in N!Counter, kernel[d] # N!None
    PROVE  /\ N!Delta(d) \in Nat
           /\ prev[d] # N!None => kernel[d] - prev[d] <= N!Delta(d)
           /\ prev[d] # N!None /\ d \notin MacInterfaces /\ kernel[d] >= prev[d]
                  => N!Delta(d) = kernel[d] - prev[d]
  BY CountersAssumption DEF CounterTypes, N!Delta, N!delta32, N!saturating_sub, N!None

\* A reading of D that forgets some of the containers and processes.
LEMMA ReadingKeeps ==
    ASSUME CounterCore, NEW D \in SUBSET N!Present, NEW G \in SUBSET (Containers \cup Processes),
           N!Remember(D, G), N!Report(D),
           \/ D \cap MacInterfaces = {} /\ UNCHANGED totals
           \/ N!AddToTotals(D)
    PROVE  CounterCore'
  <1> USE DEF CounterCore
  <1>0. D \subseteq N!Counter
    BY Zenon DEF N!Present
  <1>1. \A d \in D : /\ kernel[d] \in Nat /\ prev'[d] = kernel[d] /\ since'[d] = 0
                     /\ anew'[d] = "no" /\ sum'[d] = sum[d] + N!Delta(d)
    BY Zenon, <1>0 DEF N!Present, N!Remember, N!Report, CounterTypes
  <1>2. \A d \in N!Counter \ D : /\ prev'[d] \in {prev[d], N!None} /\ since'[d] = since[d]
                                 /\ anew'[d] = anew[d] /\ sum'[d] = sum[d]
                                 /\ broken'[d] = broken[d]
                                 /\ d \notin Containers \cup Processes => prev'[d] = prev[d]
    BY Zenon DEF N!Remember, N!Report
  <1>3. UNCHANGED <<kernel, shown>>
    BY Zenon DEF N!Report, N!world
  <1>4. \A d \in D : N!Delta(d) \in Nat
    BY Zenon, <1>0, DeltaFacts DEF N!Present
  <1>5. CounterTypes'
    <2>1. totals' \in [N!Counter -> Nat \cup {N!None}]
      <3>1. CASE UNCHANGED totals
        BY Zenon, <3>1 DEF CounterTypes
      <3>2. CASE N!AddToTotals(D)
        BY <3>2, <1>0, <1>1, <1>4 DEF CounterTypes, N!AddToTotals, N!None, ShownIsRead
      <3> QED
        BY Zenon, <3>1, <3>2
    <2>2. prev' \in [N!Counter -> Nat \cup {N!None}]
      BY Zenon, <1>0, <1>1, <1>2 DEF CounterTypes, N!Remember
    <2>3. sum' \in [N!Counter -> Nat] /\ since' \in [N!Counter -> Nat]
      BY <1>0, <1>1, <1>2, <1>4 DEF CounterTypes, N!Report
    <2>4. anew' \in [N!Counter -> {"no", "yes"}] /\ broken' \in [N!Counter -> {"no", "yes"}]
      BY Zenon DEF CounterTypes, N!Report
    <2>5. \A d \in MacInterfaces : kernel'[d] < Wrap /\ prev'[d] < Wrap
      BY <1>0, <1>1, <1>2, <1>3, CountersAssumption DEF CounterTypes, N!None, N!Counter
    <2> QED
      BY Zenon, <1>3, <2>1, <2>2, <2>3, <2>4, <2>5 DEF CounterTypes
  <1>6. Moved'
    BY <1>0, <1>1, <1>2, <1>3, <1>5 DEF Moved, N!delta32, CounterTypes
  <1>7. ShownIsRead'
    BY <1>0, <1>1, <1>2, <1>3, <1>4, Apart
       DEF ShownIsRead, N!AddToTotals, N!None, CounterTypes, N!Totalled, N!Kept, N!Counter
  <1>8. N!CheckpointAgrees'
    <2> SUFFICES ASSUME NEW d \in N!Totalled, shown'[d] # N!None, prev'[d] # N!None
                 PROVE  LET total == IF d \in MacInterfaces THEN totals'[d] ELSE prev'[d]
                        IN  /\ total <= shown'[d] + sum'[d]
                            /\ broken'[d] = "no" \/ d \in MacInterfaces
                                   => total = shown'[d] + sum'[d]
      BY Zenon DEF N!CheckpointAgrees
    <2>1. d \in N!Counter /\ d \notin Containers \cup Processes /\ shown[d] # N!None
      BY Zenon, <1>3, Apart DEF N!Totalled, N!Counter, N!Kept
    <2>2. prev[d] # N!None /\ prev[d] \in Nat /\ shown[d] \in Nat /\ sum[d] \in Nat
      BY Zenon, <2>1 DEF ShownIsRead, CounterTypes
    <2>3. CASE d \notin D
      <3>1. prev'[d] = prev[d] /\ sum'[d] = sum[d] /\ broken'[d] = broken[d]
        BY Zenon, <1>2, <2>1, <2>3
      <3>2. totals'[d] = totals[d]
        BY Zenon, <2>1, <2>3 DEF N!AddToTotals
      <3> QED
        BY Zenon, <1>3, <2>2, <3>1, <3>2 DEF N!CheckpointAgrees
    <2>4. CASE d \in D /\ d \in MacInterfaces
      <3>1. totals'[d] = totals[d] + N!Delta(d)
        BY Zenon, <2>1, <2>2, <2>4 DEF N!AddToTotals
      <3>2. totals[d] \in Nat /\ totals[d] = shown[d] + sum[d]
        BY Zenon, <2>1, <2>2, <2>4 DEF N!CheckpointAgrees, ShownIsRead, CounterTypes
      <3> QED
        BY <1>1, <1>3, <1>4, <2>2, <2>4, <3>1, <3>2
    <2>5. CASE d \in D /\ d \notin MacInterfaces
      <3>1. kernel[d] \in Nat /\ kernel[d] # N!None /\ kernel[d] - prev[d] <= N!Delta(d)
        BY Zenon, <1>1, <2>1, <2>2, <2>5, DeltaFacts DEF N!None
      <3>2. prev[d] <= shown[d] + sum[d]
        BY Zenon, <2>1, <2>2, <2>5 DEF N!CheckpointAgrees
      <3>3. prev'[d] <= shown'[d] + sum'[d]
        BY <1>1, <1>3, <1>4, <2>2, <2>5, <3>1, <3>2
      <3>4. ASSUME broken'[d] = "no" PROVE prev'[d] = shown'[d] + sum'[d]
        <4>1. broken[d] = "no" /\ anew[d] = "no"
          BY Zenon, <2>1, <2>2, <2>5, <3>4 DEF N!Report, CounterTypes
        <4>2. kernel[d] - prev[d] = since[d] /\ since[d] \in Nat
          BY Zenon, <2>1, <2>2, <2>5, <3>1, <4>1 DEF Moved, CounterTypes
        <4>3. N!Delta(d) = kernel[d] - prev[d]
          BY <2>1, <2>2, <2>5, <3>1, <4>2, DeltaFacts
        <4>4. prev[d] = shown[d] + sum[d]
          BY Zenon, <2>1, <2>2, <2>5, <4>1 DEF N!CheckpointAgrees
        <4> QED
          BY <1>1, <1>3, <2>2, <2>5, <3>1, <4>3, <4>4
      <3> QED
        BY Zenon, <2>5, <3>3, <3>4
    <2> QED
      BY Zenon, <2>3, <2>4, <2>5
  <1> QED
    BY Zenon, <1>5, <1>6, <1>7, <1>8

LEMMA CheckpointKeeps ==
    ASSUME CounterCore, NEW X \in SUBSET N!Counter, N!Checkpoint(X)
    PROVE  CounterCore'
  <1> USE DEF CounterCore
  <1> DEFINE D == {d \in X \cap N!Totalled : prev[d] # N!None}
  <1>1. UNCHANGED <<kernel, prev, totals, since, anew>>
    BY Zenon DEF N!Checkpoint, N!collector, N!world
  <1>2. CounterTypes'
    BY Zenon, <1>1, CountersAssumption DEF CounterTypes, N!Checkpoint
  <1>3. \A d \in N!Totalled : d \in N!Counter /\ (d \in N!Kept <=> d \notin MacInterfaces)
    BY Zenon, Apart DEF N!Totalled, N!Counter, N!Kept
  <1>4. \A d \in D : /\ shown'[d] = IF d \in MacInterfaces THEN totals[d] ELSE prev[d]
                     /\ sum'[d] = 0
    BY Zenon, <1>3 DEF N!Checkpoint
  <1>5. \A d \in N!Totalled \ D : /\ shown'[d] = shown[d] /\ sum'[d] = sum[d]
                                  /\ broken'[d] = broken[d]
    BY Zenon, <1>3 DEF N!Checkpoint
  <1>6. Moved'
    BY Zenon, <1>1 DEF Moved
  <1>7. ShownIsRead'
    BY Zenon, <1>1, <1>3, <1>4, <1>5 DEF ShownIsRead
  <1>8. \A d \in N!Totalled : prev[d] # N!None =>
            (IF d \in MacInterfaces THEN totals[d] ELSE prev[d]) \in Nat
    BY Zenon, <1>3 DEF ShownIsRead, CounterTypes
  <1>9. N!CheckpointAgrees'
    BY <1>1, <1>4, <1>5, <1>8 DEF N!CheckpointAgrees
  <1> QED
    BY Zenon, <1>2, <1>6, <1>7, <1>9

LEMMA CountersReinit == ASSUME CounterCore, N!Reinit PROVE CounterCore'
  <1>1. CounterTypes'
    BY CountersAssumption DEF CounterCore, CounterTypes, N!Reinit, N!world, N!None, N!Counter
  <1>2. N!Totalled \subseteq N!Counter /\ MacInterfaces \subseteq N!Counter
    BY Zenon DEF N!Totalled, N!Counter, N!Kept
  <1> QED
    BY Zenon, <1>1, <1>2 DEF CounterCore, Moved, ShownIsRead, N!CheckpointAgrees, N!Reinit

\* What the kernel does changes neither readings nor reports.
LEMMA DevicesKeep == ASSUME CounterCore, N!Devices PROVE CounterCore'
  <1> USE DEF CounterCore
  <1>1. PICK d \in N!Counter : N!Create(d) \/ N!Remove(d) \/ N!Work(d)
    BY Zenon DEF N!Devices
  <1>2. UNCHANGED <<prev, totals, shown, sum, broken>>
    BY Zenon, <1>1 DEF N!Create, N!Remove, N!Work, N!collector, N!reports
  <1>3. ShownIsRead' /\ N!CheckpointAgrees'
    BY Zenon, <1>2 DEF ShownIsRead, N!CheckpointAgrees
  <1>4. MacInterfaces \subseteq N!Counter
    BY Zenon DEF N!Counter
  <1>5. CASE N!Create(d)
    <2>1. CounterTypes'
      BY <1>2, <1>4, <1>5, CountersAssumption DEF N!Create, CounterTypes, N!None
    <2>2. Moved'
      BY <1>2, <1>5 DEF N!Create, CounterTypes, Moved, N!None
    <2> QED
      BY Zenon, <1>3, <2>1, <2>2
  <1>6. CASE N!Remove(d)
    <2>1. CounterTypes'
      BY <1>2, <1>4, <1>6, CountersAssumption DEF N!Remove, CounterTypes, N!None
    <2>2. Moved'
      BY Zenon, <1>2, <1>6 DEF N!Remove, CounterTypes, Moved, N!None
    <2> QED
      BY Zenon, <1>3, <2>1, <2>2
  <1>7. CASE N!Work(d)
    <2>1. CounterTypes'
      BY <1>2, <1>4, <1>7, CountersAssumption DEF N!Work, CounterTypes, N!None
    <2>2. /\ \A x \in N!Counter \ {d} : kernel'[x] = kernel[x] /\ since'[x] = since[x]
          /\ since'[d] = since[d] + 1 /\ kernel[d] \in Nat /\ UNCHANGED anew
          /\ kernel'[d] = IF d \in MacInterfaces /\ kernel[d] + 1 = Wrap THEN 0
                          ELSE kernel[d] + 1
      BY Zenon, <1>7 DEF N!Work, CounterTypes
    <2>3. ASSUME kernel'[d] # N!None, prev[d] # N!None, d \notin MacInterfaces
          PROVE  /\ kernel'[d] - prev[d] <= since'[d]
                 /\ anew[d] = "no" => kernel'[d] - prev[d] = since'[d]
      BY <2>2, <2>3 DEF CounterTypes, Moved, N!None
    <2>4. ASSUME kernel'[d] # N!None, prev[d] # N!None, d \in MacInterfaces,
                 anew[d] = "no", since'[d] < Wrap
          PROVE  N!delta32(kernel'[d], prev[d]) = since'[d]
      BY <2>2, <2>4, CountersAssumption DEF CounterTypes, Moved, N!None, N!delta32
    <2>5. Moved'
      BY Zenon, <1>2, <2>2, <2>3, <2>4 DEF Moved, N!delta32
    <2> QED
      BY Zenon, <1>3, <2>1, <2>5
  <1> QED
    BY Zenon, <1>1, <1>5, <1>6, <1>7

\* The inductive invariant: the list has containers only, and all that are remembered.
CountersInv == CounterCore /\ containers \subseteq Containers /\ N!OnlyListedRemembered

LEMMA ListedKeeps ==
    ASSUME CountersInv, NEW list \in SUBSET Containers, N!CollectListed(list)
    PROVE  CountersInv'
  <1> DEFINE D == N!Present \cap list
  <1>1. CounterCore'
    BY Zenon, ReadingKeeps, Apart DEF CountersInv, N!CollectListed, N!Pruned
  <1>2. containers' = list
    BY Zenon DEF N!CollectListed
  <1>3. N!OnlyListedRemembered'
    BY Zenon, <1>2 DEF N!OnlyListedRemembered, N!CollectListed, N!Remember, N!Pruned, N!Counter
  <1> QED
    BY Zenon, <1>1, <1>2, <1>3 DEF CountersInv

LEMMA CountersNext == CountersInv /\ [N!Next]_(N!vars) => CountersInv'
  <1> SUFFICES ASSUME CountersInv, [N!Next]_(N!vars) PROVE CountersInv'
    BY Zenon
  <1>1. ASSUME NEW X \in SUBSET N!Kept, N!CollectKept(X) PROVE CountersInv'
    <2>1. CounterCore'
      BY Zenon, <1>1, ReadingKeeps, Apart DEF CountersInv, N!CollectKept
    <2>2. \A d \in Containers : prev'[d] = prev[d]
      BY Zenon, <1>1, Apart DEF N!CollectKept, N!Remember, N!Counter
    <2> QED
      BY Zenon, <1>1, <2>1, <2>2 DEF CountersInv, N!OnlyListedRemembered, N!CollectKept
  <1>2. CASE N!CollectDisks \/ N!CollectNetwork \/ N!CollectCgroup
    BY Zenon, <1>1, <1>2 DEF N!CollectDisks, N!CollectNetwork, N!CollectCgroup, N!Kept
  <1>3. CASE N!CollectContainers
    BY Zenon, <1>3, ListedKeeps DEF CountersInv, N!CollectContainers, N!discover_containers
  <1>4. CASE N!NothingDiscovered
    BY Zenon, <1>4, ListedKeeps DEF N!NothingDiscovered
  <1>5. CASE N!CollectProcesses
    <2>1. CounterCore'
      BY Zenon, <1>5, ReadingKeeps, Apart DEF CountersInv, N!CollectProcesses
    <2>2. \A d \in Containers : prev'[d] = prev[d]
      BY Zenon, <1>5, Apart DEF N!CollectProcesses, N!Remember, N!Counter
    <2> QED
      BY Zenon, <1>5, <2>1, <2>2 DEF CountersInv, N!OnlyListedRemembered, N!CollectProcesses
  <1>6. CASE N!CollectMacNetwork
    <2>1. CounterCore'
      BY <1>6, ReadingKeeps DEF CountersInv, N!CollectMacNetwork, N!read_if_stats
    <2>2. \A d \in Containers : prev'[d] = prev[d]
      BY Zenon, <1>6, Apart DEF N!CollectMacNetwork, N!read_if_stats, N!Remember, N!Counter
    <2> QED
      BY Zenon, <1>6, <2>1, <2>2 DEF CountersInv, N!OnlyListedRemembered, N!CollectMacNetwork
  <1>7. ASSUME NEW X \in SUBSET N!Counter, N!Checkpoint(X) PROVE CountersInv'
    BY Zenon, <1>7, CheckpointKeeps DEF CountersInv, N!OnlyListedRemembered, N!Checkpoint, N!collector
  <1>8. CASE N!CheckpointDisks \/ N!CheckpointNetwork \/ N!CheckpointMacNetwork
    BY Zenon, <1>7, <1>8 DEF N!Counter, N!Kept, N!CheckpointDisks, N!CheckpointNetwork, N!CheckpointMacNetwork
  <1>9. CASE N!Reinit
    BY Zenon, <1>9, CountersReinit DEF CountersInv, N!OnlyListedRemembered, N!Reinit, N!Counter
  <1>10. CASE N!Devices
    BY Zenon, <1>10, DevicesKeep
       DEF CountersInv, N!OnlyListedRemembered, N!Devices, N!Create, N!Remove, N!Work, N!collector
  <1>11. CASE UNCHANGED N!vars
    BY Zenon, <1>11 DEF CountersInv, CounterCore, CounterTypes, Moved, ShownIsRead, N!CheckpointAgrees,
       N!OnlyListedRemembered, N!vars, N!collector, N!reports, N!world
  <1> QED
    BY Zenon, <1>2, <1>3, <1>4, <1>5, <1>6, <1>8, <1>9, <1>10, <1>11 DEF N!Next

LEMMA CountersInvariant == N!Spec => []CountersInv
  <1>1. N!Init => CountersInv
    BY Zenon, CountersInit DEF CountersInv, N!Init, N!OnlyListedRemembered, N!Counter
  <1> QED
    BY <1>1, CountersNext, PTL DEF N!Spec

\* Every reading reports exactly the work since the reading before it, and never more
\* than that for a 64-bit counter of a device that was made anew.
THEOREM ReportsWork == N!Spec => []N!DeltaIsWork
  <1>1. CountersInv => N!DeltaIsWork
    BY DEF CountersInv, CounterCore, CounterTypes, Moved, N!DeltaIsWork, N!Present, N!Delta, N!saturating_sub, N!None
  <1> QED
    BY <1>1, CountersInvariant, PTL

\* The totals of the checkpoints agree with the differences between them.
THEOREM TotalsAgree == N!Spec => []N!CheckpointAgrees
  <1>1. CountersInv => N!CheckpointAgrees
    BY Zenon DEF CountersInv, CounterCore
  <1> QED
    BY <1>1, CountersInvariant, PTL

\* The container collector remembers only what is on its list.
THEOREM ForgetsContainers == N!Spec => []N!OnlyListedRemembered
  <1>1. CountersInv => N!OnlyListedRemembered
    BY Zenon DEF CountersInv
  <1> QED
    BY <1>1, CountersInvariant, PTL

-----------------------------------------------------------------------------
(* CpuTimes *)

TimesTypes ==
    /\ times \in [C!Field -> Nat] /\ prev_times \in [C!Field -> Nat] \cup {C!Unread} /\ back \in Nat

\* Since the last reading no field but idle and iowait went back, and these two by no
\* more than what was counted.
BackBounds ==
    prev_times # C!Unread =>
        /\ \A f \in C!Field \ {"idle", "iowait"} : times[f] >= prev_times[f]
        /\ C!saturating_sub(prev_times["idle"], times["idle"])
               + C!saturating_sub(prev_times["iowait"], times["iowait"]) <= back

\* The inductive invariant.
TimesInv == TimesTypes /\ BackBounds /\ C!SharesAddUp

LEMMA FieldFacts ==
    /\ {"user", "nice", "system", "idle", "iowait", "steal"} = C!Field
    /\ \A t \in [C!Field -> Nat] :
           /\ t["user"] \in Nat /\ t["nice"] \in Nat /\ t["system"] \in Nat
           /\ t["idle"] \in Nat /\ t["iowait"] \in Nat /\ t["steal"] \in Nat
  BY Zenon DEF C!Field

LEMMA TimesInit == C!Init => TimesInv
  BY FieldFacts DEF C!Init, TimesInv, TimesTypes, BackBounds, C!SharesAddUp, C!NoShares, C!Field

\* The arithmetic of a report.
LEMMA DeltasAddUp ==
    ASSUME NEW old \in [C!Field -> Nat], NEW new \in [C!Field -> Nat], back \in Nat,
           \A f \in C!Field \ {"idle", "iowait"} : new[f] >= old[f],
           C!saturating_sub(old["idle"], new["idle"])
               + C!saturating_sub(old["iowait"], new["iowait"]) <= back,
           C!emit_deltas(old, new).dt # 0
    PROVE  LET s == C!emit_deltas(old, new)
               all == s.user + s.system + s.idle + s.iowait + s.steal
           IN  s.dt <= all /\ all <= s.dt + s.back
  <1> DEFINE s == C!emit_deltas(old, new)
  <1>1. /\ new["user"] >= old["user"] /\ new["nice"] >= old["nice"]
        /\ new["system"] >= old["system"] /\ new["steal"] >= old["steal"]
    BY Zenon DEF C!Field
  <1>2. /\ s.user = C!saturating_sub(new["user"] + new["nice"], old["user"] + old["nice"])
        /\ s.system = C!saturating_sub(new["system"], old["system"])
        /\ s.idle = C!saturating_sub(new["idle"], old["idle"])
        /\ s.iowait = C!saturating_sub(new["iowait"], old["iowait"])
        /\ s.steal = C!saturating_sub(new["steal"], old["steal"])
        /\ s.dt = C!saturating_sub(C!total(new), C!total(old)) /\ s.back = back
    BY Zenon DEF C!emit_deltas, C!User
  <1> QED
    BY <1>1, <1>2, FieldFacts DEF C!saturating_sub, C!total

LEMMA TimesCollect == ASSUME TimesInv, C!Collect PROVE TimesInv'
  <1> USE DEF TimesInv
  <1>1. TimesTypes'
    BY Zenon DEF TimesTypes, C!Collect
  <1>2. BackBounds'
    BY FieldFacts DEF BackBounds, TimesTypes, C!Collect, C!saturating_sub, C!Field
  <1>3. CASE prev_times = C!Unread \/ C!emit_deltas(prev_times, times).dt = 0
    BY Zenon, <1>1, <1>2, <1>3 DEF C!Collect, C!SharesAddUp
  <1>4. CASE prev_times # C!Unread /\ C!emit_deltas(prev_times, times).dt # 0
    <2>1. shares' = C!emit_deltas(prev_times, times)
      BY Zenon, <1>4 DEF C!Collect
    <2>2. C!SharesAddUp'
      BY Zenon, <1>4, <2>1, DeltasAddUp DEF TimesTypes, BackBounds, C!SharesAddUp
    <2> QED
      BY Zenon, <1>1, <1>2, <2>2
  <1> QED
    BY Zenon, <1>3, <1>4

LEMMA TimesNext == TimesInv /\ [C!Next]_(C!vars) => TimesInv'
  <1> SUFFICES ASSUME TimesInv, [C!Next]_(C!vars) PROVE TimesInv'
    BY Zenon
  <1> USE DEF TimesInv
  <1>1. CASE C!Collect
    BY Zenon, <1>1, TimesCollect
  <1>2. CASE C!Reinit
    BY Zenon, <1>2 DEF C!Reinit, TimesTypes, BackBounds, C!SharesAddUp
  <1>3. ASSUME NEW f \in C!Field, C!Jiffy(f) PROVE TimesInv'
    <2>1. times' \in [C!Field -> Nat] /\ \A g \in C!Field : times'[g] >= times[g]
      BY <1>3 DEF C!Jiffy, TimesTypes
    <2>2. UNCHANGED <<prev_times, back, shares>>
      BY Zenon, <1>3 DEF C!Jiffy
    <2>3. BackBounds'
      BY <2>1, <2>2, FieldFacts DEF BackBounds, TimesTypes, C!saturating_sub
    <2> QED
      BY Zenon, <2>1, <2>2, <2>3 DEF TimesTypes, C!SharesAddUp
  <1>4. ASSUME NEW f \in C!Field, C!TakeBack(f) PROVE TimesInv'
    <2>1. /\ f \in {"idle", "iowait"} /\ times[f] > 0 /\ back' = back + 1
          /\ times' = [times EXCEPT ![f] = @ - 1] /\ UNCHANGED <<prev_times, shares>>
      BY Zenon, <1>4 DEF C!TakeBack
    <2>2. times' \in [C!Field -> Nat] /\ back' \in Nat
      BY <2>1 DEF TimesTypes
    <2>3. BackBounds'
      <3>1. CASE f = "idle"
        BY <2>1, <2>2, <3>1, FieldFacts DEF BackBounds, TimesTypes, C!saturating_sub
      <3>2. CASE f = "iowait"
        BY <2>1, <2>2, <3>2, FieldFacts DEF BackBounds, TimesTypes, C!saturating_sub
      <3> QED
        BY Zenon, <2>1, <3>1, <3>2
    <2> QED
      BY Zenon, <2>1, <2>2, <2>3 DEF TimesTypes, C!SharesAddUp
  <1>5. CASE UNCHANGED C!vars
    BY Zenon, <1>5 DEF C!vars, TimesTypes, BackBounds, C!SharesAddUp
  <1> QED
    BY Zenon, <1>1, <1>2, <1>3, <1>4, <1>5 DEF C!Next, C!Clock

\* The shares of a row of /proc/stat add up to the time between the two readings, and
\* exceed it by no more than the kernel took back.
THEOREM SharesSum == C!Spec => []C!SharesAddUp
  <1>1. TimesInv => C!SharesAddUp
    BY Zenon DEF TimesInv
  <1> QED
    BY <1>1, TimesInit, TimesNext, PTL DEF C!Spec

-----------------------------------------------------------------------------
(* SpaceReader *)

\* What the flags, the threads and the number of lives have to do with each other.  Only
\* a new life leaves threads behind, since the map never forgets a flag that is on.
SpaceInv ==
    /\ flag \in [S!Point -> {"none", "off", "on"}]
    /\ own \in [S!Point -> {"none", "reading", "replied"}]
    /\ orphans \in [S!Point -> Nat] /\ reinits \in Nat
    /\ S!FlagTracksThread
    /\ \A p \in S!Point : orphans[p] <= reinits

LEMMA SpaceInit == S!Init => SpaceInv
  BY DEF S!Init, SpaceInv, S!FlagTracksThread

\* Forgetting points whose flag is not on loses no thread.
LEMMA ForgetIdle ==
    ASSUME SpaceInv, UNCHANGED reinits, NEW P \in SUBSET S!Point, \A p \in P : flag[p] # "on",
           S!Forget(P)
    PROVE  SpaceInv'
  BY Zenon DEF SpaceInv, S!FlagTracksThread, S!Forget

\* A new life leaves behind at most the one thread of each mount.
LEMMA SpaceReinit == ASSUME SpaceInv, S!Reinit PROVE SpaceInv'
  BY DEF SpaceInv, S!FlagTracksThread, S!Reinit, S!Forget

\* Steps that do not touch the map.
LEMMA MapUntouched == ASSUME SpaceInv, UNCHANGED <<S!reader, reinits>> PROVE SpaceInv'
  BY Zenon DEF SpaceInv, S!FlagTracksThread, S!reader

LEMMA SpawnKeeps == ASSUME SpaceInv, NEW e \in Entry, S!Spawn(e) PROVE SpaceInv'
  <1>1. e.point \in S!Point
    BY Zenon DEF S!Point
  <1> QED
    BY Zenon, <1>1 DEF SpaceInv, S!FlagTracksThread, S!Spawn, S!Flagged

LEMMA SpawnFailsKeeps == ASSUME SpaceInv, NEW e \in Entry, S!SpawnFails(e) PROVE SpaceInv'
  <1>1. e.point \in S!Point
    BY Zenon DEF S!Point
  <1> QED
    BY Zenon, <1>1 DEF SpaceInv, S!FlagTracksThread, S!SpawnFails

LEMMA ThreadsKeep == ASSUME SpaceInv, S!Threads PROVE SpaceInv'
  <1>1. PICK p \in S!Point : S!Answer(p) \/ S!ThreadEnds(p) \/ S!OrphanEnds(p)
    BY Zenon DEF S!Threads
  <1>2. CASE S!Answer(p)
    BY Zenon, <1>2 DEF SpaceInv, S!FlagTracksThread, S!Answer
  <1>3. CASE S!ThreadEnds(p)
    BY Zenon, <1>3 DEF SpaceInv, S!FlagTracksThread, S!ThreadEnds, S!ClearFlag
  <1>4. CASE S!OrphanEnds(p)
    BY <1>4 DEF SpaceInv, S!FlagTracksThread, S!OrphanEnds
  <1> QED
    BY Zenon, <1>1, <1>2, <1>3, <1>4

LEMMA SpaceNext == SpaceInv /\ [S!Next]_(S!vars) => SpaceInv'
  <1> SUFFICES ASSUME SpaceInv, [S!Next]_(S!vars) PROVE SpaceInv'
    BY Zenon
  <1>1. CASE S!ListRead /\ S!StartScan
    <2> DEFINE P == {p \in S!Point \ S!Points(mounts') : flag[p] # "on"}
    <2>1. S!Forget(P)
      BY Zenon, <1>1 DEF S!ListRead, S!retain_mounts
    <2> QED
      BY Zenon, <1>1, <2>1, ForgetIdle DEF S!StartScan
  <1>2. CASE (S!ListUnreadable \/ S!ListKept) /\ S!StartScan
    BY Zenon, <1>2, MapUntouched DEF S!ListUnreadable, S!ListKept, S!StartScan
  <1>3. CASE S!Reads
    <2>1. CASE \E e \in Entry : S!Skip(e)
      BY Zenon, <2>1, MapUntouched DEF S!Skip
    <2>2. CASE \E e \in Entry : S!Spawn(e)
      BY Zenon, <2>2, SpawnKeeps
    <2>3. CASE S!Receive \/ S!Timeout
      BY Zenon, <2>3, MapUntouched DEF S!Receive, S!Timeout, S!Leave
    <2> QED
      BY Zenon, <1>3, <2>1, <2>2, <2>3 DEF S!Reads
  <1>4. CASE S!EndScan
    BY Zenon, <1>4, MapUntouched DEF S!EndScan
  <1>5. CASE S!Threads
    BY Zenon, <1>5, ThreadsKeep
  <1>6. CASE S!Filesystems
    BY Zenon, <1>6, MapUntouched DEF S!Filesystems, S!Mount, S!Unmount, S!Turns
  <1>7. CASE \E e \in Entry : S!SpawnFails(e)
    BY Zenon, <1>7, SpawnFailsKeeps
  <1>8. CASE S!Reinit
    BY Zenon, <1>8, SpaceReinit
  <1>9. CASE UNCHANGED S!vars
    BY Zenon, <1>9, MapUntouched DEF S!vars
  <1> QED
    BY Zenon, <1>1, <1>2, <1>3, <1>4, <1>5, <1>6, <1>7, <1>8, <1>9 DEF S!Next

\* in_flight is set exactly while a thread reads the mount, for any mounts and in every
\* order of answers, timeouts and refreshes of the list.
THEOREM FlagIsRight == S!Spec => []S!FlagTracksThread
  <1>1. SpaceInv => S!FlagTracksThread
    BY Zenon DEF SpaceInv
  <1> QED
    BY <1>1, SpaceInit, SpaceNext, PTL DEF S!Spec

\* No life of the collector adds more than one thread to a mount that does not answer.
THEOREM OneThreadPerLife == S!Spec => []S!ThreadsBounded
  <1>1. SpaceInv => S!ThreadsBounded
    BY DEF SpaceInv, S!ThreadsBounded
  <1> QED
    BY <1>1, SpaceInit, SpaceNext, PTL DEF S!Spec

-----------------------------------------------------------------------------
(* The loop *)

\* The steps of the loop, as steps of the components.
LEMMA CountersStep == ASSUME host \in Hosts, [Next]_vars PROVE [N!Next]_(N!vars)
  <1> USE DEF counters, N!vars, N!collector, N!reports, N!world
  <1>1. CASE Counts
    BY Zenon, <1>1 DEF Counts, Step, N!Next
  <1>2. CASE Failure
    BY Zenon, <1>2 DEF Failure, Step, InSpace, N!Next
  <1>3. CASE Panic \/ Rerun
    BY Zenon, <1>3 DEF Panic, Rerun, AllAnew, N!Next
  <1>4. CASE Kernel
    <2>1. host.devices \subseteq N!Counter
      BY HostsAssumption DEF N!Counter, N!Kept
    <2> QED
      BY Zenon, <1>4, <2>1 DEF Kernel, N!Devices, N!Next
  <1>5. CASE Begin \/ StartTick \/ EndTick \/ Cpu \/ End \/ Cancel
    BY Zenon, <1>5 DEF Begin, StartTick, EndTick, Cpu, End, Cancel
  <1>6. CASE Space \/ Clock \/ Filesystems \/ Threads
    BY Zenon, <1>6 DEF Space, InSpace, Step, Clock, Filesystems, Threads
  <1>7. CASE UNCHANGED vars
    BY Zenon, <1>7 DEF vars
  <1> QED
    BY Zenon, <1>1, <1>2, <1>3, <1>4, <1>5, <1>6, <1>7 DEF Next, Tick

LEMMA TimesStep == ASSUME [Next]_vars PROVE [C!Next]_(C!vars)
  <1> USE DEF cpu, C!vars
  <1>1. CASE Cpu \/ Clock
    BY Zenon, <1>1 DEF Cpu, Step, Clock, C!Next
  <1>2. CASE Failure
    BY Zenon, <1>2 DEF Failure, InSpace
  <1>3. CASE Panic \/ Rerun
    BY Zenon, <1>3 DEF Panic, Rerun, AllAnew, C!Next
  <1>4. CASE Begin \/ StartTick \/ EndTick \/ Counts \/ End \/ Cancel \/ Kernel
    BY Zenon, <1>4 DEF Begin, StartTick, EndTick, Counts, End, Cancel, Kernel
  <1>5. CASE Space \/ Filesystems \/ Threads
    BY Zenon, <1>5 DEF Space, InSpace, Filesystems, Threads
  <1>6. CASE UNCHANGED vars
    BY Zenon, <1>6 DEF vars
  <1> QED
    BY Zenon, <1>1, <1>2, <1>3, <1>4, <1>5, <1>6 DEF Next, Tick

LEMMA SpaceStep ==
    ASSUME host \in Hosts, reinits \in Nat, [Next]_vars PROVE [S!Next]_(S!vars)
  <1> USE DEF space, S!vars, S!reader, S!collector, S!world
  <1>1. CASE Space
    BY Zenon, <1>1 DEF Space, InSpace, Step, S!Next
  <1>2. CASE Failure
    BY Zenon, <1>2 DEF Failure, Step, InSpace, S!Next
  <1>3. CASE Panic \/ Rerun
    <2>1. host.reinits \in 0..MaxReinits /\ MaxReinits \in Nat
      BY Zenon, HostsAssumption, BoundsAssumption
    <2> QED
      BY <1>3, <2>1 DEF Panic, Rerun, AllAnew, S!Next
  <1>4. CASE Filesystems \/ Threads
    <2>1. host.entries \subseteq Entry /\ \A e \in host.entries : e.point \in S!Point
      BY Zenon, HostsAssumption DEF S!Point
    <2> QED
      BY Zenon, <1>4, <2>1 DEF Filesystems, Threads, S!Filesystems, S!Next
  <1>5. CASE Begin \/ StartTick \/ EndTick \/ Counts \/ Cpu \/ End \/ Cancel
    BY Zenon, <1>5 DEF Begin, StartTick, EndTick, Counts, Cpu, End, Cancel
  <1>6. CASE Kernel \/ Clock
    BY Zenon, <1>6 DEF Kernel, Clock
  <1>7. CASE UNCHANGED vars
    BY Zenon, <1>7 DEF vars
  <1> QED
    BY Zenon, <1>1, <1>2, <1>3, <1>4, <1>5, <1>6, <1>7 DEF Next, Tick

LEMMA HostStays == ASSUME host \in Hosts, [Next]_vars PROVE (host \in Hosts)'
  BY Zenon DEF Next, vars, loop, Begin, Tick, StartTick, EndTick, Counts, Cpu, Space, Step, InSpace,
     Failure, Panic, End, Rerun, Cancel, Kernel, Clock, Filesystems, Threads

\* However the loop interleaves them with the kernel, with failures, panics and reloads,
\* each component does only what its own specification allows.
THEOREM Composition == Spec => N!Spec /\ C!Spec /\ S!Spec
  <1> DEFINE Counting == host \in Hosts /\ SpaceInv
  <1>1. Init => Counting /\ N!Init /\ C!Init /\ S!Init
    BY Zenon, SpaceInit DEF Init
  <1>2. Counting /\ [Next]_vars => Counting'
    BY Zenon, HostStays, SpaceStep, SpaceNext DEF SpaceInv
  <1>3. Counting /\ [Next]_vars => [N!Next]_(N!vars) /\ [C!Next]_(C!vars) /\ [S!Next]_(S!vars)
    BY Zenon, CountersStep, TimesStep, SpaceStep DEF SpaceInv
  <1> QED
    BY <1>1, <1>2, <1>3, PTL DEF Spec, N!Spec, C!Spec, S!Spec

\* What the collectors report is the work done and the time gone by, for any devices and
\* any order of ticks, failures, new lives, panics and reloads.
THEOREM LoopReportsWork == Spec => []ReportsAreWork
  <1>1. N!DeltaIsWork /\ C!SharesAddUp => ReportsAreWork
    BY Zenon DEF ReportsAreWork
  <1> QED
    BY <1>1, Composition, ReportsWork, SharesSum, PTL

\* The checkpoints of the loop agree with the differences reported between them.
THEOREM LoopTotalsAgree == Spec => []CheckpointAgrees
  <1>1. N!CheckpointAgrees => CheckpointAgrees
    BY Zenon DEF CheckpointAgrees
  <1> QED
    BY <1>1, Composition, TotalsAgree, PTL

\* The collectors of the loop keep a bounded state: containers on the list, one flagged
\* thread per mount point, and one more per panic or reload.
THEOREM LoopIsBounded == Spec => []ResourcesBounded
  <1>1. N!OnlyListedRemembered /\ S!FlagTracksThread /\ S!ThreadsBounded => ResourcesBounded
    BY Zenon DEF ResourcesBounded
  <1> QED
    BY <1>1, Composition, ForgetsContainers, FlagIsRight, OneThreadPerLife, PTL
=============================================================================
