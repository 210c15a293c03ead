-------------------------- MODULE UnifiedLog_proofs --------------------------
(***************************************************************************)
(* UnifiedLog, for any store, save interval and number of faults: the      *)
(* checkpoint passes no entry that is still to be shipped, a stall is made *)
(* good, the deduplication drops only ties of the mach time, and nothing   *)
(* is repeated without a fault.                                            *)
(*                                                                         *)
(* IInv says how the stamps are ordered (StampsOrdered, without which a    *)
(* backfill that starts at the checkpoint's wall time could leave out what *)
(* is behind it), what each phase of the cycle has read (InPhase), and     *)
(* what is dealt with up to each of the positions (DealtWith, OwedIsKept). *)
(***************************************************************************)
EXTENDS UnifiedLog, TLAPS

Stamped == [kind : Kind, boot : Nat, mach : Nat, wall : Nat]

\* What the variables hold: TypeOK and what it leaves out.
Types ==
    /\ store \in Seq(Stamped) /\ fate \in Seq(Fate) /\ Len(fate) = Len(store)
    /\ pc \in {"load", "live", "read", "full", "reap", "backoff", "stopped", "down"}
    /\ phase \in {"show", "stream"} /\ child \in {"none", "runs", "exited"}
    /\ at \in 0..Len(store) /\ last \in 0..Len(store) /\ saved \in 0..Len(store)
    /\ dedupe \in 0..Len(store)
    /\ dropped \subseteq 1..Len(store) /\ again \subseteq 1..Len(store)
    /\ owed \subseteq 1..Len(store)
    /\ since_save \in 0..SaveInterval - 1
    /\ sink \in {"live", "dry_run"} /\ rewinds \in {"yes", "no"}
    /\ crashes \in Nat /\ bad_saves \in Nat

\* The stamps follow the order of the store: the wall time and the boot never go back,
\* the mach time does not within a boot, and a boot has wall times of its own.
StampsOrdered ==
    \A i, j \in 1..Len(store) :
        i <= j => /\ store[i].wall <= store[j].wall /\ store[i].boot <= store[j].boot
                  /\ store[i].boot = store[j].boot => store[i].mach <= store[j].mach
                  /\ store[i].boot < store[j].boot => store[i].wall < store[j].wall

Reading == pc \in {"read", "full"}

\* Where the reader is: only a stream leaves something out, and a backfill has a
\* checkpoint, whose wall time all entries from its position up to it have.
InPhase ==
    /\ phase = "stream" => Reading
    /\ phase = "show" => dropped = {}
    /\ phase = "show" /\ (Reading \/ pc = "live") =>
           /\ dedupe # 0 /\ last # 0
           /\ \A i \in at + 1..dedupe : store[i].wall = store[dedupe].wall

\* Everything up to each of the positions is dealt with, and while reading everything
\* up to the reader that is not was left out by the stream.
DealtWith ==
    /\ \A i \in 1..Len(store) : i <= saved \/ i <= last \/ i <= dedupe => fate[i] # "waiting"
    /\ Reading => \A i \in 1..Len(store) : i <= at /\ fate[i] = "waiting" => i \in dropped

\* What a stall owed is dealt with by the time that a stream follows.
OwedIsKept ==
    \A i \in owed : /\ fate[i] # "unseen"
                    /\ pc = "live" \/ phase = "stream" => fate[i] # "waiting"

IInv == Types /\ StampsOrdered /\ InPhase /\ DealtWith /\ OwedIsKept /\ DedupeIsExact

\* Without a fault, what was shipped is behind the position that will be read from.
Reached(i) ==
    /\ Reading \/ pc = "live" => i <= last
    /\ ~ Reading => i <= saved

ShippedIsBehind ==
    crashes = 0 /\ bad_saves = 0 /\ rewinds = "no" =>
        /\ again = {}
        /\ \A i \in 1..Len(store) : fate[i] = "shipped" => Reached(i)
        /\ Reading => last <= at \/ (phase = "show" /\ last = dedupe)

-----------------------------------------------------------------------------
(* Operators *)

\* The stamps are numbers.
LEMMA StampsAreNumbers ==
    ASSUME store \in Seq(Stamped), NEW i \in 1..Len(store)
    PROVE  /\ store[i] \in Stamped /\ store[i].kind \in Kind
           /\ store[i].boot \in Nat /\ store[i].mach \in Nat /\ store[i].wall \in Nat
<1>1. store[i] \in Stamped
  OBVIOUS
<1>2. QED
  BY Zenon, <1>1 DEF Stamped

\* process_entry answers with a fate; what it ships moves the position.
LEMMA ProcessDeals ==
    ASSUME NEW e \in Stamped, sink \in {"live", "dry_run"}
    PROVE  /\ Process(e) \in Fate \ {"waiting", "before_start", "unseen"}
           /\ Process(e) = "shipped" => ~ Deduped(e) /\ Positioned(e)
           /\ Process(e) = "deduped" => Deduped(e)
<1>1. e.kind \in {"message", "self", "structural", "bad", "long"}
  BY Zenon, UnifiedAssumption DEF Stamped
<1>2. /\ Process(e) \in Fate \ {"waiting", "before_start", "unseen"}
      /\ Process(e) = "shipped" => ~ Deduped(e)
      /\ Process(e) = "deduped" => Deduped(e)
  BY Zenon, <1>1 DEF Process, Fate
<1>3. QED
  BY Zenon, <1>2 DEF Positioned

\* Saving leaves the old or the new checkpoint in the file, the new one if it can be written.
LEMMA SaveOutcome ==
    ASSUME NEW c \in Nat, SaveCheckpoint(c), bad_saves \in Nat
    PROVE  /\ saved' \in {saved, c} /\ bad_saves' \in Nat
           /\ bad_saves' = 0 => bad_saves = 0 /\ saved' = IF c = 0 THEN saved ELSE c
BY DEF SaveCheckpoint

\* What the backfill leaves out is before its checkpoint, and what it shows up to the
\* checkpoint has the wall time of the checkpoint.
LEMMA StartsBeforeIt ==
    ASSUME Types, StampsOrdered, saved # 0, NEW k \in 0..Len(store), LeftOut(saved, k)
    PROVE  k < saved /\ \A i \in k + 1..saved : store[i].wall = store[saved].wall
<1>1. /\ Len(store) \in Nat /\ saved \in 1..Len(store) /\ k \in Nat /\ DOMAIN store = 1..Len(store)
      /\ \A i \in 1..Len(store) : store[i].wall \in Nat
  BY StampsAreNumbers DEF Types
<1>2. k < saved
  BY <1>1 DEF LeftOut
<1>3. ASSUME NEW i \in k + 1..saved PROVE store[i].wall = store[saved].wall
  <2>1. i \in 1..Len(store) /\ ~ (i <= k) /\ i <= saved
    BY <1>1
  <2>2. store[i].wall <= store[saved].wall
    BY Zenon, <1>1, <2>1 DEF StampsOrdered
  <2>3. ~ (store[i].wall < store[saved].wall)
    BY Zenon, <1>1, <2>1 DEF LeftOut
  <2>4. QED
    BY <1>1, <2>1, <2>2, <2>3
<1>4. QED
  BY Zenon, <1>2, <1>3

-----------------------------------------------------------------------------
(* The invariant *)

LEMMA InitIInv == Init => IInv
<1> SUFFICES ASSUME Init PROVE IInv
  BY Zenon
<1>1. Types
  BY SaveAssumption DEF Init, Types
<1>2. QED
  BY <1>1 DEF Init, IInv, StampsOrdered, InPhase, Reading, DealtWith, OwedIsKept, DedupeIsExact

\* The store is not touched: the stamps stay in order.
LEMMA SameStore == ASSUME StampsOrdered, UNCHANGED store PROVE StampsOrdered'
BY DEF StampsOrdered

LEMMA SameFates == ASSUME DedupeIsExact, UNCHANGED <<store, fate>> PROVE DedupeIsExact'
BY Zenon DEF DedupeIsExact

\* run_cycle ends: with a position saved that was safe to save, or without a save.
LEMMA ForgetIInv ==
    ASSUME IInv, Types', UNCHANGED <<store, fate>>, Forget,
           pc' \notin {"read", "full", "live"}, saved' \in {saved, last},
           \A i \in owed' : fate[i] # "unseen"
    PROVE  IInv'
<1>1. StampsOrdered' /\ DedupeIsExact'
  BY Zenon, SameStore, SameFates DEF IInv
<1>2. InPhase'
  BY Zenon DEF InPhase, Reading, Forget
<1>3. DealtWith'
  <2>1. ASSUME NEW i \in 1..Len(store), i <= saved' \/ i <= 0 PROVE fate[i] # "waiting"
    <3>1. i <= saved'
      BY <2>1
    <3>2. i <= saved \/ i <= last
      BY Zenon, <3>1
    <3>3. QED
      BY Zenon, <3>2 DEF IInv, DealtWith
  <2>2. QED
    BY Zenon, <2>1 DEF DealtWith, Reading, Forget
<1>4. OwedIsKept'
  BY Zenon DEF OwedIsKept, Forget
<1>5. QED
  BY Zenon, <1>1, <1>2, <1>3, <1>4 DEF IInv

\* Neither the positions nor the fates change, and nothing new is begun.
LEMMA StayIInv ==
    ASSUME IInv, Types', UNCHANGED <<store, fate, phase, at, dropped, dedupe, last, owed, saved>>,
           Reading' <=> Reading, pc' = "live" <=> pc = "live"
    PROVE  IInv'
<1>1. StampsOrdered' /\ DedupeIsExact'
  BY Zenon, SameStore, SameFates DEF IInv
<1>2. InPhase'
  BY Zenon DEF IInv, InPhase
<1>3. DealtWith'
  BY Zenon DEF IInv, DealtWith
<1>4. OwedIsKept'
  BY Zenon DEF IInv, OwedIsKept
<1>5. QED
  BY Zenon, <1>1, <1>2, <1>3, <1>4 DEF IInv

\* The steps that save the last position, if any, and forget it.
LEMMA EndsIInv ==
    ASSUME IInv, SpawnFails \/ StreamEnds \/ ReadFails \/ Cancelled \/ Crash \/ Reconcile
    PROVE  IInv'
<1> USE DEF world, reader
<1>1. last \in Nat /\ bad_saves \in Nat /\ saved \in 0..Len(store) /\ last \in 0..Len(store)
  BY DEF IInv, Types
<1>2. saved' \in {saved, last} /\ bad_saves' \in Nat
  <2>1. CASE SpawnFails \/ Crash
    BY Zenon, <1>1, <2>1 DEF SpawnFails, Crash
  <2>2. CASE ~ (SpawnFails \/ Crash)
    <3>1. SaveCheckpoint(last)
      BY Zenon, <2>2 DEF StreamEnds, ReadFails, Cancelled, Reconcile, SaveFinal
    <3>2. QED
      BY Zenon, <1>1, <3>1, SaveOutcome
  <2>3. QED
    BY Zenon, <2>1, <2>2
<1>3. /\ Forget /\ UNCHANGED <<store, fate, again, rewinds, sink>>
      /\ pc' \in {"load", "reap", "backoff", "stopped", "down"}
      /\ child' \in {child, "none"}
  BY Zenon DEF SpawnFails, StreamEnds, ReadFails, Cancelled, Crash, Reconcile
<1>4. crashes' \in Nat
  BY DEF IInv, Types, SpawnFails, StreamEnds, ReadFails, Cancelled, Crash, Reconcile
<1>5. owed' \in SUBSET (1..Len(store)) /\ \A i \in owed' : fate[i] # "unseen"
  <2>1. CASE Reconcile
    <3>1. owed' \in SUBSET {i \in DOMAIN fate : fate[i] = "waiting"}
      BY Zenon, <2>1 DEF Reconcile
    <3>2. DOMAIN fate = 1..Len(store)
      BY DEF IInv, Types
    <3>3. QED
      BY Zenon, <3>1, <3>2
  <2>2. CASE ~ Reconcile
    <3>1. owed' = owed
      BY Zenon, <2>2 DEF SpawnFails, StreamEnds, ReadFails, Cancelled, Crash
    <3>2. QED
      BY Zenon, <3>1 DEF IInv, Types, OwedIsKept
  <2>3. QED
    BY Zenon, <2>1, <2>2
<1>6. 0 \in 0..Len(store) /\ 0 \in 0..SaveInterval - 1
  BY SaveAssumption DEF IInv, Types
<1>7. Types'
  BY Zenon, <1>1, <1>2, <1>3, <1>4, <1>5, <1>6 DEF IInv, Types, Forget
<1>8. QED
  BY Zenon, <1>2, <1>3, <1>5, <1>7, ForgetIInv

\* The steps around the reader.
LEMMA StaysIInv ==
    ASSUME IInv,
           \/ ChannelFull \/ ChildExits \/ Shutdown \/ Reap \/ Retry
           \/ (\E s \in {"live", "dry_run"} : Start(s)) \/ UNCHANGED vars
    PROVE  IInv'
<1> USE DEF world, reader, vars
<1>1. /\ UNCHANGED <<store, fate, again, phase, at, dropped, dedupe, last, since_save, rewinds, owed,
                     saved, crashes, bad_saves>>
      /\ Reading' <=> Reading
      /\ pc' = "live" <=> pc = "live"
      /\ pc' \in {pc, "load", "full", "backoff", "stopped"}
      /\ child' \in {child, "none", "exited"} /\ sink' \in {sink, "live", "dry_run"}
  BY Zenon DEF ChannelFull, ChildExits, Shutdown, Reap, Retry, Start, Reading
<1>2. Types'
  BY <1>1 DEF IInv, Types
<1>3. QED
  BY Zenon, <1>1, <1>2, StayIInv

\* The backfill starts before its checkpoint.
LEMMA BackfillIInv == ASSUME IInv, Backfill PROVE IInv'
<1>0. Types /\ StampsOrdered /\ DealtWith
  BY Zenon DEF IInv
<1>1. /\ saved # 0 /\ UNCHANGED <<store, fate, again, rewinds, owed, saved, bad_saves, world>>
      /\ last' = saved /\ since_save' = 0 /\ dedupe' = saved /\ phase' = "show"
      /\ dropped' = {} /\ child' = "runs" /\ pc' = "read"
  BY Zenon DEF Backfill
<1>2. /\ at' \in 0..Len(store) /\ at' < saved
      /\ \A i \in at' + 1..saved : store[i].wall = store[saved].wall
  BY Zenon, <1>0, <1>1, StartsBeforeIt DEF Backfill
<1>3. saved \in 1..Len(store) /\ Len(store) \in Nat
  BY <1>0, <1>1 DEF Types
<1>4. 0 \in 0..SaveInterval - 1
  BY SaveAssumption
<1>5. Types'
  BY Zenon, <1>0, <1>1, <1>2, <1>3, <1>4 DEF Types, world
<1>6. StampsOrdered' /\ DedupeIsExact'
  BY Zenon, <1>1, SameStore, SameFates DEF IInv
<1>7. InPhase'
  BY Zenon, <1>1, <1>2 DEF InPhase
<1>8. DealtWith'
  <2>1. \A i \in 1..Len(store) : i <= saved => fate[i] # "waiting"
    BY Zenon, <1>0 DEF DealtWith
  <2>2. \A i \in 1..Len(store) : i <= at' => i <= saved
    BY <1>2, <1>3
  <2>3. QED
    BY Zenon, <1>1, <2>1, <2>2 DEF DealtWith
<1>9. OwedIsKept'
  BY Zenon, <1>1 DEF OwedIsKept, IInv
<1>10. QED
  BY Zenon, <1>5, <1>6, <1>7, <1>8, <1>9 DEF IInv

\* What was logged before the first stream is not its business.
LEMMA LiveWithoutCheckpointIInv == ASSUME IInv, LiveWithoutCheckpoint PROVE IInv'
<1>0. Types /\ StampsOrdered /\ DedupeIsExact /\ OwedIsKept /\ DOMAIN fate = 1..Len(store)
  BY DEF IInv, Types
<1>1. /\ saved = 0 /\ UNCHANGED <<store, again, rewinds, owed, saved, bad_saves, world>>
      /\ last' = 0 /\ since_save' = 0 /\ dedupe' = 0 /\ phase' = "stream"
      /\ fate' = [i \in DOMAIN fate |-> IF fate[i] = "waiting" THEN "before_start" ELSE fate[i]]
      /\ dropped' = {i \in DOMAIN fate : fate'[i] = "waiting"}
      /\ child' = "runs" /\ at' = Len(store) /\ pc' = "read"
  BY Zenon DEF LiveWithoutCheckpoint, StartStream
<1>2. /\ DOMAIN fate' = 1..Len(store) /\ \A i \in 1..Len(store) : fate'[i] # "waiting"
      /\ \A i \in 1..Len(store) : fate'[i] = fate[i] \/ fate'[i] = "before_start"
  BY Zenon, <1>0, <1>1
<1>3. fate' \in Seq(Fate) /\ Len(fate') = Len(store)
  BY <1>0, <1>1 DEF Types, Fate
<1>4. dropped' = {}
  BY Zenon, <1>0, <1>1, <1>2
<1>5. 0 \in 0..Len(store) /\ Len(store) \in 0..Len(store) /\ 0 \in 0..SaveInterval - 1
  BY <1>0, SaveAssumption DEF Types
<1>6. Types'
  BY Zenon, <1>0, <1>1, <1>3, <1>4, <1>5 DEF Types, world
<1>7. StampsOrdered'
  BY Zenon, <1>0, <1>1, SameStore
<1>8. InPhase'
  BY Zenon, <1>1 DEF InPhase, Reading
<1>9. DealtWith'
  BY Zenon, <1>1, <1>2 DEF DealtWith
<1>10. OwedIsKept'
  <2>1. \A i \in owed : i \in 1..Len(store) /\ fate[i] # "unseen"
    BY Zenon, <1>0 DEF Types, OwedIsKept
  <2>2. QED
    BY Zenon, <1>1, <1>2, <2>1 DEF OwedIsKept
<1>11. DedupeIsExact'
  BY Zenon, <1>0, <1>1, <1>2 DEF DedupeIsExact
<1>12. QED
  BY Zenon, <1>6, <1>7, <1>8, <1>9, <1>10, <1>11 DEF IInv

LEMMA LiveAfterBackfillIInv == ASSUME IInv, LiveAfterBackfill PROVE IInv'
<1>0. Types /\ StampsOrdered /\ DealtWith /\ OwedIsKept /\ DOMAIN fate = 1..Len(store)
  BY DEF IInv, Types
<1>1. /\ UNCHANGED <<store, fate, again, dedupe, last, since_save, rewinds, owed, saved,
                     bad_saves, world>>
      /\ pc = "live" /\ phase' = "stream"
      /\ dropped' = {i \in DOMAIN fate : fate[i] = "waiting"}
      /\ child' = "runs" /\ at' = Len(store) /\ pc' = "read"
  BY Zenon DEF LiveAfterBackfill, StartStream
<1>2. Len(store) \in 0..Len(store) /\ dropped' \in SUBSET (1..Len(store))
  BY <1>0, <1>1 DEF Types
<1>3. Types'
  BY Zenon, <1>0, <1>1, <1>2 DEF Types, world
<1>4. StampsOrdered' /\ DedupeIsExact'
  BY Zenon, <1>1, SameStore, SameFates DEF IInv
<1>5. InPhase'
  BY Zenon, <1>1 DEF InPhase, Reading
<1>6. DealtWith'
  BY Zenon, <1>0, <1>1 DEF DealtWith
<1>7. OwedIsKept'
  BY Zenon, <1>0, <1>1 DEF OwedIsKept
<1>8. QED
  BY Zenon, <1>3, <1>4, <1>5, <1>6, <1>7 DEF IInv

\* The backfill has reached at; what it owed up to there is dealt with.
LEMMA BackfillEndsIInv == ASSUME IInv, BackfillEnds PROVE IInv'
<1>0. Types /\ StampsOrdered /\ InPhase /\ DealtWith /\ OwedIsKept
  BY Zenon DEF IInv
<1>1. /\ UNCHANGED <<store, fate, again, phase, at, dropped, dedupe, last, since_save, rewinds,
                     world>>
      /\ pc = "read" /\ phase = "show" /\ SaveCheckpoint(last)
      /\ child' = "none" /\ pc' = "live" /\ owed' = owed \cap 1..at
  BY Zenon DEF BackfillEnds, SaveFinal
<1>2. saved' \in {saved, last} /\ bad_saves' \in Nat
  BY <1>0, <1>1, SaveOutcome DEF Types
<1>3. Types'
  BY Zenon, <1>0, <1>1, <1>2 DEF Types, world
<1>4. StampsOrdered' /\ DedupeIsExact'
  BY Zenon, <1>1, SameStore, SameFates DEF IInv
<1>5. InPhase'
  BY Zenon, <1>0, <1>1 DEF InPhase, Reading
<1>6. DealtWith'
  <2>1. \A i \in 1..Len(store) : i <= saved' => i <= saved \/ i <= last
    BY Zenon, <1>2
  <2>2. QED
    BY Zenon, <1>0, <1>1, <2>1 DEF DealtWith, Reading
<1>7. OwedIsKept'
  <2>1. dropped = {} /\ at \in 0..Len(store)
    BY Zenon, <1>0, <1>1 DEF InPhase, Types
  <2>2. \A i \in 1..at : fate[i] # "waiting"
    BY <1>0, <1>1, <2>1 DEF DealtWith, Reading
  <2>3. QED
    BY Zenon, <1>0, <1>1, <2>2 DEF OwedIsKept
<1>8. QED
  BY Zenon, <1>3, <1>4, <1>5, <1>6, <1>7 DEF IInv

\* The stream leaves out an entry that is not read yet.
LEMMA StreamDropsIInv == ASSUME IInv, NEW i \in 1..MaxEntries, StreamDrops(i) PROVE IInv'
<1>0. Types /\ StampsOrdered /\ InPhase /\ DealtWith /\ OwedIsKept
  BY Zenon DEF IInv
<1>1. /\ UNCHANGED <<store, fate, again, pc, phase, child, at, dedupe, last, since_save, rewinds,
                     owed, saved, bad_saves, world>>
      /\ phase = "stream" /\ dropped' = dropped \cup {i} /\ i \in 1..Len(store)
  BY <1>0 DEF StreamDrops, Shown, Types
<1>2. Types'
  BY Zenon, <1>0, <1>1 DEF Types, world
<1>3. StampsOrdered' /\ DedupeIsExact'
  BY Zenon, <1>1, SameStore, SameFates DEF IInv
<1>4. InPhase'
  BY Zenon, <1>0, <1>1 DEF InPhase, Reading
<1>5. DealtWith'
  BY Zenon, <1>0, <1>1 DEF DealtWith, Reading
<1>6. OwedIsKept'
  BY Zenon, <1>0, <1>1 DEF OwedIsKept
<1>7. QED
  BY Zenon, <1>2, <1>3, <1>4, <1>5, <1>6 DEF IInv

\* The order of StampsOrdered.
Before(x, y) ==
    /\ x.wall <= y.wall /\ x.boot <= y.boot
    /\ x.boot = y.boot => x.mach <= y.mach
    /\ x.boot < y.boot => x.wall < y.wall

LEMMA BeforeIsTransitive ==
    ASSUME NEW x \in Stamped, NEW y \in Stamped, NEW z \in Stamped, Before(x, y), Before(y, z)
    PROVE  Before(x, z)
BY DEF Before, Stamped

\* The clocks go on.
LEMMA LogStamps ==
    ASSUME Types, StampsOrdered, NEW k \in Kind, Log(k)
    PROVE  /\ store' \in Seq(Stamped) /\ StampsOrdered'
           /\ Len(store') = Len(store) + 1
           /\ \A i \in 1..Len(store) : store'[i] = store[i]
<1>1. PICK s \in Stamps :
          store' = Append(store, [kind |-> k, boot |-> s[1], mach |-> s[2], wall |-> s[3]])
  BY Zenon DEF Log
<1> DEFINE n == Len(store)
           new == [kind |-> k, boot |-> s[1], mach |-> s[2], wall |-> s[3]]
           e == store[n]
<1>2. n \in Nat /\ store \in Seq(Stamped)
  BY DEF Types
<1>3. n # 0 => e \in Stamped /\ e.boot \in Nat /\ e.mach \in Nat /\ e.wall \in Nat
  BY <1>2, StampsAreNumbers
<1>4. new \in Stamped /\ (n # 0 => Before(e, new))
  <2>1. CASE n = 0
    <3>1. store = <<>>
      BY <1>2, <2>1
    <3>2. s = <<1, 1, 1>>
      BY Zenon, <3>1 DEF Stamps
    <3>3. QED
      BY Zenon, <2>1, <3>2 DEF Stamped
  <2>2. CASE n # 0
    <3>1. \/ s = <<e.boot, e.mach, e.wall>> \/ s = <<e.boot, e.mach + 1, e.wall>>
          \/ s = <<e.boot, e.mach + 1, e.wall + 1>> \/ s = <<e.boot + 1, 1, e.wall + 1>>
      BY <2>2 DEF Stamps
    <3>2. /\ new.boot \in Nat /\ new.mach \in Nat /\ new.wall \in Nat
          /\ new.wall = e.wall \/ new.wall = e.wall + 1
          /\ \/ new.boot = e.boot /\ (new.mach = e.mach \/ new.mach = e.mach + 1)
             \/ new.boot = e.boot + 1 /\ new.wall = e.wall + 1
      BY <1>3, <2>2, <3>1
    <3>3. new \in Stamped
      BY Zenon, <3>2 DEF Stamped
    <3>4. Before(e, new)
      <4> HIDE DEF new, e
      <4>1. QED
        BY <1>3, <2>2, <3>2 DEF Before
    <3>5. QED
      BY Zenon, <3>3, <3>4
  <2>3. QED
    BY Zenon, <2>1, <2>2
<1> HIDE DEF new
<1>5. /\ store' \in Seq(Stamped) /\ Len(store') = n + 1
      /\ \A i \in 1..n : store'[i] = store[i]
      /\ store'[n + 1] = new
  BY <1>1, <1>2, <1>4 DEF new
<1>6. \A i \in 1..n, j \in 1..n : i <= j => Before(store[i], store[j])
  BY Zenon DEF StampsOrdered, Before
<1>7. ASSUME NEW i \in 1..n PROVE Before(store[i], new)
  <2>1. n \in 1..n /\ i <= n /\ n # 0
    BY <1>2
  <2>2. Before(store[i], e)
    BY Zenon, <1>6, <2>1
  <2>3. store[i] \in Stamped
    BY Zenon, <1>2, StampsAreNumbers
  <2>4. QED
    BY Zenon, <1>3, <1>4, <2>1, <2>2, <2>3, BeforeIsTransitive
<1>8. Before(new, new)
  BY <1>4 DEF Before, Stamped
<1>9. ASSUME NEW i \in 1..n + 1, NEW j \in 1..n + 1, i <= j PROVE Before(store'[i], store'[j])
  <2>1. CASE j \in 1..n
    <3>1. i \in 1..n
      BY <1>2, <1>9, <2>1
    <3>2. QED
      BY Zenon, <1>5, <1>6, <1>9, <2>1, <3>1
  <2>2. CASE j = n + 1 /\ i \in 1..n
    BY Zenon, <1>5, <1>7, <2>2
  <2>3. CASE j = n + 1 /\ i = n + 1
    BY Zenon, <1>5, <1>8, <2>3
  <2>4. QED
    BY <1>2, <2>1, <2>2, <2>3
<1>10. StampsOrdered'
  BY Zenon, <1>5, <1>9 DEF StampsOrdered, Before
<1>11. QED
  BY Zenon, <1>5, <1>10

LEMMA LogIInv == ASSUME IInv, NEW k \in Kind, Log(k) PROVE IInv'
<1>0. Types /\ StampsOrdered /\ InPhase /\ DealtWith /\ OwedIsKept /\ DedupeIsExact
  BY Zenon DEF IInv
<1> DEFINE n == Len(store)
<1>1. /\ store' \in Seq(Stamped) /\ StampsOrdered' /\ Len(store') = n + 1
      /\ \A i \in 1..n : store'[i] = store[i]
  BY Zenon, <1>0, LogStamps
<1>2. n \in Nat /\ Len(fate) = n /\ fate \in Seq(Fate) /\ "waiting" \in Fate
  BY <1>0 DEF Types, Fate
<1>3. /\ fate' \in Seq(Fate) /\ Len(fate') = n + 1
      /\ \A i \in 1..n : fate'[i] = fate[i]
      /\ fate'[n + 1] = "waiting"
  BY <1>2 DEF Log
<1>4. UNCHANGED <<again, pc, phase, child, at, dropped, dedupe, last, since_save, rewinds, owed,
                  saved, bad_saves, sink, crashes>>
  BY Zenon DEF Log, reader, world
<1>5. Types'
  <2>1. /\ at \in 0..n + 1 /\ last \in 0..n + 1 /\ saved \in 0..n + 1 /\ dedupe \in 0..n + 1
        /\ dropped \in SUBSET (1..n + 1) /\ again \in SUBSET (1..n + 1)
        /\ owed \in SUBSET (1..n + 1)
    BY <1>0, <1>2 DEF Types
  <2>2. QED
    BY <1>0, <1>1, <1>3, <1>4, <2>1 DEF Types
<1>6. InPhase'
  <2>1. at \in 0..n /\ dedupe \in 0..n
    BY Zenon, <1>0 DEF Types
  <2>2. \A i \in at + 1..dedupe : i \in 1..n /\ dedupe \in 1..n
    BY <1>2, <2>1
  <2>3. QED
    BY Zenon, <1>0, <1>1, <1>4, <2>2 DEF InPhase, Reading
<1>7. DealtWith'
  <2>1. at \in 0..n /\ dedupe \in 0..n /\ last \in 0..n /\ saved \in 0..n
    BY Zenon, <1>0 DEF Types
  <2>2. \A i \in 1..n + 1 : i <= saved \/ i <= last \/ i <= dedupe \/ i <= at => i \in 1..n
    BY <1>2, <2>1
  <2>3. QED
    BY Zenon, <1>0, <1>1, <1>3, <1>4, <2>2 DEF DealtWith, Reading
<1>8. OwedIsKept'
  <2>1. \A i \in owed : i \in 1..n
    BY Zenon, <1>0 DEF Types
  <2>2. QED
    BY Zenon, <1>0, <1>3, <1>4, <2>1 DEF OwedIsKept
<1>9. DedupeIsExact'
  <2> SUFFICES ASSUME NEW i \in 1..n + 1, fate'[i] = "deduped"
               PROVE  \E j \in 1..i - 1 : /\ store'[j].boot = store'[i].boot
                                          /\ store'[j].mach = store'[i].mach
    BY <1>3 DEF DedupeIsExact
  <2>1. i \in 1..n /\ fate[i] = "deduped"
    BY <1>2, <1>3
  <2>2. i \in DOMAIN fate
    BY <1>2, <2>1
  <2>3. PICK j \in 1..i - 1 : store[j].boot = store[i].boot /\ store[j].mach = store[i].mach
    BY Zenon, <1>0, <2>1, <2>2 DEF DedupeIsExact
  <2>4. j \in 1..n
    BY <1>2, <2>1
  <2>5. QED
    BY Zenon, <1>1, <2>1, <2>3, <2>4
<1>10. QED
  BY Zenon, <1>1, <1>5, <1>6, <1>7, <1>8, <1>9 DEF IInv

\* record: the position moves to a positioned entry, and may be saved.
LEMMA RecordOutcome ==
    ASSUME Types, NEW i \in 1..Len(store), Record(i)
    PROVE  /\ saved' \in {saved, last'} /\ bad_saves' \in Nat /\ since_save' \in 0..SaveInterval - 1
           /\ bad_saves' = 0 => bad_saves = 0
           /\ \/ Positioned(store[i]) /\ last' = i /\ rewinds' = IF i < last THEN "yes" ELSE rewinds
              \/ ~ Positioned(store[i]) /\ UNCHANGED <<last, rewinds, saved>>
<1>1. i \in Nat /\ bad_saves \in Nat /\ since_save \in 0..SaveInterval - 1
  BY DEF Types
<1>2. CASE Positioned(store[i]) /\ since_save + 1 >= SaveInterval
  <2>1. SaveCheckpoint(i) /\ since_save' = 0 /\ last' = i
        /\ rewinds' = IF i < last THEN "yes" ELSE rewinds
    BY Zenon, <1>2 DEF Record
  <2>2. saved' \in {saved, i} /\ bad_saves' \in Nat /\ (bad_saves' = 0 => bad_saves = 0)
    BY Zenon, <1>1, <2>1, SaveOutcome
  <2>3. QED
    BY <1>1, <1>2, <2>1, <2>2, SaveAssumption
<1>3. CASE Positioned(store[i]) /\ ~ (since_save + 1 >= SaveInterval)
  <2>1. since_save' = since_save + 1 /\ UNCHANGED <<saved, bad_saves>> /\ last' = i
        /\ rewinds' = IF i < last THEN "yes" ELSE rewinds
    BY Zenon, <1>3 DEF Record
  <2>2. QED
    BY <1>1, <1>3, <2>1, SaveAssumption
<1>4. CASE ~ Positioned(store[i])
  <2>1. UNCHANGED <<last, rewinds, since_save, saved, bad_saves>>
    BY Zenon, <1>4 DEF Record
  <2>2. QED
    BY Zenon, <1>1, <1>4, <2>1
<1>5. QED
  BY Zenon, <1>2, <1>3, <1>4

\* What Handle does with the entry it reads and with those the stream left out.
HandlesIt(i) ==
    /\ i \in at + 1..Len(store) /\ i \in 1..Len(store) /\ i \notin dropped
    /\ \A j \in at + 1..Len(store) : j < i => j \in dropped
    /\ fate' \in Seq(Fate) /\ Len(fate') = Len(store)
    /\ fate'[i] = IF fate[i] = "waiting" \/ Process(store[i]) = "shipped"
                  THEN Process(store[i]) ELSE fate[i]
    /\ \A j \in 1..Len(store) :
           j # i => fate'[j] = IF /\ j < i /\ j \in dropped /\ fate[j] = "waiting"
                                  /\ Positioned(store[i])
                               THEN "unseen" ELSE fate[j]
    /\ Reading /\ pc' = "read" /\ at' = i /\ Record(i)
    /\ UNCHANGED <<store, phase, child, dropped, dedupe, owed, crashes, sink>>
    /\ again' = IF fate[i] = "shipped" /\ Process(store[i]) = "shipped"
                THEN again \cup {i} ELSE again

LEMMA HandleOutcome == ASSUME Types, Handle PROVE \E i \in 1..Len(store) : HandlesIt(i)
<1>1. PICK i \in Shown :
          /\ Readable(i) /\ fate' = Fates(i) /\ Record(i) /\ at' = i
          /\ again' = IF fate[i] = "shipped" /\ Process(store[i]) = "shipped"
                      THEN again \cup {i} ELSE again
  BY Zenon DEF Handle
<1>2. /\ Reading /\ pc' = "read"
      /\ UNCHANGED <<store, phase, child, dropped, dedupe, owed, crashes, sink>>
  BY Zenon, <1>1 DEF Handle, Readable, Reading, world
<1>3. /\ i \in at + 1..Len(store) /\ i \notin dropped
      /\ i \in 1..Len(store) /\ DOMAIN fate = 1..Len(store) /\ Len(store) \in Nat
      /\ at \in Nat
  BY <1>1 DEF Types, Shown
<1>4. \A j \in at + 1..Len(store) : j < i => j \in dropped
  <2>1. \A j \in Shown : i <= j
    BY Zenon, <1>1 DEF Readable
  <2>2. QED
    BY <1>3, <2>1 DEF Shown
<1>5. Process(store[i]) \in Fate /\ "unseen" \in Fate
  BY Zenon, <1>3, StampsAreNumbers, ProcessDeals DEF Types, Fate
<1>6. \A j \in 1..Len(store) : fate[j] \in Fate
  BY <1>3 DEF Types
<1>7. /\ fate'[i] = IF fate[i] = "waiting" \/ Process(store[i]) = "shipped"
                    THEN Process(store[i]) ELSE fate[i]
      /\ \A j \in 1..Len(store) :
             j # i => fate'[j] = IF /\ j < i /\ j \in dropped /\ fate[j] = "waiting"
                                    /\ Positioned(store[i])
                                 THEN "unseen" ELSE fate[j]
  BY Zenon, <1>1, <1>3 DEF Fates
<1>8. \A j \in 1..Len(store) : fate'[j] \in Fate
  BY Zenon, <1>3, <1>5, <1>6, <1>7
<1>9. fate' \in [1..Len(store) -> Fate]
  <2>1. fate' = [j \in 1..Len(store) |-> fate'[j]]
    BY Zenon, <1>1, <1>3 DEF Fates
  <2>2. QED
    BY Zenon, <1>8, <2>1
<1>10. fate' \in Seq(Fate) /\ Len(fate') = Len(store)
  BY <1>3, <1>9
<1>11. HandlesIt(i)
  BY Zenon, <1>1, <1>2, <1>3, <1>4, <1>7, <1>10 DEF HandlesIt
<1>12. QED
  BY Zenon, <1>3, <1>11

\* An entry that waits while a backfill reads it is behind the checkpoint.
LEMMA HandleIInv == ASSUME IInv, Handle PROVE IInv'
<1>0. Types /\ StampsOrdered /\ InPhase /\ DealtWith /\ OwedIsKept /\ DedupeIsExact
  BY Zenon DEF IInv
<1> DEFINE n == Len(store)
<1>1. PICK i \in 1..n : HandlesIt(i)
  BY Zenon, <1>0, HandleOutcome
<1>2. /\ i \in at + 1..n /\ i \in 1..n /\ i \notin dropped
      /\ \A j \in at + 1..n : j < i => j \in dropped
      /\ fate' \in Seq(Fate) /\ Len(fate') = n
      /\ fate'[i] = IF fate[i] = "waiting" \/ Process(store[i]) = "shipped"
                    THEN Process(store[i]) ELSE fate[i]
      /\ \A j \in 1..n :
             j # i => fate'[j] = IF /\ j < i /\ j \in dropped /\ fate[j] = "waiting"
                                    /\ Positioned(store[i])
                                 THEN "unseen" ELSE fate[j]
      /\ Reading /\ pc' = "read" /\ at' = i /\ Record(i)
      /\ UNCHANGED <<store, phase, child, dropped, dedupe, owed, crashes, sink>>
      /\ again' \in {again, again \cup {i}}
  BY Zenon, <1>1 DEF HandlesIt
<1>3. /\ saved' \in {saved, last'} /\ bad_saves' \in Nat /\ since_save' \in 0..SaveInterval - 1
      /\ \/ Positioned(store[i]) /\ last' = i /\ rewinds' \in {"yes", rewinds}
         \/ ~ Positioned(store[i]) /\ last' = last /\ rewinds' = rewinds
  BY Zenon, <1>0, <1>2, RecordOutcome
<1>4. store[i] \in Stamped /\ n \in Nat /\ at \in 0..n /\ i \in Nat /\ at < i
  BY <1>0, <1>2, StampsAreNumbers DEF Types
<1>5. /\ Process(store[i]) \notin {"waiting", "unseen"}
      /\ Process(store[i]) = "deduped" => Deduped(store[i])
  BY Zenon, <1>0, <1>4, ProcessDeals DEF Types
<1>6. fate'[i] # "waiting" /\ \A j \in 1..n : fate'[j] = "waiting" => fate[j] = "waiting"
  BY Zenon, <1>2, <1>5
<1>7. Types'
  <2>1. last' \in 0..n /\ saved' \in 0..n /\ i \in 0..n
    BY <1>0, <1>2, <1>3, <1>4 DEF Types
  <2>2. again' \in SUBSET (1..n)
    BY Zenon, <1>0, <1>2 DEF Types
  <2>3. rewinds' \in {"yes", "no"}
    BY Zenon, <1>0, <1>3 DEF Types
  <2>4. QED
    BY Zenon, <1>0, <1>2, <1>3, <2>1, <2>2, <2>3 DEF Types
<1>8. StampsOrdered'
  BY Zenon, <1>0, <1>2, SameStore
<1>9. InPhase'
  <2>1. last # 0 => last' # 0
    BY <1>3, <1>4
  <2>2. \A j \in at' + 1..dedupe : j \in at + 1..dedupe
    BY <1>0, <1>2, <1>4 DEF Types
  <2>3. Reading'
    BY Zenon, <1>2 DEF Reading
  <2>4. QED
    BY Zenon, <1>0, <1>2, <2>1, <2>2, <2>3 DEF InPhase
<1>10. \A j \in 1..n : j <= i /\ fate[j] = "waiting" => j = i \/ j \in dropped
  <2> SUFFICES ASSUME NEW j \in 1..n, j <= i, fate[j] = "waiting", j # i PROVE j \in dropped
    BY Zenon
  <2>1. CASE j <= at
    BY Zenon, <1>0, <1>2, <2>1 DEF DealtWith
  <2>2. CASE ~ (j <= at)
    <3>1. j \in at + 1..n /\ j < i
      BY <1>4, <2>2
    <3>2. QED
      BY Zenon, <1>2, <3>1
  <2>3. QED
    BY Zenon, <2>1, <2>2
<1>11. DealtWith'
  <2>1. ASSUME NEW j \in 1..n, j <= last' PROVE fate'[j] # "waiting"
    <3>1. CASE Positioned(store[i]) /\ last' = i
      <4>1. CASE j = i
        BY Zenon, <1>6, <4>1
      <4>2. CASE j # i
        <5>1. j < i
          BY <1>4, <2>1, <3>1, <4>2
        <5>2. fate[j] = "waiting" => j \in dropped
          BY <1>4, <1>10, <4>2, <5>1
        <5>3. QED
          BY Zenon, <1>2, <3>1, <4>2, <5>1, <5>2
      <4>3. QED
        BY Zenon, <4>1, <4>2
    <3>2. CASE last' = last
      BY Zenon, <1>0, <1>6, <2>1, <3>2 DEF DealtWith
    <3>3. QED
      BY Zenon, <1>3, <3>1, <3>2
  <2>2. ASSUME NEW j \in 1..n, j <= saved' PROVE fate'[j] # "waiting"
    BY Zenon, <1>0, <1>3, <1>6, <2>1, <2>2 DEF DealtWith
  <2>3. ASSUME NEW j \in 1..n, j <= dedupe PROVE fate'[j] # "waiting"
    BY Zenon, <1>0, <1>6, <2>3 DEF DealtWith
  <2>4. ASSUME NEW j \in 1..n, j <= i, fate'[j] = "waiting" PROVE j \in dropped
    BY Zenon, <1>6, <1>10, <2>4
  <2>5. QED
    BY Zenon, <1>2, <2>1, <2>2, <2>3, <2>4 DEF DealtWith
<1>12. OwedIsKept'
  <2> SUFFICES ASSUME NEW j \in owed
               PROVE  fate'[j] # "unseen" /\ (phase = "stream" => fate'[j] # "waiting")
    BY Zenon, <1>2 DEF OwedIsKept
  <2>1. j \in 1..n /\ fate[j] # "unseen" /\ (phase = "stream" => fate[j] # "waiting")
    BY Zenon, <1>0 DEF Types, OwedIsKept
  <2>2. phase = "stream" \/ dropped = {}
    BY Zenon, <1>0 DEF Types, InPhase
  <2>3. fate'[j] # "unseen"
    BY Zenon, <1>2, <1>5, <2>1, <2>2
  <2>4. QED
    BY Zenon, <1>6, <2>1, <2>3
<1>13. DedupeIsExact'
  <2> SUFFICES ASSUME NEW j \in 1..n, fate'[j] = "deduped"
               PROVE  \E m \in 1..j - 1 : store[m].boot = store[j].boot /\ store[m].mach = store[j].mach
    BY <1>2 DEF DedupeIsExact
  <2>1. CASE fate[j] = "deduped"
    <3>1. j \in DOMAIN fate
      BY <1>0 DEF Types
    <3>2. QED
      BY Zenon, <1>0, <2>1, <3>1 DEF DedupeIsExact
  <2>2. CASE fate[j] # "deduped"
    <3>1. j = i /\ fate[i] = "waiting" /\ Deduped(store[i])
      BY <1>2, <1>5, <2>2
    <3>2. /\ phase = "show" /\ dedupe # 0 /\ dedupe \in 0..n
          /\ store[i].boot = store[dedupe].boot /\ store[i].mach <= store[dedupe].mach
      BY Zenon, <1>0, <1>2, <3>1 DEF Deduped, InPhase, Types
    <3>3. dedupe \in 1..n /\ ~ (i <= dedupe)
      BY <1>0, <1>2, <1>4, <3>1, <3>2 DEF DealtWith
    <3>4. dedupe <= i /\ dedupe \in 1..i - 1
      BY <1>4, <3>3
    <3>5. store[dedupe].mach <= store[i].mach
      BY Zenon, <1>0, <1>2, <3>2, <3>3, <3>4 DEF StampsOrdered
    <3>6. store[i].mach \in Nat /\ store[dedupe].mach \in Nat
      BY Zenon, <1>0, <1>2, <3>3, StampsAreNumbers DEF Types
    <3>7. store[dedupe].mach = store[i].mach
      BY <3>2, <3>5, <3>6
    <3>8. QED
      BY Zenon, <3>1, <3>2, <3>4, <3>7
  <2>3. QED
    BY Zenon, <2>1, <2>2
<1>14. QED
  BY Zenon, <1>7, <1>8, <1>9, <1>11, <1>12, <1>13 DEF IInv

LEMMA NextIInv == IInv /\ [Next]_vars => IInv'
BY Zenon, BackfillIInv, LiveWithoutCheckpointIInv, LiveAfterBackfillIInv, BackfillEndsIInv, EndsIInv,
   StaysIInv, StreamDropsIInv, LogIInv, HandleIInv DEF Next, Reader, Attempt, Progress

LEMMA SafeCheckpoint == IInv => CheckpointBehind /\ ReplayRecovers
<1> SUFFICES ASSUME IInv PROVE CheckpointBehind /\ ReplayRecovers
  BY Zenon
<1>1. \A i \in 1..saved : i \in 1..Len(store) /\ i <= saved
  BY DEF IInv, Types
<1>2. QED
  BY Zenon, <1>1 DEF IInv, DealtWith, OwedIsKept, CheckpointBehind, ReplayRecovers

\* The variables keep their types.
THEOREM TypeCorrect == Spec => []TypeOK
<1>1. IInv => TypeOK
  BY DEF IInv, Types, TypeOK
<1>2. QED
  BY InitIInv, NextIInv, <1>1, PTL DEF Spec

\* The saved checkpoint is behind what is still to be shipped, and a stall loses nothing.
THEOREM CheckpointIsSafe == Spec => [](CheckpointBehind /\ ReplayRecovers)
BY InitIInv, NextIInv, SafeCheckpoint, PTL DEF Spec

\* The dedupe only drops what an earlier entry has the stamps of.
THEOREM DedupeExact == Spec => []DedupeIsExact
<1>1. IInv => DedupeIsExact
  BY Zenon DEF IInv
<1>2. QED
  BY InitIInv, NextIInv, <1>1, PTL DEF Spec

-----------------------------------------------------------------------------
(* Nothing is repeated without a fault *)

\* An entry that a backfill shows up to its checkpoint is deduped.
LEMMA UpToCheckpoint ==
    ASSUME IInv, Reading, phase = "show", NEW i \in at + 1..dedupe
    PROVE  Deduped(store[i])
<1>1. dedupe \in 1..Len(store) /\ i \in 1..Len(store) /\ i <= dedupe
  BY DEF IInv, Types
<1>2. store[i].wall = store[dedupe].wall
  BY Zenon DEF IInv, InPhase
<1>3. Before(store[i], store[dedupe])
  BY Zenon, <1>1 DEF IInv, StampsOrdered, Before
<1>4. store[i] \in Stamped /\ store[dedupe] \in Stamped
  BY Zenon, <1>1, StampsAreNumbers DEF IInv, Types
<1>5. store[i].boot = store[dedupe].boot /\ store[i].mach <= store[dedupe].mach
  BY <1>2, <1>3, <1>4 DEF Before, Stamped
<1>6. QED
  BY Zenon, <1>5 DEF Deduped

LEMMA HandleShips == ASSUME IInv, ShippedIsBehind, Handle PROVE ShippedIsBehind'
<1> SUFFICES ASSUME crashes' = 0, bad_saves' = 0, rewinds' = "no"
             PROVE  /\ again' = {}
                    /\ \A j \in 1..Len(store') : fate'[j] = "shipped" => Reached(j)'
                    /\ Reading' => last' <= at' \/ (phase' = "show" /\ last' = dedupe')
  BY Zenon DEF ShippedIsBehind
<1>0. Types
  BY Zenon DEF IInv
<1> DEFINE n == Len(store)
<1>1. PICK i \in 1..n : HandlesIt(i)
  BY Zenon, <1>0, HandleOutcome
<1>2. /\ i \in at + 1..n /\ i \in 1..n
      /\ fate'[i] = IF fate[i] = "waiting" \/ Process(store[i]) = "shipped"
                    THEN Process(store[i]) ELSE fate[i]
      /\ \A j \in 1..n : j # i => fate'[j] \in {"unseen", fate[j]}
      /\ Reading /\ pc' = "read" /\ at' = i /\ Record(i)
      /\ UNCHANGED <<store, phase, dedupe, crashes>>
      /\ again' = IF fate[i] = "shipped" /\ Process(store[i]) = "shipped"
                  THEN again \cup {i} ELSE again
  BY Zenon, <1>1 DEF HandlesIt
<1>3. /\ bad_saves = 0
      /\ \/ Positioned(store[i]) /\ last' = i /\ rewinds' = IF i < last THEN "yes" ELSE rewinds
         \/ ~ Positioned(store[i]) /\ UNCHANGED <<last, rewinds, saved>>
  BY Zenon, <1>0, <1>2, RecordOutcome
<1>4. /\ n \in Nat /\ at \in Nat /\ i \in Nat /\ at < i /\ last \in Nat /\ dedupe \in Nat
      /\ store[i] \in Stamped
  BY <1>0, <1>2 DEF Types
<1>5. Process(store[i]) = "shipped" => ~ Deduped(store[i]) /\ Positioned(store[i])
  BY Zenon, <1>0, <1>4, ProcessDeals DEF Types
<1>6. /\ again = {} /\ \A j \in 1..n : fate[j] = "shipped" => j <= last
      /\ last <= at \/ (phase = "show" /\ last = dedupe)
  BY Zenon, <1>2, <1>3 DEF ShippedIsBehind, Reached
<1>7. ~ (fate[i] = "shipped" /\ Process(store[i]) = "shipped")
  <2> SUFFICES ASSUME fate[i] = "shipped", Process(store[i]) = "shipped" PROVE FALSE
    BY Zenon
  <2>1. i <= last
    BY Zenon, <1>2, <1>6
  <2>2. phase = "show" /\ last = dedupe
    BY <1>4, <1>6, <2>1
  <2>3. i \in at + 1..dedupe
    BY <1>4, <2>1, <2>2
  <2>4. QED
    BY Zenon, <1>2, <1>5, <2>2, <2>3, UpToCheckpoint
<1>8. \A j \in 1..n : fate'[j] = "shipped" => j <= last'
  <2> SUFFICES ASSUME NEW j \in 1..n, fate'[j] = "shipped" PROVE j <= last'
    BY Zenon
  <2>1. CASE Positioned(store[i])
    <3>1. last' = i /\ ~ (i < last)
      BY Zenon, <1>3, <2>1
    <3>2. j = i \/ j <= last
      BY Zenon, <1>2, <1>6
    <3>3. QED
      BY <1>4, <3>1, <3>2
  <2>2. CASE ~ Positioned(store[i])
    <3>1. last' = last /\ Process(store[i]) # "shipped"
      BY Zenon, <1>3, <1>5, <2>2
    <3>2. fate[j] = "shipped"
      BY Zenon, <1>2, <3>1
    <3>3. QED
      BY Zenon, <1>6, <3>1, <3>2
  <2>3. QED
    BY Zenon, <2>1, <2>2
<1>9. last' <= at' \/ (phase' = "show" /\ last' = dedupe')
  BY <1>2, <1>3, <1>4, <1>6
<1>10. QED
  BY Zenon, <1>2, <1>6, <1>7, <1>8, <1>9 DEF Reached, Reading

\* The reading ends, or a phase of it does: the last position is saved.
LEMMA EndShips ==
    ASSUME IInv, ShippedIsBehind, StreamEnds \/ ReadFails \/ Cancelled \/ Reconcile \/ BackfillEnds
    PROVE  ShippedIsBehind'
<1>1. /\ Reading /\ pc' \in {"load", "live", "reap", "backoff", "stopped"} /\ SaveCheckpoint(last)
      /\ UNCHANGED <<store, fate, again, crashes, rewinds>>
      /\ pc' = "live" => last' = last
  BY Zenon DEF StreamEnds, ReadFails, Cancelled, Reconcile, BackfillEnds, SaveFinal, Reading, world
<1>2. last \in Nat /\ bad_saves \in Nat /\ saved \in Nat
  BY DEF IInv, Types
<1>3. bad_saves' = 0 => bad_saves = 0 /\ saved' = IF last = 0 THEN saved ELSE last
  BY Zenon, <1>1, <1>2, SaveOutcome
<1>4. ~ Reading'
  BY Zenon, <1>1 DEF Reading
<1>5. SUFFICES ASSUME crashes' = 0, bad_saves' = 0, rewinds' = "no"
               PROVE  /\ again' = {}
                      /\ \A j \in 1..Len(store') : fate'[j] = "shipped" => Reached(j)'
  BY Zenon, <1>4 DEF ShippedIsBehind
<1>6. again = {} /\ \A j \in 1..Len(store) : fate[j] = "shipped" => j <= last
  BY Zenon, <1>1, <1>3, <1>5 DEF ShippedIsBehind, Reached
<1>7. \A j \in 1..Len(store) : fate[j] = "shipped" => j <= saved'
  BY <1>2, <1>3, <1>5, <1>6
<1>8. QED
  BY Zenon, <1>1, <1>4, <1>6, <1>7 DEF Reached

\* The steps that neither ship nor save.
LEMMA QuietShips ==
    ASSUME IInv, ShippedIsBehind,
           \/ SpawnFails \/ Backfill \/ LiveAfterBackfill \/ LiveWithoutCheckpoint
           \/ ChannelFull \/ ChildExits \/ Shutdown \/ Reap \/ Retry
           \/ (\E s \in {"live", "dry_run"} : Start(s)) \/ (\E i \in 1..MaxEntries : StreamDrops(i))
           \/ UNCHANGED vars
    PROVE  ShippedIsBehind'
<1>0. Types /\ DOMAIN fate = 1..Len(store)
  BY DEF IInv, Types
<1>1. CASE SpawnFails
  BY Zenon, <1>1 DEF SpawnFails, ShippedIsBehind, Reached, Reading, world
<1>2. CASE Backfill
  BY Zenon, <1>2 DEF Backfill, ShippedIsBehind, Reached, Reading, world
<1>3. CASE LiveAfterBackfill
  <2>1. last <= Len(store)
    BY <1>0 DEF Types
  <2>2. QED
    BY Zenon, <1>3, <2>1 DEF LiveAfterBackfill, StartStream, ShippedIsBehind, Reached, Reading, world
<1>4. CASE LiveWithoutCheckpoint
  <2>1. \A i \in 1..Len(store) : fate'[i] = "shipped" => fate[i] = "shipped"
    BY Zenon, <1>0, <1>4 DEF LiveWithoutCheckpoint
  <2>2. 0 <= Len(store)
    BY <1>0 DEF Types
  <2>3. QED
    BY Zenon, <1>4, <2>1, <2>2 DEF LiveWithoutCheckpoint, StartStream, ShippedIsBehind, Reached, Reading, world
<1>5. CASE \/ ChannelFull \/ ChildExits \/ Shutdown \/ Reap \/ Retry
           \/ (\E s \in {"live", "dry_run"} : Start(s)) \/ (\E i \in 1..MaxEntries : StreamDrops(i))
           \/ UNCHANGED vars
  <2>1. /\ UNCHANGED <<store, fate, again, phase, at, dedupe, last, rewinds, saved, crashes,
                       bad_saves>>
        /\ Reading' <=> Reading
        /\ pc' = "live" <=> pc = "live"
    BY <1>5, Zenon DEF ChannelFull, ChildExits, Shutdown, Reap, Retry, Start, StreamDrops, Reading,
       world, reader, vars
  <2>2. QED
    BY Zenon, <2>1 DEF ShippedIsBehind, Reached
<1>6. QED
  BY Zenon, <1>1, <1>2, <1>3, <1>4, <1>5

LEMMA LogShips == ASSUME IInv, ShippedIsBehind, NEW k \in Kind, Log(k) PROVE ShippedIsBehind'
<1>1. /\ Len(store') = Len(store) + 1 /\ Len(store) \in Nat /\ Len(fate) = Len(store)
      /\ fate \in Seq(Fate)
  BY LogStamps DEF IInv, Types
<1>2. /\ \A i \in 1..Len(store) : fate'[i] = fate[i]
      /\ fate'[Len(store')] = "waiting"
  BY <1>1 DEF Log, Fate
<1>3. UNCHANGED <<again, pc, phase, at, dedupe, last, rewinds, saved, crashes, bad_saves>>
  BY Zenon DEF Log, reader, world
<1>4. \A i \in 1..Len(store') : fate'[i] = "shipped" => i \in 1..Len(store) /\ fate[i] = "shipped"
  BY <1>1, <1>2
<1>5. QED
  BY Zenon, <1>3, <1>4 DEF ShippedIsBehind, Reached, Reading

LEMMA NextShips == IInv /\ ShippedIsBehind /\ [Next]_vars => ShippedIsBehind'
<1> SUFFICES ASSUME IInv, ShippedIsBehind, [Next]_vars PROVE ShippedIsBehind'
  BY Zenon
<1>1. CASE Crash
  <2>1. crashes' # 0
    BY <1>1 DEF Crash, IInv, Types
  <2>2. QED
    BY Zenon, <2>1 DEF ShippedIsBehind
<1>2. QED
  BY Zenon, <1>1, HandleShips, EndShips, QuietShips, LogShips DEF Next, Reader, Attempt, Progress

\* The unified log is read exactly once unless there was a crash, a save failed or a
\* structural entry moved the checkpoint backwards.
THEOREM UnifiedOnce == Spec => []OnlyFaultsRepeat
<1>1. Init => ShippedIsBehind
  BY DEF Init, ShippedIsBehind, Reading
<1>2. IInv /\ ShippedIsBehind => OnlyFaultsRepeat
  <2>1. IInv => crashes \in Nat /\ bad_saves \in Nat /\ rewinds \in {"yes", "no"}
    BY Zenon DEF IInv, Types
  <2>2. QED
    BY <2>1 DEF ShippedIsBehind, OnlyFaultsRepeat
<1>3. QED
  BY <1>1, <1>2, InitIInv, NextIInv, NextShips, PTL DEF Spec
=============================================================================
