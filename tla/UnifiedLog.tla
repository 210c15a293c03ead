----------------------------- MODULE UnifiedLog -----------------------------
(***************************************************************************)
(* The macOS unified log source (logs/unified.rs, logs/unified_parse.rs).  *)
(* From a saved checkpoint, `log show` replays the store (backfill); then  *)
(* `log stream` follows it (live).  The stream shows what is logged after  *)
(* it started, and drops entries while its reader is held up.  A stall of  *)
(* BACKPRESSURE_RECONCILE goes back to the backfill.                       *)
(*                                                                         *)
(* An entry is what its line is about (kind) and its stamps: the boot, the *)
(* mach time, which never decreases within a boot, and the wall time,      *)
(* which is coarser.  A checkpoint is the stamps of an entry; it is kept   *)
(* as the number of the entry, 0 for none.  The banner of `log stream` and *)
(* blank lines are left out, as are entries without stamps.                *)
(***************************************************************************)
EXTENDS SourceParams

VARIABLES
    store,          \* the entries logged so far
    fate,           \* what became of each
    again,          \* the entries that were shipped more than once
    pc,             \* where run_cycle and read_stream are
    phase,          \* "show" or "stream"
    child,          \* the log tool
    at,             \* the number of the last entry read, or left out
    dropped,        \* entries that this stream will not show
    dedupe,         \* the checkpoint the backfill started from
    last, since_save,       \* ReaderState
    saved,          \* the checkpoint file
    cancel,         \* the shutdown watch
    sink,           \* "live" or "dry_run"
    rewinds,        \* did the checkpoint ever move backwards?
    owed,           \* what the store still held when a stall was given up
    crashes, bad_saves, stops       \* counters behind the bounds

reader == <<pc, phase, child, at, dropped, dedupe, last, since_save, rewinds, owed>>
world == <<cancel, sink, crashes, stops>>
vars == <<store, fate, again, reader, saved, bad_saves, world>>

Fate == {"waiting", "shipped", "printed", "filtered", "unparsed", "too_long",
         "before_start", "deduped", "unseen"}

Init ==
    /\ store = <<>> /\ fate = <<>> /\ again = {}
    /\ pc = "load" /\ phase = "show" /\ child = "none" /\ at = 0
    /\ dropped = {} /\ dedupe = 0 /\ last = 0 /\ since_save = 0 /\ saved = 0
    /\ cancel = "no" /\ sink = "live" /\ rewinds = "no" /\ owed = {}
    /\ crashes = 0 /\ bad_saves = 0 /\ stops = 0

-----------------------------------------------------------------------------
(* process_entry *)

\* (mutant) the boot is not compared.
AnyBoot(e) == phase = "show" /\ e.mach <= store[dedupe].mach

\* Is the entry at or before the checkpoint of the backfill?
Deduped(e) ==
    /\ phase = "show"
    /\ e.boot = store[dedupe].boot /\ e.mach <= store[dedupe].mach

\* Where an entry goes when the sink takes it.  Structural entries come before the
\* dedupe, the agent's own and empty ones behind it.
Process(e) ==
    CASE e.kind = "long" -> "too_long"
      [] e.kind = "bad" -> "unparsed"
      [] e.kind = "structural" -> "filtered"
      [] e.kind \in {"message", "self"} /\ Deduped(e) -> "deduped"
      [] e.kind = "self" /\ ~Deduped(e) -> "filtered"
      [] e.kind = "message" /\ ~Deduped(e) -> IF sink = "live" THEN "shipped" ELSE "printed"

\* Handled carries the position unless the entry was deduped.
Positioned(e) == Process(e) \in {"filtered", "shipped", "printed"}

-----------------------------------------------------------------------------
(* The checkpoint file *)

SaveCheckpoint(c) ==
    \/ saved' = (IF c = 0 THEN saved ELSE c) /\ UNCHANGED bad_saves
    \/ /\ c # 0 /\ bad_saves < MaxBadSaves
       /\ bad_saves' = bad_saves + 1 /\ UNCHANGED saved

-----------------------------------------------------------------------------
(* run_cycle, run_backfill, run_live *)

\* run_cycle returns or starts again, or the process is gone: ReaderState is.
Forget == /\ phase' = "show" /\ at' = 0 /\ dropped' = {} /\ dedupe' = 0
          /\ last' = 0 /\ since_save' = 0

\* `log show --start` leaves out the entries with an earlier wall time: the first k.
LeftOut(c, k) == \A i \in DOMAIN store : i <= k <=> store[i].wall < store[c].wall

\* run_cycle loads the checkpoint and starts the backfill, if it has one.
Backfill ==
    /\ pc = "load" /\ saved # 0
    /\ last' = saved /\ since_save' = 0
    /\ dedupe' = saved /\ phase' = "show" /\ dropped' = {}
    /\ child' = "runs" /\ pc' = "read"
    /\ \E k \in 0..Len(store) : LeftOut(saved, k) /\ at' = k
    /\ UNCHANGED <<store, fate, again, rewinds, owed, saved, bad_saves, world>>

\* The stream starts: from now.
StartStream ==
    /\ phase' = "stream" /\ dropped' = {i \in DOMAIN fate : fate'[i] = "waiting"}
    /\ child' = "runs" /\ at' = Len(store)
    /\ pc' = "read"

LiveWithoutCheckpoint ==
    /\ pc = "load" /\ saved = 0
    /\ last' = 0 /\ since_save' = 0 /\ dedupe' = 0
    /\ fate' = [i \in DOMAIN fate |-> IF fate[i] = "waiting" THEN "before_start" ELSE fate[i]]
    /\ StartStream
    /\ UNCHANGED <<store, again, rewinds, owed, saved, bad_saves, world>>

LiveAfterBackfill ==
    /\ pc = "live"
    /\ UNCHANGED fate
    /\ StartStream
    /\ UNCHANGED <<store, again, dedupe, last, since_save, rewinds, owed, saved, bad_saves, world>>

\* The log tool cannot be run: LoopExit::Failed.
SpawnFails ==
    /\ pc \in {"load", "live"}
    /\ pc' = IF cancel = "yes" THEN "stopped" ELSE "backoff"
    /\ Forget
    /\ UNCHANGED <<store, fate, again, child, rewinds, owed, saved, bad_saves, world>>

-----------------------------------------------------------------------------
(* read_stream, ship_line, record *)

\* What the child shows, and the entry that is read next: the pending one, or the next
\* line of a child that runs.
Shown == {i \in at + 1..Len(store) : i \notin dropped}
Readable(i) ==
    /\ pc = "full" \/ (pc = "read" /\ child = "runs")
    /\ i \in Shown /\ \A j \in Shown : i <= j

\* record: the position moves to the entry, and is saved now and then.  What is
\* before it and was not seen is now passed over.
Record(i) ==
    IF Positioned(store[i])
    THEN /\ last' = i
         /\ rewinds' = IF i < last THEN "yes" ELSE rewinds
         /\ IF since_save + 1 >= SaveInterval
            THEN SaveCheckpoint(i) /\ since_save' = 0
            ELSE since_save' = since_save + 1 /\ UNCHANGED <<saved, bad_saves>>
    ELSE UNCHANGED <<last, rewinds, since_save, saved, bad_saves>>

Fates(i) ==
    [j \in DOMAIN fate |->
        IF j = i /\ (fate[j] = "waiting" \/ Process(store[j]) = "shipped") THEN Process(store[j])
        ELSE IF j < i /\ j \in dropped /\ fate[j] = "waiting" /\ Positioned(store[i]) THEN "unseen"
        ELSE fate[j]]

\* A line is read, or the pending one tried again, and is done with.
Handle ==
    /\ \E i \in Shown :
       /\ Readable(i)
       /\ fate' = Fates(i)
       /\ again' = IF fate[i] = "shipped" /\ Process(store[i]) = "shipped"
                   THEN again \cup {i} ELSE again
       /\ Record(i)
       /\ at' = i
    /\ pc' = "read"
    /\ UNCHANGED <<store, phase, child, dropped, dedupe, owed, world>>

\* (mutant) the line is given up, its position kept.
FullAndPassed ==
    /\ pc = "read"
    /\ \E i \in Shown :
           Readable(i) /\ Process(store[i]) = "shipped" /\ last' = i /\ at' = i
    /\ UNCHANGED <<store, fate, again, pc, phase, child, dropped, dedupe, since_save,
                   rewinds, owed, saved, bad_saves, world>>

\* RecordOutcome::Full: the line is kept.
ChannelFull ==
    /\ pc = "read" /\ \E i \in Shown : Readable(i) /\ Process(store[i]) = "shipped"
    /\ pc' = "full"
    /\ UNCHANGED <<store, fate, again, phase, child, at, dropped, dedupe, last, since_save,
                   rewinds, owed, saved, bad_saves, world>>

\* The stream drops an entry behind the pending one.
StreamDrops(i) ==
    /\ pc = "full" /\ phase = "stream" /\ child = "runs"
    /\ i \in Shown /\ ~Readable(i)
    /\ dropped' = dropped \cup {i}
    /\ UNCHANGED <<store, fate, again, pc, phase, child, at, dedupe, last, since_save, rewinds, owed,
                   saved, bad_saves, world>>

\* save_final
SaveFinal(c) == SaveCheckpoint(c)

\* (mutant) the stream is torn down without going back to the store.
ReconcileInPlace ==
    /\ pc = "full" /\ phase = "stream"
    /\ SaveFinal(last)
    /\ child' = "none" /\ pc' = "live"
    /\ owed' = IF saved' = 0 THEN {} ELSE {i \in DOMAIN fate : fate[i] = "waiting"}
    /\ Forget
    /\ UNCHANGED <<store, fate, again, rewinds, world>>

\* The stall has lasted long enough: back to the backfill.
Reconcile ==
    /\ pc = "full" /\ phase = "stream"
    /\ SaveFinal(last)
    /\ child' = "none" /\ pc' = "load"
    /\ owed' = IF saved' = 0 THEN {} ELSE {i \in DOMAIN fate : fate[i] = "waiting"}
    /\ Forget
    /\ UNCHANGED <<store, fate, again, rewinds, world>>

\* The child ends, `log show` at any point of the store.
ChildExits ==
    /\ child = "runs"
    /\ child' = "exited"
    /\ UNCHANGED <<store, fate, again, pc, phase, at, dropped, dedupe, last, since_save, rewinds, owed,
                   saved, bad_saves, world>>

\* PhaseExit::Done: the backfill is over, ...
BackfillEnds ==
    /\ pc = "read" /\ phase = "show" /\ child = "exited"
    /\ SaveFinal(last)
    /\ child' = "none" /\ pc' = "live"
    /\ owed' = owed \cap 1..at
    /\ UNCHANGED <<store, fate, again, phase, at, dropped, dedupe, last, since_save, rewinds, world>>

\* ... whereas the end of the stream is a failure.
StreamEnds ==
    /\ pc = "read" /\ phase = "stream" /\ child = "exited"
    /\ SaveFinal(last)
    /\ Forget
    /\ child' = "none" /\ pc' = IF cancel = "yes" THEN "stopped" ELSE "backoff"
    /\ UNCHANGED <<store, fate, again, rewinds, owed, world>>

\* A read error: save_final, then child.wait.
ReadFails ==
    /\ pc = "read" /\ child = "runs"
    /\ SaveFinal(last)
    /\ pc' = "reap"
    /\ Forget
    /\ UNCHANGED <<store, fate, again, child, rewinds, owed, world>>

Reap ==
    /\ pc = "reap" /\ child = "exited"
    /\ child' = "none"
    /\ pc' = IF cancel = "yes" THEN "stopped" ELSE "backoff"
    /\ UNCHANGED <<store, fate, again, phase, at, dropped, dedupe, last, since_save, rewinds, owed,
                   saved, bad_saves, world>>

Retry ==
    /\ pc = "backoff"
    /\ pc' \in IF cancel = "yes" THEN {"load", "stopped"} ELSE {"load"}
    /\ UNCHANGED <<store, fate, again, phase, child, at, dropped, dedupe, last, since_save,
                   rewinds, owed, saved, bad_saves, world>>

Cancelled ==
    /\ pc \in {"read", "full"} /\ cancel = "yes"
    /\ SaveFinal(last)
    /\ child' = "none" /\ pc' = "stopped"
    /\ Forget
    /\ UNCHANGED <<store, fate, again, rewinds, owed, world>>

-----------------------------------------------------------------------------
(* The system around it *)

\* The stamps an entry may get: none, the mach time or both clocks move on, or the
\* machine was booted again.
Stamps ==
    IF store = <<>> THEN {<<1, 1, 1>>}
    ELSE LET e == store[Len(store)] IN
         {<<e.boot, e.mach, e.wall>>, <<e.boot, e.mach + 1, e.wall>>,
          <<e.boot, e.mach + 1, e.wall + 1>>}
         \cup {<<b, 1, e.wall + 1>> : b \in {e.boot + 1} \cap 1..MaxBoots}

Log(k) ==
    /\ Len(store) < MaxEntries
    /\ \E s \in Stamps :
           store' = Append(store, [kind |-> k, boot |-> s[1], mach |-> s[2], wall |-> s[3]])
    /\ fate' = Append(fate, "waiting")
    /\ UNCHANGED <<again, reader, saved, bad_saves, world>>

Shutdown ==
    /\ cancel = "no" /\ pc \notin {"stopped", "down"} /\ stops < MaxStops
    /\ cancel' = "yes" /\ stops' = stops + 1
    /\ UNCHANGED <<store, fate, again, reader, saved, bad_saves, sink, crashes>>

Crash ==
    /\ pc \notin {"stopped", "down"} /\ crashes < MaxCrash
    /\ crashes' = crashes + 1
    /\ pc' = "down" /\ child' = "none"
    /\ Forget
    /\ UNCHANGED <<store, fate, again, rewinds, owed, saved, bad_saves, cancel, sink, stops>>

Start(s) ==
    /\ pc \in {"stopped", "down"}
    /\ pc' = "load" /\ cancel' = "no" /\ sink' = s
    /\ UNCHANGED <<store, fate, again, phase, child, at, dropped, dedupe, last, since_save,
                   rewinds, owed, saved, bad_saves, crashes, stops>>

-----------------------------------------------------------------------------
\* A child is started, if it can be.
Attempt == Backfill \/ LiveWithoutCheckpoint \/ LiveAfterBackfill \/ SpawnFails

\* What goes on without the help of the log tool or of the channel.
Progress == BackfillEnds \/ StreamEnds \/ Reap \/ Retry \/ Cancelled

Reader == Attempt \/ Progress \/ Handle \/ ChannelFull \/ Reconcile \/ ReadFails

Next ==
    \/ Reader \/ ChildExits \/ Shutdown \/ Crash
    \/ \E i \in 1..MaxEntries : StreamDrops(i)
    \/ \E k \in Kind : Log(k)
    \/ \E s \in {"live", "dry_run"} : Start(s)

Spec == Init /\ [][Next]_vars

-----------------------------------------------------------------------------
(* Properties *)

\* Every variable has the values the code can give it.
TypeOK ==
    /\ Len(fate) = Len(store) /\ \A i \in DOMAIN fate : fate[i] \in Fate
    /\ pc \in {"load", "live", "read", "full", "reap", "backoff", "stopped", "down"}
    /\ phase \in {"show", "stream"} /\ child \in {"none", "runs", "exited"}
    /\ {at, last, saved, dedupe} \subseteq 0..Len(store)
    /\ dropped \subseteq 1..Len(store) /\ again \subseteq 1..Len(store)
    /\ since_save \in 0..SaveInterval - 1

\* The saved checkpoint never passes an entry that the source could still ship: one
\* that is not dealt with is beyond it, or was never shown by any child.
CheckpointBehind ==
    \A i \in 1..saved : fate[i] # "waiting"

\* Nothing is shipped twice unless the agent crashes, a checkpoint cannot be
\* written, or a structural entry, which is handled before the dedupe, moved the
\* checkpoint backwards in a backfill.
OnlyFaultsRepeat == again # {} => crashes + bad_saves > 0 \/ rewinds = "yes"

\* The reconciliation behind a long stall is lossless: what the stream dropped is
\* in the store, and the backfill finds it before the checkpoint passes it.
ReplayRecovers == \A i \in owed : fate[i] # "unseen"

\* The dedupe of the backfill only drops an entry nobody shipped if it has the
\* boot and the mach time of an entry before it.
DedupeIsExact ==
    \A i \in DOMAIN fate :
        fate[i] = "deduped" =>
            \E j \in 1..i - 1 : store[j].boot = store[i].boot /\ store[j].mach = store[i].mach

\* tail_unified_log has returned, or waits for a child whose stream broke but which
\* goes on running.
Ended == pc \in {"stopped", "down"} \/ (pc = "reap" /\ child = "runs")
=============================================================================
