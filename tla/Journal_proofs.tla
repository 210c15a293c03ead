--------------------------- MODULE Journal_proofs ---------------------------
(***************************************************************************)
(* Journal: the saved cursor is safe for every journal, every filter and   *)
(* every interval, and the source implements AtLeastOnce.                  *)
(***************************************************************************)
EXTENDS Journal, TLAPS

\* No entry that was to be shipped is dealt with in another way.
FatesAreRight ==
    \A i \in 1..Len(journal) :
        journal[i].line = "json" /\ Shippable(journal[i])
            => fate[i] \in {"waiting", "shipped", "printed", "before_start"}

\* While the source reads, everything up to its position is dealt with, and the
\* cursors are in order behind it.
ReadsInOrder ==
    pc \in {"read", "full"} =>
        /\ \A i \in 1..at : fate[i] # "waiting"
        /\ saved <= last_cursor /\ last_cursor <= at

SavedIsSafe == \A i \in 1..saved : fate[i] # "waiting"

\* The line that is kept in backpressure.
PendingIsNext == pc = "full" => at < Len(journal)

IInv == TypeOK /\ FatesAreRight /\ SavedIsSafe /\ ReadsInOrder /\ PendingIsNext

\* Process answers with a fate that FatesAreRight accepts.
LEMMA ProcessDeals ==
    ASSUME NEW e \in Entry, sink \in {"live", "dry_run"}
    PROVE  /\ Process(e) \in Fate \ {"waiting"}
           /\ e.line = "json" /\ Shippable(e) => Process(e) \in {"shipped", "printed"}
BY Zenon, JournalAssumption DEF Process, Fate

\* Saving a cursor leaves the old or the given one in the file.
LEMMA SaveOutcome ==
    ASSUME NEW c \in Nat, SaveCursor(c), bad_saves \in Nat
    PROVE  saved' \in {saved, c} /\ bad_saves' \in Nat
BY DEF SaveCursor

LEMMA SafeCursor == IInv => CursorBehind
BY DEF IInv, TypeOK, FatesAreRight, SavedIsSafe, CursorBehind

LEMMA InitIInv == Init => IInv
BY SaveAssumption DEF Init, IInv, TypeOK, FatesAreRight, SavedIsSafe, ReadsInOrder, PendingIsNext

\* What leaves the journal and the fates alone, and does not go on reading, keeps the
\* invariant as long as the saved cursor was safe to save.
LEMMA LeavesReading ==
    ASSUME IInv, TypeOK', UNCHANGED <<journal, fate>>, pc' \notin {"read", "full"},
           saved' = saved \/ (pc \in {"read", "full"} /\ saved' = last_cursor)
    PROVE  IInv'
<1>1. FatesAreRight'
  BY Zenon DEF IInv, FatesAreRight, Shippable, Excludes
<1>2. saved \in Nat /\ last_cursor \in Nat /\ at \in Nat
  BY DEF IInv, TypeOK
<1>3. SavedIsSafe'
  <2>1. CASE saved' = saved
    BY Zenon, <2>1 DEF IInv, SavedIsSafe
  <2>2. CASE pc \in {"read", "full"} /\ saved' = last_cursor
    <3>1. last_cursor <= at /\ \A i \in 1..at : fate[i] # "waiting"
      BY Zenon, <2>2 DEF IInv, ReadsInOrder
    <3>2. QED
      BY <1>2, <2>2, <3>1 DEF SavedIsSafe
  <2>3. QED
    BY Zenon, <2>1, <2>2
<1>4. QED
  BY Zenon, <1>1, <1>3 DEF IInv, ReadsInOrder, PendingIsNext

\* load_cursor and spawn_journalctl.
LEMMA SpawnIInv == IInv /\ Spawn => IInv'
<1> SUFFICES ASSUME IInv, Spawn PROVE IInv'
  BY Zenon
<1> USE DEF world, Fate
<1>1. DOMAIN fate = 1..Len(journal) /\ DOMAIN fate' = 1..Len(journal)
  BY DEF IInv, TypeOK, Spawn
<1>2. fate' \in Seq(Fate) /\ Len(fate') = Len(journal)
  BY <1>1 DEF IInv, TypeOK, Spawn
<1>3. TypeOK'
  BY <1>2, SaveAssumption DEF IInv, TypeOK, Spawn, StartsBehind
<1>4. FatesAreRight'
  BY Zenon, <1>1 DEF IInv, FatesAreRight, Spawn, Shippable, Excludes
<1>5. ASSUME NEW i \in 1..at' PROVE fate'[i] # "waiting"
  BY <1>1, <1>3, <1>5 DEF IInv, TypeOK, SavedIsSafe, Spawn, StartsBehind
<1>6. SavedIsSafe' /\ ReadsInOrder' /\ PendingIsNext'
  BY <1>3, <1>5 DEF IInv, TypeOK, SavedIsSafe, ReadsInOrder, PendingIsNext, Spawn, StartsBehind
<1>7. QED
  BY Zenon, <1>3, <1>4, <1>6 DEF IInv

\* An entry is dealt with: the position moves on by one.
LEMMA HandleIInv == IInv /\ Handle => IInv'
<1> SUFFICES ASSUME IInv, Handle PROVE IInv'
  BY Zenon
<1> DEFINE i == at + 1
<1> USE DEF world
<1>1. /\ i \in 1..Len(journal) /\ journal[i] \in Entry /\ at \in Nat /\ pc \in {"read", "full"}
      /\ at' = i /\ pc' = "read" /\ UNCHANGED <<journal, child, cancel, sink, crashes, stops>>
      /\ Bookkeeping(journal[i])
  BY DEF IInv, TypeOK, Handle
<1>2. /\ Process(journal[i]) \in Fate \ {"waiting"}
      /\ journal[i].line = "json" /\ Shippable(journal[i]) =>
             Process(journal[i]) \in {"shipped", "printed"}
  BY Zenon, <1>1, ProcessDeals DEF IInv, TypeOK
<1>3. /\ fate' \in Seq(Fate) /\ Len(fate') = Len(journal)
      /\ fate'[i] = IF fate[i] = "shipped" THEN "shipped" ELSE Process(journal[i])
      /\ \A j \in 1..Len(journal) : j # i => fate'[j] = fate[j]
  BY <1>1, <1>2 DEF IInv, TypeOK, Handle, Fate
<1>4. /\ last_cursor' \in {last_cursor, i} /\ saved' \in {saved, last_cursor'}
      /\ entries_since_save' \in 0..SaveInterval - 1 /\ bad_saves' \in Nat
  <2>1. entries_since_save \in 0..SaveInterval - 1 /\ bad_saves \in Nat /\ i \in Nat
    BY <1>1 DEF IInv, TypeOK
  <2>2. QED
    BY <1>1, <2>1, SaveOutcome, SaveAssumption DEF Bookkeeping, SaveDue
<1>5. /\ saved \in Nat /\ last_cursor \in Nat /\ saved <= last_cursor /\ last_cursor <= at
      /\ \A j \in 1..at : fate[j] # "waiting"
  BY <1>1 DEF IInv, TypeOK, ReadsInOrder
<1>6. /\ last_cursor' \in Nat /\ saved' \in Nat
      /\ saved' <= last_cursor' /\ last_cursor' <= at' /\ at' \in 0..Len(journal)
  BY <1>1, <1>4, <1>5
<1>7. TypeOK'
  <2>1. again' \subseteq 1..Len(journal)
    BY Zenon, <1>1 DEF IInv, TypeOK, Handle
  <2>2. last_cursor' \in 0..Len(journal) /\ saved' \in 0..Len(journal)
    BY <1>1, <1>6
  <2>3. QED
    BY Zenon, <1>1, <1>3, <1>4, <1>6, <2>1, <2>2 DEF IInv, TypeOK
<1>8. FatesAreRight'
  BY <1>1, <1>2, <1>3 DEF IInv, FatesAreRight, Shippable, Excludes
<1>9. \A j \in 1..at' : fate'[j] # "waiting"
  BY <1>1, <1>2, <1>3, <1>5
<1>10. SavedIsSafe' /\ ReadsInOrder' /\ PendingIsNext'
  BY <1>1, <1>6, <1>9 DEF SavedIsSafe, ReadsInOrder, PendingIsNext
<1>11. QED
  BY Zenon, <1>7, <1>8, <1>10 DEF IInv

\* A new entry is beyond every position.
LEMMA LogIInv == ASSUME IInv, NEW e \in Entry, Log(e) PROVE IInv'
<1> USE DEF reader, world, Fate
<1>0. /\ journal \in Seq(Entry) /\ fate \in Seq(Fate) /\ Len(fate) = Len(journal)
      /\ journal' = Append(journal, e) /\ fate' = Append(fate, "waiting")
  BY Zenon DEF IInv, TypeOK, Log
<1>1. /\ journal' \in Seq(Entry) /\ fate' \in Seq(Fate)
      /\ Len(journal') = Len(journal) + 1 /\ Len(fate') = Len(journal')
      /\ \A i \in 1..Len(journal) : journal'[i] = journal[i] /\ fate'[i] = fate[i]
      /\ fate'[Len(journal')] = "waiting"
  BY <1>0
<1>2. TypeOK'
  BY <1>1 DEF IInv, TypeOK, Log
<1>3. FatesAreRight'
  <2> SUFFICES ASSUME NEW i \in 1..Len(journal'), journal'[i].line = "json", Shippable(journal'[i])
               PROVE  fate'[i] \in {"waiting", "shipped", "printed", "before_start"}
    BY Zenon DEF FatesAreRight, Shippable, Excludes
  <2>1. CASE i = Len(journal')
    BY Zenon, <1>1, <2>1
  <2>2. CASE i # Len(journal')
    <3>1. i \in 1..Len(journal)
      BY <1>1, <2>2 DEF IInv, TypeOK
    <3>2. QED
      BY Zenon, <1>1, <3>1 DEF IInv, FatesAreRight
  <2>3. QED
    BY Zenon, <2>1, <2>2
<1>4. UNCHANGED <<pc, at, last_cursor, saved>>
  BY Zenon DEF Log
<1>5. SavedIsSafe' /\ ReadsInOrder'
  <2>1. saved \in 0..Len(journal) /\ (pc \in {"read", "full"} => at \in 0..Len(journal))
    BY Zenon DEF IInv, TypeOK
  <2>2. \A i \in 1..Len(journal) : fate'[i] = fate[i]
    BY Zenon, <1>1
  <2>3. QED
    BY <1>4, <2>1, <2>2 DEF IInv, SavedIsSafe, ReadsInOrder
<1>6. PendingIsNext'
  BY <1>1, <1>4 DEF IInv, TypeOK, PendingIsNext
<1>7. QED
  BY Zenon, <1>2, <1>3, <1>5, <1>6 DEF IInv

\* The steps that end the reading, or happen while nothing is read.
LEMMA QuietIInv ==
    ASSUME IInv,
           \/ SpawnFails \/ Reap \/ Retry \/ Crash \/ (\E s \in {"live", "dry_run"} : Start(s))
           \/ (\E c \in {"exited", "runs"} : StreamEnds(c)) \/ Cancelled
    PROVE  IInv'
<1> USE SaveAssumption DEF world, Forget
<1>0. 0 \in 0..Len(journal) /\ 0 \in 0..SaveInterval - 1
  BY DEF IInv, TypeOK
<1>1. CASE SpawnFails \/ Reap \/ Retry \/ Crash \/ (\E s \in {"live", "dry_run"} : Start(s))
  <2>1. TypeOK' /\ UNCHANGED <<journal, fate, saved>>
    <3>1. CASE SpawnFails
      BY Zenon, <3>1 DEF IInv, TypeOK, SpawnFails
    <3>2. CASE Reap \/ Retry
      BY <3>2, Zenon DEF IInv, TypeOK, Reap, Retry
    <3>3. CASE Crash
      BY <1>0, <3>3 DEF IInv, TypeOK, Crash
    <3>4. CASE \E s \in {"live", "dry_run"} : Start(s)
      BY Zenon, <3>4 DEF IInv, TypeOK, Start
    <3>5. QED
      BY Zenon, <1>1, <3>1, <3>2, <3>3, <3>4
  <2>2. CASE pc' \notin {"read", "full"}
    BY Zenon, <2>1, <2>2, LeavesReading
  <2>3. QED
    BY Zenon, <1>1, <2>2 DEF SpawnFails, Reap, Retry, Crash, Start
<1>2. CASE (\E c \in {"exited", "runs"} : StreamEnds(c)) \/ Cancelled
  <2>1. /\ pc \in {"read", "full"} /\ pc' \in {"reap", "stopped"} /\ SaveCursor(last_cursor)
        /\ UNCHANGED <<journal, fate>>
    BY Zenon, <1>2 DEF StreamEnds, Cancelled, SaveFinal, Waits
  <2>2. saved' \in {saved, last_cursor} /\ bad_saves' \in Nat
    BY <2>1, SaveOutcome DEF IInv, TypeOK
  <2>3. TypeOK'
    <3>1. CASE \E c \in {"exited", "runs"} : StreamEnds(c)
      BY Zenon, <1>0, <2>2, <3>1 DEF IInv, TypeOK, StreamEnds
    <3>2. CASE Cancelled
      BY Zenon, <1>0, <2>2, <3>2 DEF IInv, TypeOK, Cancelled
    <3>3. QED
      BY Zenon, <1>2, <3>1, <3>2
  <2>4. QED
    BY Zenon, <2>1, <2>2, <2>3, LeavesReading
<1>3. QED
  BY Zenon, <1>1, <1>2

\* The steps that touch none of the positions.
LEMMA StaysIInv == ASSUME IInv, ChannelFull \/ ChildExits \/ Shutdown \/ UNCHANGED vars PROVE IInv'
<1> USE DEF reader, world, vars
<1>1. TypeOK' /\ UNCHANGED <<journal, fate, at, saved, last_cursor>>
  <2>1. CASE ChannelFull
    BY Zenon, <2>1 DEF IInv, TypeOK, ChannelFull
  <2>2. CASE ChildExits
    BY Zenon, <2>2 DEF IInv, TypeOK, ChildExits
  <2>3. CASE Shutdown
    BY <2>3 DEF IInv, TypeOK, Shutdown
  <2>4. CASE UNCHANGED vars
    BY Zenon, <2>4 DEF IInv, TypeOK
  <2>5. QED
    BY Zenon, <2>1, <2>2, <2>3, <2>4
<1>2. pc' = pc \/ (pc = "read" /\ pc' = "full" /\ at < Len(journal))
  BY Zenon DEF ChannelFull, ChildExits, Shutdown
<1>3. FatesAreRight'
  BY Zenon, <1>1 DEF IInv, FatesAreRight, Shippable, Excludes
<1>4. QED
  BY Zenon, <1>1, <1>2, <1>3 DEF IInv, SavedIsSafe, ReadsInOrder, PendingIsNext

LEMMA NextIInv == IInv /\ [Next]_vars => IInv'
BY Zenon, SpawnIInv, HandleIInv, LogIInv, QuietIInv, StaysIInv DEF Next, Reader, Progress

\* The variables keep their types.
THEOREM TypeCorrect == Spec => []TypeOK
<1>1. IInv => TypeOK
  BY Zenon DEF IInv
<1>2. QED
  BY InitIInv, NextIInv, <1>1, PTL DEF Spec

\* For every journal and every filter the saved cursor stays behind what is still to
\* be shipped.
THEOREM CursorIsSafe == Spec => []CursorBehind
BY InitIInv, NextIInv, SafeCursor, PTL DEF Spec

-----------------------------------------------------------------------------
(* The refinement of AtLeastOnce. *)

\* The first state of the source is the first state of the promise.
LEMMA InitRefines == Init => Promise!Init
BY DEF Init, Promise!Init, Done, Position

\* A child starts: Begin.
LEMMA SpawnRefines == IInv /\ Spawn => Promise!Begin
<1> SUFFICES ASSUME IInv, Spawn PROVE Promise!Begin
  BY Zenon
<1>1. Position' = saved /\ UNCHANGED <<Len(journal), saved>>
  BY Zenon DEF Spawn, Position
<1>2. DOMAIN fate = 1..Len(journal) /\ DOMAIN fate' = 1..Len(journal) /\ Len(fate') = Len(journal)
  BY DEF IInv, TypeOK, Spawn
<1>3. CASE saved = 0
  <2>1. Done' = 1..Len(journal)
    BY Zenon, <1>2, <1>3 DEF Spawn, Done
  <2>2. QED
    BY Zenon, <1>1, <1>3, <2>1 DEF Promise!Begin
<1>4. CASE saved # 0
  <2>1. Done' = Done
    BY Zenon, <1>2, <1>4 DEF IInv, TypeOK, Spawn, Done
  <2>2. QED
    BY Zenon, <1>1, <1>4, <2>1 DEF Promise!Begin
<1>5. QED
  BY Zenon, <1>3, <1>4

\* An entry is dealt with: Handle of its number.
LEMMA HandleRefines == IInv /\ Handle => \E i \in 1..Len(journal) : Promise!Handle(i)
<1> SUFFICES ASSUME IInv, Handle PROVE Promise!Handle(at + 1) /\ at + 1 \in 1..Len(journal)
  BY Zenon
<1> DEFINE i == at + 1
<1>1. i \in 1..Len(journal) /\ journal[i] \in Entry /\ at \in Nat
  BY DEF IInv, TypeOK, Handle
<1>2. Process(journal[i]) # "waiting"
  BY Zenon, <1>1, ProcessDeals DEF IInv, TypeOK
<1>3. /\ Len(fate') = Len(fate) /\ fate'[i] # "waiting"
      /\ \A j \in 1..Len(fate) : j # i => fate'[j] = fate[j]
  BY <1>1, <1>2 DEF IInv, TypeOK, Handle
<1>4. Done' = Done \cup {i}
  BY Zenon, <1>1, <1>3 DEF IInv, TypeOK, Done
<1>5. last_cursor' \in {last_cursor, i} /\ saved' \in {saved, last_cursor'}
  BY <1>1, SaveOutcome DEF IInv, TypeOK, Handle, Bookkeeping
<1>6. Position = last_cursor /\ Position' = last_cursor'
  BY Zenon DEF Handle, Position
<1>7. last_cursor \in Nat /\ last_cursor <= at
  BY DEF IInv, TypeOK, ReadsInOrder, Handle
<1>8. 1..last_cursor' \subseteq Done'
  BY <1>1, <1>4, <1>5, <1>7 DEF IInv, TypeOK, ReadsInOrder, Done, Handle
<1>9. QED
  BY <1>1, <1>4, <1>5, <1>6, <1>7, <1>8 DEF Promise!Handle, Handle

\* The reading ends with a save, with a save that failed, or without one.
LEMMA EndRefines ==
    ASSUME IInv, StreamEnds("exited") \/ StreamEnds("runs") \/ Cancelled \/ Crash
    PROVE  Promise!Save \/ Promise!Begin
<1>1. Done' = Done /\ UNCHANGED Len(journal) /\ Position' = saved'
  BY Zenon DEF StreamEnds, Cancelled, Crash, Done, Position
<1>2. saved' = saved \/ (pc \in {"read", "full"} /\ saved' = last_cursor)
  BY SaveOutcome DEF IInv, TypeOK, StreamEnds, Cancelled, Crash, SaveFinal, Waits
<1>3. CASE saved' = saved
  BY Zenon, <1>1, <1>3 DEF Promise!Begin
<1>4. CASE pc \in {"read", "full"} /\ saved' = last_cursor
  BY Zenon, <1>1, <1>4 DEF Promise!Save, Position
<1>5. QED
  BY Zenon, <1>2, <1>3, <1>4

\* Nothing the promise knows of changes.
LEMMA QuietRefines ==
    ASSUME \/ SpawnFails \/ Reap \/ Retry \/ ChannelFull \/ ChildExits \/ Shutdown
           \/ (\E s \in {"live", "dry_run"} : Start(s)) \/ UNCHANGED vars
    PROVE  UNCHANGED Promise!abstract
BY Zenon DEF SpawnFails, Reap, Retry, ChannelFull, ChildExits, Shutdown, Start, vars, reader, world,
   Promise!abstract, Done, Position

LEMMA LogRefines == ASSUME IInv, NEW e \in Entry, Log(e) PROVE Promise!Append
<1>1. /\ Len(journal') = Len(journal) + 1 /\ Len(fate') = Len(fate) + 1
      /\ \A i \in 1..Len(fate) : fate'[i] = fate[i]
      /\ fate'[Len(fate')] = "waiting" /\ Len(fate) \in Nat
  BY DEF IInv, TypeOK, Log
<1>2. Done' = Done
  BY <1>1 DEF Done
<1>3. QED
  BY Zenon, <1>1, <1>2 DEF Log, reader, Position, Promise!Append

LEMMA StepRefines ==
    ASSUME IInv, [Next]_vars PROVE Promise!Next \/ UNCHANGED Promise!abstract
<1>1. CASE \E e \in Entry : Log(e)
  BY Zenon, <1>1, LogRefines DEF Promise!Next
<1>2. CASE Spawn \/ Handle
  BY Zenon, <1>2, SpawnRefines, HandleRefines DEF Promise!Next
<1>3. CASE StreamEnds("exited") \/ StreamEnds("runs") \/ Cancelled \/ Crash
  BY Zenon, <1>3, EndRefines DEF Promise!Next
<1>4. QED
  BY Zenon, <1>1, <1>2, <1>3, QuietRefines DEF Next, Reader, Progress


\* Whatever the entries, the filter and the faults, the source implements
\* AtLeastOnce.
THEOREM Refinement == Spec => AtLeastOnceSpec
<1>1. IInv /\ [Next]_vars => [Promise!Next]_(Promise!abstract)
  BY Zenon, StepRefines
<1>2. QED
  BY InitIInv, NextIInv, InitRefines, <1>1, PTL DEF Spec, AtLeastOnceSpec, Promise!Spec
-----------------------------------------------------------------------------
(* Nothing is repeated without a fault. *)

\* Without a crash and a failed save, what was shipped is behind the position.
ShippedIsBehind ==
    crashes = 0 /\ bad_saves = 0 =>
        again = {} /\ \A i \in 1..Len(journal) : fate[i] = "shipped" => i <= Position

LEMMA SpawnShips == ASSUME IInv, ShippedIsBehind, Spawn PROVE ShippedIsBehind'
<1>1. DOMAIN fate = 1..Len(journal)
  BY DEF IInv, TypeOK
<1>2. \A i \in 1..Len(journal) : fate'[i] = "shipped" => fate[i] = "shipped"
  BY Zenon, <1>1 DEF Spawn
<1>3. QED
  BY Zenon, <1>2 DEF ShippedIsBehind, Spawn, Position, world

\* Only an entry whose line parses is shipped, and it moves the cursor.
LEMMA HandleShips == ASSUME IInv, ShippedIsBehind, Handle PROVE ShippedIsBehind'
<1> SUFFICES ASSUME crashes' = 0, bad_saves' = 0
             PROVE  again' = {} /\ \A j \in 1..Len(journal') : fate'[j] = "shipped" => j <= Position'
  BY Zenon DEF ShippedIsBehind
<1> DEFINE i == at + 1
<1>1. i \in 1..Len(journal) /\ journal[i] \in Entry /\ at \in Nat /\ last_cursor \in Nat
  BY DEF IInv, TypeOK, Handle
<1>2. crashes = 0 /\ bad_saves = 0
  BY DEF IInv, TypeOK, Handle, Bookkeeping, SaveCursor, world
<1>3. Position = last_cursor /\ Position' = last_cursor' /\ last_cursor <= at
  BY Zenon DEF Handle, Position, IInv, ReadsInOrder
<1>4. again = {} /\ \A j \in 1..Len(journal) : fate[j] = "shipped" => j <= last_cursor
  BY Zenon, <1>2, <1>3 DEF ShippedIsBehind
<1>5. fate[i] # "shipped"
  BY <1>1, <1>3, <1>4
<1>6. last_cursor' = IF journal[i].line = "json" THEN i ELSE last_cursor
  BY Zenon DEF Handle, Bookkeeping, MovesCursor
<1>7. Process(journal[i]) = "shipped" => journal[i].line = "json"
  BY Zenon, <1>1, JournalAssumption DEF Process
<1>8. /\ fate'[i] = Process(journal[i]) /\ UNCHANGED journal
      /\ \A j \in 1..Len(journal) : j # i => fate'[j] = fate[j]
  BY <1>1, <1>5 DEF IInv, TypeOK, Handle
<1>9. QED
  BY <1>1, <1>3, <1>4, <1>5, <1>6, <1>7, <1>8 DEF Handle

\* The last save of a child that was read covers what was shipped.
LEMMA EndShips ==
    ASSUME IInv, ShippedIsBehind, StreamEnds("exited") \/ StreamEnds("runs") \/ Cancelled
    PROVE  ShippedIsBehind'
<1>1. /\ pc \in {"read", "full"} /\ pc' \in {"reap", "stopped"} /\ SaveCursor(last_cursor)
      /\ UNCHANGED <<journal, fate, again, crashes>>
  BY Zenon DEF StreamEnds, Cancelled, SaveFinal, Waits, world
<1>2. bad_saves' = 0 => bad_saves = 0 /\ saved' = IF last_cursor = 0 THEN saved ELSE last_cursor
  BY <1>1 DEF IInv, TypeOK, SaveCursor
<1>3. Position = last_cursor /\ Position' = saved'
  BY Zenon, <1>1 DEF Position
<1>4. saved \in Nat /\ last_cursor \in Nat
  BY DEF IInv, TypeOK
<1>5. QED
  BY <1>1, <1>2, <1>3, <1>4 DEF ShippedIsBehind

LEMMA NextShips == IInv /\ ShippedIsBehind /\ [Next]_vars => ShippedIsBehind'
<1> SUFFICES ASSUME IInv, ShippedIsBehind, [Next]_vars PROVE ShippedIsBehind'
  BY Zenon
<1>1. CASE SpawnFails \/ Reap \/ Retry \/ ChannelFull \/ ChildExits \/ Shutdown
             \/ (\E s \in {"live", "dry_run"} : Start(s)) \/ UNCHANGED vars
  BY Zenon, <1>1 DEF SpawnFails, Reap, Retry, ChannelFull, ChildExits, Shutdown, Start, vars, reader,
     world, ShippedIsBehind, Position
<1>2. CASE Crash
  <2>1. crashes' # 0
    BY <1>2 DEF Crash, IInv, TypeOK
  <2>2. QED
    BY Zenon, <2>1 DEF ShippedIsBehind
<1>3. ASSUME NEW e \in Entry, Log(e) PROVE ShippedIsBehind'
  <2>1. /\ Len(journal') = Len(journal) + 1 /\ Len(journal) \in Nat /\ Len(fate) = Len(journal)
        /\ \A i \in 1..Len(journal) : fate'[i] = fate[i]
        /\ fate'[Len(journal')] = "waiting"
    BY <1>3 DEF IInv, TypeOK, Log
  <2>2. UNCHANGED <<again, crashes, bad_saves, Position>>
    BY Zenon, <1>3 DEF Log, reader, world, Position
  <2>3. \A i \in 1..Len(journal') : fate'[i] = "shipped" => i \in 1..Len(journal) /\ fate[i] = "shipped"
    BY <2>1
  <2>4. QED
    BY Zenon, <2>2, <2>3 DEF ShippedIsBehind
<1>4. QED
  BY Zenon, <1>1, <1>2, <1>3, SpawnShips, HandleShips, EndShips DEF Next, Reader, Progress

\* Journald is read exactly once unless there was a crash or a save failed.
THEOREM JournalOnce == Spec => []OnlyFaultsRepeat
<1>1. Init => ShippedIsBehind
  BY DEF Init, ShippedIsBehind
<1>2. IInv /\ ShippedIsBehind => OnlyFaultsRepeat
  <2>1. IInv => crashes \in Nat /\ bad_saves \in Nat
    BY Zenon DEF IInv, TypeOK
  <2>2. QED
    BY <2>1 DEF ShippedIsBehind, OnlyFaultsRepeat
<1>3. QED
  BY <1>1, <1>2, InitIInv, NextIInv, NextShips, PTL DEF Spec
=============================================================================
