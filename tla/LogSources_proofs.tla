-------------------------- MODULE LogSources_proofs --------------------------
(***************************************************************************)
(* Proofs about the log sources of the operating systems: the journal (J), *)
(* the unified log (U) and the Event Log (E), each by itself, and then the *)
(* source that runs.                                                       *)
(***************************************************************************)
EXTENDS LogSources, TLAPS

-----------------------------------------------------------------------------
(* JP, UP and EP are the modules of the sources together with the proofs     *)
(* about them.  With every definition expanded, what J and JP say is one     *)
(* formula, and so with U and UP, E and EP; the quantifier over {0} keeps it *)
(* in one piece for the temporal prover, which compares it as it stands.     *)

JP == INSTANCE Journal_proofs WITH
    journal <- entries, last_cursor <- last, entries_since_save <- since_save

LEMMA SameJournal == J!Spec => JP!Spec
<1>1. (\E x \in {0} : J!Next) => (\E x \in {0} : JP!Next)
  BY PTL DEF J!SELF_IDENTIFIER, JP!SELF_IDENTIFIER, J!reader, JP!reader, J!world,
     JP!world, J!Excludes, JP!Excludes, J!Shippable, JP!Shippable, J!Process, JP!Process,
     J!SaveCursor, JP!SaveCursor, J!Forget, JP!Forget, J!StartsBehind, JP!StartsBehind,
     J!Spawn, JP!Spawn, J!SpawnFails, JP!SpawnFails, J!MovesCursor, JP!MovesCursor,
     J!SaveDue, JP!SaveDue, J!Bookkeeping, JP!Bookkeeping, J!Handle, JP!Handle,
     J!ChannelFull, JP!ChannelFull, J!ChildExits, JP!ChildExits, J!SaveFinal,
     JP!SaveFinal, J!StreamEnds, JP!StreamEnds, J!Reap, JP!Reap, J!Retry, JP!Retry,
     J!Waits, JP!Waits, J!Cancelled, JP!Cancelled, J!Log, JP!Log, J!Shutdown, JP!Shutdown,
     J!Crash, JP!Crash, J!Start, JP!Start, J!Progress, JP!Progress, J!Reader, JP!Reader,
     J!Next, JP!Next
<1>2. J!Init => JP!Init
  BY Zenon DEF J!Init, JP!Init
<1>3. [J!Next]_(J!vars) => [JP!Next]_(JP!vars)
  <2>1. J!vars' = J!vars => JP!vars' = JP!vars
    BY Zenon DEF J!vars, JP!vars, J!reader, JP!reader, J!world, JP!world
  <2>2. QED
    BY Zenon, <1>1, <2>1
<1>4. QED
  BY <1>2, <1>3, PTL DEF J!Spec, JP!Spec

\* The cursor of the journal is safe, only faults repeat an entry, and the source delivers
\* at least once (Journal_proofs).
LEMMA JournalIsSafe == J!Spec => [](J!CursorBehind /\ J!OnlyFaultsRepeat) /\ J!AtLeastOnceSpec
<1>1. JP!Spec => [](JP!CursorBehind /\ JP!OnlyFaultsRepeat) /\ JP!AtLeastOnceSpec
  BY JP!CursorIsSafe, JP!JournalOnce, JP!Refinement, PTL, JournalAssumption,
     UnifiedAssumption, EventLogAssumption, SaveAssumption, BoundsAssumption,
     JP!JournalAssumption, JP!UnifiedAssumption, JP!EventLogAssumption,
     JP!SaveAssumption, JP!BoundsAssumption
<1>2. JP!CursorBehind /\ JP!OnlyFaultsRepeat => J!CursorBehind /\ J!OnlyFaultsRepeat
  <2>1. (\E x \in {0} : JP!CursorBehind) => \E x \in {0} : J!CursorBehind
    BY PTL DEF JP!CursorBehind, J!CursorBehind, JP!Shippable, J!Shippable, JP!Excludes,
       J!Excludes, JP!SELF_IDENTIFIER, J!SELF_IDENTIFIER
  <2>2. JP!OnlyFaultsRepeat => J!OnlyFaultsRepeat
    BY Zenon DEF JP!OnlyFaultsRepeat, J!OnlyFaultsRepeat
  <2>3. QED
    BY Zenon, <2>1, <2>2
<1>3. /\ JP!Promise!Init => J!Promise!Init
      /\ (\E x \in {0} : JP!Promise!Next) => \E x \in {0} : J!Promise!Next
  BY PTL DEF J!Promise!Init, JP!Promise!Init, J!Promise!Next, JP!Promise!Next,
     J!Promise!Append, JP!Promise!Append, J!Promise!Handle, JP!Promise!Handle,
     J!Promise!FallBack, JP!Promise!FallBack, J!Promise!Save, JP!Promise!Save,
     J!Promise!Begin, JP!Promise!Begin, J!Position, JP!Position, J!Done, JP!Done
<1>4. [JP!Promise!Next]_(JP!Promise!abstract) => [J!Promise!Next]_(J!Promise!abstract)
  <2>1. JP!Promise!abstract' = JP!Promise!abstract => J!Promise!abstract' = J!Promise!abstract
    BY Zenon DEF J!Promise!abstract, JP!Promise!abstract, J!Position, JP!Position, J!Done, JP!Done
  <2>2. QED
    BY Zenon, <1>3, <2>1
<1>5. JP!AtLeastOnceSpec => J!AtLeastOnceSpec
  BY <1>3, <1>4, PTL DEF JP!AtLeastOnceSpec, J!AtLeastOnceSpec, JP!Promise!Spec, J!Promise!Spec
<1>6. QED
  BY <1>1, <1>2, <1>5, SameJournal, PTL

UP == INSTANCE UnifiedLog_proofs WITH store <- entries

LEMMA SameUnified == U!Spec => UP!Spec
<1>1. (\E x \in {0} : U!Next) => (\E x \in {0} : UP!Next)
  BY PTL DEF U!reader, UP!reader, U!world, UP!world, U!Deduped, UP!Deduped, U!Process,
     UP!Process, U!Positioned, UP!Positioned, U!SaveCheckpoint, UP!SaveCheckpoint,
     U!Forget, UP!Forget, U!LeftOut, UP!LeftOut, U!Backfill, UP!Backfill, U!StartStream,
     UP!StartStream, U!LiveWithoutCheckpoint, UP!LiveWithoutCheckpoint,
     U!LiveAfterBackfill, UP!LiveAfterBackfill, U!SpawnFails, UP!SpawnFails, U!Shown,
     UP!Shown, U!Readable, UP!Readable, U!Record, UP!Record, U!Fates, UP!Fates, U!Handle,
     UP!Handle, U!ChannelFull, UP!ChannelFull, U!StreamDrops, UP!StreamDrops, U!SaveFinal,
     UP!SaveFinal, U!Reconcile, UP!Reconcile, U!ChildExits, UP!ChildExits, U!BackfillEnds,
     UP!BackfillEnds, U!StreamEnds, UP!StreamEnds, U!ReadFails, UP!ReadFails, U!Reap,
     UP!Reap, U!Retry, UP!Retry, U!Cancelled, UP!Cancelled, U!Stamps, UP!Stamps, U!Log,
     UP!Log, U!Shutdown, UP!Shutdown, U!Crash, UP!Crash, U!Start, UP!Start, U!Attempt,
     UP!Attempt, U!Progress, UP!Progress, U!Reader, UP!Reader, U!Next, UP!Next
<1>2. U!Init => UP!Init
  BY Zenon DEF U!Init, UP!Init
<1>3. [U!Next]_(U!vars) => [UP!Next]_(UP!vars)
  <2>1. U!vars' = U!vars => UP!vars' = UP!vars
    BY Zenon DEF U!vars, UP!vars, U!reader, UP!reader, U!world, UP!world
  <2>2. QED
    BY Zenon, <1>1, <2>1
<1>4. QED
  BY <1>2, <1>3, PTL DEF U!Spec, UP!Spec

\* The checkpoint of the unified log is safe, what a stall owes is replayed, the dedupe
\* drops nothing but ties, and only faults and rewinds repeat (UnifiedLog_proofs).
LEMMA UnifiedIsSafe ==
    U!Spec => [](/\ U!CheckpointBehind /\ U!ReplayRecovers
                 /\ U!DedupeIsExact /\ U!OnlyFaultsRepeat)
<1>1. UP!Spec => [](/\ UP!CheckpointBehind /\ UP!ReplayRecovers
                    /\ UP!DedupeIsExact /\ UP!OnlyFaultsRepeat)
  BY UP!CheckpointIsSafe, UP!DedupeExact, UP!UnifiedOnce, PTL, JournalAssumption,
     UnifiedAssumption, EventLogAssumption, SaveAssumption, BoundsAssumption,
     UP!JournalAssumption, UP!UnifiedAssumption, UP!EventLogAssumption,
     UP!SaveAssumption, UP!BoundsAssumption
<1>2. /\ UP!CheckpointBehind /\ UP!ReplayRecovers /\ UP!DedupeIsExact /\ UP!OnlyFaultsRepeat
          => /\ U!CheckpointBehind /\ U!ReplayRecovers
             /\ U!DedupeIsExact /\ U!OnlyFaultsRepeat
  BY Zenon DEF UP!CheckpointBehind, U!CheckpointBehind, UP!ReplayRecovers, U!ReplayRecovers,
     UP!DedupeIsExact, U!DedupeIsExact, UP!OnlyFaultsRepeat, U!OnlyFaultsRepeat
<1>3. QED
  BY <1>1, <1>2, SameUnified, PTL

EP == INSTANCE EventLog_proofs WITH events <- entries

LEMMA SameEventLog == E!Spec => EP!Spec
<1>1. (\E x \in {0} : E!Next) => (\E x \in {0} : EP!Next)
  BY PTL DEF E!SELF_PROVIDER, EP!SELF_PROVIDER, E!NoFile, EP!NoFile, E!logs, EP!logs,
     E!world, EP!world, E!NewPump, EP!NewPump, E!Over, EP!Over, E!InRanges, EP!InRanges,
     E!Matches, EP!Matches, E!MaskEventId, EP!MaskEventId, E!Excluded, EP!Excluded,
     E!Process, EP!Process, E!Flush, EP!Flush, E!StartOf, EP!StartOf, E!Subscribe,
     EP!Subscribe, E!AccessDenied, EP!AccessDenied, E!SubscribeFails, EP!SubscribeFails,
     E!Retry, EP!Retry, E!Signal, EP!Signal, E!Wake, EP!Wake, E!Cancelled, EP!Cancelled,
     E!PullBatch, EP!PullBatch, E!PullFails, EP!PullFails, E!Processed, EP!Processed,
     E!AfterEvent, EP!AfterEvent, E!SkipUnrendered, EP!SkipUnrendered, E!Ship, EP!Ship,
     E!UpdateFails, EP!UpdateFails, E!ChannelFull, EP!ChannelFull, E!AllJoined,
     EP!AllJoined, E!Join, EP!Join, E!Log, EP!Log, E!Shutdown, EP!Shutdown, E!Crash,
     EP!Crash, E!Start, EP!Start, E!Pump, EP!Pump, E!Next, EP!Next
<1>2. E!Init => EP!Init
  BY Zenon DEF E!Init, EP!Init, E!NewPump, EP!NewPump, E!NoFile, EP!NoFile
<1>3. [E!Next]_(E!vars) => [EP!Next]_(EP!vars)
  <2>1. E!vars' = E!vars => EP!vars' = EP!vars
    BY Zenon DEF E!vars, EP!vars, E!logs, EP!logs, E!world, EP!world
  <2>2. QED
    BY Zenon, <1>1, <2>1
<1>4. QED
  BY <1>2, <1>3, PTL DEF E!Spec, EP!Spec

\* The bookmark of every channel is safe, no pump outlives the task, the events are shipped
\* once but for faults, and each channel delivers at least once (EventLog_proofs).
LEMMA EventsAreSafe ==
    E!Spec => [](E!BookmarkBehind /\ E!NoPumpLeft /\ E!OnlyFaultsRepeat) /\ E!AtLeastOnceSpec
<1>1. EP!Spec => /\ [](EP!BookmarkBehind /\ EP!NoPumpLeft /\ EP!OnlyFaultsRepeat)
                 /\ EP!AtLeastOnceSpec
  BY EP!BookmarkIsSafe, EP!PumpsJoined, EP!EventsOnce, EP!Refinement, PTL, JournalAssumption,
     UnifiedAssumption, EventLogAssumption, SaveAssumption, BoundsAssumption,
     EP!JournalAssumption, EP!UnifiedAssumption, EP!EventLogAssumption,
     EP!SaveAssumption, EP!BoundsAssumption
<1>2. EP!BookmarkBehind /\ EP!NoPumpLeft /\ EP!OnlyFaultsRepeat
          => E!BookmarkBehind /\ E!NoPumpLeft /\ E!OnlyFaultsRepeat
  BY Zenon DEF EP!BookmarkBehind, E!BookmarkBehind, EP!NoPumpLeft, E!NoPumpLeft,
     EP!OnlyFaultsRepeat, E!OnlyFaultsRepeat
<1>3. /\ (\A c \in Channel : EP!Promise(c)!Init) => \A c \in Channel : E!Promise(c)!Init
      /\ (\A c \in Channel : EP!Promise(c)!Next \/ UNCHANGED EP!Promise(c)!abstract)
             => \A c \in Channel : E!Promise(c)!Next \/ UNCHANGED E!Promise(c)!abstract
  BY PTL DEF E!Promise!Init, EP!Promise!Init, E!Promise!Next, EP!Promise!Next,
     E!Promise!Append, EP!Promise!Append, E!Promise!Handle, EP!Promise!Handle,
     E!Promise!FallBack, EP!Promise!FallBack, E!Promise!Save, EP!Promise!Save,
     E!Promise!Begin, EP!Promise!Begin, E!Promise!abstract, EP!Promise!abstract,
     E!Position, EP!Position, E!Subscribed, EP!Subscribed, E!NoFile, EP!NoFile
<1>4. [\A c \in Channel : EP!Promise(c)!Next \/ UNCHANGED EP!Promise(c)!abstract]_(EP!vars)
          => [\A c \in Channel : E!Promise(c)!Next \/ UNCHANGED E!Promise(c)!abstract]_(E!vars)
  <2>1. EP!vars' = EP!vars => E!vars' = E!vars
    BY Zenon DEF E!vars, EP!vars, E!logs, EP!logs, E!world, EP!world
  <2>2. QED
    BY Zenon, <1>3, <2>1
<1>5. EP!AtLeastOnceSpec => E!AtLeastOnceSpec
  BY <1>3, <1>4, PTL DEF EP!AtLeastOnceSpec, E!AtLeastOnceSpec
<1>6. QED
  BY <1>1, <1>2, <1>5, SameEventLog, PTL

-----------------------------------------------------------------------------
(* The source that runs: it is decided once, and then every step is one of it. *)

LEMMA JournalStep == [Next]_vars /\ source = "journald" => [J!Next]_(J!vars) /\ UNCHANGED source
BY Zenon DEF Next, OfJournal, OfUnified, OfEventLog, vars, reading, J!vars, J!reader, J!world

LEMMA UnifiedRuns == [Next]_vars /\ source = "unified" => [U!Next]_(U!vars) /\ UNCHANGED source
BY Zenon DEF Next, OfJournal, OfUnified, OfEventLog, vars, reading, replay, U!vars, U!reader,
   U!world

LEMMA EventLogRuns == [Next]_vars /\ source = "eventlog" => [E!Next]_(E!vars) /\ UNCHANGED source
BY Zenon DEF Next, OfJournal, OfUnified, OfEventLog, vars, pumps, E!vars, E!logs, E!world

\* A run of the composition is a run of one of the three sources, which stays the one
\* that resolve_log_source chose.
THEOREM Composition ==
    Spec => \/ [](source = "journald") /\ J!Spec
            \/ [](source = "unified") /\ U!Spec
            \/ [](source = "eventlog") /\ E!Spec
<1>1. Init => \/ source = "journald" /\ J!Init
              \/ source = "unified" /\ U!Init
              \/ source = "eventlog" /\ E!Init
  BY Zenon DEF Init
<1>2. source = "journald" /\ UNCHANGED source => (source = "journald")'
  BY Zenon
<1>3. source = "unified" /\ UNCHANGED source => (source = "unified")'
  BY Zenon
<1>4. source = "eventlog" /\ UNCHANGED source => (source = "eventlog")'
  BY Zenon
<1>5. QED
  BY <1>1, <1>2, <1>3, <1>4, JournalStep, UnifiedRuns, EventLogRuns, PTL
     DEF Spec, J!Spec, U!Spec, E!Spec

\* Whichever source runs, its durable position never passes an entry it could still ship,
\* for every log, filter and interval of saving (the PositionBehind of the run).
THEOREM PositionIsBehind == Spec => []PositionBehind
<1>1. /\ source = "journald" /\ J!CursorBehind => PositionBehind
      /\ source = "unified" /\ U!CheckpointBehind /\ U!ReplayRecovers => PositionBehind
      /\ source = "eventlog" /\ E!BookmarkBehind => PositionBehind
  BY Zenon DEF PositionBehind
<1>2. QED
  BY <1>1, Composition, JournalIsSafe, UnifiedIsSafe, EventsAreSafe, PTL

\* The dedupe of the backfill of the unified log drops nothing but ties of the mach time.
THEOREM DedupeLosesTies == Spec => []DedupeIsExact
<1>1. /\ source = "journald" => DedupeIsExact
      /\ source = "unified" /\ U!DedupeIsExact => DedupeIsExact
      /\ source = "eventlog" => DedupeIsExact
  BY Zenon DEF DedupeIsExact
<1>2. QED
  BY <1>1, Composition, UnifiedIsSafe, PTL

\* Nothing is shipped twice but for a fault: over restarts of the child, backpressure,
\* shutdowns and reloads, whatever the position was when they happened.
THEOREM RepeatsAreFaults == Spec => []OnlyFaultsRepeat
<1>1. /\ source = "journald" /\ J!OnlyFaultsRepeat => OnlyFaultsRepeat
      /\ source = "unified" /\ U!OnlyFaultsRepeat => OnlyFaultsRepeat
      /\ source = "eventlog" /\ E!OnlyFaultsRepeat /\ E!NoPumpLeft => OnlyFaultsRepeat
  BY Zenon DEF OnlyFaultsRepeat
<1>2. QED
  BY <1>1, Composition, JournalIsSafe, UnifiedIsSafe, EventsAreSafe, PTL

\* The journal and every channel of the Event Log implement AtLeastOnce.
THEOREM SourcesRefine == Spec => AtLeastOnceSpec
<1> DEFINE
      Promised == /\ source = "journald" => J!Promise!Next \/ UNCHANGED J!Promise!abstract
                  /\ source = "eventlog" =>
                         \A c \in Channel : E!Promise(c)!Next \/ UNCHANGED E!Promise(c)!abstract
<1>1. source = "journald" /\ [J!Promise!Next]_(J!Promise!abstract) => [Promised]_vars
  BY Zenon
<1>2. source = "unified" => [Promised]_vars
  BY Zenon
<1>3. source = "eventlog"
      /\ [\A c \in Channel : E!Promise(c)!Next \/ UNCHANGED E!Promise(c)!abstract]_(E!vars)
          => [Promised]_vars
  <2>1. ASSUME E!vars' = E!vars, NEW c \in Channel PROVE UNCHANGED E!Promise(c)!abstract
    BY <2>1 DEF E!vars, E!logs, E!Promise!abstract, E!Subscribed, E!Position
  <2>2. QED
    BY <2>1
<1>4. /\ source = "journald" /\ J!Promise!Init =>
             /\ source = "journald" => J!Promise!Init
             /\ source = "eventlog" => \A c \in Channel : E!Promise(c)!Init
      /\ source = "unified" =>
             /\ source = "journald" => J!Promise!Init
             /\ source = "eventlog" => \A c \in Channel : E!Promise(c)!Init
      /\ source = "eventlog" /\ (\A c \in Channel : E!Promise(c)!Init) =>
             /\ source = "journald" => J!Promise!Init
             /\ source = "eventlog" => \A c \in Channel : E!Promise(c)!Init
  BY Zenon
<1>5. QED
  BY <1>1, <1>2, <1>3, <1>4, Composition, JournalIsSafe, EventsAreSafe, PTL
     DEF AtLeastOnceSpec, J!AtLeastOnceSpec, J!Promise!Spec, E!AtLeastOnceSpec, Promised
=============================================================================
