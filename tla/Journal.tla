------------------------------- MODULE Journal -------------------------------
(***************************************************************************)
(* The journald source (logs/journal.rs): journalctl is run as a child     *)
(* that follows the journal, its lines are shipped one by one, and the     *)
(* cursor of the last one handled is saved now and then, so that the next  *)
(* child starts behind it.                                                 *)
(*                                                                         *)
(* An entry is a record: line tells whether its line is JSON that parses   *)
(* ("json"), does not ("bad"), or is longer than MAX_LINE_LEN ("long").    *)
(* The cursor of an entry is its number in the journal, 0 no cursor.  The  *)
(* SDK channel may be full at any attempt; delays are left to the          *)
(* scheduler.  The same loop runs under --dry-run, with a sink that prints.*)
(***************************************************************************)
EXTENDS SourceParams

\* The program name of the agent itself.
SELF_IDENTIFIER == "witness"

VARIABLES
    journal,        \* the entries logged so far
    fate,           \* what became of each
    again,          \* the entries that were shipped more than once
    pc,             \* where tail_journal and run_journalctl are
    child,          \* journalctl
    at,             \* how many entries it has put out, or left out, so far
    last_cursor, entries_since_save,    \* ReaderState
    saved,          \* the cursor file
    cancel,         \* the shutdown watch
    sink,           \* the sink of this process, "live" or "dry_run"
    crashes, bad_saves, stops       \* counters behind the bounds

reader == <<pc, child, at, last_cursor, entries_since_save>>
world == <<cancel, sink, crashes, stops>>
vars == <<journal, fate, again, reader, saved, bad_saves, world>>

Fate == {"waiting", "shipped", "printed", "filtered", "unparsed", "too_long", "before_start"}

Init ==
    /\ journal = <<>> /\ fate = <<>> /\ again = {}
    /\ pc = "load" /\ child = "none" /\ at = 0
    /\ last_cursor = 0 /\ entries_since_save = 0 /\ saved = 0
    /\ cancel = "no" /\ sink = "live"
    /\ crashes = 0 /\ bad_saves = 0 /\ stops = 0

-----------------------------------------------------------------------------
(* What process_entry makes of an entry. *)

\* ServiceFilter::excludes
Excludes(program) == program \in Exclude \/ (Include # {} /\ program \notin Include)

\* Is the entry, once parsed, offered to the sink?
Shippable(e) ==
    /\ e.message = "some"
    /\ e.program # SELF_IDENTIFIER
    /\ ~Excludes(e.program)

\* process_entry, behind the length check of run_journalctl: where the entry goes
\* when the sink takes it.
Process(e) ==
    CASE e.line = "long" -> "too_long"
      [] e.line = "bad" -> "unparsed"
      [] e.line = "json" /\ ~Shippable(e) -> "filtered"
      [] e.line = "json" /\ Shippable(e) -> IF sink = "live" THEN "shipped" ELSE "printed"

-----------------------------------------------------------------------------
(* The cursor file *)

\* save_cursor: nothing to save, or an atomic write that may fail unnoticed.
SaveCursor(c) ==
    \/ saved' = (IF c = 0 THEN saved ELSE c) /\ UNCHANGED bad_saves
    \/ /\ c # 0 /\ bad_saves < MaxBadSaves
       /\ bad_saves' = bad_saves + 1 /\ UNCHANGED saved

-----------------------------------------------------------------------------
(* run_journalctl *)

\* run_journalctl returns, or the process is gone: ReaderState is.
Forget == at' = 0 /\ last_cursor' = 0 /\ entries_since_save' = 0

\* (mutant) --lines=0 with and without a cursor.
AlwaysFromNow == Len(journal)

\* The entry behind which journalctl starts.
StartsBehind == IF saved = 0 THEN Len(journal) ELSE saved

\* load_cursor and spawn_journalctl: --after-cursor, or --lines=0 without one.
Spawn ==
    /\ pc = "load"
    /\ last_cursor' = saved /\ entries_since_save' = 0
    /\ child' = "runs"
    /\ at' = StartsBehind
    /\ fate' = [i \in DOMAIN fate |-> IF saved = 0 /\ fate[i] = "waiting"
                                      THEN "before_start" ELSE fate[i]]
    /\ pc' = "read"
    /\ UNCHANGED <<journal, again, saved, bad_saves, world>>

\* journalctl cannot be run: LoopExit::Failed.
SpawnFails ==
    /\ pc = "load"
    /\ pc' = IF cancel = "yes" THEN "stopped" ELSE "backoff"
    /\ UNCHANGED <<journal, fate, again, child, at, last_cursor, entries_since_save, saved,
                   bad_saves, world>>

\* Handled carries the cursor of the entry; a skipped or unparsed line has none.
MovesCursor(e) == e.line = "json"

SaveDue == entries_since_save + 1 >= SaveInterval

\* The bookkeeping of handle_entry for the entry behind at.
Bookkeeping(e) ==
    IF MovesCursor(e)
    THEN /\ last_cursor' = at + 1
         /\ IF SaveDue
            THEN SaveCursor(at + 1) /\ entries_since_save' = 0
            ELSE /\ entries_since_save' = entries_since_save + 1
                 /\ UNCHANGED <<saved, bad_saves>>
    ELSE UNCHANGED <<last_cursor, entries_since_save, saved, bad_saves>>

\* The next line is read, or the pending one is tried again, and is done with.
Handle ==
    /\ pc \in {"read", "full"}
    /\ at < Len(journal) /\ (pc = "read" => child = "runs")
    /\ LET i == at + 1 IN
       /\ fate' = [fate EXCEPT ![i] = IF @ = "shipped" THEN @ ELSE Process(journal[i])]
       /\ again' = IF fate[i] = "shipped" /\ Process(journal[i]) = "shipped"
                   THEN again \cup {i} ELSE again
       /\ Bookkeeping(journal[i])
    /\ at' = at + 1
    /\ pc' = "read"
    /\ UNCHANGED <<journal, child, world>>

\* (mutant) an entry that finds the channel full is given up.
FullAndPassed ==
    /\ pc = "read" /\ child = "runs" /\ at < Len(journal)
    /\ Process(journal[at + 1]) = "shipped"
    /\ last_cursor' = at + 1 /\ at' = at + 1
    /\ UNCHANGED <<journal, fate, again, pc, child, entries_since_save, saved, bad_saves, world>>

\* ChannelFull: the line is kept and tried again later.
ChannelFull ==
    /\ pc = "read" /\ child = "runs" /\ at < Len(journal)
    /\ Process(journal[at + 1]) = "shipped"
    /\ pc' = "full"
    /\ UNCHANGED <<journal, fate, again, child, at, last_cursor, entries_since_save, saved,
                   bad_saves, world>>

\* journalctl ends by itself.
ChildExits ==
    /\ child = "runs"
    /\ child' = "exited"
    /\ UNCHANGED <<journal, fate, again, pc, at, last_cursor, entries_since_save, saved,
                   bad_saves, world>>

\* (mutant) the cursor is not saved when the stream ends.
NoSave(c) == UNCHANGED <<saved, bad_saves>>

\* save_final
SaveFinal(c) == SaveCursor(c)

\* The stream ends (c = "exited") or cannot be read (c = "runs"): save_final, then
\* child.wait.
StreamEnds(c) ==
    /\ pc = "read" /\ child = c
    /\ SaveFinal(last_cursor)
    /\ Forget
    /\ pc' = "reap"
    /\ UNCHANGED <<journal, fate, again, child, world>>

\* child.wait returns once the child has exited: LoopExit::Failed.
Reap ==
    /\ pc = "reap" /\ child = "exited"
    /\ child' = "none"
    /\ pc' = IF cancel = "yes" THEN "stopped" ELSE "backoff"
    /\ UNCHANGED <<journal, fate, again, at, last_cursor, entries_since_save, saved,
                   bad_saves, world>>

\* The delay is over, or is cut short by the shutdown.
Retry ==
    /\ pc = "backoff"
    /\ pc' \in IF cancel = "yes" THEN {"load", "stopped"} ELSE {"load"}
    /\ UNCHANGED <<journal, fate, again, child, at, last_cursor, entries_since_save, saved,
                   bad_saves, world>>

\* (mutant) the shutdown is only looked at in backpressure.
WaitsForRoom == pc = "full"

Waits == pc \in {"read", "full"}

\* The shutdown is seen while waiting for a line or for the channel: the child is
\* killed, the cursor saved.
Cancelled ==
    /\ Waits /\ cancel = "yes"
    /\ SaveFinal(last_cursor)
    /\ child' = "none" /\ pc' = "stopped"
    /\ Forget
    /\ UNCHANGED <<journal, fate, again, world>>

-----------------------------------------------------------------------------
(* The system around it *)

Log(e) ==
    /\ Len(journal) < MaxEntries
    /\ journal' = Append(journal, e) /\ fate' = Append(fate, "waiting")
    /\ UNCHANGED <<again, reader, saved, bad_saves, world>>

\* shutdown_tx.send: a signal or a reload, or the end of the two seconds that
\* dry_run tails for.
Shutdown ==
    /\ cancel = "no" /\ pc \notin {"stopped", "down"} /\ stops < MaxStops
    /\ cancel' = "yes" /\ stops' = stops + 1
    /\ UNCHANGED <<journal, fate, again, reader, saved, bad_saves, sink, crashes>>

Crash ==
    /\ pc \notin {"stopped", "down"} /\ crashes < MaxCrash
    /\ crashes' = crashes + 1
    /\ pc' = "down" /\ child' = "none"
    /\ Forget
    /\ UNCHANGED <<journal, fate, again, saved, bad_saves, cancel, sink, stops>>

\* The agent is started again, or the operator runs witness --dry-run.
Start(s) ==
    /\ pc \in {"stopped", "down"}
    /\ pc' = "load" /\ cancel' = "no" /\ sink' = s
    /\ UNCHANGED <<journal, fate, again, child, at, last_cursor, entries_since_save, saved,
                   bad_saves, crashes, stops>>

-----------------------------------------------------------------------------
\* What goes on without the help of journalctl or of the channel.
Progress == StreamEnds("exited") \/ Reap \/ Retry \/ Cancelled

Reader == Progress \/ Spawn \/ SpawnFails \/ Handle \/ ChannelFull \/ StreamEnds("runs")

Next ==
    \/ Reader \/ ChildExits \/ Shutdown \/ Crash
    \/ \E e \in Entry : Log(e)
    \/ \E s \in {"live", "dry_run"} : Start(s)

Spec == Init /\ [][Next]_vars

-----------------------------------------------------------------------------
(* Properties *)

\* Every variable has the values the code can give it.
TypeOK ==
    /\ journal \in Seq(Entry) /\ fate \in Seq(Fate) /\ Len(fate) = Len(journal)
    /\ again \subseteq 1..Len(journal)
    /\ pc \in {"load", "read", "full", "reap", "backoff", "stopped", "down"}
    /\ child \in {"none", "runs", "exited"}
    /\ at \in 0..Len(journal) /\ last_cursor \in 0..Len(journal) /\ saved \in 0..Len(journal)
    /\ entries_since_save \in 0..SaveInterval - 1
    /\ cancel \in {"no", "yes"} /\ sink \in {"live", "dry_run"}
    /\ {crashes, bad_saves, stops} \subseteq Nat

\* The saved cursor never passes an entry that is still to be shipped: not under
\* backpressure, not when the child exits, the save fails or the agent crashes.
\* An entry that should be shipped is behind it only when it was shipped, printed
\* by a dry run, or logged before the source had any cursor.
CursorBehind ==
    \A i \in 1..saved :
        /\ fate[i] # "waiting"
        /\ journal[i].line = "json" /\ Shippable(journal[i])
               => fate[i] \in {"shipped", "printed", "before_start"}

\* Journald is read exactly once unless the agent crashes or the cursor cannot
\* be written: a restart of journalctl, a shutdown in the middle of backpressure
\* or a reload repeats nothing.
OnlyFaultsRepeat == again # {} => crashes + bad_saves > 0

\* tail_journal has returned, or waits for a journalctl whose stream broke but
\* which goes on running.
Ended == pc \in {"stopped", "down"} \/ (pc = "reap" /\ child = "runs")

\* The source is over, or every entry is dealt with.
Settled == Ended \/ \A i \in DOMAIN fate : fate[i] # "waiting"

\* What is dealt with, and the position in memory.
Done == {i \in 1..Len(fate) : fate[i] # "waiting"}
Position == IF pc \in {"read", "full"} THEN last_cursor ELSE saved

\* The source implements at-least-once delivery behind a durable position.
Promise == INSTANCE AtLeastOnce WITH
    log <- Len(journal), done <- Done, pos <- Position, mark <- saved

AtLeastOnceSpec == Promise!Spec
=============================================================================
