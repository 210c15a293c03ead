----------------------------- MODULE LogSources -----------------------------
(***************************************************************************)
(* The choice of the log source (resolve_log_source in main.rs) and the    *)
(* sources of the operating systems: the journal, the unified log and the  *)
(* Event Log.  Exactly one runs in a process; the others are idle, so they *)
(* share variables here.  Tailing files is in Watcher, SingleLine and      *)
(* Multiline.                                                              *)
(***************************************************************************)
EXTENDS SourceParams

VARIABLES
    source,                             \* what resolve_log_source answered
    entries, fate, again, saved, cancel, sink, crashes, bad_saves, stops,
    pc, child, at, last, since_save,                    \* Journal and UnifiedLog
    phase, dropped, dedupe, rewinds, owed,              \* UnifiedLog
    pump, task, bad_updates                             \* EventLog

J == INSTANCE Journal WITH
    journal <- entries, last_cursor <- last, entries_since_save <- since_save
U == INSTANCE UnifiedLog WITH store <- entries
E == INSTANCE EventLog WITH events <- entries

reading == <<pc, child, at, last, since_save>>
replay == <<phase, dropped, dedupe, rewinds, owed>>
pumps == <<pump, task, bad_updates>>
vars == <<source, entries, fate, again, saved, cancel, sink, crashes, bad_saves, stops,
          reading, replay, pumps>>

-----------------------------------------------------------------------------
\* resolve_auto: the source of the platform if its tool is there.
ResolveAuto(platform, journalctl, logtool) ==
    CASE platform = "macos" -> IF logtool THEN "unified" ELSE "files"
      [] platform = "linux" -> IF journalctl THEN "journald" ELSE "files"
      [] platform = "windows" -> "eventlog"
      [] platform = "other" -> "files"

\* resolve_log_source: a source that was asked for by name is not replaced.
Resolve(platform, setting, journalctl, logtool) ==
    CASE setting = "journald" -> IF journalctl THEN "journald" ELSE "error"
      [] setting = "unifiedlog" -> IF logtool THEN "unified" ELSE "error"
      [] setting = "eventlog" -> IF platform = "windows" THEN "eventlog" ELSE "error"
      [] setting = "files" -> "files"
      [] setting = "auto" -> ResolveAuto(platform, journalctl, logtool)

Resolved ==
    {Resolve(p, s, j, l) : p \in {"linux", "macos", "windows", "other"},
                           s \in {"auto", "journald", "unifiedlog", "eventlog", "files"},
                           j \in BOOLEAN, l \in BOOLEAN}

Idle ==
    /\ pump = [c \in Channel |-> E!NewPump] /\ task = "stopped" /\ bad_updates = 0
    /\ phase = "show" /\ dropped = {} /\ dedupe = 0 /\ rewinds = "no" /\ owed = {}

Init ==
    /\ source \in Resolved
    /\ \/ source = "journald" /\ J!Init /\ Idle
       \/ source = "unified" /\ U!Init /\ pump = [c \in Channel |-> E!NewPump]
              /\ task = "stopped" /\ bad_updates = 0
       \/ source = "eventlog" /\ E!Init /\ pc = "stopped" /\ child = "none" /\ at = 0
              /\ last = 0 /\ since_save = 0
              /\ phase = "show" /\ dropped = {} /\ dedupe = 0 /\ rewinds = "no" /\ owed = {}

\* A step of one source leaves the variables of the others alone.
OfJournal(A) == source = "journald" /\ A /\ UNCHANGED <<source, replay, pumps>>
OfUnified(A) == source = "unified" /\ A /\ UNCHANGED <<source, pumps>>
OfEventLog(A) == source = "eventlog" /\ A /\ UNCHANGED <<source, reading, replay>>

Next == OfJournal(J!Next) \/ OfUnified(U!Next) \/ OfEventLog(E!Next)

Spec == Init /\ [][Next]_vars

\* The tasks and the threads are scheduled; the tools of the system can be run, and
\* what is at a given position is read and finds room in the channel, now and then.
Fairness ==
    /\ WF_vars(OfJournal(J!Progress)) /\ SF_vars(OfJournal(J!Spawn))
    /\ \A i \in 0..MaxEntries - 1 : SF_vars(OfJournal(at = i /\ J!Handle))
    /\ WF_vars(OfUnified(U!Progress \/ U!Attempt)) /\ WF_vars(OfEventLog(E!Join))
    /\ \A c \in Channel :
           /\ WF_vars(OfEventLog(E!PumpGoesOn(c))) /\ SF_vars(OfEventLog(E!Subscribe(c)))
           /\ \A i \in 0..MaxEvents[c] - 1 :
                  /\ SF_vars(OfEventLog(pump[c].at = i /\ E!PullBatch(c)))
                  /\ SF_vars(OfEventLog(pump[c].at = i /\ E!Ship(c)))

FairSpec == Spec /\ Fairness

-----------------------------------------------------------------------------
(* Properties: those of the source that runs. *)

\* The durable position - cursor, checkpoint or bookmark - never passes an entry that
\* the source could still ship: not under backpressure, not when a child exits or the
\* agent crashes, and not over what the unified log's stream dropped in a stall.
PositionBehind ==
    /\ source = "journald" => J!CursorBehind
    /\ source = "unified" => U!CheckpointBehind /\ U!ReplayRecovers
    /\ source = "eventlog" => E!BookmarkBehind

\* UnifiedLog: the dedupe of the backfill loses nothing but ties of the mach time.
DedupeIsExact == source = "unified" => U!DedupeIsExact

\* Nothing is shipped twice but for a crash, a save that failed, or what each
\* source names: a restart of the child, a shutdown in backpressure and a reload
\* repeat nothing.  No pump of the Event Log outlives the task, whose next run would
\* ship the same events.
OnlyFaultsRepeat ==
    /\ source = "journald" => J!OnlyFaultsRepeat
    /\ source = "unified" => U!OnlyFaultsRepeat
    /\ source = "eventlog" => E!OnlyFaultsRepeat /\ E!NoPumpLeft

\* The journal and every channel of the Event Log implement at-least-once delivery
\* behind a durable position (AtLeastOnce).
AtLeastOnceSpec ==
    /\ source = "journald" => J!Promise!Init
    /\ source = "eventlog" => \A c \in Channel : E!Promise(c)!Init
    /\ [][/\ source = "journald" => J!Promise!Next \/ UNCHANGED J!Promise!abstract
          /\ source = "eventlog" =>
                 \A c \in Channel : E!Promise(c)!Next \/ UNCHANGED E!Promise(c)!abstract]_vars

\* main.rs: --dry-run is to "print what would be collected without sending": what
\* it prints is still to be sent by the agent, and so is beyond the saved cursor.
DryRunTakesNothing ==
    source = "journald" => \A i \in 1..saved : fate[i] # "printed"

\* A shutdown ends the task of the source, in backpressure, in the delay of a
\* restart and in the middle of a batch; only a child that goes on running behind
\* a broken stream holds it up.
ShutdownEnds ==
    cancel = "yes" ~> \/ cancel = "no"
                      \/ source = "journald" /\ J!Ended
                      \/ source = "unified" /\ U!Ended
                      \/ source = "eventlog" /\ E!Ended

\* For as long as the source runs, what is logged is dealt with: in the journal, and
\* in each channel that may be read, whatever becomes of the others.
EventuallyHandled ==
    []<>(/\ source = "journald" => J!Settled
         /\ source = "eventlog" => E!Settled)
=============================================================================
