----------------------------- MODULE SingleLine -----------------------------
(***************************************************************************)
(* The default path of the file tailer (logs/watcher.rs): one entry per    *)
(* line.  A complete line moves pos once the channel took it.  The bytes   *)
(* of an unfinished line move pos as soon as they are in the partial       *)
(* buffer, which a crash loses and flush_partial hands to the SDK without  *)
(* asking whether it was accepted.                                         *)
(*                                                                         *)
(* ok = FALSE is a full SDK channel, for try_log and for log alike.        *)
(***************************************************************************)
EXTENDS TailedFile

VARIABLES
    dropped,        \* text handed to log, which found the channel full
    forgotten       \* text that was in the partial when the agent crashed

ghosts == <<dropped, forgotten>>
vars == <<world, crashes, pos, retained_fd, partial, pc, arm, lines, saved, epoch,
          shipped, cut, ghosts>>

Init == InitTailedFile /\ dropped = {} /\ forgotten = {}

-----------------------------------------------------------------------------
\* (mutant) flush_partial forgets to take the buffer.
FlushAndKeep(ok) ==
    /\ partial' = partial
    /\ IF ok THEN Deliver(partial) /\ UNCHANGED dropped
       ELSE dropped' = dropped \cup Text(partial) /\ UNCHANGED shipped

\* flush_partial: what is buffered goes out as an entry, or is lost.
FlushPartial(ok) ==
    /\ partial' = {}
    /\ IF ok THEN Deliver(partial) /\ UNCHANGED dropped
       ELSE dropped' = dropped \cup Text(partial) /\ UNCHANGED shipped

\* The entry holds a retained fd: drain it, from pos.
VisitRetained(a) ==
    /\ Visit(a)
    /\ retained_fd = "some"
    /\ pc' = "drain"
    /\ UNCHANGED <<world, crashes, pos, retained_fd, partial, lines, saved, epoch,
                   shipped, cut, ghosts>>

\* check_and_read finds another inode at the path, and the old one by name.
VisitRotated(a, ok) ==
    /\ Visit(a)
    /\ retained_fd = "none" /\ link = "renamed"
    /\ FlushPartial(ok)
    /\ retained_fd' = "some"
    /\ AfterPoll(a)
    /\ UNCHANGED <<world, crashes, pos, saved, epoch, cut, forgotten>>

\* ... or does not find it: the entry goes.
VisitRotatedLost(a, ok) ==
    /\ Visit(a)
    /\ retained_fd = "none" /\ link = "unlinked"
    /\ FlushPartial(ok)
    /\ pc' = "gone"
    /\ UNCHANGED <<world, crashes, pos, retained_fd, lines, saved, epoch, cut, forgotten>>

\* check_and_read on the inode it knows.  A file shorter than pos was truncated.
VisitTruncated(a, ok) ==
    /\ Visit(a)
    /\ retained_fd = "none" /\ link = "live"
    /\ Len(file) < pos
    /\ pos' = 0 /\ epoch' = "current"
    /\ FlushPartial(ok)
    /\ IF Len(file) = 0 THEN AfterPoll(a) ELSE pc' = "read" /\ UNCHANGED lines
    /\ UNCHANGED <<world, crashes, retained_fd, saved, cut, forgotten>>

\* Otherwise read, if there is anything past pos.
VisitLive(a) ==
    /\ Visit(a)
    /\ retained_fd = "none" /\ link = "live"
    /\ Len(file) >= pos
    /\ IF Len(file) = pos THEN AfterPoll(a) ELSE pc' = "read" /\ UNCHANGED lines
    /\ UNCHANGED <<world, crashes, pos, retained_fd, partial, saved, epoch, shipped,
                   cut, ghosts>>

-----------------------------------------------------------------------------
(* read_lines and drain_retained: the same loop, up to what ends it. *)

\* (mutant) a refused line is not read again.
EmitOnce(e, ok) ==
    /\ pos' = e
    /\ partial' = {}
    /\ IF ok THEN Deliver(partial \cup Span(file, pos, e)) ELSE UNCHANGED shipped
    /\ NextLine

\* (mutant) an empty line does not clear the partial.
EmitKeepsPartial(e, ok) ==
    LET line == TrimEnd(partial \cup Span(file, pos, e))
    IN IF line # {} /\ ~ok
       THEN AfterPoll(arm) /\ UNCHANGED <<pos, partial, shipped>>
       ELSE /\ Deliver(line)
            /\ pos' = e
            /\ partial' = IF line = {} THEN partial ELSE {}
            /\ NextLine

\* try_emit_line of the line that ends at offset e: an empty one is skipped, a
\* refused one ends the pass with nothing consumed.
EmitLine(e, ok) ==
    LET line == TrimEnd(partial \cup Span(file, pos, e))
    IN IF line # {} /\ ~ok
       THEN AfterPoll(arm) /\ UNCHANGED <<pos, partial, shipped>>
       ELSE /\ Deliver(line)
            /\ pos' = e
            /\ partial' = {}
            /\ NextLine

ReadLine(ok) ==
    /\ pc \in {"read", "drain"}
    /\ \E e \in (pos + 1)..Len(file) :
          /\ StopsAt(file, pos, e)
          /\ file[e].k = "n"
          /\ EmitLine(e, ok)
    /\ UNCHANGED <<world, crashes, retained_fd, arm, saved, epoch, cut, ghosts>>

ReadPartial ==
    /\ pc \in {"read", "drain"}
    /\ \E e \in (pos + 1)..Len(file) :
          /\ StopsAt(file, pos, e)
          /\ file[e].k # "n"
          /\ PushPartial(pos, e)
          /\ pos' = e
    /\ UNCHANGED <<world, crashes, retained_fd, pc, arm, lines, saved, epoch, shipped,
                   ghosts>>

\* End of file in a live read.
ReadEof ==
    /\ pc = "read"
    /\ pos >= Len(file)
    /\ AfterPoll(arm)
    /\ UNCHANGED <<world, crashes, pos, retained_fd, partial, arm, saved, epoch, shipped,
                   cut, ghosts>>

\* End of file in a drain: the fd and the entry go.
DrainEof(ok) ==
    /\ pc = "drain"
    /\ pos >= Len(file)
    /\ FlushPartial(ok)
    /\ retained_fd' = "none"
    /\ pc' = "gone" /\ lines' = 0
    /\ UNCHANGED <<world, crashes, pos, arm, saved, epoch, cut, forgotten>>

-----------------------------------------------------------------------------
\* The end of a poll tick: save_offsets if the second since the last one is up.
Tick(save) ==
    /\ pc = "tick"
    /\ IF save THEN SaveOffsets(pos) ELSE UNCHANGED saved
    /\ pc' = "idle"
    /\ UNCHANGED <<world, crashes, pos, retained_fd, partial, arm, lines, epoch, shipped,
                   cut, ghosts>>

SaveTick ==
    /\ pc = "idle"
    /\ SaveOffsets(pos)
    /\ UNCHANGED <<world, crashes, pos, retained_fd, partial, pc, arm, lines, epoch,
                   shipped, cut, ghosts>>

\* The shutdown arm, after its poll_all: flush_partial, save_offsets, return.
Final(ok) ==
    /\ pc = "final"
    /\ IF ok THEN Deliver(partial) /\ UNCHANGED dropped
       ELSE dropped' = dropped \cup Text(partial) /\ UNCHANGED shipped
    /\ SaveOffsets(pos)
    /\ EndProcess
    /\ UNCHANGED <<world, crashes, cut, forgotten>>

Crash ==
    /\ CrashProcess
    /\ forgotten' = forgotten \cup Text(partial)
    /\ UNCHANGED dropped

Restart == RegisterFile /\ UNCHANGED ghosts

Environment == WriterStep /\ UNCHANGED ghosts

Visiting == \E a \in {"poll", "cancel"} :
    \/ VisitRetained(a)
    \/ \E ok \in BOOLEAN : VisitRotated(a, ok)
    \/ \E ok \in BOOLEAN : VisitRotatedLost(a, ok)
    \/ \E ok \in BOOLEAN : VisitTruncated(a, ok)
    \/ VisitLive(a)

Reading == \/ \E ok \in BOOLEAN : ReadLine(ok)
           \/ ReadPartial
           \/ ReadEof
           \/ \E ok \in BOOLEAN : DrainEof(ok)

Looping == \/ \E save \in BOOLEAN : Tick(save)
           \/ SaveTick
           \/ \E ok \in BOOLEAN : Final(ok)

Next == Environment \/ Visiting \/ Reading \/ Looping \/ Crash \/ Restart

Spec == Init /\ [][Next]_vars

-----------------------------------------------------------------------------
(* Properties. *)

\* The variables have the types of the code's fields.
TypeOK ==
    /\ TailedFileTypeOK
    /\ dropped \in SUBSET Byte /\ forgotten \in SUBSET Byte

\* All text below pos is accounted for: shipped, in the partial buffer, beyond
\* its cap, or one of the two losses the code accepts (an unfinished line when
\* the agent crashes, or when the channel is full as it is flushed).
NoSkip ==
    epoch = "current" =>
        /\ pos <= Len(file)
        /\ Text(Span(file, 0, pos)) \subseteq delivered \cup cut \cup dropped \cup forgotten \cup partial

\* The same of the offset on disk.
CheckpointNoSkip ==
    saved_epoch = "current" =>
        /\ saved_pos <= Len(file)
        /\ Text(Span(file, 0, saved_pos))
              \subseteq delivered \cup cut \cup dropped \cup forgotten \cup partial

\* The partial buffer holds bytes of the line at pos and of no other: a line
\* that was refused and read again, a truncation or a rotation never glues the
\* pieces of two lines together.
PartialIsOneLine ==
    epoch = "current" =>
        \A b \in partial : \E i \in 1..pos :
            file[i] = b /\ \A j \in i..pos : file[j].k # "n"

\* Without a crash nothing is shipped twice: a line refused after its partial
\* was buffered is assembled again, not sent again.
NoDuplicates == crashes = 0 => resent = {}

\* drain_retained gives up the fd only with all the text of the old file, as it
\* stands, accounted for.
DrainsToTheEnd ==
    [][Drained => Text(Span(file, 0, Len(file)))
                     \subseteq delivered' \cup cut' \cup dropped' \cup forgotten']_vars

\* README: "A crash may re-send up to ~250ms of recent lines, but never skips
\* any": when the agent crashes, the offset on disk is not past unshipped text.
CrashNeverSkips ==
    [][Crash /\ saved_epoch = "current"
          => Text(Span(file, 0, saved_pos)) \subseteq delivered \cup cut \cup dropped]_vars

\* The inductive invariant behind the theorems on single lines in Agent_proofs.
IInv ==
    /\ TypeOK
    /\ NoSkip
    /\ CheckpointNoSkip
    /\ PartialIsOneLine
    /\ pc = "down" => partial = {}
=============================================================================
