------------------------------ MODULE Multiline ------------------------------
(***************************************************************************)
(* The multiline path of the file tailer (logs/multiline.rs, driven by     *)
(* logs/watcher.rs): physical lines are joined into a record, the record   *)
(* ships as one entry, and only then does pos, the offset that is          *)
(* persisted, move.                                                        *)
(*                                                                         *)
(* A try_log that finds the SDK channel full is the choice ok = FALSE.     *)
(* The join newline is not counted against multiline_max_bytes.            *)
(***************************************************************************)
EXTENDS TailedFile

CONSTANT MaxBytes       \* multiline_max_bytes: text kept per record

ASSUME MultilineAssumption == MaxBytes \in Nat

VARIABLES
    agg,            \* TailedFile.agg: is there an Aggregator; its fields follow
    record,         \* text of the record in flight
    record_bytes,   \* on-disk length of the lines in it
    read_ahead,     \* where the reader stands
    partial_bytes,  \* on-disk length of the unfinished line
    last_append     \* instant of the last append

aggregator == <<agg, record, record_bytes, read_ahead, partial_bytes, last_append>>
vars == <<world, crashes, pos, retained_fd, partial, aggregator, pc, arm, lines,
          saved, epoch, shipped, cut>>

\* Aggregator::new, or (agg = "none") no aggregator.
SetAgg(a, p) ==
    /\ agg' = a
    /\ record' = {} /\ record_bytes' = 0
    /\ read_ahead' = p
    /\ partial_bytes' = 0
    /\ last_append' = "none"

\* (mutant) has_record misses a record of one empty line.
HasLongRecord == record_bytes > 1

HasRecord == record_bytes > 0

Init ==
    /\ InitTailedFile
    /\ agg = "none" /\ record = {} /\ record_bytes = 0
    /\ read_ahead = 0 /\ partial_bytes = 0 /\ last_append = "none"

-----------------------------------------------------------------------------
(* Records. *)

\* What ship returns for a record with text r: it fails only when there is
\* text and the channel refuses it.
Ships(r, ok) == Text(r) # {} => ok

\* append_to_record caps the text, and drops the excess.
Capped(r, line) == Keep(r \cup line, MaxBytes)
Excess(r, line) == Text((r \cup line) \ Capped(r, line))

\* (mutant) fold_partial is skipped.
NoFold == FALSE

\* fold_partial: the record, its length and the length of the partial after it.
Fold == partial # {}
FoldedRecord == IF Fold THEN Capped(record, TrimEnd(partial)) ELSE record
FoldedBytes == IF Fold THEN record_bytes + partial_bytes ELSE record_bytes

\* (mutant) fold_partial leaves partial_bytes behind.
PartialKept == partial_bytes

FoldedPartial == IF Fold THEN 0 ELSE partial_bytes
FoldExcess == IF Fold THEN Excess(record, TrimEnd(partial)) ELSE {}

-----------------------------------------------------------------------------
(* One poll. *)

\* The entry holds a retained fd: drain it.
VisitRetained(a) ==
    /\ Visit(a)
    /\ retained_fd = "some"
    /\ IF agg = "some" THEN UNCHANGED aggregator ELSE SetAgg("some", pos)
    /\ pc' = "drain"
    /\ UNCHANGED <<world, crashes, pos, retained_fd, partial, lines, saved, epoch,
                   shipped, cut>>

\* check_and_read finds another inode at the path, and the old one by name.
VisitRotated(a) ==
    /\ Visit(a)
    /\ retained_fd = "none" /\ link = "renamed"
    /\ retained_fd' = "some"
    /\ AfterPoll(a)
    /\ UNCHANGED <<world, crashes, pos, partial, aggregator, saved, epoch, shipped,
                   cut>>

\* ... or does not find it: the entry goes, with what it holds.
VisitRotatedLost(a) ==
    /\ Visit(a)
    /\ retained_fd = "none" /\ link = "unlinked"
    /\ pc' = "gone"
    /\ partial' = {} /\ SetAgg("none", 0)
    /\ UNCHANGED <<world, crashes, pos, retained_fd, lines, saved, epoch, shipped,
                   cut>>

\* check_and_read on the inode it knows.  A file shorter than pos was
\* truncated: back to offset 0, the record in flight is discarded.
VisitTruncated(a) ==
    /\ Visit(a)
    /\ retained_fd = "none" /\ link = "live"
    /\ Len(file) < pos
    /\ pos' = 0 /\ epoch' = "current"
    /\ partial' = {}
    /\ IF Len(file) = 0
       THEN SetAgg(agg, 0) /\ AfterPoll(a)
       ELSE SetAgg("some", 0) /\ pc' = "read" /\ UNCHANGED lines
    /\ UNCHANGED <<world, crashes, retained_fd, saved, shipped, cut>>

\* Otherwise read, if there is anything past pos.
VisitLive(a) ==
    /\ Visit(a)
    /\ retained_fd = "none" /\ link = "live"
    /\ Len(file) >= pos
    /\ IF Len(file) = pos
       THEN AfterPoll(a) /\ UNCHANGED aggregator
       ELSE /\ pc' = "read" /\ UNCHANGED lines
            /\ IF agg = "some" THEN UNCHANGED aggregator ELSE SetAgg("some", pos)
    /\ UNCHANGED <<world, crashes, pos, retained_fd, partial, saved, epoch, shipped,
                   cut>>

\* read_loop, a complete line that ends at offset e: commit_line.  A start line
\* first ships the record before it; if that is refused nothing is consumed and
\* the pass ends.
CommitLine(e, ok) ==
    LET line == TrimEnd(partial \cup Span(file, read_ahead, e))
        flush == Matches(line) /\ HasRecord
        base == IF flush THEN {} ELSE record
        n == e - read_ahead
    IN IF flush /\ ~Ships(record, ok)
       THEN /\ AfterPoll(arm)
            /\ UNCHANGED <<pos, partial, aggregator, shipped, cut>>
       ELSE /\ IF flush THEN Deliver(record) ELSE UNCHANGED shipped
            /\ pos' = IF flush THEN pos + record_bytes ELSE pos
            /\ record' = Capped(base, line)
            /\ record_bytes' = (IF flush THEN 0 ELSE record_bytes) + partial_bytes + n
            /\ cut' = cut \cup Excess(base, line)
            /\ read_ahead' = read_ahead + n
            /\ partial' = {} /\ partial_bytes' = 0
            /\ last_append' = "some"
            /\ agg' = agg
            /\ NextLine

ReadLine(ok) ==
    /\ pc \in {"read", "drain"}
    /\ \E e \in (read_ahead + 1)..Len(file) :
          /\ StopsAt(file, read_ahead, e)
          /\ file[e].k = "n"
          /\ CommitLine(e, ok)
    /\ UNCHANGED <<world, crashes, retained_fd, arm, saved, epoch>>

\* read_loop, bytes with no newline yet.
ReadPartial ==
    /\ pc \in {"read", "drain"}
    /\ \E e \in (read_ahead + 1)..Len(file) :
          /\ StopsAt(file, read_ahead, e)
          /\ file[e].k # "n"
          /\ PushPartial(read_ahead, e)
          /\ read_ahead' = e
          /\ partial_bytes' = partial_bytes + (e - read_ahead)
    /\ UNCHANGED <<world, crashes, pos, retained_fd, agg, record, record_bytes,
                   last_append, pc, arm, lines, saved, epoch, shipped>>

\* read_loop at end of file, in a live read: the record stays in flight.
ReadEof ==
    /\ pc = "read"
    /\ read_ahead >= Len(file)
    /\ AfterPoll(arm)
    /\ UNCHANGED <<world, crashes, pos, retained_fd, partial, aggregator, arm, saved,
                   epoch, shipped, cut>>

\* drain at end of file: fold the partial in and ship.  The entry is removed
\* once that succeeds, and keeps its fd until then.
DrainEof(ok) ==
    /\ pc = "drain"
    /\ read_ahead >= Len(file)
    /\ cut' = cut \cup FoldExcess
    /\ IF Ships(FoldedRecord, ok)
       THEN /\ Deliver(FoldedRecord)
            /\ pos' = pos + FoldedBytes
            /\ record' = {} /\ record_bytes' = 0 /\ last_append' = "none"
            /\ retained_fd' = "none"
            /\ pc' = "gone" /\ lines' = 0
       ELSE /\ record' = FoldedRecord /\ record_bytes' = FoldedBytes
            /\ AfterPoll(arm)
            /\ UNCHANGED <<pos, shipped, retained_fd, last_append>>
    /\ partial' = {} /\ partial_bytes' = FoldedPartial
    /\ UNCHANGED <<world, crashes, agg, read_ahead, arm, saved, epoch>>

-----------------------------------------------------------------------------
(* The rest of the poll tick, the save tick and the shutdown arm. *)

\* flush_if_expired, then save_offsets if the second since the last one is up.
Tick(expired, ok, save) ==
    /\ pc = "tick"
    /\ expired => agg = "some" /\ HasRecord /\ last_append = "some"
    /\ LET ships == expired /\ Ships(record, ok)
           p == IF ships THEN pos + record_bytes ELSE pos
       IN /\ IF ships
             THEN /\ Deliver(record)
                  /\ record' = {} /\ record_bytes' = 0 /\ last_append' = "none"
             ELSE UNCHANGED <<shipped, record, record_bytes, last_append>>
          /\ pos' = p
          /\ IF save THEN SaveOffsets(p) ELSE UNCHANGED saved
    /\ pc' = "idle"
    /\ UNCHANGED <<world, crashes, retained_fd, partial, agg, read_ahead,
                   partial_bytes, arm, lines, epoch, cut>>

SaveTick ==
    /\ pc = "idle"
    /\ SaveOffsets(pos)
    /\ UNCHANGED <<world, crashes, pos, retained_fd, partial, aggregator, pc, arm,
                   lines, epoch, shipped, cut>>

\* (mutant) flush_final moves pos whether or not the record was accepted.
AlwaysMovePos(ok) == pos + FoldedBytes

\* The offset flush_final leaves.
FinalPos(ok) == IF Ships(FoldedRecord, ok) THEN pos + FoldedBytes ELSE pos

\* flush_final, save_offsets, return.
Final(ok) ==
    /\ pc = "final"
    /\ cut' = cut \cup FoldExcess
    /\ IF Ships(FoldedRecord, ok) THEN Deliver(FoldedRecord) ELSE UNCHANGED shipped
    /\ SaveOffsets(FinalPos(ok))
    /\ EndProcess /\ SetAgg("none", 0)
    /\ UNCHANGED <<world, crashes>>

-----------------------------------------------------------------------------
Crash == CrashProcess /\ SetAgg("none", 0)

Restart == RegisterFile /\ UNCHANGED aggregator

Environment == WriterStep /\ UNCHANGED aggregator

Visiting == \E a \in {"poll", "cancel"} :
    \/ VisitRetained(a)
    \/ VisitRotated(a)
    \/ VisitRotatedLost(a)
    \/ VisitTruncated(a)
    \/ VisitLive(a)

Reading == \/ \E ok \in BOOLEAN : ReadLine(ok)
           \/ ReadPartial
           \/ ReadEof
           \/ \E ok \in BOOLEAN : DrainEof(ok)

Looping == \/ \E expired, ok, save \in BOOLEAN : Tick(expired, ok, save)
           \/ SaveTick
           \/ \E ok \in BOOLEAN : Final(ok)

Next == Environment \/ Visiting \/ Reading \/ Looping \/ Crash \/ Restart

Spec == Init /\ [][Next]_vars

\* The poll loop keeps running and a stopped agent is started again.  The
\* channel is not full at every attempt from some point on, and a record that
\* gets no new line reaches its inactivity timeout.
Fairness ==
    /\ WF_vars(Visiting) /\ WF_vars(Reading) /\ WF_vars(Looping) /\ WF_vars(Restart)
    /\ SF_vars(ReadLine(TRUE))
    /\ SF_vars(DrainEof(TRUE))
    /\ SF_vars(Final(TRUE))
    /\ SF_vars(\E save \in BOOLEAN : Tick(TRUE, TRUE, save))

FairSpec == Spec /\ Fairness

-----------------------------------------------------------------------------
(* Properties. *)

\* The variables have the types of the code's fields.
TypeOK ==
    /\ TailedFileTypeOK
    /\ agg \in {"none", "some"}
    /\ record \in SUBSET Byte
    /\ record_bytes \in Nat /\ read_ahead \in Nat /\ partial_bytes \in Nat
    /\ last_append \in {"none", "some"}

\* The comment on Aggregator.read_ahead: the reader stands exactly behind the
\* record and the unfinished line it holds in memory.  If it did not, the next
\* pass would re-read or skip bytes.
ReadAheadExact ==
    agg = "some" => read_ahead = pos + record_bytes + partial_bytes

\* pos never passes a byte of text that was not shipped (or dropped by a cap):
\* the record, not the line, gates the offset.
NoSkip ==
    epoch = "current" =>
        /\ pos <= Len(file)
        /\ Text(Span(file, 0, pos)) \subseteq delivered \cup cut

\* The same of the offset on disk, where a crashed agent resumes, whatever the
\* moment of the crash.
CheckpointNoSkip ==
    saved_epoch = "current" =>
        /\ saved_pos <= Len(file)
        /\ Text(Span(file, 0, saved_pos)) \subseteq delivered \cup cut

\* Text the reader has taken and not shipped is in memory: up to record_bytes
\* in the record, after that in the partial.  A flush refused half way through
\* commit_line or drain leaves both buffers such that the retry loses nothing.
HeldInMemory ==
    (epoch = "current" /\ agg = "some") =>
        /\ read_ahead <= Len(file)
        /\ Text(Span(file, pos, pos + record_bytes)) \subseteq record \cup cut
        /\ Text(Span(file, pos + record_bytes, read_ahead)) \subseteq partial \cup cut

\* A start line is never appended to the record of an earlier line, not even
\* when the ship of that record was refused and retried, unless the cap on the
\* partial cut off what the pattern matches.
StartsItsOwnRecord ==
    (epoch = "current" /\ agg = "some" /\ retained_fd = "none") =>
        \A i, j \in (pos + 1)..(pos + record_bytes) :
            (i < j /\ file[i].k = "n" /\ file[j].k = "S") => file[j] \in cut

\* Without a crash nothing is shipped twice: not by a retry after
\* backpressure, a rotation, or a graceful stop and restart.
NoDuplicates == crashes = 0 => resent = {}

\* drain drops the entry only when all the text of the old file, as it stands,
\* was shipped.
DrainsToTheEnd ==
    [][Drained => Text(Span(file, 0, Len(file))) \subseteq delivered' \cup cut']_vars

\* README: "Detects when a file is emptied and resets to the beginning".  After
\* a visit of the live file the reader does not stand beyond its end.
ReaderWithinFile ==
    [][(pc = "idle" /\ pc' \in {"read", "tick"} /\ link = "live" /\ retained_fd = "none")
          => (agg' = "some" => read_ahead' <= Len(file))]_vars

\* The inductive invariant behind the theorems of Multiline_proofs.
IInv ==
    /\ TypeOK
    /\ ReadAheadExact
    /\ NoSkip
    /\ CheckpointNoSkip
    /\ HeldInMemory
    /\ agg = "none" => partial = {} /\ record_bytes = 0
    /\ pc \in {"read", "drain"} => agg = "some"
    /\ pc = "down" => agg = "none"

\* Every text byte of a complete line is shipped in the end: by the next start
\* line, the inactivity timeout, the drain or the final flush.
EventuallyShipped ==
    \A n \in 0..(MaxWrites - 1) :
        Finished(n) ~> (pc = "gone" \/ \E b \in delivered \cup cut : b.n = n)
=============================================================================
