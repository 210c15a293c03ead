----------------------------- MODULE TailedFile -----------------------------
(***************************************************************************)
(* What the two reading paths of the file tailer have in common, for one   *)
(* tailed inode: the writer and the rotation tool, the fields of           *)
(* TailedFile, the place of tail_files (logs/watcher.rs) in its loop, the  *)
(* offset on disk, and what reached the SDK.  Multiline and SingleLine     *)
(* extend it with their reading paths.                                     *)
(*                                                                         *)
(* The writer appends, truncates (copytruncate) and renames the file at    *)
(* any time, and the agent may crash at any time.  Which inode a path      *)
(* leads to, and opens that fail, are the subject of Watcher.              *)
(***************************************************************************)
EXTENDS LogBytes

CONSTANTS Kinds,        \* the kinds of byte the writer uses
          MaxPartial,   \* MAX_PARTIAL_BYTES: text kept of an unfinished line
          MaxLines,     \* MAX_LINES_PER_POLL
          MaxWrites,    \* bound on the bytes ever written
          MaxTrunc,     \* bound on truncations
          MaxCrash      \* bound on crashes

ASSUME TailedFileAssumption ==
    /\ Kinds \subseteq Kind
    /\ MaxPartial \in Nat
    /\ MaxLines \in Nat \ {0}
    /\ MaxWrites \in Nat
    /\ MaxTrunc \in Nat
    /\ MaxCrash \in Nat

VARIABLES
    file,           \* contents of the inode
    link,           \* "live" at its path, "renamed" away, or "unlinked"
    writes, truncs, crashes,    \* counters behind the bounds
    pos,            \* TailedFile.pos
    retained_fd,    \* TailedFile.retained_fd
    partial,        \* TailedFile.partial
    pc,             \* where tail_files is
    arm,            \* the select! arm it is in: "poll" or "cancel"
    lines,          \* lines consumed in this pass
    saved_pos,      \* the offset on disk
    epoch,          \* "current": no truncation since pos was derived from the file
    saved_epoch,    \* the same of saved_pos
    delivered,      \* text bytes the SDK accepted
    resent,         \* those it accepted more than once
    cut             \* text bytes dropped by a cap

world == <<file, link, writes, truncs>>
saved == <<saved_pos, saved_epoch>>
shipped == <<delivered, resent>>
tailer == <<crashes, pos, retained_fd, partial, pc, arm, lines, saved_pos, shipped, cut>>

PC == {"idle", "read", "drain", "tick", "final", "down", "gone"}

\* A file that an earlier run tracked from its first byte.
InitTailedFile ==
    /\ file = <<>> /\ link = "live"
    /\ writes = 0 /\ truncs = 0 /\ crashes = 0
    /\ pos = 0 /\ retained_fd = "none" /\ partial = {}
    /\ pc = "down" /\ arm = "poll" /\ lines = 0
    /\ saved_pos = 0 /\ epoch = "current" /\ saved_epoch = "current"
    /\ delivered = {} /\ resent = {} /\ cut = {}

-----------------------------------------------------------------------------
(* The writer of the log and the rotation tool. *)

Write(k) ==
    /\ writes < MaxWrites
    /\ file' = Append(file, [k |-> k, n |-> writes])
    /\ writes' = writes + 1
    /\ UNCHANGED <<link, truncs, tailer, epoch, saved_epoch>>

Truncate ==
    /\ link = "live"
    /\ truncs < MaxTrunc
    /\ file' = <<>>
    /\ truncs' = truncs + 1
    /\ epoch' = "stale" /\ saved_epoch' = "stale"
    /\ UNCHANGED <<link, writes, tailer>>

\* Rename-and-create: the path now leads to another inode.
Rename ==
    /\ link = "live"
    /\ link' = "renamed"
    /\ UNCHANGED <<file, writes, truncs, tailer, epoch, saved_epoch>>

Unlink ==
    /\ link = "renamed"
    /\ link' = "unlinked"
    /\ UNCHANGED <<file, writes, truncs, tailer, epoch, saved_epoch>>

WriterStep == (\E k \in Kinds : Write(k)) \/ Truncate \/ Rename \/ Unlink

-----------------------------------------------------------------------------
(* Steps of tail_files. *)

\* The SDK accepts an entry with text r.
Deliver(r) ==
    /\ delivered' = delivered \cup Text(r)
    /\ resent' = resent \cup (delivered \cap Text(r))

\* poll_all is done with the file: to the rest of the tick, or of the shutdown.
AfterPoll(a) ==
    /\ pc' = IF a = "cancel" THEN "final" ELSE "tick"
    /\ lines' = 0

\* A line was consumed: the pass goes on unless it reached its cap.
NextLine ==
    IF lines + 1 >= MaxLines THEN AfterPoll(arm)
    ELSE lines' = lines + 1 /\ pc' = pc

\* The poll timer fired, or cancel changed: poll_all visits the file.
Visit(a) ==
    /\ pc = "idle"
    /\ arm' = a

\* (mutant) push_partial replaces the buffer.
ReplacePartial(from, e) ==
    LET bytes == Span(file, from, e)
    IN /\ partial' = Keep(bytes, MaxPartial)
       /\ cut' = cut \cup Text(bytes \ Keep(bytes, MaxPartial))

\* push_partial: the bytes from .. e-1 have no newline yet.
PushPartial(from, e) ==
    LET bytes == partial \cup Span(file, from, e)
    IN /\ partial' = Keep(bytes, MaxPartial)
       /\ cut' = cut \cup Text(bytes \ Keep(bytes, MaxPartial))

\* (mutant) save_offsets writes the offset of the last byte shipped.
SaveLast(p) == saved_pos' = p - 1 /\ saved_epoch' = epoch

\* save_offsets
SaveOffsets(p) == saved_pos' = p /\ saved_epoch' = epoch

\* The process ends: its memory is gone.
EndProcess ==
    /\ pc' = "down"
    /\ pos' = 0 /\ epoch' = "current"
    /\ retained_fd' = "none" /\ partial' = {}
    /\ arm' = "poll" /\ lines' = 0

CrashProcess ==
    /\ pc \notin {"down", "gone"}
    /\ crashes < MaxCrash
    /\ crashes' = crashes + 1
    /\ EndProcess
    /\ UNCHANGED <<world, saved, shipped, cut>>

\* (mutants) register_file ignores the checkpoint.
RegisterAt(p) ==
    /\ pc = "down"
    /\ IF link = "live"
       THEN pos' = p /\ epoch' = "current" /\ pc' = "idle"
       ELSE pc' = "gone" /\ UNCHANGED <<pos, epoch>>
    /\ UNCHANGED <<world, crashes, retained_fd, partial, arm, lines, saved, shipped, cut>>
RegisterAtEnd == RegisterAt(Len(file))
RegisterAtStart == RegisterAt(0)

\* register_file with the checkpoint of this path.  Once the path leads to
\* another inode the checkpoint does not match and this inode is not tracked.
RegisterFile ==
    /\ pc = "down"
    /\ IF link = "live"
       THEN /\ pos' = IF saved_pos <= Len(file) THEN saved_pos ELSE Len(file)
            /\ epoch' = saved_epoch
            /\ pc' = "idle"
       ELSE /\ pc' = "gone"
            /\ UNCHANGED <<pos, epoch>>
    /\ UNCHANGED <<world, crashes, retained_fd, partial, arm, lines, saved, shipped, cut>>

-----------------------------------------------------------------------------
\* The types of these variables.
TailedFileTypeOK ==
    /\ file \in Seq(Byte)
    /\ link \in {"live", "renamed", "unlinked"}
    /\ writes \in Nat /\ truncs \in Nat /\ crashes \in Nat
    /\ pos \in Nat
    /\ retained_fd \in {"none", "some"}
    /\ partial \in SUBSET Byte
    /\ pc \in PC
    /\ arm \in {"poll", "cancel"}
    /\ lines \in Nat
    /\ saved_pos \in Nat
    /\ epoch \in {"current", "stale"} /\ saved_epoch \in {"current", "stale"}
    /\ delivered \in SUBSET Byte /\ resent \in SUBSET Byte /\ cut \in SUBSET Byte

\* The text byte with serial number n is in the file, and so is the newline
\* that ends its line.
Finished(n) == \E i, j \in 1..Len(file) :
    i < j /\ file[i].n = n /\ IsText(file[i]) /\ file[j].k = "n"

\* The old file is drained, to its end as it stands.
Drained == pc = "drain" /\ pc' = "gone" /\ epoch = "current"
=============================================================================
