------------------------------- MODULE Watcher -------------------------------
(***************************************************************************)
(* The bookkeeping of the file tailer (logs/watcher.rs): which inodes are  *)
(* tracked, under which path and from which offset, while files are        *)
(* rotated, removed and created, and while the agent stops, crashes and    *)
(* restarts.  How the bytes of one inode become entries is the subject of  *)
(* SingleLine and Multiline; here a file is a number of complete lines,    *)
(* offsets count lines, and a pass over a file is one step that may end    *)
(* early because the channel is full.                                      *)
(*                                                                         *)
(* One log is written at "app" and rotated to "rot", in the same           *)
(* directory.  A file keeps its identity when it is renamed; FileId is its *)
(* inode number, which a later file may get again once nothing refers to   *)
(* the first.                                                              *)
(***************************************************************************)
EXTENDS Integers, FiniteSets

CONSTANTS File,         \* the files that ever exist; NoFile is not one
          NoFile,
          FileId,       \* the inode number each file gets
          First,        \* the file at "app" to begin with
          Globbed,      \* the names the configured patterns match
          Utf16,        \* the files that start with a UTF-16 BOM
          MaxCap,       \* MAX_LINES_PER_POLL
          Stale,        \* STALE_THRESHOLD
          Faults,       \* what may go wrong: see Fault
          MaxLines,     \* bound on the lines ever written
          MaxStops, MaxCrash    \* bounds on graceful stops and on crashes

Name == {"app", "rot"}
Ino == {FileId[f] : f \in File}

\* "full": the channel refuses lines; "open": a file that exists cannot be opened;
\* "save": the offsets cannot be written; "old": a file goes IGNORE_OLDER_SECS
\* without being modified.
Fault == {"full", "open", "save", "old"}

ASSUME WatcherAssumption ==
    /\ NoFile \notin File
    /\ First \in File
    /\ Globbed \subseteq Name
    /\ Utf16 \subseteq File
    /\ MaxCap \in Nat \ {0} /\ Stale \in Nat \ {0}
    /\ Faults \subseteq Fault
    /\ {MaxLines, MaxStops, MaxCrash} \subseteq Nat

VARIABLES
    at,             \* the file each name leads to
    len,            \* lines in each file
    used,           \* files created so far
    wfd,            \* the file the writer has open
    aged,           \* files not modified for IGNORE_OLDER_SECS
    files,          \* HashMap<FileId, TailedFile>
    path_index,     \* HashMap<PathBuf, FileId>
    saved,          \* the offsets file
    pc,             \* where tail_files is
    arm,            \* the select! arm: "poll" or "cancel"
    ids,            \* inodes poll_all has still to visit
    reg,            \* a path poll_all is about to register
    total_bytes,    \* did this poll_all read anything?
    stops, crashes, \* counters behind the bounds
    got,            \* lines the SDK accepted
    twice,          \* lines it accepted more than once
    lost            \* lines the agent gave up, by the step that gave them up

disk == <<at, len, used, wfd, aged>>
history == <<got, twice, lost>>
vars == <<disk, files, path_index, saved, pc, arm, ids, reg, total_bytes, stops, crashes,
          history>>

Cause == {"late", "missed", "vanished", "evicted", "discovery", "restart", "reused"}

Line(f, from, upto) == {<<f, k>> : k \in (from + 1)..upto}
Lines(f) == Line(f, 0, len[f])
LinesOf(F) == UNION {Lines(f) : f \in F}
Lost == UNION {lost[c] : c \in Cause}

\* The lines an entry has still to read.
Unread(e) == Line(e.src, e.pos, len[e.src])

Tracked(f) == \E i \in DOMAIN files : files[i].src = f

Lose(c, L) == lost' = [lost EXCEPT ![c] = @ \cup (L \ (got' \cup Lost))]

\* HashMap::insert, for the keys of a map of new ones.
Insert(new, map) ==
    [x \in DOMAIN new \cup DOMAIN map |-> IF x \in DOMAIN new THEN new[x] ELSE map[x]]

\* HashMap::remove, for each of the keys.
Without(map, keys) == [x \in DOMAIN map \ keys |-> map[x]]

\* (mutant) entries go, their paths stay.
KeepIndex(E) == path_index

\* path_index without the paths that lead to an entry of E.
DropIndex(E) ==
    Without(path_index, {p \in DOMAIN path_index :
                            \E i \in E : files[i].path = p /\ path_index[p] = i})

\* TailedFile as register_file makes it.  src, the file meant, is not a field of
\* the code.
Entry(p, pos, f) ==
    [path |-> p, pos |-> pos, open_failures |-> 0, retained_fd |-> NoFile,
     skip_utf16 |-> f \in Utf16 /\ len[f] > 0, src |-> f]

Init ==
    /\ at = [n \in Name |-> IF n = "app" THEN First ELSE NoFile]
    /\ len = [f \in File |-> 0]
    /\ used = {First} /\ wfd = First /\ aged = {}
    /\ files = [i \in {FileId[First]} |-> Entry("app", 0, First)]
    /\ path_index = [p \in {"app"} |-> FileId[First]]
    /\ saved = <<>>
    /\ pc = "idle" /\ arm = "poll" /\ ids = {} /\ reg = "none"
    /\ total_bytes = FALSE /\ stops = 0 /\ crashes = 0
    /\ got = {} /\ twice = {} /\ lost = [c \in Cause |-> {}]

-----------------------------------------------------------------------------
(* The writer, the rotation tool and the clock. *)

agent == <<files, path_index, saved, pc, arm, ids, reg, total_bytes, stops, crashes, got,
           twice>>

\* The writer appends to the file it has open, whatever its name is by now.
Append ==
    /\ Cardinality(LinesOf(File)) < MaxLines
    /\ len' = [len EXCEPT ![wfd] = @ + 1]
    /\ aged' = aged \ {wfd}
    /\ IF pc = "down" \/ Tracked(wfd) \/ (\E n \in Globbed : at[n] = wfd)
       THEN UNCHANGED lost
       ELSE lost' = [lost EXCEPT !["late"] = @ \cup Line(wfd, len[wfd], len[wfd] + 1)]
    /\ UNCHANGED <<at, used, wfd, agent>>

\* What happens to a file that no globbed name leads to any more.
Orphan(S) ==
    lost' = [lost EXCEPT !["missed"] =
                @ \cup (LinesOf({f \in S : pc # "down" /\ ~Tracked(f)}) \ (got \cup Lost))]

Rotate ==
    /\ at["app"] # NoFile
    /\ at' = [at EXCEPT !["app"] = NoFile, !["rot"] = at["app"]]
    /\ Orphan(({at["app"], at["rot"]} \ {NoFile}) \ {at'[n] : n \in Globbed})
    /\ UNCHANGED <<len, used, wfd, aged, agent>>

\* A free inode number: no name, no open file descriptor refers to it.
Free(i) == \A f \in ({at[n] : n \in Name} \cup {wfd} \cup {files[j].retained_fd : j \in DOMAIN files})
                        \ {NoFile} : FileId[f] # i

Create ==
    /\ at["app"] = NoFile
    /\ \E f \in File \ used :
          /\ Free(FileId[f])
          /\ at' = [at EXCEPT !["app"] = f]
          /\ used' = used \cup {f}
    /\ UNCHANGED <<len, wfd, aged, agent, lost>>

Reopen ==
    /\ at["app"] \notin {NoFile, wfd}
    /\ wfd' = at["app"]
    /\ UNCHANGED <<at, len, used, aged, agent, lost>>

\* The rotated file is compressed or deleted.
Remove ==
    /\ at["rot"] # NoFile
    /\ at' = [at EXCEPT !["rot"] = NoFile]
    /\ Orphan({at["rot"]})
    /\ UNCHANGED <<len, used, wfd, aged, agent>>

Age ==
    /\ "old" \in Faults
    /\ \E f \in used \ aged : aged' = aged \cup {f}
    /\ UNCHANGED <<at, len, used, wfd, agent, lost>>

Environment == Append \/ Rotate \/ Create \/ Reopen \/ Remove \/ Age

-----------------------------------------------------------------------------
(* poll_all *)

\* (mutant) rotated-out entries are not polled.
LiveOnly == {i \in DOMAIN files : files[i].retained_fd = NoFile}

\* The entries poll_all visits, fixed at its start.
PollIds == DOMAIN files

StartPoll(a) ==
    /\ pc = "idle"
    /\ a = "cancel" => stops < MaxStops
    /\ pc' = "poll" /\ arm' = a
    /\ ids' = PollIds /\ total_bytes' = FALSE
    /\ UNCHANGED <<disk, files, path_index, saved, reg, stops, crashes, history>>

Smaller(a, b) == IF a <= b THEN a ELSE b

\* How many lines a pass from pos may take: all there is up to the cap, or less
\* if the channel refuses one.
Pass(pos, n) ==
    LET most == IF n > pos THEN Smaller(MaxCap, n - pos) ELSE 0
    IN IF "full" \in Faults THEN 0..most ELSE {most}

\* (mutant) the line that was refused is passed over.
ShipAllButOne(f, from, n) ==
    /\ got' = got \cup Line(f, from, from + n - 1)
    /\ twice' = twice \cup (got \cap Line(f, from, from + n - 1))
    /\ total_bytes' = (total_bytes \/ n > 0)

\* The channel takes n lines of f.
Ship(f, from, n) ==
    /\ got' = got \cup Line(f, from, from + n)
    /\ twice' = twice \cup (got \cap Line(f, from, from + n))
    /\ total_bytes' = (total_bytes \/ n > 0)

\* Entry e reads f.  Should f be another file with the same inode number, what
\* is left of the first is skipped, and so are the lines of f, present or to come,
\* before the offset.
Meets(e, f, pos) ==
    IF f = e.src THEN UNCHANGED lost
                 ELSE Lose("reused", Unread(e) \cup Line(f, 0, pos))

Visit(i) ==
    /\ pc = "poll" /\ reg = "none"
    /\ i \in ids
    /\ ids' = ids \ {i}
    /\ UNCHANGED <<disk, saved, pc, arm, stops, crashes>>

\* A UTF-16 file is never read.
VisitSkipped(i) ==
    /\ Visit(i)
    /\ files[i].skip_utf16
    /\ UNCHANGED <<files, path_index, reg, total_bytes, history>>

\* A rotated-out file is drained.  Once it is at its end the entry goes.
VisitRetained(i) ==
    LET e == files[i]
        f == e.retained_fd
    IN /\ Visit(i)
       /\ ~e.skip_utf16 /\ f # NoFile
       /\ \E n \in Pass(e.pos, len[f]) :
             /\ Ship(f, e.pos, n)
             /\ IF e.pos + n >= len[f] /\ n < MaxCap
                THEN /\ files' = Without(files, {i})
                     /\ path_index' = DropIndex({i})
                ELSE /\ files' = [files EXCEPT ![i].pos = @ + n]
                     /\ UNCHANGED path_index
       /\ UNCHANGED <<reg, lost>>

Live(i) == ~files[i].skip_utf16 /\ files[i].retained_fd = NoFile

VisitOpenFailed(i) ==
    /\ Visit(i)
    /\ Live(i)
    /\ at[files[i].path] = NoFile \/ "open" \in Faults
    /\ files' = [files EXCEPT ![i].open_failures = @ + 1]
    /\ UNCHANGED <<path_index, reg, total_bytes, history>>

\* find_rotated_file: the names, other than the path, that lead to inode i.
FindRotated(i) ==
    {n \in Name \ {files[i].path} : at[n] # NoFile /\ FileId[at[n]] = i}

\* The path leads to another inode.
Replaced(i) ==
    /\ Visit(i)
    /\ Live(i)
    /\ at[files[i].path] # NoFile
    /\ FileId[at[files[i].path]] # i
    /\ reg' = files[i].path
    /\ UNCHANGED <<total_bytes, got, twice>>

VisitRotated(i) ==
    /\ Replaced(i)
    /\ \E n \in FindRotated(i) :
          /\ files' = [files EXCEPT ![i] =
                          [@ EXCEPT !.retained_fd = at[n], !.open_failures = 0, !.src = at[n]]]
          /\ Meets(files[i], at[n], files[i].pos)
    /\ path_index' = DropIndex({i})

VisitRotatedLost(i) ==
    /\ Replaced(i)
    /\ FindRotated(i) = {} \/ "open" \in Faults
    /\ files' = Without(files, {i})
    /\ path_index' = Without(path_index, {files[i].path})
    /\ Lose("vanished", Unread(files[i]))

\* Where a pass over f begins: a file shorter than pos is read from its start.
ReadFrom(e, f) == IF len[f] < e.pos THEN 0 ELSE e.pos

\* The inode it knows.  Only a read that takes something resets open_failures.
VisitLive(i) ==
    LET e == files[i]
        f == at[e.path]
        pos == ReadFrom(e, f)
    IN /\ Visit(i)
       /\ Live(i)
       /\ f # NoFile /\ FileId[f] = i
       /\ \E n \in Pass(pos, len[f]) :
             /\ Ship(f, pos, n)
             /\ files' = [files EXCEPT ![i] = [@ EXCEPT !.pos = pos + n, !.src = f,
                             !.open_failures = IF n > 0 THEN 0 ELSE e.open_failures]]
       /\ Meets(e, f, pos)
       /\ UNCHANGED <<path_index, reg>>

\* (mutant) a file that replaces a rotated one is tailed from its end.
FromEnd(f) == len[f]

\* initial_pos of a file that replaces a rotated one.
FromStart(f) == 0

\* register_file for a path that led to another inode a moment ago.
Register ==
    LET f == at[reg]
    IN /\ pc = "poll" /\ reg # "none"
       /\ IF f = NoFile \/ FileId[f] \in DOMAIN files
          THEN UNCHANGED <<files, path_index>>
          ELSE /\ files' = Insert([i \in {FileId[f]} |-> Entry(reg, FromStart(f), f)], files)
               /\ path_index' = Insert([p \in {reg} |-> FileId[f]], path_index)
       /\ reg' = "none"
       /\ UNCHANGED <<disk, saved, pc, arm, ids, total_bytes, stops, crashes, history>>

-----------------------------------------------------------------------------
(* The rest of the loop. *)

\* save_offsets: one line per entry, keyed by its path, so that load_offsets
\* keeps one entry of those that share a path.  Creating the temporary file may
\* fail, then nothing changes; writing it may fail, then the part that was
\* written replaces the old offsets.
SaveOffsets ==
    LET P == {files[i].path : i \in DOMAIN files}
        Off(i) == [pos |-> files[i].pos, ino |-> i, src |-> files[i].src]
        Files(p) == {Off(i) : i \in {j \in DOMAIN files : files[j].path = p}}
    IN \/ \E Q \in IF "save" \in Faults THEN SUBSET P ELSE {P} :
             \E s \in [Q -> UNION {Files(p) : p \in P}] :
                /\ \A p \in Q : s[p] \in Files(p)
                /\ saved' = s
       \/ "save" \in Faults /\ UNCHANGED saved

Evictable ==
    {i \in DOMAIN files : files[i].open_failures >= Stale /\ files[i].retained_fd = NoFile}

\* The end of the poll arm: save if it is time, evict what cannot be opened.
EndPoll(save) ==
    LET E == Evictable
    IN /\ pc = "poll" /\ arm = "poll" /\ ids = {} /\ reg = "none"
       /\ IF save THEN total_bytes /\ SaveOffsets ELSE UNCHANGED saved
       /\ files' = Without(files, E)
       /\ path_index' = DropIndex(E)
       /\ pc' = "idle"
       /\ UNCHANGED <<got, twice>>
       /\ Lose("evicted", UNION {Unread(files[i]) : i \in E})
       /\ UNCHANGED <<disk, arm, ids, reg, total_bytes, stops, crashes>>

SaveTick ==
    /\ pc = "idle"
    /\ SaveOffsets
    /\ UNCHANGED <<disk, files, path_index, pc, arm, ids, reg, total_bytes, stops, crashes,
                   history>>

\* The paths of P that exist and whose inode is not tracked.
Found(P) == {p \in P : at[p] # NoFile /\ FileId[at[p]] \notin DOMAIN files}

\* The rescan: paths not in path_index are registered without offsets, those
\* not modified for long are not.
Rescan ==
    LET P == {p \in Found(Globbed \ DOMAIN path_index) : at[p] \notin aged}
        Ids == {FileId[at[p]] : p \in P}
        PathOf(i) == CHOOSE p \in P : FileId[at[p]] = i
    IN /\ pc = "idle"
       /\ files' =
             Insert([i \in Ids |-> Entry(PathOf(i), len[at[PathOf(i)]], at[PathOf(i)])], files)
       /\ path_index' = Insert([p \in P |-> FileId[at[p]]], path_index)
       /\ UNCHANGED <<got, twice>>
       /\ Lose("discovery", LinesOf({at[p] : p \in P}))
       /\ UNCHANGED <<disk, saved, pc, arm, ids, reg, total_bytes, stops, crashes>>

\* The process ends.
Exit ==
    /\ pc' = "down" /\ arm' = "poll" /\ ids' = {} /\ reg' = "none" /\ total_bytes' = FALSE
    /\ files' = <<>> /\ path_index' = <<>>
    /\ UNCHANGED <<disk, history>>

\* The shutdown arm, after its poll_all.
Stop ==
    /\ pc = "poll" /\ arm = "cancel" /\ ids = {} /\ reg = "none"
    /\ SaveOffsets
    /\ stops' = stops + 1
    /\ Exit
    /\ UNCHANGED crashes

Crash ==
    /\ pc # "down"
    /\ crashes < MaxCrash
    /\ crashes' = crashes + 1
    /\ Exit
    /\ UNCHANGED <<saved, stops>>

\* An offset is used for the inode it was saved for.
HasCheckpoint(p) == p \in DOMAIN saved /\ saved[p].ino = FileId[at[p]]

\* (mutant) a file without an offset is read from its start.
ResumeAtStart(p) == IF HasCheckpoint(p) THEN Smaller(saved[p].pos, len[at[p]]) ELSE 0

\* Where register_file starts in a file found at startup.
ResumeAt(p) == IF HasCheckpoint(p) THEN Smaller(saved[p].pos, len[at[p]]) ELSE len[at[p]]

\* tail_files starts: load_offsets, then register_file for each globbed path.
Start ==
    LET P == {p \in Found(Globbed) : HasCheckpoint(p) \/ at[p] \notin aged}
        Ids == {FileId[at[p]] : p \in P}
        PathOf(i) == CHOOSE p \in P : FileId[at[p]] = i
    IN /\ pc = "down"
       /\ files' = [i \in Ids |-> Entry(PathOf(i), ResumeAt(PathOf(i)), at[PathOf(i)])]
       /\ path_index' = [p \in P |-> FileId[at[p]]]
       /\ pc' = "idle"
       /\ UNCHANGED <<got, twice>>
       /\ Lose("restart", LinesOf(File) \ (UNION {Unread(files'[i]) : i \in Ids}))
       /\ UNCHANGED <<disk, saved, arm, ids, reg, total_bytes, stops, crashes>>

Polling == \E i \in Ino :
    \/ VisitSkipped(i) \/ VisitRetained(i) \/ VisitOpenFailed(i)
    \/ VisitRotated(i) \/ VisitRotatedLost(i) \/ VisitLive(i)

Next ==
    \/ Environment
    \/ \E a \in {"poll", "cancel"} : StartPoll(a)
    \/ Polling
    \/ Register
    \/ \E save \in BOOLEAN : EndPoll(save)
    \/ SaveTick \/ Rescan \/ Stop \/ Crash \/ Start

Spec == Init /\ [][Next]_vars

\* The loop keeps running and the process is restarted when it is down.  The
\* rescan timer stays due until select! takes it, which it does sooner or later
\* because it chooses among the ready arms at random.
Fairness ==
    /\ WF_vars(StartPoll("poll")) /\ WF_vars(Polling) /\ WF_vars(Register)
    /\ WF_vars(EndPoll(FALSE)) /\ WF_vars(Stop) /\ WF_vars(Start)
    /\ SF_vars(Rescan)

FairSpec == Spec /\ Fairness

-----------------------------------------------------------------------------
(* What the tailer promises. *)

\* Every variable has the values the code can give it.
TypeOK ==
    /\ at \in [Name -> File \cup {NoFile}] /\ len \in [File -> 0..MaxLines]
    /\ used \subseteq File /\ wfd \in used /\ aged \subseteq used
    /\ DOMAIN files \subseteq Ino
    /\ \A i \in DOMAIN files :
          /\ files[i].path \in Name /\ files[i].pos \in 0..MaxLines
          /\ files[i].open_failures \in 0..Stale
          /\ files[i].retained_fd \in used \cup {NoFile}
          /\ files[i].src \in used /\ FileId[files[i].src] = i
    /\ DOMAIN path_index \subseteq Name /\ path_index \in [DOMAIN path_index -> Ino]
    /\ DOMAIN saved \subseteq Name
    /\ \A p \in DOMAIN saved : saved[p].ino \in Ino /\ saved[p].pos \in 0..MaxLines
    /\ pc \in {"idle", "poll", "down"} /\ arm \in {"poll", "cancel"}
    /\ ids \subseteq Ino /\ reg \in Name \cup {"none"} /\ total_bytes \in BOOLEAN
    /\ stops \in 0..MaxStops /\ crashes \in 0..MaxCrash
    /\ twice \subseteq got

\* path_index and files agree: a path leads to the entry of that path which reads
\* it, and every entry that is not draining is the one its path leads to.
IndexExact ==
    /\ \A p \in DOMAIN path_index :
          /\ path_index[p] \in DOMAIN files
          /\ files[path_index[p]].path = p
          /\ files[path_index[p]].retained_fd = NoFile
    /\ \A i \in DOMAIN files : files[i].retained_fd = NoFile =>
          files[i].path \in DOMAIN path_index /\ path_index[files[i].path] = i

\* Files a poll or a rescan is still going to find.
Waiting == {at[n] : n \in Globbed} \ ({NoFile} \cup {files[i].src : i \in DOMAIN files})

\* While the agent runs, every line ever written was accepted by the SDK, or is
\* still to be read by an entry or by one about to be made, or was given up by
\* one of the steps that say so.  Nothing disappears unnoticed.
Accounted ==
    pc # "down" =>
        LinesOf(File) \subseteq
            got \cup Lost \cup LinesOf(Waiting)
                \cup (UNION {Unread(files[i]) : i \in DOMAIN files})

\* No saved offset is past a line that was neither accepted nor given up.
CheckpointBehind ==
    \A p \in DOMAIN saved : Line(saved[p].src, 0, saved[p].pos) \subseteq got \cup Lost

\* Only a crash makes the agent send a line again.
OnlyCrashRepeats == crashes = 0 => twice = {}

\* The agent catches up with every file once the writer pauses: each of its
\* lines is accepted, or given up by a step that says so.  No entry, retained fd
\* or waiting path is forgotten by the polls.
EventuallySettled ==
    \A f \in File : []<>(Lines(f) \subseteq got \cup Lost)

-----------------------------------------------------------------------------
(* What the documents or the comments say and the code does not do. *)

\* watcher.rs: "Final drain - read all remaining lines including retained fds".
\* When the shutdown arm is done nothing is left in a rotated-out file.
FinalDrainComplete ==
    [][Stop => \A i \in DOMAIN files : files[i].retained_fd # NoFile => Unread(files[i]) = {}]_vars

\* README: SIGHUP "saves offsets, and restarts with the new config. Zero data
\* loss".  When the agent stops, an offset covers what each entry has not read.
StopSavesEveryOffset ==
    [][Stop => \A i \in DOMAIN files :
          Unread(files[i]) # {} => \E p \in DOMAIN saved' : saved'[p].ino = i]_vars
=============================================================================
