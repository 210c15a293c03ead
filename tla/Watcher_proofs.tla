--------------------------- MODULE Watcher_proofs ---------------------------
(***************************************************************************)
(* Watcher, for any number of files, of lines, of stops and of crashes,    *)
(* whatever inode numbers the files get and whichever faults occur: the    *)
(* two maps agree, a saved offset is behind what was accepted or given up, *)
(* and no line is missing without a step that gave it up.  If the patterns *)
(* match the live name only and offsets can be saved, no line is repeated  *)
(* without a crash.                                                        *)
(*                                                                         *)
(* IInv adds to the first three what each step needs of the one before:   *)
(* an entry is about a file with its inode number; no two names lead to    *)
(* one inode number; the path that poll_all is about to register has no    *)
(* entry; poll_all has only entries left to visit; what is before an       *)
(* entry's offset is settled (accepted, or given up); and a file that      *)
(* neither an entry nor a globbed name leads to is settled altogether.     *)
(* Once adds for the last that no accepted line is behind an entry's       *)
(* offset, or in a file that will be read from its start.                  *)
(***************************************************************************)
EXTENDS Watcher, TLAPS

EntryType ==
    [path : Name, pos : Nat, open_failures : Nat, retained_fd : File \cup {NoFile},
     skip_utf16 : BOOLEAN, src : File]

\* The types of what the proofs need.
Types ==
    /\ at \in [Name -> File \cup {NoFile}] /\ len \in [File -> Nat]
    /\ used \subseteq File /\ wfd \in File
    /\ \A i \in DOMAIN files : files[i] \in EntryType
    /\ DOMAIN path_index \subseteq Name
    /\ reg \in Name \cup {"none"}
    /\ \A p \in DOMAIN saved : saved[p].pos \in Nat
    /\ DOMAIN lost = Cause

\* An entry is about a file with its inode number, and about the one it has open.
SourcesRight ==
    \A i \in DOMAIN files :
        /\ FileId[files[i].src] = i
        /\ files[i].retained_fd # NoFile => files[i].src = files[i].retained_fd

\* No two names lead to files with one inode number.
NamesDistinct ==
    \A m, n \in Name :
        m # n /\ at[m] # NoFile /\ at[n] # NoFile => FileId[at[m]] # FileId[at[n]]

\* The path that poll_all is about to register has lost its entry.
RegIsFree == reg # "none" => pc = "poll" /\ reg \notin DOMAIN path_index

\* poll_all visits entries only: what it has still to visit is not removed before.
IdsTracked == ids \subseteq DOMAIN files /\ (pc # "poll" => ids = {})

Settled == got \cup Lost

\* What is before the offset of an entry was accepted or given up.
EntriesBehind == \A i \in DOMAIN files : Line(files[i].src, 0, files[i].pos) \subseteq Settled

\* A file that has no entry, and that no globbed name leads to, is settled.
Watched ==
    pc # "down" =>
        \A f \in File : Tracked(f) \/ (\E n \in Globbed : at[n] = f) \/ Lines(f) \subseteq Settled

\* The inductive invariant.
IInv ==
    /\ Types /\ SourcesRight /\ NamesDistinct /\ RegIsFree /\ IndexExact /\ IdsTracked
    /\ EntriesBehind /\ Watched /\ CheckpointBehind

-----------------------------------------------------------------------------
\* The lines of a file between two offsets.
LEMMA LineMember ==
    ASSUME NEW f, NEW a \in Nat, NEW b \in Nat, NEW x
    PROVE  x \in Line(f, a, b) <=> \E k \in Nat : a < k /\ k <= b /\ x = <<f, k>>
BY DEF Line

\* What is lost is lost for one cause, and stays so.
LEMMA LostGrows ==
    ASSUME NEW c \in Cause, DOMAIN lost = Cause, NEW X,
           lost' = [lost EXCEPT ![c] = @ \cup X]
    PROVE  Lost' = Lost \cup X /\ DOMAIN lost' = Cause
<1>1. DOMAIN lost' = Cause /\ \A d \in Cause : lost'[d] = IF d = c THEN lost[d] \cup X ELSE lost[d]
  BY Zenon
<1>2. ASSUME NEW x PROVE x \in Lost' <=> x \in Lost \/ x \in X
  BY <1>1 DEF Lost
<1>3. QED
  BY Zenon, <1>1, <1>2 DEF Lost

\* What is given up is settled.
LEMMA LoseSettles ==
    ASSUME NEW c \in Cause, DOMAIN lost = Cause, NEW L, got \subseteq got', Lose(c, L)
    PROVE  Settled' = Settled \cup got' \cup L /\ DOMAIN lost' = Cause
<1>1. Lost' = Lost \cup (L \ (got' \cup Lost)) /\ DOMAIN lost' = Cause
  BY Zenon, LostGrows DEF Lose
<1>2. QED
  BY Zenon, <1>1 DEF Settled

\* The tailer's part of Types is all that a step of it can change.
LEMMA TypesKept ==
    ASSUME IInv, UNCHANGED disk, \A i \in DOMAIN files' : files'[i] \in EntryType,
           DOMAIN path_index' \subseteq Name, reg' \in Name \cup {"none"},
           \A p \in DOMAIN saved' : saved'[p].pos \in Nat, DOMAIN lost' = Cause
    PROVE  Types'
BY Zenon DEF IInv, Types, disk

\* A file has a number of lines.
LEMMA LengthIsNat == ASSUME IInv, NEW f \in File PROVE len[f] \in Nat
BY Zenon DEF IInv, Types

\* What register_file makes is an entry for the path, the offset and the file.
LEMMA EntryTyped ==
    ASSUME Types, NEW p \in Name, NEW pos \in Nat, NEW f \in File
    PROVE  /\ Entry(p, pos, f) \in EntryType /\ Entry(p, pos, f).path = p
           /\ Entry(p, pos, f).pos = pos /\ Entry(p, pos, f).src = f
           /\ Entry(p, pos, f).retained_fd = NoFile
<1>1. (f \in Utf16 /\ len[f] > 0) \in BOOLEAN
  BY Zenon
<1>2. QED
  BY Zenon, <1>1 DEF Entry, EntryType

\* The agent starts beside an empty log with one entry for it.
LEMMA InitIInv == Init => IInv
<1> SUFFICES ASSUME Init PROVE IInv
  BY Zenon
<1> USE WatcherAssumption
<1> DEFINE i == FileId[First]
<1>1. /\ DOMAIN files = {i} /\ files[i] = Entry("app", 0, First)
      /\ DOMAIN path_index = {"app"} /\ path_index["app"] = i
      /\ DOMAIN lost = Cause /\ saved = <<>> /\ reg = "none" /\ pc = "idle" /\ ids = {}
      /\ at = [n \in Name |-> IF n = "app" THEN First ELSE NoFile]
      /\ len = [f \in File |-> 0] /\ used = {First} /\ wfd = First /\ got = {}
  BY Zenon DEF Init
<1>2. /\ files[i] \in EntryType /\ files[i].path = "app" /\ files[i].pos = 0
      /\ files[i].src = First /\ files[i].retained_fd = NoFile
  <2>1. (First \in Utf16 /\ len[First] > 0) \in BOOLEAN
    BY Zenon
  <2>2. QED
    BY <1>1, <2>1 DEF Entry, EntryType, Name
<1>3. Types
  BY <1>1, <1>2 DEF Types, Name
<1>4. SourcesRight /\ RegIsFree /\ IndexExact /\ IdsTracked
  BY Zenon, <1>1, <1>2 DEF SourcesRight, RegIsFree, IndexExact, IdsTracked
<1>5. NamesDistinct
  BY Zenon, <1>1 DEF NamesDistinct, Name
<1>6. EntriesBehind
  BY <1>1, <1>2 DEF EntriesBehind, Line
<1>7. Watched
  BY <1>1 DEF Watched, Lines, Line
<1>8. CheckpointBehind
  BY <1>1 DEF CheckpointBehind
<1>9. QED
  BY Zenon, <1>3, <1>4, <1>5, <1>6, <1>7, <1>8 DEF IInv

-----------------------------------------------------------------------------
(* The writer, the rotation tool and the clock. *)

\* They leave the tailer alone; what is settled stays so.
LEMMA OutsideKeeps ==
    ASSUME IInv, UNCHANGED agent, Types', NamesDistinct', Lost \subseteq Lost', Watched'
    PROVE  IInv'
<1>1. SourcesRight' /\ RegIsFree' /\ IndexExact' /\ IdsTracked'
  BY Zenon DEF IInv, agent, SourcesRight, RegIsFree, IndexExact, IdsTracked
<1>2. EntriesBehind'
  BY DEF IInv, agent, EntriesBehind, Settled, Line
<1>3. CheckpointBehind'
  BY DEF IInv, agent, CheckpointBehind, Line
<1>4. QED
  BY Zenon, <1>1, <1>2, <1>3 DEF IInv

\* A line is appended: it is ahead of every offset, or it is lost as "late".
LEMMA AppendKeeps == IInv /\ Append => IInv'
<1> SUFFICES ASSUME IInv, Append PROVE IInv'
  BY Zenon
<1>1. /\ len' = [len EXCEPT ![wfd] = @ + 1] /\ wfd \in File /\ len \in [File -> Nat]
      /\ UNCHANGED <<at, used, wfd>> /\ UNCHANGED agent /\ DOMAIN lost = Cause
  BY Zenon DEF Append, IInv, Types
<1>2. len' \in [File -> Nat] /\ \A f \in File : len'[f] = IF f = wfd THEN len[f] + 1 ELSE len[f]
  BY <1>1
<1>3. Lost \subseteq Lost' /\ DOMAIN lost' = Cause
  <2>1. CASE UNCHANGED lost
    BY Zenon, <1>1, <2>1 DEF Lost
  <2>2. CASE lost' = [lost EXCEPT !["late"] = @ \cup Line(wfd, len[wfd], len[wfd] + 1)]
    BY Zenon, <1>1, <2>2, LostGrows DEF Cause
  <2>3. QED
    BY Zenon, <2>1, <2>2 DEF Append
<1>4. Types' /\ NamesDistinct'
  BY Zenon, <1>1, <1>2, <1>3 DEF IInv, Types, NamesDistinct, agent
<1>5. Watched'
  <2> SUFFICES ASSUME pc # "down", NEW f \in File, ~Tracked(f), ~\E n \in Globbed : at[n] = f
               PROVE  Lines(f)' \subseteq Settled'
    BY Zenon, <1>1 DEF Watched, agent, Tracked
  <2>1. Lines(f) \subseteq Settled
    BY Zenon DEF IInv, Watched
  <2>2. CASE f # wfd
    BY Zenon, <1>1, <1>2, <1>3, <2>1, <2>2 DEF Lines, Line, Settled, agent
  <2>3. CASE f = wfd
    <3>1. lost' = [lost EXCEPT !["late"] = @ \cup Line(wfd, len[wfd], len[wfd] + 1)]
      BY Zenon, <2>3 DEF Append
    <3>2. Lost' = Lost \cup Line(wfd, len[wfd], len[wfd] + 1)
      BY Zenon, <1>1, <3>1, LostGrows DEF Cause
    <3>3. Lines(f)' \subseteq Lines(f) \cup Line(wfd, len[wfd], len[wfd] + 1)
      BY <1>1, <1>2, <2>3 DEF Lines, Line
    <3>4. QED
      BY Zenon, <1>1, <1>3, <2>1, <3>2, <3>3 DEF Settled, agent
  <2>4. QED
    BY Zenon, <2>2, <2>3
<1>6. QED
  BY Zenon, <1>1, <1>3, <1>4, <1>5, OutsideKeeps

\* The lines of a file are among those of its set.
LEMMA LinesOfMember == ASSUME NEW F, NEW f \in F PROVE Lines(f) \subseteq LinesOf(F)
BY Zenon DEF LinesOf

\* A name comes to lead elsewhere: what no globbed name leads to any more is tracked, or
\* given up.
LEMMA OrphanKeeps ==
    ASSUME IInv, UNCHANGED agent, UNCHANGED <<len, used, wfd>>, NEW S \in SUBSET File, Orphan(S),
           at' \in [Name -> File \cup {NoFile}], NamesDistinct',
           \A n \in Globbed : at[n] \in S \cup {at'[m] : m \in Globbed} \cup {NoFile}
    PROVE  IInv'
<1> DEFINE X == LinesOf({f \in S : pc # "down" /\ ~Tracked(f)})
<1>1. Lost' = Lost \cup (X \ (got \cup Lost)) /\ DOMAIN lost' = Cause
  BY Zenon, LostGrows DEF Orphan, IInv, Types, Cause
<1>2. Types'
  BY Zenon, <1>1 DEF IInv, Types, agent
<1>3. Watched'
  <2> SUFFICES ASSUME pc # "down", NEW f \in File, ~Tracked(f), ~\E n \in Globbed : at'[n] = f
               PROVE  Lines(f) \subseteq Settled'
    BY Zenon DEF Watched, agent, Tracked, Lines
  <2>1. CASE f \in S
    <3>1. Lines(f) \subseteq X
      BY Zenon, <2>1, LinesOfMember
    <3> HIDE DEF X
    <3>2. QED
      BY Zenon, <1>1, <3>1 DEF Settled, agent
  <2>2. CASE f \notin S
    <3>1. f # NoFile
      BY Zenon, WatcherAssumption
    <3>2. Lines(f) \subseteq Settled
      BY Zenon, <2>2, <3>1 DEF IInv, Watched
    <3>3. QED
      BY Zenon, <1>1, <3>2 DEF Settled, agent
  <2>3. QED
    BY Zenon, <2>1, <2>2
<1>4. QED
  BY Zenon, <1>1, <1>2, <1>3, OutsideKeeps

\* The log is renamed; the file it replaces loses its last name.
LEMMA RotateKeeps == IInv /\ Rotate => IInv'
<1> SUFFICES ASSUME IInv, Rotate PROVE IInv'
  BY Zenon
<1> DEFINE S == ({at["app"], at["rot"]} \ {NoFile}) \ {at'[n] : n \in Globbed}
<1>1. /\ at \in [Name -> File \cup {NoFile}] /\ at["app"] # NoFile
      /\ at' = [at EXCEPT !["app"] = NoFile, !["rot"] = at["app"]]
      /\ UNCHANGED agent /\ UNCHANGED <<len, used, wfd>> /\ Orphan(S)
  BY Zenon DEF Rotate, IInv, Types
<1>2. at' \in [Name -> File \cup {NoFile}] /\ at'["app"] = NoFile /\ at'["rot"] = at["app"]
  BY Zenon, <1>1 DEF Name
<1>3. NamesDistinct'
  BY Zenon, <1>2 DEF NamesDistinct, Name
<1>4. S \in SUBSET File
  BY Zenon, <1>1 DEF Name
<1>5. \A n \in Globbed : at[n] \in S \cup {at'[m] : m \in Globbed} \cup {NoFile}
  BY Zenon, <1>1, WatcherAssumption DEF Name
<1>6. QED
  BY Zenon, <1>1, <1>2, <1>3, <1>4, <1>5, OrphanKeeps

\* A name is removed.
LEMMA RemoveKeeps == IInv /\ Remove => IInv'
<1> SUFFICES ASSUME IInv, Remove PROVE IInv'
  BY Zenon
<1>1. /\ at \in [Name -> File \cup {NoFile}] /\ at["rot"] # NoFile
      /\ at' = [at EXCEPT !["rot"] = NoFile]
      /\ UNCHANGED agent /\ UNCHANGED <<len, used, wfd>> /\ Orphan({at["rot"]})
  BY Zenon DEF Remove, IInv, Types
<1>2. at' \in [Name -> File \cup {NoFile}] /\ at'["rot"] = NoFile /\ at'["app"] = at["app"]
  BY Zenon, <1>1 DEF Name
<1>3. NamesDistinct'
  BY Zenon, <1>2 DEF NamesDistinct, Name
<1>4. {at["rot"]} \in SUBSET File
  BY Zenon, <1>1 DEF Name
<1>5. \A n \in Globbed : at[n] \in {at["rot"]} \cup {at'[m] : m \in Globbed} \cup {NoFile}
  BY Zenon, <1>1, <1>2, WatcherAssumption DEF Name
<1>6. QED
  BY Zenon, <1>1, <1>2, <1>3, <1>4, <1>5, OrphanKeeps

\* A new log is created, with an inode number that nothing uses.
LEMMA CreateKeeps == IInv /\ Create => IInv'
<1> SUFFICES ASSUME IInv, Create PROVE IInv'
  BY Zenon
<1>1. PICK f \in File \ used : Free(FileId[f]) /\ at' = [at EXCEPT !["app"] = f]
                               /\ used' = used \cup {f}
  BY Zenon DEF Create
<1>2. /\ at \in [Name -> File \cup {NoFile}] /\ at["app"] = NoFile
      /\ UNCHANGED agent /\ UNCHANGED <<len, wfd, lost>>
  BY Zenon DEF Create, IInv, Types
<1>3. at' \in [Name -> File \cup {NoFile}] /\ at'["rot"] = at["rot"] /\ at'["app"] = f
  BY Zenon, <1>1, <1>2 DEF Name
<1>4. at["rot"] # NoFile => FileId[at["rot"]] # FileId[f]
  BY Zenon, <1>1 DEF Free, Name
<1>5. NamesDistinct'
  BY Zenon, <1>3, <1>4 DEF NamesDistinct, Name
<1>6. Types' /\ Lost' = Lost
  BY <1>1, <1>2, <1>3 DEF IInv, Types, agent, Lost
<1>7. \A n \in Globbed : at[n] # NoFile => at'[n] = at[n]
  BY Zenon, <1>1, <1>2, WatcherAssumption DEF Name
<1>8. Watched'
  <2> SUFFICES ASSUME pc # "down", NEW g \in File, ~Tracked(g), ~\E n \in Globbed : at'[n] = g
               PROVE  Lines(g) \subseteq Settled
    BY Zenon, <1>2, <1>6 DEF Watched, agent, Tracked, Lines, Settled
  <2>1. g # NoFile
    BY Zenon, WatcherAssumption
  <2>2. QED
    BY Zenon, <1>7, <2>1 DEF IInv, Watched
<1>9. QED
  BY Zenon, <1>2, <1>5, <1>6, <1>8, OutsideKeeps

\* Whatever happens outside the agent keeps the invariant.
LEMMA EnvironmentKeeps == IInv /\ Environment => IInv'
<1> SUFFICES ASSUME IInv, Environment PROVE IInv'
  BY Zenon
<1>1. CASE Reopen \/ Age
  <2>1. UNCHANGED <<at, len, used, lost, agent>> /\ wfd' \in File
    BY Zenon, <1>1, WatcherAssumption DEF Reopen, Age, IInv, Types, Name
  <2>2. Types' /\ NamesDistinct' /\ Lost' = Lost /\ Watched'
    BY <2>1 DEF IInv, Types, NamesDistinct, agent, Lost, Watched, Tracked, Lines, Settled
  <2>3. QED
    BY Zenon, <2>1, <2>2, OutsideKeeps
<1>2. QED
  BY Zenon, <1>1, AppendKeeps, RotateKeeps, RemoveKeeps, CreateKeeps DEF Environment

-----------------------------------------------------------------------------
(* The tailer *)

\* The file of entry i is tracked after the step, or settled.
NotForgotten(i) ==
    \/ \E j \in DOMAIN files' : files'[j].src = files[i].src
    \/ Lines(files[i].src) \subseteq Settled'

\* What a step of the tailer has to keep.
LEMMA TailerKeeps ==
    ASSUME IInv, UNCHANGED disk, pc' # "down" => pc # "down", Types', SourcesRight', RegIsFree',
           IndexExact', IdsTracked', Settled \subseteq Settled', EntriesBehind',
           CheckpointBehind',
           \A i \in DOMAIN files : NotForgotten(i)
    PROVE  IInv'
<1>1. NamesDistinct'
  BY Zenon DEF IInv, NamesDistinct, disk
<1>2. Watched'
  <2> SUFFICES ASSUME pc # "down", NEW f \in File, ~Tracked(f)', ~\E n \in Globbed : at[n] = f
               PROVE  Lines(f) \subseteq Settled'
    BY Zenon DEF Watched, disk, Lines
  <2>1. CASE Tracked(f)
    BY Zenon, <2>1 DEF Tracked, NotForgotten
  <2>2. CASE ~Tracked(f)
    BY Zenon, <2>2 DEF IInv, Watched
  <2>3. QED
    BY Zenon, <2>1, <2>2
<1>3. QED
  BY Zenon, <1>1, <1>2 DEF IInv

\* The offsets that are saved stay behind.
LEMMA SavedStaysBehind ==
    ASSUME IInv, UNCHANGED saved, Settled \subseteq Settled'
    PROVE  CheckpointBehind' /\ \A p \in DOMAIN saved' : saved'[p].pos \in Nat
BY DEF IInv, Types, CheckpointBehind, Settled, Line

\* save_offsets writes offsets of entries, also when it fails half-way.
LEMMA SavesBehind ==
    ASSUME IInv, SaveOffsets, Settled \subseteq Settled'
    PROVE  CheckpointBehind' /\ \A p \in DOMAIN saved' : saved'[p].pos \in Nat
<1>1. CASE UNCHANGED saved
  BY Zenon, <1>1, SavedStaysBehind
<1>2. CASE ~UNCHANGED saved
  <2>1. \A p \in DOMAIN saved' : \E i \in DOMAIN files :
            saved'[p].pos = files[i].pos /\ saved'[p].src = files[i].src
    BY <1>2 DEF SaveOffsets
  <2>2. \A i \in DOMAIN files : files[i].pos \in Nat
    BY Zenon DEF IInv, Types, EntryType
  <2>3. QED
    BY Zenon, <2>1, <2>2 DEF IInv, EntriesBehind, CheckpointBehind, Settled, Line
<1>3. QED
  BY Zenon, <1>1, <1>2

\* Entry i becomes r.
LEMMA EntryBecomes ==
    ASSUME IInv, NEW i \in DOMAIN files, NEW r \in EntryType, files' = [files EXCEPT ![i] = r],
           FileId[r.src] = i, r.retained_fd # NoFile => r.src = r.retained_fd,
           Settled \subseteq Settled', Line(r.src, 0, r.pos) \subseteq Settled',
           r.src = files[i].src \/ Lines(files[i].src) \subseteq Settled'
    PROVE  /\ DOMAIN files' = DOMAIN files /\ files'[i] = r
           /\ \A j \in DOMAIN files : j # i => files'[j] = files[j]
           /\ \A j \in DOMAIN files' : files'[j] \in EntryType
           /\ SourcesRight' /\ EntriesBehind'
           /\ \A j \in DOMAIN files : NotForgotten(j)
<1>1. /\ DOMAIN files' = DOMAIN files /\ files'[i] = r
      /\ \A j \in DOMAIN files : j # i => files'[j] = files[j]
  BY Zenon
<1>2. \A j \in DOMAIN files' : files'[j] \in EntryType
  BY Zenon, <1>1 DEF IInv, Types
<1>3. SourcesRight'
  BY Zenon, <1>1 DEF IInv, SourcesRight
<1>4. EntriesBehind'
  BY <1>1 DEF IInv, EntriesBehind, Line
<1>5. ASSUME NEW j \in DOMAIN files PROVE NotForgotten(j)
  BY Zenon, <1>1 DEF NotForgotten
<1>6. QED
  BY Zenon, <1>1, <1>2, <1>3, <1>4, <1>5

\* The entries of E go.
LEMMA EntriesGo ==
    ASSUME IInv, NEW E, files' = Without(files, E), Settled \subseteq Settled',
           \A i \in DOMAIN files \cap E : Unread(files[i]) \subseteq Settled'
    PROVE  /\ DOMAIN files' = DOMAIN files \ E
           /\ \A j \in DOMAIN files' : files'[j] = files[j] /\ files'[j] \in EntryType
           /\ SourcesRight' /\ EntriesBehind'
           /\ \A j \in DOMAIN files : NotForgotten(j)
<1>1. DOMAIN files' = DOMAIN files \ E /\ \A j \in DOMAIN files' : files'[j] = files[j]
  BY Zenon DEF Without
<1>2. \A j \in DOMAIN files' : files'[j] \in EntryType
  BY Zenon, <1>1 DEF IInv, Types
<1>3. SourcesRight'
  <2>1. SourcesRight
    BY Zenon DEF IInv
  <2>2. QED
    BY Zenon, <1>1, <2>1 DEF SourcesRight
<1>4. EntriesBehind'
  <2>1. EntriesBehind
    BY Zenon DEF IInv
  <2>2. QED
    BY Zenon, <1>1, <2>1 DEF EntriesBehind, Line
<1>5. ASSUME NEW j \in DOMAIN files PROVE NotForgotten(j)
  <2>1. CASE j \notin E
    BY Zenon, <1>1, <2>1 DEF NotForgotten
  <2>2. CASE j \in E
    <3>1. files[j].pos \in Nat /\ len[files[j].src] \in Nat
      BY Zenon DEF IInv, Types, EntryType
    <3>2. Lines(files[j].src) \subseteq Line(files[j].src, 0, files[j].pos) \cup Unread(files[j])
      BY <3>1 DEF Lines, Line, Unread
    <3>3. Line(files[j].src, 0, files[j].pos) \subseteq Settled
      BY Zenon DEF IInv, EntriesBehind
    <3>4. QED
      BY Zenon, <2>2, <3>2, <3>3 DEF NotForgotten
  <2>3. QED
    BY Zenon, <2>1, <2>2
<1>6. QED
  BY Zenon, <1>1, <1>2, <1>3, <1>4, <1>5

\* Which paths DropIndex leaves, and where they lead.
LEMMA DropIndexIs ==
    ASSUME NEW E
    PROVE  /\ DOMAIN DropIndex(E) =
                  {p \in DOMAIN path_index : ~\E i \in E : files[i].path = p /\ path_index[p] = i}
           /\ \A p \in DOMAIN DropIndex(E) : DropIndex(E)[p] = path_index[p]
BY Zenon DEF DropIndex, Without

\* A pass takes a number of lines.
LEMMA PassIsNat == ASSUME NEW pos \in Nat, NEW l \in Nat, NEW n \in Pass(pos, l) PROVE n \in Nat
BY WatcherAssumption DEF Pass, Smaller

\* What is before an offset after a pass was before it, or was read in the pass.
LEMMA LineSplit ==
    ASSUME NEW f, NEW a \in Nat, NEW n \in Nat
    PROVE  Line(f, 0, a + n) \subseteq Line(f, 0, a) \cup Line(f, a, a + n)
BY DEF Line

\* What an entry knows.
LEMMA EntryFacts ==
    ASSUME IInv, NEW i \in DOMAIN files
    PROVE  /\ files[i] \in EntryType /\ files[i].path \in Name /\ files[i].pos \in Nat
           /\ files[i].open_failures \in Nat /\ files[i].retained_fd \in File \cup {NoFile}
           /\ files[i].src \in File /\ FileId[files[i].src] = i
           /\ files[i].retained_fd # NoFile => files[i].src = files[i].retained_fd
           /\ len[files[i].src] \in Nat /\ at[files[i].path] \in File \cup {NoFile}
           /\ Line(files[i].src, 0, files[i].pos) \subseteq Settled
           /\ files[i].retained_fd = NoFile =>
                 files[i].path \in DOMAIN path_index /\ path_index[files[i].path] = i
<1>1. files[i] \in EntryType
  BY Zenon DEF IInv, Types
<1>2. QED
  BY Zenon, <1>1 DEF IInv, Types, EntryType, SourcesRight, EntriesBehind, IndexExact

\* A step that changes nothing that the invariant is about.
LEMMA QuietKeeps ==
    ASSUME IInv, UNCHANGED <<disk, files, path_index, saved, pc, reg, history>>, IdsTracked'
    PROVE  IInv'
BY DEF IInv, disk, history, Types, SourcesRight, NamesDistinct, RegIsFree, IndexExact, IdsTracked,
   EntriesBehind, Watched, CheckpointBehind, Settled, Lost, Tracked, Lines, Line

\* poll_all skips an inode.
LEMMA SkippedKeeps == ASSUME IInv, NEW i, VisitSkipped(i) PROVE IInv'
BY Zenon, QuietKeeps DEF IInv, IdsTracked, VisitSkipped, Visit

\* What the steps of poll_all for entry i have in common.
LEMMA VisitFacts ==
    ASSUME IInv, NEW i, Visit(i)
    PROVE  /\ i \in DOMAIN files /\ pc = "poll" /\ reg = "none" /\ ids' = ids \ {i}
           /\ UNCHANGED disk /\ UNCHANGED <<saved, pc>>
           /\ ids \subseteq DOMAIN files
BY Zenon DEF Visit, IInv, IdsTracked

\* The lines of a pass are settled.
LEMMA ShipSettles ==
    ASSUME NEW f, NEW a \in Nat, NEW n \in Nat, Ship(f, a, n), Lost \subseteq Lost',
           Line(f, 0, a) \subseteq Settled'
    PROVE  /\ got \subseteq got' /\ Settled \subseteq Settled'
           /\ Line(f, 0, a + n) \subseteq Settled'
<1>1. got' = got \cup Line(f, a, a + n)
  BY Zenon DEF Ship
<1>2. QED
  BY Zenon, <1>1, LineSplit DEF Settled

\* poll_all changes entry i, which keeps its path and what it has open.
LEMMA UpdateKeeps ==
    ASSUME IInv, NEW i, Visit(i), NEW r \in EntryType, files' = [files EXCEPT ![i] = r],
           r.path = files[i].path, r.retained_fd = files[i].retained_fd,
           UNCHANGED <<path_index, reg>>, DOMAIN lost' = Cause,
           FileId[r.src] = i, r.retained_fd # NoFile => r.src = r.retained_fd,
           Settled \subseteq Settled', Line(r.src, 0, r.pos) \subseteq Settled',
           r.src = files[i].src \/ Lines(files[i].src) \subseteq Settled'
    PROVE  IInv'
<1>1. /\ i \in DOMAIN files /\ UNCHANGED <<disk, saved, pc>> /\ ids' \subseteq DOMAIN files
      /\ CheckpointBehind' /\ \A p \in DOMAIN saved' : saved'[p].pos \in Nat
  BY Zenon, VisitFacts, SavedStaysBehind
<1>2. /\ DOMAIN files' = DOMAIN files /\ files'[i] = r
      /\ \A j \in DOMAIN files : j # i => files'[j] = files[j]
      /\ \A j \in DOMAIN files' : files'[j] \in EntryType
      /\ SourcesRight' /\ EntriesBehind' /\ \A j \in DOMAIN files : NotForgotten(j)
  BY Zenon, <1>1, EntryBecomes
<1>3. IndexExact'
  BY <1>2 DEF IInv, IndexExact
<1>4. Types'
  BY Zenon, <1>1, <1>2 DEF IInv, Types, disk
<1>5. RegIsFree' /\ IdsTracked'
  BY Zenon, <1>1, <1>2, VisitFacts DEF IInv, RegIsFree, IdsTracked
<1>6. QED
  BY Zenon, <1>1, <1>2, <1>3, <1>4, <1>5, TailerKeeps

\* A rotated file is drained through its retained descriptor, and let go at its end.
LEMMA RetainedKeeps == ASSUME IInv, NEW i, VisitRetained(i) PROVE IInv'
<1> DEFINE e == files[i]
           f == e.retained_fd
<1>1. Visit(i) /\ f # NoFile /\ UNCHANGED <<reg, lost>>
  BY Zenon DEF VisitRetained
<1>2. PICK n \in Pass(e.pos, len[f]) :
         /\ Ship(f, e.pos, n)
         /\ \/ /\ e.pos + n >= len[f]
               /\ files' = Without(files, {i})
               /\ path_index' = DropIndex({i})
            \/ /\ files' = [files EXCEPT ![i].pos = @ + n]
               /\ UNCHANGED path_index
  BY Zenon DEF VisitRetained
<1>3. /\ i \in DOMAIN files /\ e \in EntryType /\ e.pos \in Nat /\ f = e.src /\ f \in File
      /\ len[f] \in Nat /\ FileId[f] = i /\ Line(f, 0, e.pos) \subseteq Settled
  BY Zenon, <1>1, VisitFacts, EntryFacts
<1>4. n \in Nat
  BY Zenon, <1>2, <1>3, PassIsNat
<1>5. Lost' = Lost
  BY Zenon, <1>1 DEF Lost
<1>6. got \subseteq got' /\ Settled \subseteq Settled' /\ Line(f, 0, e.pos + n) \subseteq Settled'
  <2>1. Line(f, 0, e.pos) \subseteq Settled'
    BY Zenon, <1>2, <1>3, <1>5 DEF Ship, Settled
  <2>2. QED
    BY Zenon, <1>2, <1>3, <1>4, <1>5, <2>1, ShipSettles
<1>7. /\ UNCHANGED <<disk, saved, pc, reg, lost>> /\ ids' \subseteq DOMAIN files \ {i}
      /\ CheckpointBehind' /\ \A p \in DOMAIN saved' : saved'[p].pos \in Nat
  BY Zenon, <1>1, <1>6, VisitFacts, SavedStaysBehind
<1>8. CASE /\ e.pos + n >= len[f] /\ files' = Without(files, {i})
           /\ path_index' = DropIndex({i})
  <2>1. Unread(e) \subseteq Settled'
    BY <1>3, <1>4, <1>6, <1>8 DEF Unread, Line
  <2>0. \A j \in DOMAIN files \cap {i} : Unread(files[j]) \subseteq Settled'
    BY Zenon, <2>1
  <2>2. /\ DOMAIN files' = DOMAIN files \ {i}
        /\ \A j \in DOMAIN files' : files'[j] = files[j] /\ files'[j] \in EntryType
        /\ SourcesRight' /\ EntriesBehind' /\ \A j \in DOMAIN files : NotForgotten(j)
    BY Zenon, <1>6, <1>8, <2>0, EntriesGo
  <2>3. /\ DOMAIN path_index' = DOMAIN path_index
        /\ \A p \in DOMAIN path_index : path_index'[p] = path_index[p]
    <3>1. \A p \in DOMAIN path_index : path_index[p] # i
      BY Zenon, <1>1 DEF IInv, IndexExact
    <3>2. /\ DOMAIN path_index' =
                {p \in DOMAIN path_index : ~\E j \in {i} : files[j].path = p /\ path_index[p] = j}
          /\ \A p \in DOMAIN path_index' : path_index'[p] = path_index[p]
      BY Zenon, <1>8, DropIndexIs
    <3>3. QED
      BY Zenon, <3>1, <3>2
  <2>4. IndexExact'
    BY <1>1, <2>2, <2>3 DEF IInv, IndexExact
  <2>5. Types'
    BY Zenon, <1>7, <2>2, <2>3 DEF IInv, Types, disk
  <2>6. RegIsFree' /\ IdsTracked'
    <3>1. pc = "poll" /\ reg = "none" /\ ids' = ids \ {i} /\ ids \subseteq DOMAIN files
      BY Zenon, <1>1, VisitFacts
    <3>2. QED
      BY Zenon, <1>1, <1>7, <2>2, <3>1 DEF RegIsFree, IdsTracked
  <2>7. QED
    BY Zenon, <1>6, <1>7, <2>2, <2>4, <2>5, <2>6, TailerKeeps
<1>9. CASE files' = [files EXCEPT ![i].pos = @ + n] /\ UNCHANGED path_index
  <2> DEFINE r == [e EXCEPT !.pos = @ + n]
  <2>1. /\ r \in EntryType /\ r.pos = e.pos + n /\ r.src = e.src /\ r.path = e.path
        /\ r.retained_fd = e.retained_fd
    BY <1>3, <1>4 DEF EntryType
  <2>2. files' = [files EXCEPT ![i] = r]
    BY Zenon, <1>9
  <2> HIDE DEF r
  <2>3. DOMAIN lost' = Cause /\ UNCHANGED <<path_index, reg>>
    BY Zenon, <1>7, <1>9 DEF IInv, Types
  <2>4. /\ FileId[r.src] = i /\ (r.retained_fd # NoFile => r.src = r.retained_fd)
        /\ Line(r.src, 0, r.pos) \subseteq Settled' /\ r.src = files[i].src
    BY Zenon, <1>3, <1>6, <2>1
  <2>5. QED
    BY Zenon, <1>1, <1>6, <2>1, <2>2, <2>3, <2>4, UpdateKeeps
<1>10. QED
  BY Zenon, <1>2, <1>8, <1>9

\* A file cannot be opened: the failure is counted.
LEMMA OpenFailedKeeps == ASSUME IInv, NEW i, VisitOpenFailed(i) PROVE IInv'
<1> DEFINE r == [files[i] EXCEPT !.open_failures = @ + 1]
<1>1. Visit(i) /\ files' = [files EXCEPT ![i] = r] /\ UNCHANGED <<path_index, reg, history>>
  BY Zenon DEF VisitOpenFailed
<1>2. /\ i \in DOMAIN files /\ files[i] \in EntryType /\ FileId[files[i].src] = i
      /\ files[i].retained_fd # NoFile => files[i].src = files[i].retained_fd
      /\ Line(files[i].src, 0, files[i].pos) \subseteq Settled
  BY Zenon, <1>1, VisitFacts, EntryFacts
<1>3. /\ r \in EntryType /\ r.pos = files[i].pos /\ r.src = files[i].src
      /\ r.path = files[i].path /\ r.retained_fd = files[i].retained_fd
  BY <1>2 DEF EntryType
<1>4. Settled' = Settled /\ DOMAIN lost' = Cause
  BY Zenon, <1>1 DEF history, Settled, Lost, IInv, Types
<1> HIDE DEF r
<1>5. QED
  BY Zenon, <1>1, <1>2, <1>3, <1>4, UpdateKeeps

\* An entry that meets another file with its inode number gives up what is left of the
\* first, and what is before its offset in the second.
LEMMA MeetsSettles ==
    ASSUME IInv, NEW i \in DOMAIN files, NEW f, NEW a \in Nat, Meets(files[i], f, a),
           got \subseteq got'
    PROVE  /\ Lost \subseteq Lost' /\ DOMAIN lost' = Cause
           /\ f # files[i].src => /\ Line(f, 0, a) \subseteq Settled'
                                  /\ Lines(files[i].src) \subseteq Settled'
<1> DEFINE e == files[i]
<1>1. DOMAIN lost = Cause
  BY Zenon DEF IInv, Types
<1>2. CASE f = e.src
  BY Zenon, <1>1, <1>2 DEF Meets, Lost
<1>3. CASE f # e.src
  <2>1. Lose("reused", Unread(e) \cup Line(f, 0, a)) /\ "reused" \in Cause
    BY Zenon, <1>3 DEF Meets, Cause
  <2>2. /\ Settled' = Settled \cup got' \cup (Unread(e) \cup Line(f, 0, a))
        /\ DOMAIN lost' = Cause
    BY Zenon, <1>1, <2>1, LoseSettles
  <2>3. Lost \subseteq Lost'
    BY Zenon, <1>1, <2>1, LostGrows DEF Lose
  <2>4. Lines(e.src) \subseteq Line(e.src, 0, e.pos) \cup Unread(e)
    <3>1. e.pos \in Nat /\ len[e.src] \in Nat
      BY Zenon, EntryFacts
    <3>2. QED
      BY <3>1 DEF Lines, Line, Unread
  <2>5. Line(e.src, 0, e.pos) \subseteq Settled
    BY Zenon, EntryFacts
  <2>6. QED
    BY Zenon, <2>2, <2>3, <2>4, <2>5
<1>4. QED
  BY Zenon, <1>2, <1>3

\* A file is read through its path.
LEMMA LiveKeeps == ASSUME IInv, NEW i, VisitLive(i) PROVE IInv'
<1> DEFINE e == files[i]
           f == at[e.path]
           pos == ReadFrom(e, f)
<1>1. /\ Visit(i) /\ Live(i) /\ f # NoFile /\ FileId[f] = i /\ Meets(e, f, pos)
      /\ UNCHANGED <<path_index, reg>>
  BY Zenon DEF VisitLive
<1>2. PICK n \in Pass(pos, len[f]) :
         /\ Ship(f, pos, n)
         /\ files' = [files EXCEPT ![i] = [@ EXCEPT !.pos = pos + n, !.src = f,
                         !.open_failures = IF n > 0 THEN 0 ELSE e.open_failures]]
  BY Zenon DEF VisitLive
<1>3. /\ i \in DOMAIN files /\ e \in EntryType /\ e.pos \in Nat /\ e.src \in File
      /\ e.retained_fd = NoFile /\ e.open_failures \in Nat
      /\ f \in File /\ Line(e.src, 0, e.pos) \subseteq Settled
  BY Zenon, <1>1, VisitFacts, EntryFacts DEF Live
<1>4. len[f] \in Nat /\ pos \in Nat /\ pos <= e.pos
  BY <1>3 DEF IInv, Types, ReadFrom
<1> HIDE DEF pos, f
<1>5. n \in Nat
  BY Zenon, <1>2, <1>4, PassIsNat
<1>6. got \subseteq got'
  BY Zenon, <1>2 DEF Ship
<1> DEFINE k == IF n > 0 THEN 0 ELSE e.open_failures
           r == [e EXCEPT !.pos = pos + n, !.src = f, !.open_failures = k]
<1>7. /\ r \in EntryType /\ r.pos = pos + n /\ r.src = f /\ r.path = e.path
      /\ r.retained_fd = e.retained_fd
  <2>1. pos + n \in Nat /\ k \in Nat
    BY <1>3, <1>4, <1>5
  <2> HIDE DEF k, e
  <2>2. QED
    BY Zenon, <1>3, <2>1 DEF EntryType
<1>8. files' = [files EXCEPT ![i] = r]
  BY Zenon, <1>2
<1> HIDE DEF r
<1>9. /\ Lost \subseteq Lost' /\ DOMAIN lost' = Cause
      /\ f # e.src => Line(f, 0, pos) \subseteq Settled' /\ Lines(e.src) \subseteq Settled'
  BY Zenon, <1>1, <1>3, <1>4, <1>6, MeetsSettles
<1>10. Line(f, 0, pos) \subseteq Settled'
  <2>1. CASE f = e.src
    BY <1>3, <1>4, <1>6, <1>9, <2>1 DEF Line, Settled
  <2>2. QED
    BY Zenon, <1>9, <2>1
<1>11. Settled \subseteq Settled' /\ Line(f, 0, pos + n) \subseteq Settled'
  BY Zenon, <1>2, <1>4, <1>5, <1>9, <1>10, ShipSettles
<1>12. QED
  BY Zenon, <1>1, <1>3, <1>7, <1>8, <1>9, <1>11, UpdateKeeps

\* The path of a live entry leads to another file: the path is dropped from the index, and
\* is the one to register.
LEMMA ReplacedFacts ==
    ASSUME IInv, NEW i, Replaced(i)
    PROVE  /\ Visit(i) /\ i \in DOMAIN files /\ files[i].retained_fd = NoFile
           /\ reg' = files[i].path /\ files[i].path \in Name
           /\ files[i].path \in DOMAIN path_index /\ path_index[files[i].path] = i
           /\ got' = got /\ pc' = "poll"
           /\ UNCHANGED <<disk, saved, pc>> /\ ids' \subseteq DOMAIN files \ {i}
<1>1. Visit(i) /\ Live(i) /\ reg' = files[i].path /\ got' = got
  BY Zenon DEF Replaced
<1>2. QED
  BY Zenon, <1>1, VisitFacts, EntryFacts DEF Live

\* The path leads elsewhere and the old file is found: it is kept open.
LEMMA RotatedKeeps == ASSUME IInv, NEW i, VisitRotated(i) PROVE IInv'
<1> DEFINE e == files[i]
<1>1. Replaced(i) /\ path_index' = DropIndex({i})
  BY Zenon DEF VisitRotated
<1>2. PICK n \in FindRotated(i) :
         /\ files' = [files EXCEPT ![i] =
                        [@ EXCEPT !.retained_fd = at[n], !.open_failures = 0, !.src = at[n]]]
         /\ Meets(e, at[n], e.pos)
  BY Zenon DEF VisitRotated
<1>3. /\ i \in DOMAIN files /\ e.retained_fd = NoFile /\ reg' = e.path /\ e.path \in Name
      /\ e.path \in DOMAIN path_index /\ path_index[e.path] = i /\ got' = got /\ pc' = "poll"
      /\ UNCHANGED <<disk, saved, pc>> /\ ids' \subseteq DOMAIN files \ {i}
  BY Zenon, <1>1, ReplacedFacts
<1>4. at[n] \in File /\ at[n] # NoFile /\ FileId[at[n]] = i
  BY Zenon DEF FindRotated, IInv, Types
<1>5. e \in EntryType /\ e.pos \in Nat /\ Line(e.src, 0, e.pos) \subseteq Settled
  BY Zenon, <1>3, EntryFacts
<1> DEFINE r == [e EXCEPT !.retained_fd = at[n], !.open_failures = 0, !.src = at[n]]
<1>6. /\ r \in EntryType /\ r.pos = e.pos /\ r.src = at[n] /\ r.path = e.path
      /\ r.retained_fd = at[n]
  BY Zenon, <1>4, <1>5 DEF EntryType
<1>7. files' = [files EXCEPT ![i] = r]
  BY Zenon, <1>2
<1> HIDE DEF r
<1>8. /\ Lost \subseteq Lost' /\ DOMAIN lost' = Cause
      /\ at[n] # e.src => /\ Line(at[n], 0, e.pos) \subseteq Settled'
                          /\ Lines(e.src) \subseteq Settled'
  BY Zenon, <1>2, <1>3, <1>5, MeetsSettles
<1>9. Settled \subseteq Settled'
  BY Zenon, <1>3, <1>8 DEF Settled
<1>10. /\ FileId[r.src] = i /\ (r.retained_fd # NoFile => r.src = r.retained_fd)
       /\ Line(r.src, 0, r.pos) \subseteq Settled'
       /\ r.src = e.src \/ Lines(e.src) \subseteq Settled'
  BY Zenon, <1>4, <1>5, <1>6, <1>8, <1>9
<1>11. /\ DOMAIN files' = DOMAIN files /\ files'[i] = r
       /\ \A j \in DOMAIN files : j # i => files'[j] = files[j]
       /\ \A j \in DOMAIN files' : files'[j] \in EntryType
       /\ SourcesRight' /\ EntriesBehind' /\ \A j \in DOMAIN files : NotForgotten(j)
  BY Zenon, <1>3, <1>6, <1>7, <1>9, <1>10, EntryBecomes
<1>12. /\ DOMAIN path_index' = DOMAIN path_index \ {e.path}
       /\ \A p \in DOMAIN path_index' : path_index'[p] = path_index[p]
  <2>1. /\ DOMAIN path_index' =
                {p \in DOMAIN path_index : ~\E j \in {i} : files[j].path = p /\ path_index[p] = j}
        /\ \A p \in DOMAIN path_index' : path_index'[p] = path_index[p]
    BY Zenon, <1>1, DropIndexIs
  <2>2. QED
    BY Zenon, <1>3, <2>1
<1>13. IndexExact'
  BY <1>3, <1>4, <1>6, <1>11, <1>12 DEF IInv, IndexExact
<1>14. CheckpointBehind' /\ \A p \in DOMAIN saved' : saved'[p].pos \in Nat
  BY Zenon, <1>3, <1>9, SavedStaysBehind
<1>15. Types'
  <2>1. DOMAIN path_index' \subseteq Name
    BY Zenon, <1>12 DEF IInv, Types
  <2>2. QED
    BY Zenon, <1>3, <1>8, <1>11, <1>14, <2>1, TypesKept
<1>16. RegIsFree' /\ IdsTracked'
  BY Zenon, <1>3, <1>11, <1>12 DEF RegIsFree, IdsTracked
<1>17. QED
  BY Zenon, <1>3, <1>9, <1>11, <1>13, <1>14, <1>15, <1>16, TailerKeeps

\* The path leads elsewhere and the old file is not found: its entry goes.
LEMMA RotatedLostKeeps == ASSUME IInv, NEW i, VisitRotatedLost(i) PROVE IInv'
<1> DEFINE e == files[i]
<1>1. /\ Replaced(i) /\ files' = Without(files, {i})
      /\ path_index' = Without(path_index, {e.path})
      /\ Lose("vanished", Unread(e)) /\ "vanished" \in Cause
  BY Zenon DEF VisitRotatedLost, Cause
<1>2. /\ i \in DOMAIN files /\ e.retained_fd = NoFile /\ reg' = e.path /\ e.path \in Name
      /\ e.path \in DOMAIN path_index /\ path_index[e.path] = i /\ got' = got /\ pc' = "poll"
      /\ UNCHANGED <<disk, saved, pc>> /\ ids' \subseteq DOMAIN files \ {i}
  BY Zenon, <1>1, ReplacedFacts
<1>3. Settled' = Settled \cup got' \cup Unread(e) /\ DOMAIN lost' = Cause
  <2>1. DOMAIN lost = Cause
    BY Zenon DEF IInv, Types
  <2>2. QED
    BY Zenon, <1>1, <1>2, <2>1, LoseSettles
<1>4. /\ Settled \subseteq Settled'
      /\ \A j \in DOMAIN files \cap {i} : Unread(files[j]) \subseteq Settled'
  BY Zenon, <1>3
<1>5. /\ DOMAIN files' = DOMAIN files \ {i}
      /\ \A j \in DOMAIN files' : files'[j] = files[j] /\ files'[j] \in EntryType
      /\ SourcesRight' /\ EntriesBehind' /\ \A j \in DOMAIN files : NotForgotten(j)
  BY Zenon, <1>1, <1>4, EntriesGo
<1>6. /\ DOMAIN path_index' = DOMAIN path_index \ {e.path}
      /\ \A p \in DOMAIN path_index' : path_index'[p] = path_index[p]
  BY Zenon, <1>1 DEF Without
<1>7. IndexExact'
  BY <1>2, <1>5, <1>6 DEF IInv, IndexExact
<1>8. CheckpointBehind' /\ \A p \in DOMAIN saved' : saved'[p].pos \in Nat
  BY Zenon, <1>2, <1>4, SavedStaysBehind
<1>9. Types' /\ RegIsFree' /\ IdsTracked'
  BY Zenon, <1>2, <1>3, <1>5, <1>6, <1>8 DEF IInv, Types, RegIsFree, IdsTracked, disk
<1>10. QED
  BY Zenon, <1>2, <1>4, <1>5, <1>7, <1>8, <1>9, TailerKeeps

-----------------------------------------------------------------------------
(* Entries are made. *)

\* New entries, and the paths that lead to them.
Fresh(new, idx) ==
    /\ \A i \in DOMAIN new :
          /\ new[i] \in EntryType /\ FileId[new[i].src] = i /\ new[i].retained_fd = NoFile
          /\ new[i].path \in DOMAIN idx /\ idx[new[i].path] = i
          /\ Line(new[i].src, 0, new[i].pos) \subseteq Settled'
    /\ \A p \in DOMAIN idx : p \in Name /\ idx[p] \in DOMAIN new /\ new[idx[p]].path = p

\* The maps come with entries for inodes and with paths that had none.
LEMMA EntriesCome ==
    ASSUME IInv, UNCHANGED disk, UNCHANGED <<saved, pc, ids>>, reg' = "none",
           DOMAIN lost' = Cause, Settled \subseteq Settled',
           NEW new, NEW idx, Fresh(new, idx),
           files' = Insert(new, files), path_index' = Insert(idx, path_index),
           DOMAIN new \cap DOMAIN files = {}, DOMAIN idx \cap DOMAIN path_index = {}
    PROVE  IInv'
<1>1. /\ DOMAIN files' = DOMAIN new \cup DOMAIN files
      /\ \A i \in DOMAIN new : files'[i] = new[i]
      /\ \A i \in DOMAIN files : i \notin DOMAIN new /\ files'[i] = files[i]
  <2>1. \A i \in DOMAIN files : i \notin DOMAIN new
    BY Zenon
  <2>2. QED
    BY Zenon, <2>1 DEF Insert
<1>2. /\ DOMAIN path_index' = DOMAIN idx \cup DOMAIN path_index
      /\ \A p \in DOMAIN idx : path_index'[p] = idx[p]
      /\ \A p \in DOMAIN path_index : p \notin DOMAIN idx /\ path_index'[p] = path_index[p]
  <2>1. \A i \in DOMAIN path_index : i \notin DOMAIN idx
    BY Zenon
  <2>2. QED
    BY Zenon, <2>1 DEF Insert
<1>3. CheckpointBehind' /\ \A p \in DOMAIN saved' : saved'[p].pos \in Nat
  BY Zenon, SavedStaysBehind
<1>4. Types'
  <2>1. \A i \in DOMAIN files' : files'[i] \in EntryType
    BY Zenon, <1>1 DEF IInv, Types, Fresh
  <2>2. DOMAIN path_index' \subseteq Name
    BY Zenon, <1>2 DEF IInv, Types, Fresh
  <2>3. QED
    BY Zenon, <1>3, <2>1, <2>2, TypesKept
<1>5. RegIsFree' /\ IdsTracked'
  BY Zenon, <1>1 DEF IInv, RegIsFree, IdsTracked
<1>6. IndexExact'
  BY <1>1, <1>2 DEF IInv, IndexExact, Fresh
<1>7. SourcesRight'
  BY <1>1 DEF IInv, SourcesRight, Fresh
<1>8. EntriesBehind'
  <2> SUFFICES ASSUME NEW i \in DOMAIN files'
               PROVE  Line(files'[i].src, 0, files'[i].pos) \subseteq Settled'
    BY Zenon DEF EntriesBehind, Line
  <2>1. CASE i \in DOMAIN new
    BY Zenon, <1>1, <2>1 DEF Fresh
  <2>2. CASE i \in DOMAIN files
    BY Zenon, <1>1, <2>2, EntryFacts
  <2>3. QED
    BY Zenon, <1>1, <2>1, <2>2
<1>9. \A j \in DOMAIN files : NotForgotten(j)
  BY Zenon, <1>1 DEF NotForgotten
<1>10. QED
  BY Zenon, <1>3, <1>4, <1>5, <1>6, <1>7, <1>8, <1>9, TailerKeeps

\* The path of a rotated file is registered again.
LEMMA RegisterKeeps == ASSUME IInv, Register PROVE IInv'
<1> DEFINE f == at[reg]
           new == [i \in {FileId[f]} |-> Entry(reg, 0, f)]
           idx == [p \in {reg} |-> FileId[f]]
<1>1. /\ pc = "poll" /\ reg # "none" /\ reg' = "none"
      /\ UNCHANGED disk /\ UNCHANGED <<saved, pc, ids>> /\ UNCHANGED history
  BY Zenon DEF Register
<1>2. reg \in Name /\ f \in File \cup {NoFile} /\ reg \notin DOMAIN path_index
  BY Zenon, <1>1 DEF IInv, Types, RegIsFree
<1>3. Settled' = Settled /\ DOMAIN lost' = Cause /\ DOMAIN lost = Cause
  BY Zenon, <1>1 DEF history, Settled, Lost, IInv, Types
<1>4. CASE UNCHANGED <<files, path_index>>
  <2>1. Types' /\ RegIsFree' /\ IdsTracked'
    BY Zenon, <1>1, <1>3, <1>4 DEF IInv, Types, RegIsFree, IdsTracked, disk
  <2>2. SourcesRight' /\ IndexExact'
    BY Zenon, <1>4 DEF IInv, SourcesRight, IndexExact
  <2>3. EntriesBehind' /\ CheckpointBehind' /\ \A j \in DOMAIN files : NotForgotten(j)
    BY <1>1, <1>3, <1>4 DEF IInv, EntriesBehind, CheckpointBehind, Line, NotForgotten, Settled
  <2>4. QED
    BY Zenon, <1>1, <1>3, <2>1, <2>2, <2>3, TailerKeeps
<1>5. CASE /\ f # NoFile /\ FileId[f] \notin DOMAIN files
           /\ files' = Insert(new, files) /\ path_index' = Insert(idx, path_index)
  <2>1. /\ Entry(reg, 0, f) \in EntryType /\ Entry(reg, 0, f).path = reg
        /\ Entry(reg, 0, f).pos = 0 /\ Entry(reg, 0, f).src = f
        /\ Entry(reg, 0, f).retained_fd = NoFile
    BY <1>2, <1>5, EntryTyped DEF IInv
  <2>2. Line(f, 0, 0) \subseteq Settled'
    BY DEF Line
  <2>3. /\ DOMAIN new \cap DOMAIN files = {} /\ DOMAIN idx \cap DOMAIN path_index = {}
        /\ Fresh(new, idx)
    BY Zenon, <1>2, <1>5, <2>1, <2>2 DEF Fresh
  <2> HIDE DEF new, idx
  <2>4. QED
    BY Zenon, <1>1, <1>3, <1>5, <2>3, EntriesCome
<1>6. QED
  BY Zenon, <1>4, <1>5 DEF Register, FromStart

\* With one path for each inode, a path is found by the inode.
LEMMA PathFound ==
    ASSUME IInv, NEW P \in SUBSET Name, \A q \in P : at[q] # NoFile
    PROVE  \A p \in P : (CHOOSE q \in P : FileId[at[q]] = FileId[at[p]]) = p
<1> SUFFICES ASSUME NEW p \in P
             PROVE  (CHOOSE q \in P : FileId[at[q]] = FileId[at[p]]) = p
  BY Zenon
<1>1. \A q \in P : FileId[at[q]] = FileId[at[p]] => q = p
  BY Zenon DEF IInv, NamesDistinct
<1>2. QED
  BY Zenon, <1>1

\* rescan_globs adds the files that no entry is about.
LEMMA RescanKeeps == ASSUME IInv, Rescan PROVE IInv'
<1> DEFINE P == {p \in Found(Globbed \ DOMAIN path_index) : at[p] \notin aged}
           Ids == {FileId[at[p]] : p \in P}
           PathOf(i) == CHOOSE p \in P : FileId[at[p]] = i
           new == [i \in Ids |-> Entry(PathOf(i), len[at[PathOf(i)]], at[PathOf(i)])]
           idx == [p \in P |-> FileId[at[p]]]
<1>1. /\ pc = "idle" /\ UNCHANGED disk /\ UNCHANGED <<saved, pc, ids>> /\ reg' = reg /\ got' = got
      /\ files' = Insert(new, files) /\ path_index' = Insert(idx, path_index)
      /\ Lose("discovery", LinesOf({at[p] : p \in P})) /\ "discovery" \in Cause
  BY Zenon DEF Rescan, Cause
<1>2. /\ P \in SUBSET Name /\ \A p \in P : /\ at[p] # NoFile /\ at[p] \in File
                                           /\ FileId[at[p]] \notin DOMAIN files
                                           /\ p \notin DOMAIN path_index
  BY Zenon, WatcherAssumption DEF Found, IInv, Types
<1> HIDE DEF P, new, idx
<1>3. \A p \in P : PathOf(FileId[at[p]]) = p
  BY Zenon, <1>2, PathFound
<1> HIDE DEF PathOf
<1>4. /\ DOMAIN lost' = Cause /\ Settled \subseteq Settled'
      /\ \A p \in P : Lines(at[p]) \subseteq Settled'
  <2>1. DOMAIN lost = Cause
    BY Zenon DEF IInv, Types
  <2>2. Settled' = Settled \cup got' \cup LinesOf({at[p] : p \in P}) /\ DOMAIN lost' = Cause
    BY Zenon, <1>1, <2>1, LoseSettles
  <2>3. \A p \in P : Lines(at[p]) \subseteq LinesOf({at[q] : q \in P})
    BY Zenon, LinesOfMember
  <2>4. QED
    BY Zenon, <2>2, <2>3
<1>5. reg' = "none"
  BY Zenon, <1>1 DEF IInv, RegIsFree
<1>6. /\ DOMAIN new = Ids /\ DOMAIN idx = P /\ \A p \in P : idx[p] = FileId[at[p]]
      /\ \A p \in P : new[FileId[at[p]]] = Entry(p, len[at[p]], at[p])
  BY Zenon, <1>3 DEF new, idx
<1>7. \A p \in P : LET e == Entry(p, len[at[p]], at[p]) IN
          /\ e \in EntryType /\ e.path = p /\ e.pos = len[at[p]] /\ e.src = at[p]
          /\ e.retained_fd = NoFile
  <2> SUFFICES ASSUME NEW p \in P
               PROVE LET e == Entry(p, len[at[p]], at[p]) IN
                     /\ e \in EntryType /\ e.path = p /\ e.pos = len[at[p]] /\ e.src = at[p]
                     /\ e.retained_fd = NoFile
    BY Zenon
  <2>1. p \in Name /\ at[p] \in File /\ len[at[p]] \in Nat
    BY Zenon, <1>2, LengthIsNat
  <2>2. QED
    BY <2>1, EntryTyped DEF IInv
<1>8. DOMAIN new \cap DOMAIN files = {} /\ DOMAIN idx \cap DOMAIN path_index = {}
  BY <1>2, <1>6
<1>9. Fresh(new, idx)
  BY <1>2, <1>4, <1>6, <1>7 DEF Lines, Fresh
<1>10. QED
  BY Zenon, <1>1, <1>4, <1>5, <1>8, <1>9, EntriesCome

-----------------------------------------------------------------------------
(* The rest of the loop. *)

\* A poll starts.
LEMMA StartPollKeeps == ASSUME IInv, NEW a, StartPoll(a) PROVE IInv'
<1>1. /\ pc = "idle" /\ pc' = "poll" /\ ids' = DOMAIN files /\ UNCHANGED disk
      /\ UNCHANGED <<files, path_index, saved, reg>> /\ UNCHANGED history
  BY Zenon DEF StartPoll, PollIds
<1>2. Settled' = Settled /\ DOMAIN lost' = DOMAIN lost
  BY Zenon, <1>1 DEF history, Settled, Lost
<1>3. Types' /\ RegIsFree' /\ IdsTracked'
  BY Zenon, <1>1, <1>2 DEF IInv, Types, RegIsFree, IdsTracked, disk
<1>4. SourcesRight' /\ IndexExact'
  BY Zenon, <1>1 DEF IInv, SourcesRight, IndexExact
<1>5. EntriesBehind' /\ CheckpointBehind' /\ \A j \in DOMAIN files : NotForgotten(j)
  BY <1>1, <1>2 DEF IInv, EntriesBehind, CheckpointBehind, Line, NotForgotten, Settled
<1>6. QED
  BY Zenon, <1>1, <1>2, <1>3, <1>4, <1>5, TailerKeeps

\* The offsets are saved between two polls.
LEMMA SaveTickKeeps == ASSUME IInv, SaveTick PROVE IInv'
<1>1. /\ SaveOffsets /\ UNCHANGED disk /\ UNCHANGED <<files, path_index, pc, ids, reg>>
      /\ UNCHANGED history
  BY Zenon DEF SaveTick
<1>2. Settled' = Settled /\ DOMAIN lost' = DOMAIN lost
  BY Zenon, <1>1 DEF history, Settled, Lost
<1>3. CheckpointBehind' /\ \A p \in DOMAIN saved' : saved'[p].pos \in Nat
  BY Zenon, <1>1, <1>2, SavesBehind
<1>4. Types' /\ RegIsFree' /\ IdsTracked'
  BY Zenon, <1>1, <1>2, <1>3 DEF IInv, Types, RegIsFree, IdsTracked, disk
<1>5. SourcesRight' /\ IndexExact'
  BY Zenon, <1>1 DEF IInv, SourcesRight, IndexExact
<1>6. EntriesBehind' /\ \A j \in DOMAIN files : NotForgotten(j)
  BY Zenon, <1>1, <1>2 DEF IInv, EntriesBehind, Line, NotForgotten, Settled
<1>7. QED
  BY Zenon, <1>1, <1>2, <1>3, <1>4, <1>5, <1>6, TailerKeeps

\* A poll ends: stale entries go and the offsets may be saved.
LEMMA EndPollKeeps == ASSUME IInv, NEW save, EndPoll(save) PROVE IInv'
<1> DEFINE E == Evictable
           X == UNION {Unread(files[i]) : i \in E}
<1>1. /\ pc = "poll" /\ ids = {} /\ reg = "none" /\ pc' = "idle" /\ got' = got
      /\ UNCHANGED disk /\ UNCHANGED <<ids, reg>>
      /\ files' = Without(files, E) /\ path_index' = DropIndex(E)
      /\ Lose("evicted", X) /\ "evicted" \in Cause
      /\ SaveOffsets \/ UNCHANGED saved
  BY Zenon DEF EndPoll, Cause
<1> HIDE DEF E
<1>2. Settled' = Settled \cup got' \cup X /\ DOMAIN lost' = Cause
  <2>1. DOMAIN lost = Cause
    BY Zenon DEF IInv, Types
  <2>2. QED
    BY Zenon, <1>1, <2>1, LoseSettles
<1>3. /\ Settled \subseteq Settled'
      /\ \A j \in DOMAIN files \cap E : Unread(files[j]) \subseteq Settled'
  BY Zenon, <1>2
<1>4. /\ DOMAIN files' = DOMAIN files \ E
      /\ \A j \in DOMAIN files' : files'[j] = files[j] /\ files'[j] \in EntryType
      /\ SourcesRight' /\ EntriesBehind' /\ \A j \in DOMAIN files : NotForgotten(j)
  BY Zenon, <1>1, <1>3, EntriesGo
<1>5. /\ DOMAIN path_index' =
             {p \in DOMAIN path_index : ~\E j \in E : files[j].path = p /\ path_index[p] = j}
      /\ \A p \in DOMAIN path_index' : path_index'[p] = path_index[p]
  BY Zenon, <1>1, DropIndexIs
<1>6. IndexExact'
  BY <1>4, <1>5 DEF IInv, IndexExact
<1>7. CheckpointBehind' /\ \A p \in DOMAIN saved' : saved'[p].pos \in Nat
  BY Zenon, <1>1, <1>3, SavesBehind, SavedStaysBehind
<1>8. Types'
  <2>1. DOMAIN path_index' \subseteq Name
    BY Zenon, <1>5 DEF IInv, Types
  <2>2. QED
    BY Zenon, <1>1, <1>2, <1>4, <1>7, <2>1 DEF IInv, Types, disk
<1>9. RegIsFree' /\ IdsTracked'
  BY Zenon, <1>1 DEF RegIsFree, IdsTracked
<1>10. QED
  BY Zenon, <1>1, <1>3, <1>4, <1>6, <1>7, <1>8, <1>9, TailerKeeps

\* The process ends, by Stop or by Crash.
LEMMA ExitKeeps == ASSUME IInv, Exit, SaveOffsets \/ UNCHANGED saved PROVE IInv'
<1>1. /\ pc' = "down" /\ ids' = {} /\ reg' = "none" /\ UNCHANGED disk /\ UNCHANGED history
      /\ files' = <<>> /\ path_index' = <<>>
  BY Zenon DEF Exit
<1>2. Settled' = Settled /\ DOMAIN lost' = DOMAIN lost
  BY Zenon, <1>1 DEF history, Settled, Lost
<1>3. CheckpointBehind' /\ \A p \in DOMAIN saved' : saved'[p].pos \in Nat
  BY Zenon, <1>2, SavesBehind, SavedStaysBehind
<1>4. DOMAIN files' = {} /\ DOMAIN path_index' = {}
  BY <1>1
<1>5. Types' /\ RegIsFree' /\ IdsTracked'
  <2>1. DOMAIN lost' = Cause
    BY Zenon, <1>2 DEF IInv, Types
  <2>2. Types'
    BY Zenon, <1>1, <1>3, <1>4, <2>1, TypesKept
  <2>3. QED
    BY Zenon, <1>1, <2>2 DEF RegIsFree, IdsTracked
<1>6. SourcesRight' /\ IndexExact' /\ EntriesBehind' /\ Watched'
  BY Zenon, <1>1, <1>4 DEF SourcesRight, IndexExact, EntriesBehind, Watched
<1>7. NamesDistinct'
  BY Zenon, <1>1 DEF IInv, NamesDistinct, disk
<1>8. QED
  BY Zenon, <1>3, <1>5, <1>6, <1>7 DEF IInv

\* The agent starts again: entries are made from the saved offsets.
LEMMA StartKeeps == ASSUME IInv, Start PROVE IInv'
<1> DEFINE P == {p \in Found(Globbed) : HasCheckpoint(p) \/ at[p] \notin aged}
           Ids == {FileId[at[p]] : p \in P}
           PathOf(i) == CHOOSE p \in P : FileId[at[p]] = i
           X == UNION {Unread(files'[i]) : i \in Ids}
<1>1. /\ pc = "down" /\ pc' = "idle" /\ UNCHANGED disk /\ UNCHANGED <<saved, ids, reg>>
      /\ got' = got
      /\ files' = [i \in Ids |-> Entry(PathOf(i), ResumeAt(PathOf(i)), at[PathOf(i)])]
      /\ path_index' = [p \in P |-> FileId[at[p]]]
      /\ Lose("restart", LinesOf(File) \ X) /\ "restart" \in Cause
  BY Zenon DEF Start, Cause
<1>2. P \in SUBSET Name /\ \A p \in P : at[p] # NoFile /\ at[p] \in File
  BY Zenon, WatcherAssumption DEF Found, IInv, Types
<1>3. \A p \in P : PathOf(FileId[at[p]]) = p
  <2> HIDE DEF P
  <2>1. QED
    BY Zenon, <1>2, PathFound
<1>4. Settled' = Settled \cup got' \cup (LinesOf(File) \ X) /\ DOMAIN lost' = Cause
  <2> HIDE DEF X
  <2>1. DOMAIN lost = Cause
    BY Zenon DEF IInv, Types
  <2>2. QED
    BY Zenon, <1>1, <2>1, LoseSettles
<1>5. ids' = {} /\ reg' = "none"
  BY Zenon, <1>1 DEF IInv, IdsTracked, RegIsFree
<1> HIDE DEF P
<1>6. /\ DOMAIN files' = Ids /\ DOMAIN path_index' = P
      /\ \A p \in P : path_index'[p] = FileId[at[p]]
      /\ \A p \in P : files'[FileId[at[p]]] = Entry(p, ResumeAt(p), at[p])
  BY Zenon, <1>1, <1>3
<1> HIDE DEF PathOf
<1>7. \A p \in P : ResumeAt(p) \in Nat /\ ResumeAt(p) <= len[at[p]] /\ len[at[p]] \in Nat
  <2> SUFFICES ASSUME NEW p \in P
               PROVE  ResumeAt(p) \in Nat /\ ResumeAt(p) <= len[at[p]] /\ len[at[p]] \in Nat
    BY Zenon
  <2>1. len[at[p]] \in Nat
    BY Zenon, <1>2 DEF IInv, Types
  <2>2. CASE HasCheckpoint(p)
    <3>1. saved[p].pos \in Nat
      BY Zenon, <2>2 DEF HasCheckpoint, IInv, Types
    <3>2. QED
      BY <2>1, <2>2, <3>1 DEF ResumeAt, Smaller
  <2>3. CASE ~HasCheckpoint(p)
    BY <2>1, <2>3 DEF ResumeAt
  <2>4. QED
    BY Zenon, <2>2, <2>3
<1>8. \A p \in P :
          /\ files'[FileId[at[p]]] \in EntryType /\ files'[FileId[at[p]]].path = p
          /\ files'[FileId[at[p]]].pos = ResumeAt(p) /\ files'[FileId[at[p]]].src = at[p]
          /\ files'[FileId[at[p]]].retained_fd = NoFile
  <2> SUFFICES ASSUME NEW p \in P
               PROVE  /\ files'[FileId[at[p]]] \in EntryType /\ files'[FileId[at[p]]].path = p
                      /\ files'[FileId[at[p]]].pos = ResumeAt(p)
                      /\ files'[FileId[at[p]]].src = at[p]
                      /\ files'[FileId[at[p]]].retained_fd = NoFile
    BY Zenon
  <2>1. p \in Name /\ at[p] \in File /\ ResumeAt(p) \in Nat /\ Types
    BY Zenon, <1>2, <1>7 DEF IInv
  <2>2. QED
    BY <1>6, <2>1, EntryTyped
<1>9. \A p \in P : \A x : x \in Unread(files'[FileId[at[p]]]) <=>
          \E k \in Nat : ResumeAt(p) < k /\ k <= len[at[p]] /\ x = <<at[p], k>>
  <2> SUFFICES ASSUME NEW p \in P, NEW x
               PROVE  x \in Unread(files'[FileId[at[p]]]) <=>
                        \E k \in Nat : ResumeAt(p) < k /\ k <= len[at[p]] /\ x = <<at[p], k>>
    BY Zenon
  <2>1. Unread(files'[FileId[at[p]]]) = Line(at[p], ResumeAt(p), len[at[p]])
    BY Zenon, <1>8 DEF Unread
  <2>2. QED
    BY <1>7, <2>1, LineMember
<1>10. \A f \in File, k \in Nat : 0 < k /\ k <= len[f] /\ <<f, k>> \notin Settled' =>
           \E p \in P : at[p] = f /\ ResumeAt(p) < k
  <2> SUFFICES ASSUME NEW f \in File, NEW k \in Nat, 0 < k, k <= len[f], <<f, k>> \notin Settled'
               PROVE  \E p \in P : at[p] = f /\ ResumeAt(p) < k
    BY Zenon
  <2>1. <<f, k>> \in LinesOf(File)
    <3>1. len[f] \in Nat
      BY Zenon DEF IInv, Types
    <3>2. <<f, k>> \in Lines(f)
      BY Zenon, <3>1, LineMember DEF Lines
    <3>3. QED
      BY Zenon, <3>2, LinesOfMember
  <2>2. <<f, k>> \in X
    BY Zenon, <1>4, <2>1
  <2>3. PICK p \in P : <<f, k>> \in Unread(files'[FileId[at[p]]])
    BY Zenon, <2>2
  <2>4. QED
    BY <1>9, <2>3
<1> HIDE DEF X
<1>11. Settled \subseteq Settled'
  BY Zenon, <1>4
<1>12. CheckpointBehind' /\ \A p \in DOMAIN saved' : saved'[p].pos \in Nat
  BY Zenon, <1>1, <1>11, SavedStaysBehind
<1>13. Types'
  <2>1. \A i \in DOMAIN files' : files'[i] \in EntryType
    BY Zenon, <1>6, <1>8
  <2>2. DOMAIN path_index' \subseteq Name
    BY Zenon, <1>2, <1>6
  <2>3. QED
    BY Zenon, <1>1, <1>4, <1>5, <1>12, <2>1, <2>2, TypesKept
<1>14. SourcesRight' /\ IndexExact' /\ RegIsFree' /\ IdsTracked'
  <2>1. SourcesRight'
    BY <1>6, <1>8 DEF SourcesRight
  <2>2. IndexExact'
    BY <1>6, <1>8 DEF IndexExact
  <2>3. QED
    BY Zenon, <1>5, <2>1, <2>2 DEF RegIsFree, IdsTracked
<1>15. EntriesBehind'
  <2> SUFFICES ASSUME NEW p \in P, NEW x \in Line(at[p], 0, ResumeAt(p))
               PROVE  x \in Settled'
    BY <1>6, <1>8 DEF EntriesBehind, Line, Settled
  <2>1. PICK k \in Nat : 0 < k /\ k <= ResumeAt(p) /\ x = <<at[p], k>>
    BY <1>7, LineMember
  <2>2. \A q \in P : at[q] = at[p] => q = p
    BY Zenon, <1>3
  <2>3. k <= len[at[p]] /\ at[p] \in File
    BY <1>2, <1>7, <2>1
  <2>4. QED
    BY <1>7, <1>10, <2>1, <2>2, <2>3
<1>16. Watched'
  <2> SUFFICES ASSUME NEW f \in File, ~\E p \in P : at[p] = f, NEW x \in Lines(f)
               PROVE  x \in Settled'
    <3>1. \A f \in File : (\E p \in P : at[p] = f) => Tracked(f)'
      BY <1>6, <1>8 DEF Tracked
    <3>2. \A f \in File : Lines(f)' = Lines(f)
      BY Zenon, <1>1 DEF disk, Lines
    <3>3. QED
      BY Zenon, <3>1, <3>2 DEF Watched
  <2>1. len[f] \in Nat
    BY Zenon DEF IInv, Types
  <2>2. PICK k \in Nat : 0 < k /\ k <= len[f] /\ x = <<f, k>>
    BY <2>1, LineMember DEF Lines
  <2>3. QED
    BY Zenon, <1>10, <2>2
<1>17. NamesDistinct'
  BY Zenon, <1>1 DEF IInv, NamesDistinct, disk
<1>18. QED
  BY Zenon, <1>12, <1>13, <1>14, <1>15, <1>16, <1>17 DEF IInv

-----------------------------------------------------------------------------
\* Every step keeps the invariant.
LEMMA NextIInv == IInv /\ [Next]_vars => IInv'
<1> SUFFICES ASSUME IInv, [Next]_vars PROVE IInv'
  BY Zenon
<1>1. CASE Environment
  BY Zenon, <1>1, EnvironmentKeeps
<1>2. CASE \E a \in {"poll", "cancel"} : StartPoll(a)
  BY Zenon, <1>2, StartPollKeeps
<1>3. CASE Polling
  BY Zenon, <1>3, SkippedKeeps, RetainedKeeps, OpenFailedKeeps, RotatedKeeps, RotatedLostKeeps,
     LiveKeeps DEF Polling
<1>4. CASE Register
  BY Zenon, <1>4, RegisterKeeps
<1>5. CASE \E save \in BOOLEAN : EndPoll(save)
  BY Zenon, <1>5, EndPollKeeps
<1>6. CASE SaveTick
  BY Zenon, <1>6, SaveTickKeeps
<1>7. CASE Rescan
  BY Zenon, <1>7, RescanKeeps
<1>8. CASE Stop
  BY Zenon, <1>8, ExitKeeps DEF Stop
<1>9. CASE Crash
  BY Zenon, <1>9, ExitKeeps DEF Crash
<1>10. CASE Start
  BY Zenon, <1>10, StartKeeps
<1>11. CASE UNCHANGED vars
  <2>1. IdsTracked'
    BY Zenon, <1>11 DEF vars, IInv, IdsTracked
  <2>2. QED
    BY Zenon, <1>11, <2>1, QuietKeeps DEF vars
<1>12. QED
  BY Zenon, <1>1, <1>2, <1>3, <1>4, <1>5, <1>6, <1>7, <1>8, <1>9, <1>10, <1>11 DEF Next

\* The invariant holds throughout.
LEMMA Inductive == Spec => []IInv
BY InitIInv, NextIInv, PTL DEF Spec

\* path_index and files agree, whatever was rotated, removed, evicted, registered
\* or reloaded: a path leads to an entry for it, and an entry that is not draining
\* is the one its path leads to.
THEOREM IndexAgrees == Spec => []IndexExact
<1>1. IInv => IndexExact
  BY Zenon DEF IInv
<1>2. QED
  BY <1>1, Inductive, PTL

\* save_offsets never writes an offset that is ahead of what the SDK accepted or a
\* step gave up: a restart from the file skips nothing in silence.
THEOREM OffsetsBehind == Spec => []CheckpointBehind
<1>1. IInv => CheckpointBehind
  BY Zenon DEF IInv
<1>2. QED
  BY <1>1, Inductive, PTL

\* While the agent runs, each line that was ever written was accepted, is ahead of
\* an entry's offset, is in a file that the next rescan finds, or was given up by
\* one of the steps that Cause names.
THEOREM NothingUnnoticed == Spec => []Accounted
<1>1. IInv => Accounted
  <2> DEFINE U == UNION {Unread(files[i]) : i \in DOMAIN files}
  <2> SUFFICES ASSUME IInv, pc # "down", NEW x \in LinesOf(File)
               PROVE  x \in Settled \/ x \in LinesOf(Waiting) \/ x \in U
    BY Zenon DEF Accounted, Settled
  <2>1. PICK f \in File : x \in Lines(f)
    BY Zenon DEF LinesOf
  <2>2. len[f] \in Nat
    BY Zenon DEF IInv, Types
  <2>3. PICK k \in Nat : 0 < k /\ k <= len[f] /\ x = <<f, k>>
    BY <2>1, <2>2, LineMember DEF Lines
  <2>4. CASE Tracked(f)
    <3>1. PICK i \in DOMAIN files : files[i].src = f
      BY Zenon, <2>4 DEF Tracked
    <3>2. files[i].pos \in Nat /\ Line(f, 0, files[i].pos) \subseteq Settled
      BY Zenon, <3>1, EntryFacts
    <3>3. CASE k <= files[i].pos
      BY Zenon, <2>3, <3>2, <3>3, LineMember
    <3>4. CASE files[i].pos < k
      <4>1. x \in Unread(files[i])
        BY Zenon, <2>2, <2>3, <3>1, <3>2, <3>4, LineMember DEF Unread
      <4>2. QED
        BY Zenon, <4>1
    <3>5. QED
      BY <2>3, <3>2, <3>3, <3>4
  <2>5. CASE ~Tracked(f) /\ \E n \in Globbed : at[n] = f
    <3>1. f \in Waiting
      BY Zenon, <2>5, WatcherAssumption DEF Waiting, Tracked
    <3>2. QED
      BY Zenon, <2>1, <3>1, LinesOfMember
  <2>6. CASE Lines(f) \subseteq Settled
    BY Zenon, <2>1, <2>6
  <2>7. QED
    BY Zenon, <2>4, <2>5, <2>6 DEF IInv, Watched
<1>2. QED
  BY <1>1, Inductive, PTL

-----------------------------------------------------------------------------
(* Repeats. *)

\* The patterns match the live name only, and offsets can be saved.  With patterns that
\* match the rotated name too, or a save that fails at a stop, a line may be sent twice.
OneName == Globbed \subseteq {"app"} /\ "save" \notin Faults

\* G has no line of f behind line n.
UpTo(G, f, n) == \A k \in Nat : k > n => <<f, k>> \notin G

\* Accepted lines are lines of the file, which was created before.
AcceptedOf(f) == UpTo(got, f, len[f]) /\ (f \notin used => UpTo(got, f, 0))

\* Another file that has the inode number of f by now was not read yet.
Unmet(f) ==
    \A n \in Name : at[n] # NoFile /\ FileId[at[n]] = FileId[f] /\ at[n] # f => UpTo(got, at[n], 0)

\* An entry goes on behind what was accepted; a draining one is about a file that left "app".
EntryOnce(e) ==
    /\ e.path = "app" /\ e.retained_fd \in used \cup {NoFile} /\ Unmet(e.src)
    /\ e.retained_fd = NoFile => e.pos <= len[e.src]
    /\ e.retained_fd # NoFile => e.retained_fd # at["app"]
    /\ crashes = 0 => UpTo(got, e.src, e.pos)

\* The log is another file than the entry of its path knows: it will be read from its start.
Awaited ==
    \/ reg = "app"
    \/ "app" \in DOMAIN path_index /\ path_index["app"] # FileId[at["app"]]

AwaitedUnread == at["app"] # NoFile /\ Awaited => UpTo(got, at["app"], 0)

\* After a graceful stop no accepted line is behind a saved offset.
SavedOnce ==
    pc = "down" =>
        \A p \in DOMAIN saved : /\ saved[p].src \in File /\ saved[p].ino = FileId[saved[p].src]
                                /\ UpTo(got, saved[p].src, saved[p].pos) /\ Unmet(saved[p].src)

Once ==
    /\ crashes \in Nat /\ reg \in {"app", "none"}
    /\ \A n \in Name : at[n] \in used \cup {NoFile}
    /\ \A f \in File : AcceptedOf(f)
    /\ \A i \in DOMAIN files : EntryOnce(files[i])
    /\ crashes = 0 => twice = {} /\ AwaitedUnread /\ SavedOnce

\* The agent starts with nothing accepted.
LEMMA InitOnce == Init => Once
<1> SUFFICES ASSUME Init PROVE Once
  BY Zenon
<1>1. IInv
  BY Zenon, InitIInv
<1>2. /\ got = {} /\ twice = {} /\ crashes = 0 /\ reg = "none" /\ pc = "idle"
      /\ used = {First} /\ at = [n \in Name |-> IF n = "app" THEN First ELSE NoFile]
      /\ DOMAIN files = {FileId[First]} /\ files[FileId[First]] = Entry("app", 0, First)
      /\ len[First] = 0
  BY Zenon, WatcherAssumption DEF Init
<1>3. \A f, n : UpTo(got, f, n)
  BY Zenon, <1>2 DEF UpTo
<1>4. 0 \in Nat /\ "app" \in Name /\ First \in File
  BY WatcherAssumption DEF Name
<1>5. /\ Entry("app", 0, First).path = "app" /\ Entry("app", 0, First).pos = 0
      /\ Entry("app", 0, First).src = First /\ Entry("app", 0, First).retained_fd = NoFile
  BY DEF Entry
<1>6. 0 <= len[First]
  BY <1>2
<1>7. EntryOnce(files[FileId[First]])
  BY Zenon, <1>2, <1>3, <1>5, <1>6 DEF EntryOnce, Unmet
<1>8. \A n \in Name : at[n] \in used \cup {NoFile}
  BY Zenon, <1>2
<1>9. QED
  BY Zenon, <1>2, <1>3, <1>4, <1>7, <1>8 DEF Once, AcceptedOf, AwaitedUnread, SavedOnce

\* A step outside the agent keeps what is about accepted lines, which it does not change.
LEMMA OutsideOnce ==
    ASSUME Once, IInv, UNCHANGED agent, used \subseteq used',
           \A f \in File : len[f] <= len'[f] /\ len'[f] \in Nat,
           \A n \in Name : at'[n] \in used' \cup {NoFile},
           \A f \in File : f \in used => f # at'["app"] \/ f = at["app"],
           at'["app"] # NoFile => at'["app"] = at["app"] \/ UpTo(got, at'["app"], 0),
           \A n \in Name : at'[n] # NoFile =>
               (\E m \in Name : at'[n] = at[m]) \/ UpTo(got, at'[n], 0)
    PROVE  Once'
<1>1. \A f, n : UpTo(got', f, n) <=> UpTo(got, f, n)
  BY Zenon DEF agent, UpTo
<1>2. \A f \in File : UpTo(got, f, len[f]) => UpTo(got, f, len'[f])
  <2> SUFFICES ASSUME NEW f \in File, UpTo(got, f, len[f]), NEW k \in Nat, k > len'[f]
               PROVE  <<f, k>> \notin got
    BY Zenon DEF UpTo
  <2>1. len[f] \in Nat
    BY Zenon, LengthIsNat
  <2>2. k > len[f]
    BY <2>1
  <2>3. QED
    BY Zenon, <2>2 DEF UpTo
<1>3. \A f \in File : AcceptedOf(f)'
  BY Zenon, <1>1, <1>2 DEF Once, AcceptedOf
<1>4. \A f : Unmet(f) => Unmet(f)'
  BY Zenon, <1>1 DEF Unmet
<1>5. ASSUME NEW i \in DOMAIN files PROVE EntryOnce(files[i])'
  <2>1. EntryOnce(files[i]) /\ files' = files /\ crashes' = crashes
    BY Zenon DEF Once, agent
  <2>2. files[i].src \in File /\ files[i].pos \in Nat /\ files[i].retained_fd \in File \cup {NoFile}
    BY Zenon, EntryFacts
  <2>3. len[files[i].src] \in Nat
    BY Zenon, <2>2, LengthIsNat
  <2>4. files[i].retained_fd = NoFile => files[i].pos <= len[files[i].src]
    BY Zenon, <2>1 DEF EntryOnce
  <2>5. files[i].retained_fd = NoFile => files[i].pos <= len'[files[i].src]
    BY <2>2, <2>3, <2>4
  <2>6. files[i].retained_fd # NoFile => files[i].retained_fd # at'["app"]
    BY Zenon, <2>1, <2>2 DEF EntryOnce
  <2>7. QED
    BY Zenon, <1>4, <1>1, <2>1, <2>5, <2>6 DEF EntryOnce
<1>6. AwaitedUnread => AwaitedUnread'
  BY Zenon, <1>1 DEF AwaitedUnread, Awaited, agent
<1>7. SavedOnce => SavedOnce'
  BY Zenon, <1>4, <1>1 DEF SavedOnce, agent
<1>8. QED
  BY Zenon, <1>3, <1>5, <1>6, <1>7 DEF Once, agent

\* Whatever happens outside the agent: only a file that is new comes to the live name.
LEMMA EnvironmentOnce == ASSUME Once, IInv, Environment PROVE Once'
<1>1. /\ at \in [Name -> File \cup {NoFile}] /\ len \in [File -> Nat] /\ wfd \in File
      /\ "app" \in Name /\ "rot" \in Name /\ NoFile \notin File
      /\ \A n \in Name : at[n] \in used \cup {NoFile}
  BY Zenon, WatcherAssumption DEF IInv, Types, Name, Once
<1>2. \A f \in File : len[f] <= len[f] /\ len[f] \in Nat
  BY <1>1
<1>3. CASE Append
  <2>1. UNCHANGED <<at, used, wfd, agent>> /\ len' = [len EXCEPT ![wfd] = @ + 1]
    BY Zenon, <1>3 DEF Append
  <2>2. \A f \in File : len[f] <= len'[f] /\ len'[f] \in Nat
    BY <1>1, <2>1
  <2>3. QED
    BY Zenon, <1>1, <2>1, <2>2, OutsideOnce
<1>4. CASE Rotate
  <2>1. UNCHANGED <<len, used, wfd, agent>> /\ at["app"] # NoFile
        /\ at' = [at EXCEPT !["app"] = NoFile, !["rot"] = at["app"]]
    BY Zenon, <1>4 DEF Rotate
  <2>2. /\ at'["app"] = NoFile
        /\ \A n \in Name : /\ at'[n] \in used \cup {NoFile}
                           /\ at'[n] # NoFile => \E m \in Name : at'[n] = at[m]
    BY Zenon, <1>1, <2>1 DEF Name
  <2>3. used \subseteq used' /\ \A g \in File : len[g] <= len'[g] /\ len'[g] \in Nat
    BY Zenon, <1>2, <2>1
  <2>4. \A n \in Name : at'[n] \in used' \cup {NoFile}
    BY Zenon, <2>1, <2>2
  <2>5. /\ \A g \in File : g \in used => g # at'["app"] \/ g = at["app"]
        /\ at'["app"] # NoFile => at'["app"] = at["app"] \/ UpTo(got, at'["app"], 0)
    BY Zenon, <1>1, <2>2
  <2>6. \A n \in Name : at'[n] # NoFile =>
            (\E m \in Name : at'[n] = at[m]) \/ UpTo(got, at'[n], 0)
    BY Zenon, <2>2
  <2>7. QED
    BY Zenon, <2>1, <2>3, <2>4, <2>5, <2>6, OutsideOnce
<1>5. CASE Create
  <2>1. PICK f \in File \ used : at' = [at EXCEPT !["app"] = f] /\ used' = used \cup {f}
    BY Zenon, <1>5 DEF Create
  <2>2. UNCHANGED <<len, agent>>
    BY Zenon, <1>5 DEF Create
  <2>3. /\ at'["app"] = f
        /\ \A n \in Name : /\ at'[n] \in used' \cup {NoFile}
                           /\ at'[n] = f \/ \E m \in Name : at'[n] = at[m]
    BY Zenon, <1>1, <2>1 DEF Name
  <2>4. UpTo(got, f, 0)
    BY Zenon, <2>1 DEF Once, AcceptedOf
  <2>5. used \subseteq used' /\ \A g \in File : len[g] <= len'[g] /\ len'[g] \in Nat
    BY Zenon, <1>2, <2>1, <2>2
  <2>6. \A n \in Name : at'[n] \in used' \cup {NoFile}
    BY Zenon, <2>3
  <2>7. /\ \A g \in File : g \in used => g # at'["app"] \/ g = at["app"]
        /\ at'["app"] # NoFile => at'["app"] = at["app"] \/ UpTo(got, at'["app"], 0)
    BY Zenon, <2>1, <2>3, <2>4
  <2>8. \A n \in Name : at'[n] # NoFile =>
            (\E m \in Name : at'[n] = at[m]) \/ UpTo(got, at'[n], 0)
    BY Zenon, <2>3, <2>4
  <2>9. QED
    BY Zenon, <2>2, <2>5, <2>6, <2>7, <2>8, OutsideOnce
<1>6. CASE Remove
  <2>1. UNCHANGED <<len, used, agent>> /\ at' = [at EXCEPT !["rot"] = NoFile]
    BY Zenon, <1>6 DEF Remove
  <2>2. /\ at'["app"] = at["app"]
        /\ \A n \in Name : /\ at'[n] \in used \cup {NoFile}
                           /\ at'[n] # NoFile => \E m \in Name : at'[n] = at[m]
    BY Zenon, <1>1, <2>1 DEF Name
  <2>3. QED
    BY Zenon, <1>1, <1>2, <2>1, <2>2, OutsideOnce
<1>7. CASE Reopen \/ Age
  <2>1. UNCHANGED <<at, len, used, agent>>
    BY Zenon, <1>7 DEF Reopen, Age
  <2>2. QED
    BY Zenon, <1>1, <1>2, <2>1, OutsideOnce
<1>8. QED
  BY Zenon, <1>3, <1>4, <1>5, <1>6, <1>7 DEF Environment

\* A step of the tailer that reads nothing.
LEMMA NoReadOnce ==
    ASSUME Once, UNCHANGED disk, UNCHANGED <<got, twice, crashes>>, reg' \in {"app", "none"},
           pc' # "down", \A i \in DOMAIN files' : EntryOnce(files'[i]),
           crashes = 0 /\ at["app"] # NoFile /\ Awaited' => UpTo(got, at["app"], 0)
    PROVE  Once'
<1>1. (\A f, n : UpTo(got', f, n) <=> UpTo(got, f, n)) /\ UNCHANGED <<at, len, used>>
  BY Zenon DEF UpTo, disk
<1>2. \A f \in File : AcceptedOf(f)'
  BY Zenon, <1>1 DEF Once, AcceptedOf
<1>3. \A i \in DOMAIN files' : EntryOnce(files[i])'
  BY Zenon, <1>1 DEF EntryOnce, Unmet
<1>4. crashes = 0 => AwaitedUnread' /\ SavedOnce'
  BY Zenon, <1>1 DEF AwaitedUnread, SavedOnce
<1>5. QED
  BY Zenon, <1>1, <1>2, <1>3, <1>4 DEF Once

\* Reading on behind what was accepted repeats nothing.
LEMMA ShipOnce ==
    ASSUME NEW f, NEW a \in Nat, NEW n \in Nat, Ship(f, a, n)
    PROVE  /\ UpTo(got, f, a) /\ twice = {} => twice' = {}
           /\ \A m \in Nat : UpTo(got, f, m) /\ (n = 0 \/ a + n <= m) => UpTo(got', f, m)
           /\ UpTo(got, f, a) => UpTo(got', f, a + n)
           /\ \A g, m : g # f => (UpTo(got', g, m) <=> UpTo(got, g, m))
<1>1. got' = got \cup Line(f, a, a + n) /\ twice' = twice \cup (got \cap Line(f, a, a + n))
  BY Zenon DEF Ship
<1>2. \A x \in Line(f, a, a + n) : \E k \in Nat : a < k /\ k <= a + n /\ x = <<f, k>>
  BY LineMember
<1>3. UpTo(got, f, a) => got \cap Line(f, a, a + n) = {}
  <2>1. \A k \in Nat : a < k => k > a
    OBVIOUS
  <2>2. QED
    BY Zenon, <1>2, <2>1 DEF UpTo
<1>4. ASSUME NEW m \in Nat, UpTo(got, f, m), n = 0 \/ a + n <= m PROVE UpTo(got', f, m)
  <2> SUFFICES ASSUME NEW k \in Nat, k > m PROVE <<f, k>> \notin got'
    BY Zenon DEF UpTo
  <2>1. <<f, k>> \notin got
    BY Zenon, <1>4 DEF UpTo
  <2>2. ~(a < k /\ k <= a + n)
    BY <1>4
  <2>3. \A j : <<f, k>> = <<f, j>> => j = k
    BY Zenon
  <2>4. QED
    BY Zenon, <1>1, <1>2, <2>1, <2>2, <2>3
<1>5. ASSUME UpTo(got, f, a) PROVE UpTo(got', f, a + n)
  <2>1. UpTo(got, f, a + n) /\ a + n \in Nat /\ a + n <= a + n
    BY <1>5 DEF UpTo
  <2>2. QED
    BY Zenon, <1>4, <2>1
<1>6. ASSUME NEW g, NEW m, g # f PROVE UpTo(got', g, m) <=> UpTo(got, g, m)
  <2>1. \A k : <<g, k>> \notin Line(f, a, a + n)
    BY Zenon, <1>2, <1>6
  <2>2. QED
    BY Zenon, <1>1, <2>1 DEF UpTo
<1>7. QED
  BY Zenon, <1>1, <1>3, <1>4, <1>5, <1>6

\* A pass ends within the file.
LEMMA PassFits ==
    ASSUME NEW pos \in Nat, NEW l \in Nat, NEW n \in Pass(pos, l)
    PROVE  n \in Nat /\ (n = 0 \/ pos + n <= l) /\ (pos <= l => pos + n <= l)
BY WatcherAssumption DEF Pass, Smaller

\* A file that a name leads to is the only one with its inode number.
LEMMA NamedUnmet == ASSUME IInv, NEW m \in Name, at[m] # NoFile PROVE Unmet(at[m])
BY Zenon DEF IInv, NamesDistinct, Unmet

\* Behind a later line there is less.
LEMMA UpToMore == ASSUME NEW f, NEW n \in Nat, UpTo(got, f, 0) PROVE UpTo(got, f, n)
<1>1. \A k \in Nat : k > n => k > 0
  OBVIOUS
<1>2. QED
  BY Zenon, <1>1 DEF UpTo

\* Entry i reads f behind what was accepted of it, and stays or goes.
LEMMA ReadOnce ==
    ASSUME Once, IInv, UNCHANGED disk, UNCHANGED <<crashes, reg>>, pc' # "down",
           NEW i \in DOMAIN files, NEW f \in File, f \in used, FileId[f] = i, Unmet(f),
           NEW a \in Nat, crashes = 0 => UpTo(got, f, a), NEW n \in Pass(a, len[f]), Ship(f, a, n),
           DOMAIN files' \subseteq DOMAIN files,
           \A j \in DOMAIN files' : j # i => files'[j] = files[j],
           i \in DOMAIN files' => /\ files'[i].src = f /\ files'[i].path = files[i].path
                                  /\ files'[i].retained_fd = files[i].retained_fd
                                  /\ files'[i].pos = a + n,
           files[i].retained_fd = NoFile => a <= len[f],
           Awaited' => Awaited /\ f # at["app"]
    PROVE  Once'
<1>1. len[f] \in Nat
  BY Zenon, LengthIsNat
<1>2. n \in Nat /\ (n = 0 \/ a + n <= len[f]) /\ (a <= len[f] => a + n <= len[f])
  BY Zenon, <1>1, PassFits
<1>3. UNCHANGED <<at, len, used>>
  BY Zenon DEF disk
<1>4. /\ UpTo(got, f, a) /\ twice = {} => twice' = {}
      /\ \A m \in Nat : UpTo(got, f, m) /\ (n = 0 \/ a + n <= m) => UpTo(got', f, m)
      /\ UpTo(got, f, a) => UpTo(got', f, a + n)
      /\ \A g, m : g # f => (UpTo(got', g, m) <=> UpTo(got, g, m))
  BY <1>2, ShipOnce
<1>5. \A g \in File : AcceptedOf(g)'
  BY Zenon, <1>1, <1>2, <1>3, <1>4 DEF Once, AcceptedOf
<1>6. ASSUME NEW g, Unmet(g), FileId[g] # i \/ g = f PROVE Unmet(g)'
  BY Zenon, <1>3, <1>4, <1>6 DEF Unmet
<1>7. ASSUME NEW j \in DOMAIN files', j # i PROVE EntryOnce(files[j])'
  <2>1. EntryOnce(files[j]) /\ files'[j] = files[j]
    BY Zenon, <1>7 DEF Once
  <2>2. FileId[files[j].src] = j
    BY Zenon, <1>7 DEF IInv, SourcesRight
  <2>3. files[j].src # f
    BY Zenon, <1>7, <2>2
  <2>4. Unmet(files[j].src)'
    BY Zenon, <1>6, <1>7, <2>1, <2>2 DEF EntryOnce
  <2>5. QED
    BY Zenon, <1>3, <1>4, <2>1, <2>3, <2>4 DEF EntryOnce
<1>8. ASSUME i \in DOMAIN files' PROVE EntryOnce(files[i])'
  <2>1. EntryOnce(files[i])
    BY Zenon DEF Once
  <2>2. /\ files'[i].src = f /\ files'[i].pos = a + n /\ files'[i].path = files[i].path
        /\ files'[i].retained_fd = files[i].retained_fd
    BY Zenon, <1>8
  <2>3. Unmet(f)'
    BY Zenon, <1>6
  <2>4. Unmet(files[i].src)'
    BY Zenon, <2>2, <2>3 DEF Unmet
  <2>5. QED
    BY Zenon, <1>2, <1>3, <1>4, <2>1, <2>2, <2>4 DEF EntryOnce
<1>9. crashes = 0 => AwaitedUnread' /\ SavedOnce'
  BY Zenon, <1>3, <1>4 DEF Once, AwaitedUnread, SavedOnce
<1>10. QED
  BY Zenon, <1>3, <1>4, <1>5, <1>7, <1>8, <1>9 DEF Once

\* The old file is read on through its retained descriptor.
LEMMA RetainedOnce == ASSUME Once, IInv, NEW i, VisitRetained(i) PROVE Once'
<1> DEFINE f == files[i].retained_fd
           a == files[i].pos
<1>1. Visit(i) /\ f # NoFile /\ UNCHANGED reg
  BY Zenon DEF VisitRetained
<1>2. i \in DOMAIN files /\ pc' # "down" /\ UNCHANGED disk /\ UNCHANGED <<crashes, reg>>
  BY Zenon, <1>1, VisitFacts DEF Visit
<1>3. /\ files[i] \in EntryType /\ files[i].src \in File /\ FileId[files[i].src] = i /\ a \in Nat
      /\ files[i].src = f /\ EntryOnce(files[i])
  BY Zenon, <1>1, <1>2, EntryFacts DEF IInv, SourcesRight, Once
<1>4. f \in File /\ f \in used /\ f # at["app"] /\ FileId[f] = i /\ Unmet(f)
  BY Zenon, <1>1, <1>3 DEF EntryOnce
<1>5. crashes = 0 => UpTo(got, f, a)
  BY Zenon, <1>3 DEF EntryOnce
<1>6. PICK n \in Pass(a, len[f]) :
          /\ Ship(f, a, n)
          /\ \/ files' = Without(files, {i}) /\ path_index' = DropIndex({i})
             \/ files' = [files EXCEPT ![i].pos = @ + n] /\ UNCHANGED path_index
  BY Zenon DEF VisitRetained
<1>7. Awaited' => Awaited
  <2>1. /\ DOMAIN DropIndex({i}) \subseteq DOMAIN path_index
        /\ \A p \in DOMAIN DropIndex({i}) : DropIndex({i})[p] = path_index[p]
    BY Zenon, DropIndexIs
  <2>2. QED
    BY Zenon, <1>2, <1>6, <2>1 DEF Awaited, disk
<1>8. /\ DOMAIN files' \subseteq DOMAIN files
      /\ \A j \in DOMAIN files' : j # i => files'[j] = files[j]
      /\ i \in DOMAIN files' => /\ files'[i].src = f /\ files'[i].path = files[i].path
                                /\ files'[i].retained_fd = files[i].retained_fd
                                /\ files'[i].pos = a + n
  <2>1. CASE files' = Without(files, {i})
    BY Zenon, <2>1 DEF Without
  <2>2. CASE files' = [files EXCEPT ![i].pos = @ + n]
    BY <1>2, <1>3, <2>2 DEF EntryType
  <2>3. QED
    BY Zenon, <1>6, <2>1, <2>2
<1>9. (files[i].retained_fd = NoFile => a <= len[f]) /\ (Awaited' => Awaited /\ f # at["app"])
  BY Zenon, <1>1, <1>4, <1>7
<1>10. n \in Pass(a, len[f]) /\ Ship(f, a, n) /\ a \in Nat
  BY Zenon, <1>3, <1>6
<1> HIDE DEF f, a
<1>11. QED
  BY Zenon, <1>2, <1>4, <1>5, <1>8, <1>9, <1>10, ReadOnce

\* The live file is read on from the offset, or, if it is another file that got the inode
\* number of the entry's, for the first time.
LEMMA LiveOnce == ASSUME Once, IInv, NEW i, VisitLive(i) PROVE Once'
<1> DEFINE e == files[i]
           f == at[e.path]
           a == ReadFrom(e, f)
<1>1. /\ Visit(i) /\ Live(i) /\ f # NoFile /\ FileId[f] = i /\ UNCHANGED <<path_index, reg>>
      /\ reg = "none"
  BY Zenon DEF VisitLive, Visit
<1>2. i \in DOMAIN files /\ pc' # "down" /\ UNCHANGED disk /\ UNCHANGED <<crashes, reg>>
  BY Zenon, <1>1, VisitFacts DEF Visit
<1>3. /\ e \in EntryType /\ e.src \in File /\ FileId[e.src] = i /\ "app" \in Name
      /\ e.pos \in Nat /\ EntryOnce(e)
  BY Zenon, <1>2, EntryFacts DEF Once, Name
<1>4. f = at["app"] /\ f \in File /\ f \in used /\ e.pos <= len[e.src]
  BY Zenon, <1>1, <1>3 DEF IInv, Types, Once, EntryOnce, Live
<1>5. Unmet(f)
  BY Zenon, <1>1, <1>3, <1>4, NamedUnmet
<1>6. len[f] \in Nat
  BY Zenon, <1>4, LengthIsNat
<1>7. a \in Nat /\ a <= len[f] /\ (f = e.src => a = e.pos)
  BY <1>3, <1>4, <1>6 DEF ReadFrom
<1>8. crashes = 0 => UpTo(got, f, a)
  <2>1. CASE f = e.src
    BY Zenon, <1>3, <1>7, <2>1 DEF EntryOnce
  <2>2. CASE f # e.src
    <3>1. UpTo(got, f, 0)
      BY Zenon, <1>1, <1>3, <1>4, <2>2 DEF EntryOnce, Unmet
    <3> HIDE DEF f, a
    <3>2. QED
      BY Zenon, <1>7, <3>1, UpToMore
  <2>3. QED
    BY Zenon, <2>1, <2>2
<1>9. PICK n \in Pass(a, len[f]) :
          /\ Ship(f, a, n)
          /\ files' = [files EXCEPT ![i] = [@ EXCEPT !.pos = a + n, !.src = f,
                          !.open_failures = IF n > 0 THEN 0 ELSE e.open_failures]]
  BY Zenon DEF VisitLive
<1> HIDE DEF a, f
<1>10. /\ DOMAIN files' \subseteq DOMAIN files
       /\ \A j \in DOMAIN files' : j # i => files'[j] = files[j]
       /\ files'[i].src = f /\ files'[i].path = files[i].path
       /\ files'[i].retained_fd = files[i].retained_fd /\ files'[i].pos = a + n
  BY Zenon, <1>2, <1>3, <1>9 DEF EntryType
<1>11. ~Awaited'
  <2>1. "app" \in DOMAIN path_index /\ path_index["app"] = i
    BY Zenon, <1>1, <1>2, <1>3 DEF Live, IInv, IndexExact, EntryOnce
  <2>2. QED
    BY Zenon, <1>1, <1>2, <1>4, <2>1 DEF Awaited, disk
<1>12. n \in Pass(a, len[f]) /\ Ship(f, a, n) /\ a \in Nat /\ f \in File /\ FileId[f] = i
  BY Zenon, <1>1, <1>4, <1>7, <1>9
<1>13. QED
  BY Zenon, <1>2, <1>4, <1>5, <1>7, <1>8, <1>10, <1>11, <1>12, ReadOnce

\* The log is another file than the entry's: nothing of it was accepted yet.
LEMMA ReplacedOnce ==
    ASSUME Once, IInv, NEW i, Replaced(i)
    PROVE  /\ i \in DOMAIN files /\ UNCHANGED disk /\ UNCHANGED <<got, twice, crashes>>
           /\ pc' # "down" /\ reg' = "app" /\ files[i].path = "app"
           /\ crashes = 0 /\ at["app"] # NoFile => UpTo(got, at["app"], 0)
<1>1. /\ Visit(i) /\ i \in DOMAIN files /\ reg' = files[i].path
      /\ files[i].path \in DOMAIN path_index /\ path_index[files[i].path] = i
  BY Zenon, ReplacedFacts
<1>2. files[i].path = "app" /\ FileId[at[files[i].path]] # i /\ UNCHANGED <<got, twice>>
  BY Zenon, <1>1 DEF Once, EntryOnce, Replaced
<1>3. Awaited
  BY Zenon, <1>1, <1>2 DEF Awaited
<1>4. UNCHANGED disk /\ crashes' = crashes /\ pc' # "down"
  BY Zenon, <1>1 DEF Visit
<1>5. QED
  BY Zenon, <1>1, <1>2, <1>3, <1>4 DEF Once, AwaitedUnread

\* The old file is found under its rotated name, and kept open.
LEMMA RotatedOnce == ASSUME Once, IInv, NEW i, VisitRotated(i) PROVE Once'
<1>1. Replaced(i)
  BY Zenon DEF VisitRotated
<1>2. PICK n \in FindRotated(i) : files' = [files EXCEPT ![i] =
          [@ EXCEPT !.retained_fd = at[n], !.open_failures = 0, !.src = at[n]]]
  BY Zenon DEF VisitRotated
<1>3. /\ i \in DOMAIN files /\ UNCHANGED disk /\ UNCHANGED <<got, twice, crashes>>
      /\ pc' # "down" /\ reg' = "app" /\ files[i].path = "app"
      /\ crashes = 0 /\ at["app"] # NoFile => UpTo(got, at["app"], 0)
  BY Zenon, <1>1, ReplacedOnce
<1>4. n \in Name /\ n # "app" /\ at[n] # NoFile /\ FileId[at[n]] = i /\ "app" \in Name
  BY Zenon, <1>3 DEF FindRotated, Name
<1>5. at[n] \in File /\ at[n] \in used /\ at[n] # at["app"]
  BY Zenon, <1>4 DEF IInv, Types, Once, NamesDistinct
<1>6. /\ files[i] \in EntryType /\ FileId[files[i].src] = i /\ files[i].pos \in Nat
      /\ EntryOnce(files[i])
  BY Zenon, <1>3, EntryFacts DEF Once
<1>7. /\ DOMAIN files' = DOMAIN files /\ \A j \in DOMAIN files' : j # i => files'[j] = files[j]
      /\ files'[i].src = at[n] /\ files'[i].retained_fd = at[n]
      /\ files'[i].pos = files[i].pos /\ files'[i].path = files[i].path
  BY Zenon, <1>2, <1>3, <1>6 DEF EntryType
<1>8. EntryOnce(files'[i])
  <2>1. Unmet(at[n])
    BY Zenon, <1>4, NamedUnmet
  <2>2. CASE at[n] = files[i].src
    BY Zenon, <1>4, <1>5, <1>6, <1>7, <2>1, <2>2 DEF EntryOnce
  <2>3. CASE at[n] # files[i].src
    <3>1. UpTo(got, at[n], 0)
      BY Zenon, <1>4, <1>6, <2>3 DEF EntryOnce, Unmet
    <3>2. UpTo(got, at[n], files[i].pos)
      BY Zenon, <1>6, <3>1, UpToMore
    <3>3. QED
      BY Zenon, <1>4, <1>5, <1>6, <1>7, <2>1, <3>2 DEF EntryOnce
  <2>4. QED
    BY Zenon, <2>2, <2>3
<1>9. \A j \in DOMAIN files' : EntryOnce(files'[j])
  BY Zenon, <1>7, <1>8 DEF Once
<1>10. QED
  BY Zenon, <1>3, <1>9, NoReadOnce

\* The old file is gone, and so is its entry.
LEMMA RotatedLostOnce == ASSUME Once, IInv, NEW i, VisitRotatedLost(i) PROVE Once'
<1>1. Replaced(i) /\ files' = Without(files, {i})
  BY Zenon DEF VisitRotatedLost
<1>2. /\ UNCHANGED disk /\ UNCHANGED <<got, twice, crashes>> /\ pc' # "down" /\ reg' = "app"
      /\ crashes = 0 /\ at["app"] # NoFile => UpTo(got, at["app"], 0)
  BY Zenon, <1>1, ReplacedOnce
<1>3. \A j \in DOMAIN files' : EntryOnce(files'[j])
  BY Zenon, <1>1 DEF Without, Once
<1>4. QED
  BY Zenon, <1>2, <1>3, NoReadOnce

\* A step of the tailer that reads nothing and makes no entry.
LEMMA SameOnce ==
    ASSUME Once, IInv, UNCHANGED disk, UNCHANGED <<got, twice, crashes, reg>>, pc' # "down",
           \A j \in DOMAIN files' : j \in DOMAIN files /\ files'[j] = files[j],
           DOMAIN path_index' \subseteq DOMAIN path_index,
           \A p \in DOMAIN path_index' : path_index'[p] = path_index[p]
    PROVE  Once'
<1>1. \A j \in DOMAIN files' : EntryOnce(files'[j])
  BY Zenon DEF Once
<1>2. Awaited' => Awaited
  BY Zenon DEF Awaited, disk
<1>3. /\ reg' \in {"app", "none"}
      /\ crashes = 0 /\ at["app"] # NoFile /\ Awaited' => UpTo(got, at["app"], 0)
  BY Zenon, <1>2 DEF Once, AwaitedUnread
<1>4. QED
  BY Zenon, <1>1, <1>3, NoReadOnce

\* The path could not be opened.
LEMMA OpenFailedOnce == ASSUME Once, IInv, NEW i, VisitOpenFailed(i) PROVE Once'
<1>1. Visit(i) /\ files' = [files EXCEPT ![i].open_failures = @ + 1]
      /\ UNCHANGED <<path_index, reg, got, twice>>
  BY Zenon DEF VisitOpenFailed, history
<1>2. i \in DOMAIN files /\ UNCHANGED disk /\ crashes' = crashes /\ pc' # "down"
  BY Zenon, <1>1, VisitFacts DEF Visit
<1>3. files[i] \in EntryType
  BY Zenon, <1>2, EntryFacts
<1>4. /\ DOMAIN files' = DOMAIN files /\ \A j \in DOMAIN files' : j # i => files'[j] = files[j]
      /\ files'[i].src = files[i].src /\ files'[i].retained_fd = files[i].retained_fd
      /\ files'[i].pos = files[i].pos /\ files'[i].path = files[i].path
  BY <1>1, <1>2, <1>3 DEF EntryType
<1>5. EntryOnce(files'[i])
  BY Zenon, <1>2, <1>4 DEF Once, EntryOnce
<1>6. \A j \in DOMAIN files' : EntryOnce(files'[j])
  BY Zenon, <1>4, <1>5 DEF Once
<1>7. Awaited' => Awaited
  BY Zenon, <1>1, <1>2 DEF Awaited, disk
<1>8. /\ reg' \in {"app", "none"}
      /\ crashes = 0 /\ at["app"] # NoFile /\ Awaited' => UpTo(got, at["app"], 0)
  BY Zenon, <1>1, <1>7 DEF Once, AwaitedUnread
<1>9. QED
  BY Zenon, <1>1, <1>2, <1>6, <1>8, NoReadOnce

\* The new log is registered from its start, where nothing of it was accepted.
LEMMA RegisterOnce == ASSUME Once, IInv, Register PROVE Once'
<1> DEFINE f == at["app"]
<1>1. reg = "app" /\ reg' = "none" /\ pc' # "down" /\ UNCHANGED disk
      /\ UNCHANGED <<got, twice, crashes>> /\ "app" \in Name
  BY Zenon DEF Register, Once, history, Name
<1>2. "app" \notin DOMAIN path_index
  BY Zenon, <1>1 DEF IInv, RegIsFree
<1>3. CASE UNCHANGED <<files, path_index>>
  <2>1. ~Awaited'
    BY Zenon, <1>1, <1>2, <1>3 DEF Awaited
  <2>2. \A j \in DOMAIN files' : EntryOnce(files'[j])
    BY Zenon, <1>3 DEF Once
  <2>3. QED
    BY Zenon, <1>1, <2>1, <2>2, NoReadOnce
<1>4. CASE f # NoFile /\ files' = Insert([i \in {FileId[f]} |-> Entry("app", 0, f)], files)
              /\ path_index' = Insert([p \in {"app"} |-> FileId[f]], path_index)
  <2>1. len[f] \in Nat
    <3>1. f \in File
      BY Zenon, <1>1, <1>4 DEF IInv, Types
    <3>2. QED
      BY Zenon, <3>1, LengthIsNat
  <2>2. /\ Entry("app", 0, f).path = "app" /\ Entry("app", 0, f).pos = 0
        /\ Entry("app", 0, f).src = f /\ Entry("app", 0, f).retained_fd = NoFile
    BY DEF Entry
  <2>3. 0 <= len[f] /\ (crashes = 0 => UpTo(got, f, 0))
    <3>1. crashes = 0 => UpTo(got, f, 0)
      BY Zenon, <1>1, <1>4 DEF Once, AwaitedUnread, Awaited
    <3>2. QED
      BY <2>1, <3>1
  <2>4. EntryOnce(Entry("app", 0, f))
    <3>1. Unmet(f)
      BY Zenon, <1>1, <1>4, NamedUnmet
    <3>2. QED
      BY Zenon, <2>2, <2>3, <3>1 DEF EntryOnce
  <2>5. \A j \in DOMAIN files' : files'[j] = Entry("app", 0, f)
                                 \/ (j \in DOMAIN files /\ files'[j] = files[j])
    BY Zenon, <1>4 DEF Insert
  <2>6. \A j \in DOMAIN files' : EntryOnce(files'[j])
    BY Zenon, <2>4, <2>5 DEF Once
  <2>7. path_index'["app"] = FileId[f]
    BY Zenon, <1>4 DEF Insert
  <2>8. ~Awaited'
    BY Zenon, <1>1, <2>7 DEF Awaited, disk
  <2>9. QED
    BY Zenon, <1>1, <2>6, <2>8, NoReadOnce
<1>5. QED
  BY Zenon, <1>1, <1>3, <1>4 DEF Register, FromStart

\* The poll ends, and entries that cannot be opened go.
LEMMA EndPollOnce == ASSUME Once, IInv, NEW save, EndPoll(save) PROVE Once'
<1>1. /\ files' = Without(files, Evictable) /\ path_index' = DropIndex(Evictable)
      /\ UNCHANGED disk /\ UNCHANGED <<got, twice, crashes, reg>> /\ pc' # "down"
  BY Zenon DEF EndPoll
<1>2. \A j \in DOMAIN files' : j \in DOMAIN files /\ files'[j] = files[j]
  BY Zenon, <1>1 DEF Without
<1>3. /\ DOMAIN path_index' \subseteq DOMAIN path_index
      /\ \A p \in DOMAIN path_index' : path_index'[p] = path_index[p]
  BY Zenon, <1>1, DropIndexIs
<1>4. QED
  BY Zenon, <1>1, <1>2, <1>3, SameOnce

\* The log is found, and read from where no accepted line is behind.
LEMMA FoundOnce ==
    ASSUME Once, IInv, UNCHANGED disk, UNCHANGED <<got, twice, crashes>>, reg' = "none",
           pc' # "down", at["app"] # NoFile, NEW from, from <= len[at["app"]],
           crashes = 0 => UpTo(got, at["app"], from),
           \A j \in DOMAIN files' : \/ files'[j] = Entry("app", from, at["app"])
                                    \/ j \in DOMAIN files /\ files'[j] = files[j],
           path_index'["app"] = FileId[at["app"]]
    PROVE  Once'
<1>1. /\ Entry("app", from, at["app"]).path = "app" /\ Entry("app", from, at["app"]).pos = from
      /\ Entry("app", from, at["app"]).src = at["app"]
      /\ Entry("app", from, at["app"]).retained_fd = NoFile
  BY DEF Entry
<1>2. EntryOnce(Entry("app", from, at["app"]))
  <2>1. Unmet(at["app"])
    BY Zenon, NamedUnmet DEF Name
  <2>2. QED
    BY Zenon, <1>1, <2>1 DEF EntryOnce
<1>3. \A j \in DOMAIN files' : EntryOnce(files'[j])
  BY Zenon, <1>2 DEF Once
<1>4. ~Awaited'
  BY Zenon DEF Awaited, disk
<1>5. QED
  BY Zenon, <1>3, <1>4, NoReadOnce

\* The rescan reads a file that it finds from its end.
LEMMA RescanOnce == ASSUME OneName, Once, IInv, Rescan PROVE Once'
<1> DEFINE P == {p \in Found(Globbed \ DOMAIN path_index) : at[p] \notin aged}
           Ids == {FileId[at[p]] : p \in P}
           PathOf(i) == CHOOSE p \in P : FileId[at[p]] = i
           new == [i \in Ids |-> Entry(PathOf(i), len[at[PathOf(i)]], at[PathOf(i)])]
           idx == [p \in P |-> FileId[at[p]]]
<1>1. /\ pc = "idle" /\ files' = Insert(new, files) /\ path_index' = Insert(idx, path_index)
      /\ UNCHANGED disk /\ UNCHANGED <<got, twice, crashes, reg, pc>>
  BY Zenon DEF Rescan
<1>2. reg = "none" /\ pc' # "down"
  BY Zenon, <1>1 DEF IInv, RegIsFree
<1>3. P \subseteq {"app"} /\ \A p \in P : at[p] # NoFile
  BY Zenon DEF Found, OneName
<1>4. \A i \in Ids : PathOf(i) \in P
  BY Zenon
<1>5. DOMAIN new = Ids /\ DOMAIN idx = P /\ \A p \in P : idx[p] = FileId[at[p]]
  BY Zenon
<1>6. \A i \in Ids : new[i] = Entry("app", len[at["app"]], at["app"])
  <2>1. \A i \in Ids : PathOf(i) = "app"
    BY Zenon, <1>3, <1>4
  <2>2. QED
    BY Zenon, <2>1
<1>7. (P = {}) => (Ids = {})
  BY Zenon
<1> HIDE DEF P, Ids, PathOf, new, idx
<1>8. CASE P = {}
  <2>1. /\ \A j \in DOMAIN files' : j \in DOMAIN files /\ files'[j] = files[j]
        /\ DOMAIN path_index' \subseteq DOMAIN path_index
        /\ \A p \in DOMAIN path_index' : path_index'[p] = path_index[p]
    BY Zenon, <1>1, <1>5, <1>7, <1>8 DEF Insert
  <2>2. QED
    BY Zenon, <1>1, <1>2, <2>1, SameOnce
<1>9. CASE P # {}
  <2>1. "app" \in P
    BY Zenon, <1>3, <1>9
  <2>2. at["app"] \in File /\ at["app"] # NoFile
    BY Zenon, <1>3, <2>1 DEF IInv, Types, Name
  <2>3. len[at["app"]] <= len[at["app"]]
    BY <2>2, LengthIsNat
  <2>4. UpTo(got, at["app"], len[at["app"]])
    BY Zenon, <2>2 DEF Once, AcceptedOf
  <2>5. \A j \in DOMAIN files' : \/ files'[j] = Entry("app", len[at["app"]], at["app"])
                                 \/ j \in DOMAIN files /\ files'[j] = files[j]
    BY Zenon, <1>1, <1>5, <1>6 DEF Insert
  <2>6. path_index'["app"] = FileId[at["app"]]
    BY Zenon, <1>1, <1>5, <2>1 DEF Insert
  <2>7. QED
    BY Zenon, <1>1, <1>2, <2>2, <2>3, <2>4, <2>5, <2>6, FoundOnce
<1>10. QED
  BY Zenon, <1>8, <1>9

\* The process ends.  A graceful stop saves the offset of every entry.
LEMMA ExitOnce ==
    ASSUME Once, Exit, crashes' \in Nat, crashes' = 0 => crashes = 0 /\ SavedOnce'
    PROVE  Once'
<1>1. /\ pc' = "down" /\ reg' = "none" /\ DOMAIN files' = {} /\ DOMAIN path_index' = {}
      /\ UNCHANGED disk /\ UNCHANGED <<got, twice>>
  BY DEF Exit, history
<1>2. (\A f, n : UpTo(got', f, n) <=> UpTo(got, f, n)) /\ UNCHANGED <<at, len, used>>
  BY Zenon, <1>1 DEF UpTo, disk
<1>3. (\A f \in File : AcceptedOf(f)') /\ ~Awaited'
  BY Zenon, <1>1, <1>2 DEF Once, AcceptedOf, Awaited
<1>4. QED
  BY Zenon, <1>1, <1>2, <1>3 DEF Once, AwaitedUnread

\* Without a failing save, save_offsets writes offsets of entries only.
LEMMA StopOnce == ASSUME OneName, Once, IInv, Stop PROVE Once'
<1>1. SaveOffsets /\ Exit /\ UNCHANGED crashes
  BY Zenon DEF Stop
<1>2. \A p \in DOMAIN saved' : \E i \in DOMAIN files :
          /\ saved'[p].pos = files[i].pos /\ saved'[p].src = files[i].src
          /\ saved'[p].ino = i
  BY <1>1 DEF SaveOffsets, OneName
<1>3. got' = got /\ at' = at
  BY Zenon, <1>1 DEF Exit, history, disk
<1>4. crashes = 0 => SavedOnce'
  <2> SUFFICES ASSUME crashes = 0, NEW p \in DOMAIN saved'
               PROVE  /\ saved'[p].src \in File /\ saved'[p].ino = FileId[saved'[p].src]
                      /\ UpTo(got', saved'[p].src, saved'[p].pos) /\ Unmet(saved[p].src)'
    BY Zenon DEF SavedOnce
  <2>1. PICK i \in DOMAIN files : /\ saved'[p].pos = files[i].pos /\ saved'[p].src = files[i].src
                                  /\ saved'[p].ino = i
    BY Zenon, <1>2
  <2>2. files[i].src \in File /\ FileId[files[i].src] = i
    BY Zenon, EntryFacts
  <2>3. UpTo(got, files[i].src, files[i].pos) /\ Unmet(files[i].src)
    BY Zenon DEF Once, EntryOnce
  <2>4. Unmet(saved[p].src)'
    BY Zenon, <1>3, <2>1, <2>3 DEF Unmet
  <2>5. QED
    BY Zenon, <1>3, <2>1, <2>2, <2>3, <2>4
<1>5. crashes \in Nat
  BY Zenon DEF Once
<1>6. QED
  BY Zenon, <1>1, <1>4, <1>5, ExitOnce

\* After a crash nothing is claimed.
LEMMA CrashOnce == ASSUME Once, Crash PROVE Once'
<1>1. Exit /\ crashes' = crashes + 1 /\ crashes \in Nat
  BY Zenon DEF Crash, Once
<1>2. crashes' \in Nat /\ crashes' # 0
  BY <1>1
<1>3. QED
  BY Zenon, <1>1, <1>2, ExitOnce

\* The process starts: in the file that the saved offset is of, from that offset, and
\* otherwise from the end.
LEMMA StartOnce == ASSUME OneName, Once, IInv, Start PROVE Once'
<1> DEFINE P == {p \in Found(Globbed) : HasCheckpoint(p) \/ at[p] \notin aged}
           Ids == {FileId[at[p]] : p \in P}
           PathOf(i) == CHOOSE p \in P : FileId[at[p]] = i
<1>1. /\ pc = "down" /\ pc' # "down" /\ path_index' = [p \in P |-> FileId[at[p]]]
      /\ files' = [i \in Ids |-> Entry(PathOf(i), ResumeAt(PathOf(i)), at[PathOf(i)])]
      /\ UNCHANGED disk /\ UNCHANGED <<got, twice, crashes, reg>>
  BY Zenon DEF Start
<1>2. reg = "none"
  BY Zenon, <1>1 DEF IInv, RegIsFree
<1>3. P \subseteq {"app"} /\ \A p \in P : at[p] # NoFile
  BY Zenon DEF Found, OneName
<1>4. \A i \in Ids : PathOf(i) = "app"
  <2>1. \A i \in Ids : PathOf(i) \in P
    BY Zenon
  <2>2. QED
    BY Zenon, <1>3, <2>1
<1>5. /\ DOMAIN files' = Ids /\ DOMAIN path_index' = P
      /\ \A p \in P : path_index'[p] = FileId[at[p]]
      /\ \A i \in Ids : files'[i] = Entry("app", ResumeAt("app"), at["app"])
  BY Zenon, <1>1, <1>4
<1>6. (P = {}) => (Ids = {})
  BY Zenon
<1> HIDE DEF P, Ids, PathOf
<1>7. CASE P = {}
  <2>1. ~Awaited' /\ \A j \in DOMAIN files' : EntryOnce(files'[j])
    BY Zenon, <1>1, <1>2, <1>5, <1>6, <1>7 DEF Awaited
  <2>2. QED
    BY Zenon, <1>1, <1>2, <2>1, NoReadOnce
<1>8. CASE P # {}
  <2>1. "app" \in P
    BY Zenon, <1>3, <1>8
  <2> DEFINE f == at["app"]
  <2>2. f \in File /\ f # NoFile
    BY Zenon, <1>3, <2>1 DEF IInv, Types, Name
  <2>3. len[f] \in Nat
    BY Zenon, <2>2, LengthIsNat
  <2>4. UpTo(got, f, len[f])
    BY Zenon, <2>2 DEF Once, AcceptedOf
  <2>5. ResumeAt("app") <= len[f] /\ (crashes = 0 => UpTo(got, f, ResumeAt("app")))
    <3>1. CASE HasCheckpoint("app")
      <4>1. /\ "app" \in DOMAIN saved /\ saved["app"].ino = FileId[f]
            /\ ResumeAt("app") = Smaller(saved["app"].pos, len[f])
        BY Zenon, <3>1 DEF HasCheckpoint, ResumeAt
      <4>2. saved["app"].pos \in Nat
        BY Zenon, <4>1 DEF IInv, Types
      <4>3. ResumeAt("app") <= len[f] /\ ResumeAt("app") \in {saved["app"].pos, len[f]}
        BY <2>3, <4>1, <4>2 DEF Smaller
      <4>4. crashes = 0 => UpTo(got, f, saved["app"].pos)
        <5>1. crashes = 0 => /\ saved["app"].ino = FileId[saved["app"].src]
                             /\ UpTo(got, saved["app"].src, saved["app"].pos)
                             /\ Unmet(saved["app"].src)
          BY Zenon, <1>1, <4>1 DEF Once, SavedOnce
        <5>2. CASE f = saved["app"].src
          BY Zenon, <5>1, <5>2
        <5>3. CASE f # saved["app"].src
          <6>1. crashes = 0 => UpTo(got, f, 0)
            BY Zenon, <2>2, <4>1, <5>1, <5>3 DEF Unmet, Name
          <6> HIDE DEF f
          <6>2. QED
            BY Zenon, <4>2, <6>1, UpToMore
        <5>4. QED
          BY Zenon, <5>2, <5>3
      <4>5. QED
        BY Zenon, <2>4, <4>3, <4>4
    <3>2. CASE ~HasCheckpoint("app")
      <4>1. ResumeAt("app") = len[f] /\ len[f] <= len[f]
        BY <2>3, <3>2 DEF ResumeAt
      <4>2. QED
        BY Zenon, <2>4, <4>1
    <3>3. QED
      BY Zenon, <3>1, <3>2
  <2>6. path_index'["app"] = FileId[f]
    BY Zenon, <1>5, <2>1
  <2>7. QED
    BY Zenon, <1>1, <1>2, <1>5, <2>2, <2>5, <2>6, FoundOnce
<1>9. QED
  BY Zenon, <1>7, <1>8

\* A step that changes nothing but the place in the loop and the offsets on disk.
LEMMA RestOnce ==
    ASSUME Once, UNCHANGED disk, UNCHANGED <<files, path_index, reg, crashes>>, UNCHANGED history,
           pc' # "down" \/ UNCHANGED <<pc, saved>>
    PROVE  Once'
<1>1. (\A f, n : UpTo(got', f, n) <=> UpTo(got, f, n)) /\ UNCHANGED <<at, len, used, twice>>
  BY Zenon DEF UpTo, disk, history
<1>2. \A f \in File : AcceptedOf(f)'
  BY Zenon, <1>1 DEF Once, AcceptedOf
<1>3. \A f : Unmet(f) => Unmet(f)'
  BY Zenon, <1>1 DEF Unmet
<1>4. \A i \in DOMAIN files' : EntryOnce(files[i])'
  BY Zenon, <1>3, <1>1 DEF Once, EntryOnce
<1>5. crashes = 0 => AwaitedUnread' /\ SavedOnce'
  BY Zenon, <1>3, <1>1 DEF Once, AwaitedUnread, Awaited, SavedOnce
<1>6. QED
  BY Zenon, <1>1, <1>2, <1>4, <1>5 DEF Once

\* Every step.
LEMMA NextOnce == ASSUME OneName, Once, IInv, [Next]_vars PROVE Once'
<1>1. CASE Environment
  BY Zenon, <1>1, EnvironmentOnce
<1>2. CASE \E a \in {"poll", "cancel"} : StartPoll(a)
  BY Zenon, <1>2, RestOnce DEF StartPoll
<1>3. CASE Polling
  <2>1. PICK i \in Ino : \/ VisitSkipped(i) \/ VisitRetained(i) \/ VisitOpenFailed(i)
                         \/ VisitRotated(i) \/ VisitRotatedLost(i) \/ VisitLive(i)
    BY Zenon, <1>3 DEF Polling
  <2>2. VisitSkipped(i) => Once'
    BY Zenon, RestOnce DEF VisitSkipped, Visit
  <2>3. QED
    BY Zenon, <2>1, <2>2, RetainedOnce, OpenFailedOnce, RotatedOnce, RotatedLostOnce, LiveOnce
<1>4. CASE Register
  BY Zenon, <1>4, RegisterOnce
<1>5. CASE \E save \in BOOLEAN : EndPoll(save)
  BY Zenon, <1>5, EndPollOnce
<1>6. CASE SaveTick
  BY Zenon, <1>6, RestOnce DEF SaveTick
<1>7. CASE Rescan
  BY Zenon, <1>7, RescanOnce
<1>8. CASE Stop
  BY Zenon, <1>8, StopOnce
<1>9. CASE Crash
  BY Zenon, <1>9, CrashOnce
<1>10. CASE Start
  BY Zenon, <1>10, StartOnce
<1>11. CASE UNCHANGED vars
  BY Zenon, <1>11, RestOnce DEF vars
<1>12. QED
  BY Zenon, <1>1, <1>2, <1>3, <1>4, <1>5, <1>6, <1>7, <1>8, <1>9, <1>10, <1>11 DEF Next

\* If the patterns match the live name only and offsets can be saved, no line is sent twice
\* without a crash: not by a rotation at any moment of a poll, an eviction, a rescan, an
\* inode number that is used again or a graceful restart.
THEOREM OnlyCrashesRepeat == OneName => (Spec => []OnlyCrashRepeats)
<1> SUFFICES ASSUME OneName PROVE Spec => []OnlyCrashRepeats
  OBVIOUS
<1>1. Once /\ IInv /\ [Next]_vars => Once'
  BY Zenon, NextOnce
<1>2. Once => OnlyCrashRepeats
  BY Zenon DEF Once, OnlyCrashRepeats
<1>3. QED
  BY <1>1, <1>2, InitOnce, Inductive, PTL DEF Spec
=============================================================================
