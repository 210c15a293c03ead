-------------------------- MODULE Multiline_proofs --------------------------
(***************************************************************************)
(* For every value of the bounds and caps of Multiline: the variables keep *)
(* their types, the reader stands exactly behind what it holds, no byte of *)
(* text below pos, or below the offset on disk, is unshipped, what is read *)
(* ahead is held in memory, nothing is shipped twice without a crash, and  *)
(* a start line begins a record of its own.                                *)
(***************************************************************************)
EXTENDS Multiline, TLAPS

-----------------------------------------------------------------------------
(* Spans and buffers. *)

\* A span splits at any offset inside it.
LEMMA SpanSplit ==
    ASSUME NEW f, NEW a \in Nat, NEW b \in Nat, NEW c \in Nat, a <= b, b <= c
    PROVE  Span(f, a, c) = Span(f, a, b) \cup Span(f, b, c)
<1>1. (a + 1)..c = ((a + 1)..b) \cup ((b + 1)..c)
  OBVIOUS
<1>2. QED
  BY Zenon, <1>1 DEF Span

\* An empty span has no byte.
LEMMA SpanEmpty ==
    ASSUME NEW f, NEW a \in Nat
    PROVE  Span(f, a, a) = {}
BY DEF Span

\* What is already in the file is not changed by a write.
LEMMA SpanAppend ==
    ASSUME NEW f \in Seq(Byte), NEW x \in Byte,
           NEW a \in Nat, NEW b \in Nat, b <= Len(f)
    PROVE  Span(Append(f, x), a, b) = Span(f, a, b)
<1>1. \A i \in (a + 1)..b : Append(f, x)[i] = f[i]
  OBVIOUS
<1>2. QED
  BY Zenon, <1>1 DEF Span

\* The bytes of a span are bytes.
LEMMA SpanType ==
    ASSUME NEW f \in Seq(Byte), NEW a \in Nat, NEW b \in Nat, b <= Len(f)
    PROVE  Span(f, a, b) \in SUBSET Byte
<1>1. \A i \in (a + 1)..b : f[i] \in Byte
  OBVIOUS
<1>2. QED
  BY Zenon, <1>1 DEF Span

\* Text distributes over union.
LEMMA TextUnion ==
    ASSUME NEW A, NEW B
    PROVE  Text(A \cup B) = Text(A) \cup Text(B)
BY Zenon DEF Text

\* trim_end keeps the text and adds nothing.
LEMMA TrimEndText ==
    ASSUME NEW B \in SUBSET Byte
    PROVE  /\ Text(B) \subseteq TrimEnd(B)
           /\ TrimEnd(B) \in SUBSET Byte
<1>1. \A b \in Text(B) : b.k # "n" /\ b.n <= b.n
  BY DEF Text, IsText, Byte
<1>2. QED
  BY Zenon, <1>1 DEF TrimEnd, Text

\* Truncation keeps a part of what there is.
LEMMA KeepSubset ==
    ASSUME NEW B, NEW c
    PROVE  Keep(B, c) \subseteq B
BY Zenon DEF Keep

\* push_partial loses no text but what it counts as cut.
LEMMA PushPartialText ==
    ASSUME NEW from \in Nat, NEW e \in Nat, from <= e, e <= Len(file),
           TailedFileTypeOK, PushPartial(from, e)
    PROVE  /\ partial' \in SUBSET Byte /\ cut' \in SUBSET Byte
           /\ cut \subseteq cut'
           /\ Text(partial) \cup Text(Span(file, from, e)) \subseteq partial' \cup cut'
<1> DEFINE bytes == partial \cup Span(file, from, e)
<1>1. bytes \in SUBSET Byte
  BY Zenon, SpanType DEF TailedFileTypeOK
<1>2. Keep(bytes, MaxPartial) \subseteq bytes
  BY Zenon, KeepSubset
<1>3. /\ partial' = Keep(bytes, MaxPartial)
      /\ cut' = cut \cup Text(bytes \ Keep(bytes, MaxPartial))
  BY Zenon DEF PushPartial
<1>4. QED
  BY Zenon, <1>1, <1>2, <1>3 DEF Text, TailedFileTypeOK

\* The line that try_emit_line and commit_line assemble has all the text of the
\* partial and of the bytes just read.
LEMMA LineText ==
    ASSUME NEW from \in Nat, NEW e \in Nat, from <= e, e <= Len(file), TailedFileTypeOK
    PROVE  /\ TrimEnd(partial \cup Span(file, from, e)) \in SUBSET Byte
           /\ Text(partial) \cup Text(Span(file, from, e))
                 \subseteq Text(TrimEnd(partial \cup Span(file, from, e)))
<1>1. partial \cup Span(file, from, e) \in SUBSET Byte
  BY Zenon, SpanType DEF TailedFileTypeOK
<1>2. /\ TrimEnd(partial \cup Span(file, from, e)) \in SUBSET Byte
      /\ Text(partial \cup Span(file, from, e))
            \subseteq TrimEnd(partial \cup Span(file, from, e))
  BY Zenon, <1>1, TrimEndText
<1>3. QED
  BY Zenon, <1>2 DEF Text

\* The writer and the rotation tool leave alone what is in the file, unless
\* they truncate it; then neither offset says anything of the new contents.
LEMMA WriterFrame ==
    ASSUME TailedFileTypeOK, WriterStep
    PROVE  /\ TailedFileTypeOK'
           /\ UNCHANGED tailer
           /\ epoch' = "current" \/ saved_epoch' = "current" =>
                 /\ UNCHANGED <<epoch, saved_epoch>>
                 /\ Len(file) <= Len(file')
                 /\ \A a, b \in Nat : b <= Len(file) => Span(file', a, b) = Span(file, a, b)
                 /\ \A i \in 1..Len(file) : file'[i] = file[i]
<1> USE DEF TailedFileTypeOK, tailer, shipped, PC
<1>1. ASSUME NEW k \in Kind, Write(k)
      PROVE  /\ TailedFileTypeOK'
             /\ UNCHANGED <<tailer, epoch, saved_epoch>>
             /\ Len(file) <= Len(file')
             /\ \A a, b \in Nat : b <= Len(file) => Span(file', a, b) = Span(file, a, b)
             /\ \A i \in 1..Len(file) : file'[i] = file[i]
  <2> DEFINE x == [k |-> k, n |-> writes]
  <2>1. x \in Byte
    BY Zenon DEF Byte
  <2>2. /\ file' = Append(file, x) /\ writes' = writes + 1
        /\ UNCHANGED <<tailer, link, truncs, epoch, saved_epoch>>
    BY Zenon, <1>1 DEF Write
  <2> HIDE DEF x
  <2>3. file' \in Seq(Byte) /\ Len(file') = Len(file) + 1
    BY <2>1, <2>2
  <2>4. \A a, b \in Nat : b <= Len(file) => Span(file', a, b) = Span(file, a, b)
    BY <2>1, <2>2, SpanAppend
  <2>5. \A i \in 1..Len(file) : file'[i] = file[i]
    BY <2>1, <2>2
  <2>6. QED
    BY <2>2, <2>3, <2>4, <2>5
<1>2. CASE Truncate
  BY <1>2 DEF Truncate
<1>3. CASE Rename \/ Unlink
  BY <1>3 DEF Rename, Unlink
<1>4. QED
  BY Zenon, <1>1, <1>2, <1>3, TailedFileAssumption DEF WriterStep
-----------------------------------------------------------------------------
(* Records. *)

\* append_to_record loses no text but what it counts as cut.
LEMMA CappedText ==
    ASSUME NEW r \in SUBSET Byte, NEW line \in SUBSET Byte
    PROVE  /\ Capped(r, line) \in SUBSET Byte
           /\ Excess(r, line) \in SUBSET Byte
           /\ Text(r) \cup Text(line) \subseteq Capped(r, line) \cup Excess(r, line)
<1>1. Capped(r, line) \subseteq r \cup line
  BY Zenon, KeepSubset DEF Capped
<1>2. Excess(r, line) = Text((r \cup line) \ Capped(r, line))
  BY Zenon DEF Excess
<1>3. QED
  BY Zenon, <1>1, <1>2 DEF Text

\* fold_partial moves the unfinished line into the record.
LEMMA FoldedText ==
    ASSUME record \in SUBSET Byte, partial \in SUBSET Byte,
           record_bytes \in Nat, partial_bytes \in Nat
    PROVE  /\ FoldedRecord \in SUBSET Byte
           /\ FoldExcess \in SUBSET Byte
           /\ FoldedBytes \in Nat /\ FoldedPartial \in Nat
           /\ FoldedBytes + FoldedPartial = record_bytes + partial_bytes
           /\ FoldedBytes >= record_bytes
           /\ Text(record) \cup Text(partial) \subseteq FoldedRecord \cup FoldExcess
           /\ partial = {} => FoldedBytes = record_bytes
           /\ partial # {} => FoldedPartial = 0
<1>1. CASE partial = {}
  BY <1>1 DEF Fold, FoldedRecord, FoldExcess, FoldedBytes, FoldedPartial, Text
<1>2. CASE partial # {}
  <2> DEFINE line == TrimEnd(partial)
  <2>1. line \in SUBSET Byte /\ Text(partial) \subseteq line
    BY Zenon, TrimEndText
  <2>2. Text(partial) \subseteq Text(line)
    BY Zenon, <2>1 DEF Text
  <2> HIDE DEF line
  <2>3. /\ Capped(record, line) \in SUBSET Byte
        /\ Excess(record, line) \in SUBSET Byte
        /\ Text(record) \cup Text(line) \subseteq Capped(record, line) \cup Excess(record, line)
    BY Zenon, <2>1, CappedText
  <2>4. /\ FoldedRecord = Capped(record, line)
        /\ FoldExcess = Excess(record, line)
        /\ FoldedBytes = record_bytes + partial_bytes
        /\ FoldedPartial = 0
    BY Zenon, <1>2 DEF Fold, FoldedRecord, FoldExcess, FoldedBytes, FoldedPartial, line
  <2>5. QED
    BY <1>2, <2>2, <2>3, <2>4
<1>3. QED
  BY Zenon, <1>1, <1>2

-----------------------------------------------------------------------------
(* The inductive invariant. *)

\* It holds when the agent starts on an empty file.
LEMMA InitIInv == Init => IInv
<1> SUFFICES ASSUME Init PROVE IInv
  BY Zenon
<1>1. TypeOK
  BY DEF Init, InitTailedFile, TypeOK, TailedFileTypeOK, PC
<1>2. Span(file, 0, 0) = {}
  BY Zenon, SpanEmpty
<1>3. QED
  BY <1>1, <1>2 DEF Init, InitTailedFile, IInv, ReadAheadExact, NoSkip, CheckpointNoSkip,
     HeldInMemory, Text

\* The writer and the rotation tool.
LEMMA EnvironmentIInv == IInv /\ Environment => IInv'
<1> SUFFICES ASSUME IInv, WriterStep, UNCHANGED aggregator PROVE IInv'
  BY Zenon DEF Environment
<1> USE DEF aggregator, tailer, shipped
<1>1. TailedFileTypeOK
  BY Zenon DEF IInv, TypeOK
<1>2. /\ TailedFileTypeOK'
      /\ UNCHANGED tailer
      /\ epoch' = "current" \/ saved_epoch' = "current" =>
            /\ UNCHANGED <<epoch, saved_epoch>>
            /\ Len(file) <= Len(file')
            /\ \A a, b \in Nat : b <= Len(file) => Span(file', a, b) = Span(file, a, b)
  BY Zenon, <1>1, WriterFrame
<1>3. file \in Seq(Byte) /\ file' \in Seq(Byte)
  BY Zenon, <1>1, <1>2 DEF TailedFileTypeOK
<1>4. TypeOK' /\ ReadAheadExact'
  BY Zenon, <1>2 DEF IInv, TypeOK, ReadAheadExact
<1>5. NoSkip' /\ CheckpointNoSkip'
  BY <1>1, <1>2, <1>3 DEF IInv, TailedFileTypeOK, NoSkip, CheckpointNoSkip
<1>6. HeldInMemory'
  BY <1>1, <1>2, <1>3 DEF IInv, TypeOK, TailedFileTypeOK, HeldInMemory, ReadAheadExact
<1>7. QED
  BY Zenon, <1>2, <1>4, <1>5, <1>6 DEF IInv

\* poll_all reaching the file: what the reader holds does not change, except
\* that a truncation discards it.
LEMMA VisitingIInv == IInv /\ Visiting => IInv'
<1> SUFFICES ASSUME IInv, NEW a \in {"poll", "cancel"},
                    \/ VisitRetained(a) \/ VisitRotated(a) \/ VisitRotatedLost(a)
                    \/ VisitTruncated(a) \/ VisitLive(a)
             PROVE  IInv'
  BY Zenon DEF Visiting
<1> USE DEF IInv, TypeOK, TailedFileTypeOK, PC, Visit, AfterPoll, SetAgg, world, aggregator, saved, shipped
<1>0. \A p \in Nat : Span(file, p, p) = {} /\ Text(Span(file, p, p)) = {}
  BY Zenon, SpanEmpty DEF Text
<1>1. CASE VisitRetained(a)
  <2>1. CASE agg = "some"
    BY Zenon, <1>1, <2>1 DEF VisitRetained, ReadAheadExact, NoSkip, CheckpointNoSkip, HeldInMemory
  <2>2. CASE agg = "none"
    BY <1>0, <1>1, <2>2 DEF VisitRetained, ReadAheadExact, NoSkip, CheckpointNoSkip,
       HeldInMemory
  <2>3. QED
    BY <2>1, <2>2, SMTT(30)
<1>2. CASE VisitRotated(a)
  BY Zenon, <1>2 DEF VisitRotated, ReadAheadExact, NoSkip, CheckpointNoSkip, HeldInMemory
<1>3. CASE VisitRotatedLost(a)
  BY Zenon, <1>3 DEF VisitRotatedLost, ReadAheadExact, NoSkip, CheckpointNoSkip, HeldInMemory
<1>4. CASE VisitTruncated(a)
  BY <1>0, <1>4 DEF VisitTruncated, ReadAheadExact, NoSkip, CheckpointNoSkip, HeldInMemory
<1>5. CASE VisitLive(a)
  <2>1. CASE agg = "some"
    BY <1>5, <2>1 DEF VisitLive, ReadAheadExact, NoSkip, CheckpointNoSkip, HeldInMemory
  <2>2. CASE agg = "none"
    BY <1>0, <1>5, <2>2 DEF VisitLive, ReadAheadExact, NoSkip, CheckpointNoSkip,
       HeldInMemory
  <2>3. QED
    BY Zenon, <2>1, <2>2
<1>6. QED
  BY Zenon, <1>1, <1>2, <1>3, <1>4, <1>5

\* Once the record is shipped, pos may move over it.
LEMMA RecordCovers ==
    ASSUME IInv, agg = "some", epoch = "current"
    PROVE  /\ pos + record_bytes <= Len(file)
           /\ Text(Span(file, 0, pos + record_bytes)) \subseteq delivered \cup Text(record) \cup cut
<1> USE DEF IInv, TypeOK, TailedFileTypeOK
<1>1. pos + record_bytes <= Len(file) /\ pos + record_bytes \in Nat
  BY DEF ReadAheadExact, HeldInMemory
<1>2. Span(file, 0, pos + record_bytes) = Span(file, 0, pos) \cup Span(file, pos, pos + record_bytes)
  BY <1>1, SpanSplit
<1>3. QED
  BY Zenon, <1>1, <1>2 DEF NoSkip, HeldInMemory, Text

\* Likewise of the record with the unfinished line folded in.
LEMMA FoldCovers ==
    ASSUME IInv, agg = "some", epoch = "current"
    PROVE  /\ pos + FoldedBytes <= Len(file)
           /\ Text(Span(file, 0, pos + FoldedBytes))
                 \subseteq delivered \cup Text(FoldedRecord) \cup cut \cup FoldExcess
           /\ Text(Span(file, pos, pos + FoldedBytes)) \subseteq FoldedRecord \cup cut \cup FoldExcess
           /\ Text(Span(file, pos + FoldedBytes, read_ahead)) \subseteq cut
<1> USE DEF IInv, TypeOK, TailedFileTypeOK
<1>1. /\ FoldedBytes \in Nat /\ FoldedPartial \in Nat
      /\ FoldedBytes + FoldedPartial = record_bytes + partial_bytes
      /\ Text(record) \cup Text(partial) \subseteq FoldedRecord \cup FoldExcess
      /\ partial = {} => FoldedBytes = record_bytes
      /\ partial # {} => FoldedPartial = 0
  BY Zenon, FoldedText
<1>2. read_ahead = pos + record_bytes + partial_bytes /\ read_ahead <= Len(file)
  BY Zenon DEF ReadAheadExact, HeldInMemory
<1>3. /\ Text(Span(file, pos, pos + record_bytes)) \subseteq record \cup cut
      /\ Text(Span(file, pos + record_bytes, read_ahead)) \subseteq partial \cup cut
      /\ Text(Span(file, 0, pos)) \subseteq delivered \cup cut
  BY Zenon DEF HeldInMemory, NoSkip
<1>4. CASE partial = {}
  <2>1. FoldedBytes = record_bytes /\ FoldedRecord = record /\ FoldExcess = {}
    BY Zenon, <1>1, <1>4 DEF FoldedRecord, FoldExcess, Fold
  <2>2. QED
    BY Zenon, <1>2, <1>3, <1>4, <2>1, RecordCovers
<1>5. CASE partial # {}
  <2>1. pos + FoldedBytes = read_ahead
    BY <1>1, <1>2, <1>5
  <2>2. /\ Span(file, pos, read_ahead)
            = Span(file, pos, pos + record_bytes) \cup Span(file, pos + record_bytes, read_ahead)
        /\ Span(file, 0, read_ahead) = Span(file, 0, pos) \cup Span(file, pos, read_ahead)
        /\ Span(file, read_ahead, read_ahead) = {}
    <3>1. /\ pos + record_bytes \in Nat /\ pos <= pos + record_bytes
          /\ pos + record_bytes <= read_ahead /\ pos <= read_ahead /\ 0 <= pos
      BY <1>2
    <3>2. QED
      BY <3>1, SpanSplit, SpanEmpty
  <2>3. Text(Span(file, pos, read_ahead)) \subseteq FoldedRecord \cup cut \cup FoldExcess
    <3>1. Text(Span(file, pos, pos + record_bytes)) \subseteq Text(record) \cup cut
      BY Zenon, <1>3 DEF Text
    <3>2. Text(Span(file, pos + record_bytes, read_ahead)) \subseteq Text(partial) \cup cut
      BY Zenon, <1>3 DEF Text
    <3>3. QED
      BY <1>1, <2>2, <3>1, <3>2, TextUnion
  <2>4. Text(Span(file, 0, read_ahead))
           \subseteq delivered \cup Text(FoldedRecord) \cup cut \cup FoldExcess
    <3>1. Text(Span(file, pos, read_ahead)) \subseteq Text(FoldedRecord) \cup cut \cup FoldExcess
      BY Zenon, <2>3 DEF Text
    <3>2. QED
      BY <1>3, <2>2, <3>1, TextUnion
  <2>5. QED
    BY Zenon, <1>2, <2>1, <2>2, <2>3, <2>4 DEF Text
<1>6. QED
  BY Zenon, <1>4, <1>5

\* One complete line.
LEMMA CommitLineIInv ==
    ASSUME IInv, NEW ok \in BOOLEAN, ReadLine(ok)
    PROVE  IInv'
<1> USE DEF IInv, TypeOK, TailedFileTypeOK, PC
<1>1. agg = "some"
  BY Zenon DEF ReadLine
<1>2. PICK e \in (read_ahead + 1)..Len(file) :
         /\ StopsAt(file, read_ahead, e)
         /\ file[e].k = "n"
         /\ CommitLine(e, ok)
  BY Zenon DEF ReadLine
<1> DEFINE line == TrimEnd(partial \cup Span(file, read_ahead, e))
           flush == Matches(line) /\ HasRecord
           base == IF flush THEN {} ELSE record
           n == e - read_ahead
<1>3. /\ e \in Nat /\ n \in Nat /\ read_ahead + n = e /\ e <= Len(file)
      /\ read_ahead <= e
  OBVIOUS
<1>4. /\ line \in SUBSET Byte
      /\ Text(partial) \cup Text(Span(file, read_ahead, e)) \subseteq Text(line)
  BY Zenon, <1>3, LineText
<1>5. UNCHANGED <<world, crashes, retained_fd, arm, saved, epoch>>
  BY Zenon DEF ReadLine
<1> USE DEF world, saved, shipped, aggregator
<1>6. CASE flush /\ ~Ships(record, ok)
  <2>1. AfterPoll(arm) /\ UNCHANGED <<pos, partial, aggregator, shipped, cut>>
    BY Zenon, <1>2, <1>6 DEF CommitLine
  <2>2. QED
    BY <1>5, <2>1, SMTT(60) DEF AfterPoll, ReadAheadExact, NoSkip, CheckpointNoSkip, HeldInMemory
<1>7. CASE ~(flush /\ ~Ships(record, ok))
  <2>1. /\ IF flush THEN Deliver(record) ELSE UNCHANGED shipped
        /\ pos' = IF flush THEN pos + record_bytes ELSE pos
        /\ record' = Capped(base, line)
        /\ record_bytes' = (IF flush THEN 0 ELSE record_bytes) + partial_bytes + n
        /\ cut' = cut \cup Excess(base, line)
        /\ read_ahead' = read_ahead + n
        /\ partial' = {} /\ partial_bytes' = 0
        /\ last_append' = "some"
        /\ agg' = agg
        /\ NextLine
    BY Zenon, <1>2, <1>7 DEF CommitLine
  <2>2. base \in SUBSET Byte
    BY Zenon
  <2> HIDE DEF line, flush, base, n
  <2>3. /\ Capped(base, line) \in SUBSET Byte
        /\ Excess(base, line) \in SUBSET Byte
        /\ Text(base) \cup Text(line) \subseteq Capped(base, line) \cup Excess(base, line)
    BY Zenon, <1>4, <2>2, CappedText
  <2>4. /\ delivered' \in SUBSET Byte /\ resent' \in SUBSET Byte
        /\ delivered \subseteq delivered'
        /\ flush => Text(record) \subseteq delivered'
    BY Zenon, <2>1 DEF Deliver, Text
  <2>5. TypeOK'
    BY <1>3, <1>5, <2>1, <2>3, <2>4 DEF NextLine, AfterPoll
  <2>6. ReadAheadExact'
    BY <1>1, <1>3, <2>1 DEF ReadAheadExact
  <2>7. NoSkip'
    BY Zenon, <1>1, <1>5, <2>1, <2>4, RecordCovers DEF NoSkip
  <2>8. CheckpointNoSkip'
    BY Zenon, <1>5, <2>1, <2>4 DEF CheckpointNoSkip
  <2>9. HeldInMemory'
    <3> SUFFICES ASSUME epoch = "current"
                 PROVE  /\ e <= Len(file)
                        /\ Text(Span(file, pos', pos' + record_bytes')) \subseteq record' \cup cut'
                        /\ Text(Span(file, pos' + record_bytes', e)) \subseteq cut'
      BY Zenon, <1>3, <1>5, <2>1 DEF HeldInMemory
    <3>1. read_ahead = pos + record_bytes + partial_bytes
      BY Zenon, <1>1 DEF ReadAheadExact
    <3>2. pos' + record_bytes' = e /\ pos' \in Nat /\ pos' <= read_ahead
      BY <1>3, <2>1, <3>1
    <3>3. Text(Span(file, pos + record_bytes, read_ahead)) \subseteq Text(partial) \cup cut
      BY Zenon, <1>1 DEF HeldInMemory, Text
    <3>4. Span(file, pos + record_bytes, e)
             = Span(file, pos + record_bytes, read_ahead) \cup Span(file, read_ahead, e)
      BY <1>3, <3>1, SpanSplit
    <3>5. Text(Span(file, pos + record_bytes, e)) \subseteq record' \cup cut'
      BY <1>4, <2>1, <2>3, <3>3, <3>4, TextUnion
    <3>6. Text(Span(file, pos', e)) \subseteq record' \cup cut'
      <4>1. CASE flush
        BY Zenon, <2>1, <3>5, <4>1
      <4>2. CASE ~flush
        <5>1. Span(file, pos, e) = Span(file, pos, pos + record_bytes) \cup Span(file, pos + record_bytes, e)
          BY <1>3, <3>1, SpanSplit
        <5>2. Text(Span(file, pos, pos + record_bytes)) \subseteq Text(record) \cup cut
          BY Zenon, <1>1 DEF HeldInMemory, Text
        <5>3. base = record
          BY Zenon, <4>2 DEF base
        <5>4. QED
          BY <2>1, <2>3, <3>5, <4>2, <5>1, <5>2, <5>3, TextUnion
      <4>3. QED
        BY Zenon, <4>1, <4>2
    <3>7. Span(file, e, e) = {}
      BY <1>3, SpanEmpty, SMTT(30)
    <3>8. QED
      BY Zenon, <1>3, <3>2, <3>6, <3>7 DEF Text
  <2>10. pc' \in {"read", "drain", "tick", "final"}
    BY Zenon, <2>1 DEF ReadLine, NextLine, AfterPoll
  <2>11. QED
    BY <1>1, <2>1, <2>5, <2>6, <2>7, <2>8, <2>9, <2>10, SMTT(60)
<1>8. QED
  BY <1>6, <1>7, SMTT(60)

\* Bytes without a newline.
LEMMA ReadPartialIInv == IInv /\ ReadPartial => IInv'
<1> SUFFICES ASSUME IInv, ReadPartial PROVE IInv'
  BY Zenon
<1> USE DEF IInv, TypeOK, TailedFileTypeOK, PC, world, saved, shipped
<1>1. PICK e \in (read_ahead + 1)..Len(file) :
         /\ PushPartial(read_ahead, e)
         /\ read_ahead' = e
         /\ partial_bytes' = partial_bytes + (e - read_ahead)
  BY Zenon DEF ReadPartial
<1> DEFINE n == e - read_ahead
<1>2. /\ e \in Nat /\ n \in Nat /\ read_ahead + n = e /\ e <= Len(file)
      /\ read_ahead <= e
  OBVIOUS
<1>3. read_ahead' = e /\ partial_bytes' = partial_bytes + n
  BY Zenon, <1>1
<1>4. agg = "some" /\ UNCHANGED <<world, crashes, pos, retained_fd, agg, record, record_bytes,
                                  last_append, pc, arm, lines, saved, epoch, shipped>>
  BY Zenon DEF ReadPartial
<1>5. /\ partial' \in SUBSET Byte /\ cut' \in SUBSET Byte
      /\ cut \subseteq cut'
      /\ Text(partial) \cup Text(Span(file, read_ahead, e)) \subseteq partial' \cup cut'
  BY Zenon, <1>1, <1>2, PushPartialText
<1> HIDE DEF n
<1>8. TypeOK'
  BY <1>2, <1>3, <1>4, <1>5
<1>9. ReadAheadExact'
  BY <1>2, <1>3, <1>4 DEF ReadAheadExact
<1>10. NoSkip' /\ CheckpointNoSkip'
  BY Zenon, <1>4, <1>5 DEF NoSkip, CheckpointNoSkip
<1>11. HeldInMemory'
  <2> SUFFICES ASSUME epoch = "current"
               PROVE  /\ e <= Len(file)
                      /\ Text(Span(file, pos, pos + record_bytes)) \subseteq record \cup cut'
                      /\ Text(Span(file, pos + record_bytes, e)) \subseteq partial' \cup cut'
    BY Zenon, <1>3, <1>4 DEF HeldInMemory
  <2>1. read_ahead = pos + record_bytes + partial_bytes
    BY Zenon, <1>4 DEF ReadAheadExact
  <2>2. Span(file, pos + record_bytes, e)
           = Span(file, pos + record_bytes, read_ahead) \cup Span(file, read_ahead, e)
    BY <1>2, <2>1, SpanSplit
  <2>3. Text(Span(file, pos + record_bytes, read_ahead)) \subseteq Text(partial) \cup cut
    BY Zenon, <1>4 DEF HeldInMemory, Text
  <2>4. Text(Span(file, pos, pos + record_bytes)) \subseteq record \cup cut
    BY Zenon, <1>4 DEF HeldInMemory
  <2>5. QED
    BY <1>2, <1>5, <2>2, <2>3, <2>4, TextUnion
<1>12. QED
  BY Zenon, <1>4, <1>8, <1>9, <1>10, <1>11

\* The end of a drain: the record goes out with the unfinished line, or stays.
LEMMA DrainEofIInv ==
    ASSUME IInv, NEW ok \in BOOLEAN, DrainEof(ok)
    PROVE  IInv'
<1> USE DEF IInv, TypeOK, TailedFileTypeOK, PC, world, saved, shipped
<1>1. agg = "some"
  BY Zenon DEF DrainEof
<1>2. /\ cut' = cut \cup FoldExcess /\ partial' = {} /\ partial_bytes' = FoldedPartial
      /\ UNCHANGED <<world, crashes, agg, read_ahead, arm, saved, epoch>>
  BY Zenon DEF DrainEof
<1>3. /\ FoldedRecord \in SUBSET Byte
      /\ FoldExcess \in SUBSET Byte
      /\ FoldedBytes \in Nat /\ FoldedPartial \in Nat
      /\ FoldedBytes + FoldedPartial = record_bytes + partial_bytes
  BY Zenon, FoldedText
<1>4. read_ahead = pos + record_bytes + partial_bytes
  BY Zenon, <1>1 DEF ReadAheadExact
<1>5. CASE Ships(FoldedRecord, ok)
  <2>1. /\ Deliver(FoldedRecord) /\ pos' = pos + FoldedBytes
        /\ record' = {} /\ record_bytes' = 0 /\ last_append' = "none"
        /\ retained_fd' = "none" /\ pc' = "gone" /\ lines' = 0
    BY Zenon, <1>5 DEF DrainEof
  <2>2. /\ delivered' \in SUBSET Byte /\ resent' \in SUBSET Byte
        /\ delivered' = delivered \cup Text(FoldedRecord)
    BY Zenon, <1>3, <2>1 DEF Deliver, Text
  <2>3. TypeOK'
    BY <1>2, <1>3, <2>1, <2>2
  <2>4. ReadAheadExact'
    BY <1>2, <1>3, <1>4, <2>1, SMTT(30) DEF ReadAheadExact
  <2>5. NoSkip'
    BY Zenon, <1>1, <1>2, <2>1, <2>2, FoldCovers DEF NoSkip
  <2>6. CheckpointNoSkip'
    BY <1>2, <2>2, SMTT(30) DEF CheckpointNoSkip
  <2>7. HeldInMemory'
    <3>1. pos' \in Nat /\ Span(file, pos', pos') = {}
      BY <1>3, <2>1, SpanEmpty
    <3>2. QED
      BY <1>1, <1>2, <1>3, <2>1, <3>1, FoldCovers DEF HeldInMemory, Text
  <2>8. QED
    BY Zenon, <1>1, <1>2, <2>1, <2>3, <2>4, <2>5, <2>6, <2>7
<1>6. CASE ~Ships(FoldedRecord, ok)
  <2>1. /\ record' = FoldedRecord /\ record_bytes' = FoldedBytes
        /\ AfterPoll(arm)
        /\ UNCHANGED <<pos, shipped, retained_fd, last_append>>
    BY Zenon, <1>6 DEF DrainEof
  <2>2. TypeOK'
    BY Zenon, <1>2, <1>3, <2>1 DEF AfterPoll
  <2>3. ReadAheadExact'
    BY <1>2, <1>3, <1>4, <2>1 DEF ReadAheadExact
  <2>4. NoSkip' /\ CheckpointNoSkip'
    BY <1>2, <2>1, SMTT(30) DEF NoSkip, CheckpointNoSkip
  <2>5. HeldInMemory'
    BY Zenon, <1>1, <1>2, <2>1, FoldCovers DEF HeldInMemory
  <2>6. QED
    BY Zenon, <1>1, <1>2, <2>1, <2>2, <2>3, <2>4, <2>5 DEF AfterPoll
<1>7. QED
  BY Zenon, <1>5, <1>6

\* The steps of read_loop and drain.
LEMMA ReadingIInv == IInv /\ Reading => IInv'
<1> SUFFICES ASSUME IInv, Reading PROVE IInv'
  BY Zenon
<1>1. CASE ReadEof
  BY <1>1, SMTT(30) DEF ReadEof, AfterPoll, IInv, TypeOK, TailedFileTypeOK, PC, ReadAheadExact, NoSkip, CheckpointNoSkip,
     HeldInMemory, world, aggregator, saved, shipped
<1>2. QED
  BY Zenon, <1>1, CommitLineIInv, ReadPartialIInv, DrainEofIInv DEF Reading

\* The end of a tick, the save tick and the shutdown.
LEMMA LoopingIInv == IInv /\ Looping => IInv'
<1> SUFFICES ASSUME IInv, Looping PROVE IInv'
  BY Zenon
<1> USE DEF IInv, TypeOK, TailedFileTypeOK, PC, world, saved, shipped, SaveOffsets
<1>1. ASSUME NEW expired \in BOOLEAN, NEW ok \in BOOLEAN, NEW save \in BOOLEAN,
             Tick(expired, ok, save)
      PROVE  IInv'
  <2>1. /\ pc' = "idle"
        /\ UNCHANGED <<world, crashes, retained_fd, partial, agg, read_ahead,
                       partial_bytes, arm, lines, epoch, cut>>
        /\ IF save THEN SaveOffsets(pos') ELSE UNCHANGED saved
    BY Zenon, <1>1 DEF Tick
  <2>2. CASE expired /\ Ships(record, ok)
    <3>1. /\ agg = "some" /\ Deliver(record) /\ pos' = pos + record_bytes
          /\ record' = {} /\ record_bytes' = 0 /\ last_append' = "none"
      BY Zenon, <1>1, <2>2 DEF Tick
    <3>2. /\ delivered' \in SUBSET Byte /\ resent' \in SUBSET Byte
          /\ delivered' = delivered \cup Text(record)
      BY Zenon, <3>1 DEF Deliver, Text
    <3>3. TypeOK' /\ ReadAheadExact'
      BY <2>1, <3>1, <3>2, SMTT(30) DEF ReadAheadExact
    <3>4. NoSkip'
      BY Zenon, <2>1, <3>1, <3>2, RecordCovers DEF NoSkip
    <3>5. CheckpointNoSkip'
      BY Zenon, <2>1, <3>2, <3>4 DEF CheckpointNoSkip, NoSkip
    <3>6. HeldInMemory'
      <4>1. pos' \in Nat /\ Span(file, pos', pos') = {}
        BY <3>1, SpanEmpty
      <4>2. QED
        BY <2>1, <3>1, <4>1 DEF HeldInMemory, Text
    <3>7. QED
      BY Zenon, <2>1, <3>1, <3>3, <3>4, <3>5, <3>6
  <2>3. CASE ~(expired /\ Ships(record, ok))
    <3>1. UNCHANGED <<pos, shipped, record, record_bytes, last_append>>
      BY Zenon, <1>1, <2>3 DEF Tick
    <3>2. QED
      BY <2>1, <3>1 DEF ReadAheadExact, NoSkip, CheckpointNoSkip, HeldInMemory
  <2>4. QED
    BY <2>2, <2>3, SMTT(60)
<1>2. CASE SaveTick
  BY <1>2 DEF SaveTick, aggregator, ReadAheadExact, NoSkip, CheckpointNoSkip, HeldInMemory
<1>3. ASSUME NEW ok \in BOOLEAN, Final(ok)
      PROVE  IInv'
  <2>1. /\ cut' = cut \cup FoldExcess /\ UNCHANGED <<world, crashes>>
        /\ pc' = "down" /\ pos' = 0 /\ epoch' = "current" /\ retained_fd' = "none"
        /\ partial' = {} /\ agg' = "none" /\ record' = {} /\ record_bytes' = 0
        /\ read_ahead' = 0 /\ partial_bytes' = 0 /\ last_append' = "none"
        /\ arm' = "poll" /\ lines' = 0
        /\ saved_epoch' = epoch
    BY Zenon, <1>3 DEF Final, EndProcess, SetAgg
  <2>2. /\ FoldedRecord \in SUBSET Byte
        /\ FoldExcess \in SUBSET Byte
        /\ FoldedBytes \in Nat
    BY Zenon, FoldedText
  <2>3. Span(file, 0, 0) = {} /\ Len(file) \in Nat
    BY SpanEmpty, SMTT(30)
  <2>4. ReadAheadExact' /\ NoSkip' /\ HeldInMemory'
    BY <2>1, <2>3 DEF ReadAheadExact, NoSkip, HeldInMemory, Text
  <2>5. CASE Ships(FoldedRecord, ok)
    <3>1. Deliver(FoldedRecord) /\ saved_pos' = pos + FoldedBytes
      BY Zenon, <1>3, <2>5 DEF Final, FinalPos
    <3>2. /\ delivered' \in SUBSET Byte /\ resent' \in SUBSET Byte
          /\ delivered' = delivered \cup Text(FoldedRecord)
      BY Zenon, <2>2, <3>1 DEF Deliver, Text
    <3>3. CheckpointNoSkip'
      <4>1. CASE agg = "some"
        BY <2>1, <3>1, <3>2, <4>1, FoldCovers, SMTT(30) DEF CheckpointNoSkip
      <4>2. CASE agg = "none"
        <5>1. FoldedBytes = 0
          BY Zenon, <4>2 DEF FoldedBytes, Fold
        <5>2. QED
          BY <2>1, <3>1, <3>2, <5>1 DEF CheckpointNoSkip, NoSkip
      <4>3. QED
        BY Zenon, <4>1, <4>2
    <3>4. QED
      BY <2>1, <2>2, <2>4, <3>1, <3>2, <3>3
  <2>6. CASE ~Ships(FoldedRecord, ok)
    <3>1. UNCHANGED shipped /\ saved_pos' = pos
      BY Zenon, <1>3, <2>6 DEF Final, FinalPos
    <3>2. CheckpointNoSkip'
      BY <2>1, <3>1, SMTT(30) DEF CheckpointNoSkip, NoSkip
    <3>3. QED
      BY Zenon, <2>1, <2>2, <2>4, <3>1, <3>2
  <2>7. QED
    BY Zenon, <2>5, <2>6
<1>4. QED
  BY Zenon, <1>1, <1>2, <1>3 DEF Looping

\* A crash loses the memory, a restart reads the checkpoint.
LEMMA CrashRestartIInv == IInv /\ (Crash \/ Restart) => IInv'
<1> SUFFICES ASSUME IInv, Crash \/ Restart PROVE IInv'
  BY Zenon
<1> USE DEF IInv, TypeOK, TailedFileTypeOK, PC, world, saved, shipped, aggregator
<1>1. Span(file, 0, 0) = {} /\ Len(file) \in Nat
  BY SpanEmpty
<1>2. CASE Crash
  BY <1>1, <1>2, SMTT(60) DEF Crash, CrashProcess, EndProcess, SetAgg, ReadAheadExact, NoSkip, CheckpointNoSkip,
     HeldInMemory, Text
<1>3. CASE Restart
  BY Zenon, <1>1, <1>3 DEF Restart, RegisterFile, ReadAheadExact, NoSkip, CheckpointNoSkip, HeldInMemory
<1>4. QED
  BY <1>2, <1>3, SMTT(60)

-----------------------------------------------------------------------------
(* The theorems. *)

LEMMA NextIInv == IInv /\ [Next]_vars => IInv'
<1> SUFFICES ASSUME IInv, [Next]_vars PROVE IInv'
  BY Zenon
<1>1. CASE UNCHANGED vars
  BY <1>1 DEF vars, world, aggregator, saved, shipped, IInv, TypeOK, TailedFileTypeOK, ReadAheadExact, NoSkip,
     CheckpointNoSkip, HeldInMemory
<1>2. QED
  BY Zenon, <1>1, EnvironmentIInv, VisitingIInv, ReadingIInv, LoopingIInv, CrashRestartIInv DEF Next

\* The inductive invariant holds in every reachable state.
THEOREM Inductive == Spec => []IInv
BY InitIInv, NextIInv, PTL DEF Spec

\* Every field of the tailer keeps its type.
THEOREM TypeCorrect == Spec => []TypeOK
<1>1. IInv => TypeOK
  BY Zenon DEF IInv
<1>2. QED
  BY <1>1, Inductive, PTL

\* commit_line, push_partial, fold_partial, reset and the four places that ship
\* keep the reader exactly behind what is in memory.
THEOREM ReaderExact == Spec => []ReadAheadExact
<1>1. IInv => ReadAheadExact
  BY Zenon DEF IInv
<1>2. QED
  BY <1>1, Inductive, PTL

\* The record gates the offset: whatever the writer, the channel and the
\* rotation tool do, pos passes only shipped text.
THEOREM OffsetNeverSkips == Spec => []NoSkip
<1>1. IInv => NoSkip
  BY Zenon DEF IInv
<1>2. QED
  BY <1>1, Inductive, PTL

\* An agent that crashes at any step resumes at or before the first byte of
\* text that was not shipped.
THEOREM CheckpointNeverSkips == Spec => []CheckpointNoSkip
<1>1. IInv => CheckpointNoSkip
  BY Zenon DEF IInv
<1>2. QED
  BY <1>1, Inductive, PTL

\* drain gives up the retained fd only after all the text of the old file was
\* shipped.
THEOREM DrainComplete == Spec => DrainsToTheEnd
<1>1. ASSUME IInv, [Next]_vars, pc = "drain", pc' = "gone", epoch = "current"
      PROVE  Text(Span(file, 0, Len(file))) \subseteq delivered' \cup cut'
  <2>1. PICK ok \in BOOLEAN : DrainEof(ok)
    <3>1. ~Environment /\ ~Visiting /\ ~Looping /\ ~Crash /\ ~Restart /\ ~UNCHANGED vars
      BY <1>1, ZenonT(60) DEF Environment, WriterStep, Write, Truncate, Rename, Unlink, tailer, Visiting,
         VisitRetained, VisitRotated, VisitRotatedLost, VisitTruncated, VisitLive, Visit,
         Looping, Tick, SaveTick, Final, EndProcess, Crash, CrashProcess, Restart, RegisterFile,
         vars
    <3>2. ~ReadPartial /\ ~ReadEof
      BY <1>1, ZenonT(60) DEF ReadPartial, ReadEof
    <3>3. ~\E ok \in BOOLEAN : ReadLine(ok)
      BY <1>1, ZenonT(60) DEF ReadLine, CommitLine, NextLine, AfterPoll
    <3>4. QED
      BY <1>1, <3>1, <3>2, <3>3, SMTT(60) DEF Next, Reading
  <2>2. /\ Ships(FoldedRecord, ok)
        /\ delivered' = delivered \cup Text(FoldedRecord)
        /\ cut' = cut \cup FoldExcess
        /\ read_ahead >= Len(file)
    BY Zenon, <1>1, <2>1 DEF DrainEof, AfterPoll, Deliver
  <2>3. agg = "some" /\ read_ahead = Len(file)
    BY <1>1, <2>2 DEF IInv, HeldInMemory, TypeOK, TailedFileTypeOK
  <2>4. /\ pos + FoldedBytes <= Len(file)
        /\ Text(Span(file, 0, pos + FoldedBytes))
              \subseteq delivered \cup Text(FoldedRecord) \cup cut \cup FoldExcess
        /\ Text(Span(file, pos + FoldedBytes, Len(file))) \subseteq cut
    BY Zenon, <1>1, <2>3, FoldCovers
  <2>5. Span(file, 0, Len(file)) = Span(file, 0, pos + FoldedBytes)
                                      \cup Span(file, pos + FoldedBytes, Len(file))
    <3>1. pos + FoldedBytes \in Nat /\ Len(file) \in Nat
      BY <1>1, FoldedText DEF IInv, TypeOK, TailedFileTypeOK
    <3>2. QED
      BY <2>4, <3>1, SpanSplit
  <2>6. QED
    BY <2>2, <2>4, <2>5, TextUnion
<1>2. QED
  BY <1>1, Inductive, PTL DEF Spec, DrainsToTheEnd, Drained
-----------------------------------------------------------------------------
(* Nothing is shipped twice. *)

\* What the file still holds behind an offset.
Rest(p) == Span(file, p, Len(file))

\* Where the reader goes on.
Reach == IF agg = "some" THEN read_ahead ELSE pos

\* Text that is shipped or in memory.
Taken == delivered \cup record \cup partial

\* A byte is written once: what was taken, and what is in the file, has a serial
\* number of its own, smaller than that of the next write.
Fresh ==
    /\ \A b \in Taken : b.n < writes
    /\ \A i \in 1..Len(file) : file[i].n < writes
    /\ \A i, j \in 1..Len(file) : i < j => file[i] # file[j]

\* The shipped text, the record and the partial are apart, and each is behind the
\* offset that is kept for it.  A file shorter than the offset was truncated, and
\* nothing of what it holds now was ever taken.
Apart ==
    /\ delivered \cap record = {} /\ delivered \cap partial = {} /\ record \cap partial = {}
    /\ delivered \cap Rest(pos) = {}
    /\ record \cap Rest(pos + record_bytes) = {}
    /\ partial \cap Rest(Reach) = {}
    /\ Len(file) < Reach => Taken \cap Rest(0) = {}

Once ==
    /\ Fresh
    /\ agg = "none" => record = {}
    /\ crashes = 0 =>
          /\ resent = {}
          /\ pc = "down" => delivered \cap Rest(saved_pos) = {}
          /\ pc \notin {"down", "gone"} => Apart

\* What is behind a later offset is behind an earlier one.
LEMMA RestShrinks ==
    ASSUME NEW a \in Nat, NEW b \in Nat, a <= b, file \in Seq(Byte)
    PROVE  Rest(b) \subseteq Rest(a)
<1>1. (b + 1)..Len(file) \subseteq (a + 1)..Len(file)
  OBVIOUS
<1>2. QED
  BY Zenon, <1>1 DEF Rest, Span

\* A file that is not truncated has nothing behind its end.
LEMMA RestOfAll ==
    ASSUME file \in Seq(Byte)
    PROVE  Rest(Len(file)) = {}
<1>1. Len(file) \in Nat
  OBVIOUS
<1>2. QED
  BY Zenon, <1>1, SpanEmpty DEF Rest

\* What is read next is of the rest, and not of the rest behind it.
LEMMA RestSplits ==
    ASSUME NEW a \in Nat, NEW e \in (a + 1)..Len(file), file \in Seq(Byte), Fresh
    PROVE  /\ Span(file, a, e) \subseteq Rest(a)
           /\ Span(file, a, e) \cap Rest(e) = {}
<1>1. /\ (a + 1)..e \subseteq (a + 1)..Len(file)
      /\ \A i \in (a + 1)..e : \A j \in (e + 1)..Len(file) :
            i \in 1..Len(file) /\ j \in 1..Len(file) /\ i < j
  OBVIOUS
<1>2. \A i \in (a + 1)..e : \A j \in (e + 1)..Len(file) : file[i] # file[j]
  BY Zenon, <1>1 DEF Fresh
<1>3. QED
  BY Zenon, <1>1, <1>2 DEF Rest, Span

\* The offsets of what is in memory are in order.
LEMMA OffsetsInOrder ==
    ASSUME IInv
    PROVE  /\ pos \in Nat /\ pos + record_bytes \in Nat /\ Reach \in Nat /\ file \in Seq(Byte)
           /\ pos <= pos + record_bytes /\ pos + record_bytes <= Reach /\ pos <= Reach
           /\ Len(file) \in Nat /\ writes \in Nat /\ saved_pos \in Nat
BY DEF IInv, TypeOK, TailedFileTypeOK, ReadAheadExact, Reach

\* Nothing that is still to be read was taken.
LEMMA RestNotTaken ==
    ASSUME IInv, Apart
    PROVE  Taken \cap Rest(Reach) = {} /\ Rest(Reach) \subseteq Rest(0)
<1>1. /\ Rest(Reach) \subseteq Rest(pos) /\ Rest(Reach) \subseteq Rest(pos + record_bytes)
      /\ Rest(Reach) \subseteq Rest(0)
  BY OffsetsInOrder, RestShrinks
<1>2. QED
  BY Zenon, <1>1 DEF Apart, Taken

\* The steps that leave the file alone take only what it holds.
LEMMA StaysFresh ==
    ASSUME Fresh, UNCHANGED <<file, writes>>, Taken' \subseteq Taken \cup Rest(0),
           file \in Seq(Byte)
    PROVE  Fresh'
<1>1. \A b \in Rest(0) : b.n < writes
  <2>1. \A i \in (0 + 1)..Len(file) : i \in 1..Len(file)
    OBVIOUS
  <2>2. QED
    BY Zenon, <2>1 DEF Rest, Span, Fresh
<1>2. QED
  BY Zenon, <1>1 DEF Fresh

\* A step of the writer puts nothing behind an offset that was taken before.
LEMMA WriterRest ==
    ASSUME IInv, Fresh, Environment
    PROVE  /\ Fresh'
           /\ \A p \in Nat : Taken \cap Rest(p)' \subseteq Rest(p)
           /\ Len(file) <= Len(file') \/ \A p \in Nat : Rest(p)' = {}
<1> USE DEF IInv, TypeOK, TailedFileTypeOK
<1>1. Taken' = Taken /\ file \in Seq(Byte) /\ writes \in Nat
  <2>1. UNCHANGED <<tailer, aggregator>>
    BY Zenon DEF Environment, WriterStep, Write, Truncate, Rename, Unlink
  <2>2. QED
    BY Zenon, <2>1 DEF tailer, aggregator, shipped, Taken
<1>2. ASSUME NEW k \in Kinds, Write(k)
      PROVE  /\ Fresh'
             /\ \A p \in Nat : Taken \cap Rest(p)' \subseteq Rest(p)
             /\ Len(file') = Len(file) + 1
  <2> DEFINE x == [k |-> k, n |-> writes]
  <2>1. x \in Byte /\ x.n = writes
    BY Zenon, TailedFileAssumption DEF Byte
  <2>2. file' = Append(file, x) /\ writes' = writes + 1
    BY Zenon, <1>2 DEF Write
  <2> HIDE DEF x
  <2>3. /\ Len(file') = Len(file) + 1 /\ file' \in Seq(Byte)
        /\ \A i \in 1..Len(file) : file'[i] = file[i]
        /\ file'[Len(file) + 1] = x
        /\ \A i \in 1..Len(file) : file[i] \in Byte
    BY <1>1, <2>1, <2>2
  <2>4. x \notin Taken /\ \A i \in 1..Len(file) : file[i] # x
    BY <1>1, <2>1 DEF Fresh
  <2>5. ASSUME NEW p \in Nat, NEW i \in (p + 1)..Len(file')
        PROVE  file'[i] \in Rest(p) \cup {x}
    <3>1. i \in (p + 1)..Len(file) \/ i = Len(file) + 1
      BY <1>1, <2>3
    <3>2. i \in (p + 1)..Len(file) => file'[i] = file[i]
      BY <1>1, <2>3
    <3>3. QED
      BY Zenon, <2>3, <3>1, <3>2 DEF Rest, Span
  <2>6. \A p \in Nat : Taken \cap Rest(p)' \subseteq Rest(p)
    BY Zenon, <2>4, <2>5 DEF Rest, Span
  <2>7. \A b \in Taken' : b.n < writes'
    <3>1. \A b \in Taken : b.n \in Nat /\ b.n < writes
      BY Zenon DEF Fresh, Taken, Byte
    <3>2. QED
      BY <1>1, <2>2, <3>1
  <2>8. \A i \in 1..Len(file') : file'[i].n < writes'
    <3>1. \A i \in 1..Len(file) : file[i].n \in Nat /\ file[i].n < writes
      BY Zenon, <2>3 DEF Fresh, Byte
    <3>2. QED
      BY <1>1, <2>1, <2>2, <2>3, <3>1
  <2>9. \A i, j \in 1..Len(file') : i < j => file'[i] # file'[j]
    <3>1. \A i, j \in 1..Len(file') : i < j =>
             i \in 1..Len(file) /\ (j \in 1..Len(file) \/ j = Len(file) + 1)
      BY <1>1, <2>3
    <3>2. QED
      BY Zenon, <2>3, <2>4, <3>1 DEF Fresh
  <2>10. QED
    BY Zenon, <2>3, <2>6, <2>7, <2>8, <2>9 DEF Fresh
<1>3. CASE Truncate
  <2>1. file' = <<>> /\ writes' = writes /\ Len(file') = 0
    BY <1>3 DEF Truncate
  <2>2. 1..Len(file') = {} /\ \A p \in Nat : (p + 1)..Len(file') = {}
    BY <2>1
  <2>3. \A p \in Nat : Rest(p)' = {}
    BY Zenon, <2>2 DEF Rest, Span
  <2>4. QED
    BY Zenon, <1>1, <2>1, <2>2, <2>3 DEF Fresh
<1>4. CASE Rename \/ Unlink
  <2>1. UNCHANGED <<file, writes>>
    BY Zenon, <1>4 DEF Rename, Unlink
  <2>2. Fresh' /\ (\A p \in Nat : Rest(p)' = Rest(p)) /\ Len(file') = Len(file)
    BY Zenon, <1>1, <2>1 DEF Fresh, Rest
  <2>3. Len(file) <= Len(file)
    BY <1>1
  <2>4. QED
    BY Zenon, <2>2, <2>3
<1>5. QED
  <2>1. Len(file) <= Len(file) + 1
    BY <1>1
  <2>2. QED
    BY Zenon, <1>2, <1>3, <1>4, <2>1 DEF Environment, WriterStep

\* It holds when the agent starts.
LEMMA InitOnce == Init => Once
<1> SUFFICES ASSUME Init PROVE Once
  BY Zenon
<1>1. 1..Len(file) = {}
  BY DEF Init, InitTailedFile
<1>2. QED
  BY Zenon, <1>1 DEF Init, InitTailedFile, Once, Fresh, Taken

\* The writer and the rotation tool.
LEMMA EnvironmentOnce == IInv /\ Once /\ Environment => Once'
<1> SUFFICES ASSUME IInv, Once, Environment PROVE Once'
  BY Zenon
<1>1. UNCHANGED <<tailer, aggregator>>
  BY Zenon DEF Environment, WriterStep, Write, Truncate, Rename, Unlink
<1>2. /\ UNCHANGED <<crashes, pos, pc, saved_pos, delivered, resent, partial, agg, record,
                     record_bytes, read_ahead, Reach, Taken>>
  BY Zenon, <1>1 DEF tailer, aggregator, shipped, Reach, Taken
<1>3. /\ Fresh'
      /\ \A p \in Nat : Taken \cap Rest(p)' \subseteq Rest(p)
      /\ Len(file) <= Len(file') \/ \A p \in Nat : Rest(p)' = {}
  BY Zenon, WriterRest DEF Once
<1>4. /\ pos \in Nat /\ pos + record_bytes \in Nat /\ Reach \in Nat /\ saved_pos \in Nat
      /\ 0 \in Nat
  BY Zenon, OffsetsInOrder
<1>5. delivered \subseteq Taken /\ record \subseteq Taken /\ partial \subseteq Taken
  BY Zenon DEF Taken
<1>6. ASSUME crashes = 0, pc \notin {"down", "gone"} PROVE Apart'
  <2>1. Apart
    BY Zenon, <1>6 DEF Once
  <2>2. Len(file') < Reach => Taken \cap Rest(0)' = {}
    <3>1. CASE Len(file) <= Len(file')
      <4>1. Len(file') < Reach => Len(file) < Reach
        <5>1. Len(file) \in Nat /\ Len(file') \in Nat
          <6>1. file \in Seq(Byte) /\ file' \in Seq(Byte)
            BY Zenon, EnvironmentIInv DEF IInv, TypeOK, TailedFileTypeOK
          <6>2. QED
            BY <6>1
        <5>2. QED
          BY <1>4, <3>1, <5>1
      <4>2. QED
        BY Zenon, <1>3, <1>4, <2>1, <4>1 DEF Apart
    <3>2. CASE \A p \in Nat : Rest(p)' = {}
      BY Zenon, <1>4, <3>2
    <3>3. QED
      BY Zenon, <1>3, <3>1, <3>2
  <2>3. /\ delivered \cap Rest(pos)' = {} /\ record \cap Rest(pos + record_bytes)' = {}
        /\ partial \cap Rest(Reach)' = {}
    BY Zenon, <1>2, <1>3, <1>4, <1>5, <2>1 DEF Apart
  <2>4. QED
    BY Zenon, <1>2, <2>1, <2>2, <2>3 DEF Apart
<1>7. QED
  BY Zenon, <1>2, <1>3, <1>4, <1>5, <1>6 DEF Once

\* A step that leaves alone the file, what was taken and the offsets kept for it.
LEMMA NothingTaken ==
    ASSUME IInv, Once, pc \notin {"down", "gone"}, pc' \notin {"down", "gone"},
           UNCHANGED <<file, writes, crashes, pos, delivered, resent, partial, record,
                       record_bytes>>,
           agg' = "none" => agg = "none", Reach' = Reach
    PROVE  Once'
<1>1. Fresh'
  BY Zenon DEF Once, Fresh, Taken
<1>2. Apart => Apart'
  BY Zenon DEF Apart, Rest, Taken
<1>3. QED
  BY Zenon, <1>1, <1>2 DEF Once

\* poll_all reaching the file.
LEMMA VisitingOnce == IInv /\ Once /\ Visiting => Once'
<1> SUFFICES ASSUME IInv, Once, NEW a \in {"poll", "cancel"},
                    \/ VisitRetained(a) \/ VisitRotated(a) \/ VisitRotatedLost(a)
                    \/ VisitTruncated(a) \/ VisitLive(a)
             PROVE  Once'
  BY Zenon DEF Visiting
<1> USE DEF world, saved, shipped, aggregator
<1>1. /\ pc = "idle" /\ agg \in {"none", "some"} /\ file \in Seq(Byte)
      /\ agg = "none" => partial = {} /\ record = {} /\ record_bytes = 0
  BY Zenon DEF Visit, VisitRetained, VisitRotated, VisitRotatedLost, VisitTruncated, VisitLive,
     IInv, TypeOK, TailedFileTypeOK, Once
<1>2. CASE VisitRetained(a)
  <2>1. /\ UNCHANGED <<file, writes, crashes, pos, delivered, resent, partial>>
        /\ pc' = "drain" /\ agg' = "some" /\ UNCHANGED <<record, record_bytes>> /\ Reach' = Reach
    BY Zenon, <1>1, <1>2 DEF VisitRetained, SetAgg, Reach
  <2>2. QED
    BY Zenon, <1>1, <2>1, NothingTaken
<1>3. CASE VisitRotated(a)
  <2>1. /\ UNCHANGED <<file, writes, crashes, pos, delivered, resent, partial, agg, record,
                       record_bytes, Reach>>
        /\ pc' \in {"final", "tick"}
    BY Zenon, <1>3 DEF VisitRotated, AfterPoll, Reach
  <2>2. QED
    BY Zenon, <1>1, <2>1, NothingTaken
<1>4. CASE VisitRotatedLost(a)
  <2>1. /\ UNCHANGED <<file, writes, crashes, delivered, resent>>
        /\ pc' = "gone" /\ partial' = {} /\ record' = {}
    BY Zenon, <1>4 DEF VisitRotatedLost, SetAgg
  <2>2. Fresh'
    BY Zenon, <1>1, <2>1, StaysFresh DEF Once, Taken
  <2>3. QED
    BY Zenon, <2>1, <2>2 DEF Once
<1>5. CASE VisitTruncated(a)
  <2>1. /\ UNCHANGED <<file, writes, crashes, delivered, resent>> /\ Len(file) < pos
        /\ pc' \in {"final", "tick", "read"} /\ partial' = {} /\ record' = {}
        /\ pos' = 0 /\ record_bytes' = 0 /\ Reach' = 0
    BY Zenon, <1>5 DEF VisitTruncated, SetAgg, AfterPoll, Reach
  <2>2. Fresh'
    BY Zenon, <1>1, <2>1, StaysFresh DEF Once, Taken
  <2>3. Len(file) < Reach /\ ~ (Len(file) < 0)
    BY <2>1, OffsetsInOrder
  <2>4. Apart => Apart'
    BY Zenon, <2>1, <2>3 DEF Apart, Rest, Taken
  <2>5. QED
    BY Zenon, <1>1, <2>1, <2>2, <2>4 DEF Once
<1>6. CASE VisitLive(a)
  <2>1. /\ UNCHANGED <<file, writes, crashes, pos, delivered, resent, partial, record,
                       record_bytes>>
        /\ pc' \in {"final", "tick", "read"} /\ Reach' = Reach /\ (agg' = "none" => agg = "none")
    BY Zenon, <1>1, <1>6 DEF VisitLive, SetAgg, AfterPoll, Reach
  <2>2. QED
    BY Zenon, <1>1, <2>1, NothingTaken
<1>7. QED
  BY Zenon, <1>2, <1>3, <1>4, <1>5, <1>6

\* One complete line.
LEMMA CommitLineOnce ==
    ASSUME IInv, Once, NEW ok \in BOOLEAN, ReadLine(ok)
    PROVE  Once'
<1>1. agg = "some" /\ pc \in {"read", "drain"} /\ file \in Seq(Byte) /\ read_ahead \in Nat
  BY Zenon DEF ReadLine, IInv, TypeOK, TailedFileTypeOK
<1>2. PICK e \in (read_ahead + 1)..Len(file) : CommitLine(e, ok)
  BY Zenon DEF ReadLine
<1>3. UNCHANGED <<file, writes, crashes>>
  BY Zenon DEF ReadLine, world
<1> DEFINE new == Span(file, read_ahead, e)
           line == TrimEnd(partial \cup new)
           flush == Matches(line) /\ HasRecord
           base == IF flush THEN {} ELSE record
<1>4. line \subseteq partial \cup new /\ Capped(base, line) \subseteq base \cup line
  BY Zenon, KeepSubset DEF TrimEnd, Capped
<1>5. CASE flush /\ ~Ships(record, ok)
  <2>1. AfterPoll(arm) /\ UNCHANGED <<pos, partial, aggregator, shipped>>
    BY Zenon, <1>2, <1>5 DEF CommitLine
  <2>2. /\ UNCHANGED <<pos, delivered, resent, partial, record, record_bytes, agg, Reach>>
        /\ pc' \in {"final", "tick"}
    BY Zenon, <2>1 DEF AfterPoll, aggregator, shipped, Reach
  <2>3. QED
    BY Zenon, <1>1, <1>3, <2>2, NothingTaken
<1>6. CASE ~(flush /\ ~Ships(record, ok))
  <2>1. /\ IF flush THEN Deliver(record) ELSE UNCHANGED shipped
        /\ pos' = IF flush THEN pos + record_bytes ELSE pos
        /\ record' = Capped(base, line)
        /\ read_ahead' = read_ahead + (e - read_ahead)
        /\ partial' = {} /\ agg' = agg
        /\ pc' \in {"read", "drain", "tick", "final"}
    BY Zenon, <1>1, <1>2, <1>6 DEF CommitLine, NextLine, AfterPoll
  <2>2. record' \subseteq base \cup partial \cup new
    BY Zenon, <1>4, <2>1
  <2>3. /\ flush => /\ delivered' = delivered \cup Text(record) /\ pos' = pos + record_bytes
                    /\ resent' = resent \cup (delivered \cap Text(record)) /\ base = {}
        /\ ~flush => UNCHANGED <<delivered, resent, pos>> /\ base = record
    BY Zenon, <2>1 DEF Deliver, shipped
  <2> HIDE DEF flush, base, line
  <2>4. e \in Nat /\ e <= Len(file) /\ read_ahead <= e /\ read_ahead' = e
    BY <1>1, <2>1
  <2>5. Reach = read_ahead /\ Reach' = e /\ pos' + record_bytes' \in Nat
        /\ pos' + record_bytes' = e
    <3>1. ReadAheadExact' /\ partial_bytes' = 0 /\ pos' \in Nat /\ record_bytes' \in Nat
      BY Zenon, <1>2, <1>6, CommitLineIInv DEF IInv, TypeOK, TailedFileTypeOK, CommitLine, flush,
         line
    <3>2. QED
      BY <1>1, <2>1, <2>4, <3>1 DEF ReadAheadExact, Reach
  <2>6. new \subseteq Rest(read_ahead) /\ new \cap Rest(e) = {} /\ Rest(read_ahead) \subseteq Rest(0)
    BY <1>1, RestSplits, RestShrinks DEF Once
  <2> HIDE DEF new
  <2>7. Fresh'
    BY Zenon, <1>1, <1>3, <2>1, <2>2, <2>3, <2>6, StaysFresh DEF Once, Taken, Text
  <2>8. ASSUME Apart, resent = {} PROVE Apart' /\ resent' = {}
    <3>1. Taken \cap Rest(read_ahead) = {}
      BY Zenon, <2>5, <2>8, RestNotTaken
    <3>2. /\ Rest(e) \subseteq Rest(read_ahead)
          /\ Rest(pos + record_bytes) \subseteq Rest(pos)
      BY <1>1, <2>4, OffsetsInOrder, RestShrinks
    <3>3. /\ Text(record) \subseteq record
          /\ Rest(pos)' = Rest(pos') /\ Rest(e)' = Rest(e)
      BY Zenon, <1>3 DEF Text, Rest
    <3>4. /\ delivered' \subseteq delivered \cup record /\ resent' = {}
          /\ delivered' \cap Rest(pos') = {}
          /\ delivered' \cap base = {} /\ base \subseteq record
      BY Zenon, <2>3, <2>8, <3>2, <3>3 DEF Apart
    <3>5. delivered' \cap record' = {}
      BY Zenon, <2>2, <2>6, <2>8, <3>1, <3>4 DEF Apart, Taken
    <3>6. record' \cap Rest(e) = {}
      BY Zenon, <2>2, <2>6, <3>1, <3>2, <3>4 DEF Taken
    <3>7. ~ (Len(file) < e)
      BY <1>1, <2>4
    <3>8. QED
      BY Zenon, <1>3, <2>1, <2>5, <3>3, <3>4, <3>5, <3>6, <3>7 DEF Apart, Rest
  <2>9. QED
    BY Zenon, <1>1, <1>3, <2>1, <2>7, <2>8 DEF Once
<1>7. QED
  BY Zenon, <1>5, <1>6

\* Bytes without a newline.
LEMMA ReadPartialOnce == IInv /\ Once /\ ReadPartial => Once'
<1> SUFFICES ASSUME IInv, Once, ReadPartial PROVE Once'
  BY Zenon
<1>1. agg = "some" /\ pc \in {"read", "drain"} /\ file \in Seq(Byte) /\ read_ahead \in Nat
  BY Zenon DEF ReadPartial, IInv, TypeOK, TailedFileTypeOK
<1>2. PICK e \in (read_ahead + 1)..Len(file) : PushPartial(read_ahead, e) /\ read_ahead' = e
  BY Zenon DEF ReadPartial
<1>3. UNCHANGED <<file, writes, crashes, pos, agg, record, record_bytes, pc, delivered, resent>>
  BY Zenon DEF ReadPartial, world, shipped
<1> DEFINE new == Span(file, read_ahead, e)
<1>4. partial' \subseteq partial \cup new
  BY Zenon, <1>2, KeepSubset DEF PushPartial
<1>5. Reach = read_ahead /\ Reach' = e
  BY Zenon, <1>1, <1>2, <1>3 DEF Reach
<1>6. new \subseteq Rest(read_ahead) /\ new \cap Rest(e) = {} /\ Rest(read_ahead) \subseteq Rest(0)
  BY <1>1, RestSplits, RestShrinks DEF Once
<1> HIDE DEF new
<1>7. Fresh'
  BY Zenon, <1>1, <1>3, <1>4, <1>6, StaysFresh DEF Once, Taken
<1>8. ASSUME Apart PROVE Apart'
  <2>1. Taken \cap Rest(read_ahead) = {}
    BY Zenon, <1>5, <1>8, RestNotTaken
  <2>2. Rest(e) \subseteq Rest(read_ahead) /\ ~ (Len(file) < e)
    BY <1>1, RestShrinks
  <2>3. /\ delivered \cap partial' = {} /\ record \cap partial' = {} /\ partial' \cap Rest(e) = {}
    BY Zenon, <1>4, <1>6, <1>8, <2>1, <2>2 DEF Apart, Taken
  <2>4. QED
    BY Zenon, <1>3, <1>5, <1>8, <2>2, <2>3 DEF Apart, Rest
<1>9. QED
  BY Zenon, <1>1, <1>3, <1>7, <1>8 DEF Once

\* fold_partial adds the partial to the record, and its bytes to the length.
LEMMA FoldApart ==
    ASSUME IInv, Once
    PROVE  /\ FoldedRecord \subseteq record \cup partial
           /\ Apart => /\ delivered \cap FoldedRecord = {}
                       /\ FoldedRecord \cap Rest(pos + FoldedBytes) = {}
                       /\ delivered \cap Rest(pos + FoldedBytes) = {}
<1>1. FoldedRecord \subseteq record \cup partial
  BY Zenon, KeepSubset DEF FoldedRecord, Capped, TrimEnd
<1>2. /\ pos + FoldedBytes \in Nat /\ pos <= pos + FoldedBytes
      /\ pos + record_bytes <= pos + FoldedBytes
      /\ partial # {} => pos + FoldedBytes = Reach
  BY FoldedText DEF IInv, TypeOK, TailedFileTypeOK, ReadAheadExact, Reach
<1>3. /\ Rest(pos + FoldedBytes) \subseteq Rest(pos)
      /\ Rest(pos + FoldedBytes) \subseteq Rest(pos + record_bytes)
  BY <1>2, OffsetsInOrder, RestShrinks
<1>4. QED
  BY Zenon, <1>1, <1>2, <1>3 DEF Apart

\* The end of a drain.
LEMMA DrainEofOnce ==
    ASSUME IInv, Once, NEW ok \in BOOLEAN, DrainEof(ok)
    PROVE  Once'
<1>1. /\ agg = "some" /\ pc = "drain" /\ file \in Seq(Byte)
      /\ UNCHANGED <<file, writes, crashes, agg, read_ahead>> /\ partial' = {}
  BY Zenon DEF DrainEof, world, IInv, TypeOK, TailedFileTypeOK
<1>2. CASE Ships(FoldedRecord, ok)
  <2>1. Deliver(FoldedRecord) /\ record' = {} /\ pc' = "gone"
    BY Zenon, <1>2 DEF DrainEof
  <2>2. Taken' \subseteq Taken
    BY Zenon, <1>1, <2>1, FoldApart DEF Taken, Deliver, Text
  <2>3. Fresh'
    BY Zenon, <1>1, <2>2, StaysFresh DEF Once
  <2>4. Apart /\ resent = {} => resent' = {}
    BY Zenon, <2>1, FoldApart DEF Deliver, Text
  <2>5. QED
    BY Zenon, <1>1, <2>1, <2>3, <2>4 DEF Once
<1>3. CASE ~Ships(FoldedRecord, ok)
  <2>1. /\ record' = FoldedRecord /\ record_bytes' = FoldedBytes
        /\ pc' \in {"tick", "final"} /\ UNCHANGED <<pos, delivered, resent, Reach>>
    BY Zenon, <1>1, <1>3 DEF DrainEof, AfterPoll, shipped, Reach
  <2>2. Taken' \subseteq Taken
    BY Zenon, <1>1, <2>1, FoldApart DEF Taken
  <2>3. Fresh'
    BY Zenon, <1>1, <2>2, StaysFresh DEF Once
  <2>4. Apart => Apart'
    BY Zenon, <1>1, <2>1, <2>2, FoldApart DEF Apart, Rest
  <2>5. QED
    BY Zenon, <1>1, <2>1, <2>3, <2>4 DEF Once
<1>4. QED
  BY Zenon, <1>2, <1>3

\* The end of a tick, the save tick and the shutdown.
LEMMA LoopingOnce == IInv /\ Once /\ Looping => Once'
<1> SUFFICES ASSUME IInv, Once, Looping PROVE Once'
  BY Zenon
<1>1. file \in Seq(Byte)
  BY Zenon DEF IInv, TypeOK, TailedFileTypeOK
<1>2. ASSUME NEW expired \in BOOLEAN, NEW ok \in BOOLEAN, NEW save \in BOOLEAN,
             Tick(expired, ok, save)
      PROVE  Once'
  <2>1. pc = "tick" /\ pc' = "idle" /\ UNCHANGED <<file, writes, crashes, partial, agg, read_ahead>>
    BY Zenon, <1>2 DEF Tick, world
  <2>2. CASE expired /\ Ships(record, ok)
    <3>1. /\ agg = "some" /\ Deliver(record) /\ pos' = pos + record_bytes
          /\ record' = {} /\ record_bytes' = 0 /\ Reach' = Reach
      BY Zenon, <1>2, <2>1, <2>2 DEF Tick, Reach
    <3>2. /\ delivered' \subseteq delivered \cup record /\ Taken' \subseteq Taken
          /\ Apart /\ resent = {} => resent' = {}
      BY Zenon, <2>1, <3>1 DEF Deliver, Text, Taken, Apart
    <3>3. Fresh'
      BY Zenon, <1>1, <2>1, <3>2, StaysFresh DEF Once
    <3>4. Rest(pos + record_bytes) \subseteq Rest(pos)
      BY OffsetsInOrder, RestShrinks
    <3>5. Apart => Apart'
      BY Zenon, <2>1, <3>1, <3>2, <3>4 DEF Apart, Rest
    <3>6. QED
      BY Zenon, <2>1, <3>1, <3>2, <3>3, <3>5 DEF Once
  <2>3. CASE ~(expired /\ Ships(record, ok))
    <3>1. UNCHANGED <<pos, delivered, resent, record, record_bytes, Reach>>
      BY Zenon, <1>2, <2>1, <2>3 DEF Tick, shipped, Reach
    <3>2. QED
      BY Zenon, <2>1, <3>1, NothingTaken
  <2>4. QED
    BY Zenon, <2>2, <2>3
<1>3. CASE SaveTick
  <2>1. /\ UNCHANGED <<file, writes, crashes, pos, delivered, resent, partial, agg, record,
                       record_bytes, Reach>>
        /\ pc = "idle" /\ pc' = "idle"
    BY Zenon, <1>3 DEF SaveTick, world, shipped, aggregator, Reach
  <2>2. QED
    BY Zenon, <2>1, NothingTaken
<1>4. ASSUME NEW ok \in BOOLEAN, Final(ok) PROVE Once'
  <2>1. /\ pc = "final" /\ pc' = "down" /\ UNCHANGED <<file, writes, crashes>>
        /\ partial' = {} /\ record' = {}
    BY Zenon, <1>4 DEF Final, EndProcess, SetAgg, world
  <2>2. \/ Deliver(FoldedRecord) /\ saved_pos' = pos + FoldedBytes
        \/ UNCHANGED <<delivered, resent>> /\ saved_pos' = pos
    BY Zenon, <1>4 DEF Final, FinalPos, SaveOffsets, shipped
  <2>3. Taken' \subseteq Taken
    BY Zenon, <2>1, <2>2, FoldApart DEF Taken, Deliver, Text
  <2>4. Fresh'
    BY Zenon, <1>1, <2>1, <2>3, StaysFresh DEF Once
  <2>5. Apart /\ resent = {} => resent' = {} /\ delivered' \cap Rest(saved_pos)' = {}
    <3>1. Rest(saved_pos)' = Span(file, saved_pos', Len(file))
      BY Zenon, <2>1 DEF Rest
    <3>2. CASE Deliver(FoldedRecord) /\ saved_pos' = pos + FoldedBytes
      <4>1. /\ delivered' \subseteq delivered \cup FoldedRecord
            /\ resent' = resent \cup (delivered \cap Text(FoldedRecord))
            /\ Text(FoldedRecord) \subseteq FoldedRecord
        BY Zenon, <3>2 DEF Deliver, Text
      <4>2. QED
        BY Zenon, <3>1, <3>2, <4>1, FoldApart DEF Rest
    <3>3. CASE UNCHANGED <<delivered, resent>> /\ saved_pos' = pos
      BY Zenon, <3>1, <3>3 DEF Apart, Rest
    <3>4. QED
      BY Zenon, <2>2, <3>2, <3>3
  <2>6. QED
    BY Zenon, <2>1, <2>4, <2>5 DEF Once
<1>5. QED
  BY Zenon, <1>2, <1>3, <1>4 DEF Looping

\* A crash, and a restart at the offset on disk.
LEMMA CrashRestartOnce == IInv /\ Once /\ (Crash \/ Restart) => Once'
<1> SUFFICES ASSUME IInv, Once, Crash \/ Restart PROVE Once'
  BY Zenon
<1>1. file \in Seq(Byte) /\ crashes \in Nat /\ saved_pos \in Nat
  BY Zenon DEF IInv, TypeOK, TailedFileTypeOK
<1>2. CASE Crash
  <2>1. /\ UNCHANGED <<file, writes, delivered>> /\ crashes' = crashes + 1
        /\ partial' = {} /\ record' = {}
    BY Zenon, <1>2 DEF Crash, CrashProcess, EndProcess, SetAgg, world, shipped
  <2>2. Fresh' /\ crashes' # 0
    <3>1. Taken' \subseteq Taken
      BY Zenon, <2>1 DEF Taken
    <3>2. Fresh'
      BY Zenon, <1>1, <2>1, <3>1, StaysFresh DEF Once
    <3>3. QED
      BY <1>1, <2>1, <3>2
  <2>3. QED
    BY Zenon, <2>1, <2>2 DEF Once
<1>3. CASE Restart
  <2>1. /\ pc = "down" /\ UNCHANGED <<file, writes, crashes, delivered, resent, partial, agg,
                                      record, record_bytes>>
        /\ agg = "none" /\ partial = {} /\ record = {} /\ record_bytes = 0
        /\ \/ pc' = "gone"
           \/ pc' = "idle" /\ pos' = IF saved_pos <= Len(file) THEN saved_pos ELSE Len(file)
    BY Zenon, <1>3 DEF Restart, RegisterFile, world, shipped, aggregator, IInv, Once
  <2>2. Fresh'
    BY Zenon, <2>1 DEF Once, Fresh, Taken
  <2>3. ASSUME pc' = "idle", crashes = 0 PROVE Apart'
    <3>1. /\ Reach' = pos' /\ pos' + record_bytes' = pos' /\ ~ (Len(file) < pos')
          /\ pos' \in {saved_pos, Len(file)}
      BY <1>1, <2>1, <2>3 DEF Reach
    <3>2. delivered \cap Span(file, pos', Len(file)) = {}
      <4>1. CASE pos' = saved_pos
        BY Zenon, <2>1, <2>3, <4>1 DEF Once, Rest
      <4>2. CASE pos' = Len(file)
        BY Zenon, <1>1, <4>2, RestOfAll DEF Rest
      <4>3. QED
        BY Zenon, <3>1, <4>1, <4>2
    <3>3. QED
      BY Zenon, <2>1, <3>1, <3>2 DEF Apart, Rest
  <2>4. QED
    BY Zenon, <2>1, <2>2, <2>3 DEF Once
<1>4. QED
  BY Zenon, <1>2, <1>3

LEMMA NextOnce == IInv /\ Once /\ [Next]_vars => Once'
<1> SUFFICES ASSUME IInv, Once, [Next]_vars PROVE Once'
  BY Zenon
<1>1. CASE UNCHANGED vars
  <2>1. UNCHANGED <<file, writes, crashes, pos, pc, delivered, resent, partial, agg, record,
                    record_bytes, read_ahead, saved_pos>>
    BY Zenon, <1>1 DEF vars, world, aggregator, saved, shipped
  <2>2. QED
    BY Zenon, <2>1 DEF Once, Fresh, Apart, Taken, Reach, Rest
<1>2. CASE ReadEof
  <2>1. /\ UNCHANGED <<file, writes, crashes, pos, delivered, resent, partial, agg, record,
                       record_bytes, Reach>>
        /\ pc = "read" /\ pc' \in {"tick", "final"}
    BY Zenon, <1>2 DEF ReadEof, AfterPoll, world, shipped, aggregator, Reach
  <2>2. QED
    BY Zenon, <2>1, NothingTaken
<1>3. QED
  BY Zenon, <1>1, <1>2, EnvironmentOnce, VisitingOnce, CommitLineOnce, ReadPartialOnce,
     DrainEofOnce, LoopingOnce, CrashRestartOnce DEF Next, Reading

\* Text the reader took is shipped or in memory, whichever flush was refused.
THEOREM TextIsHeld == Spec => []HeldInMemory
<1>1. IInv => HeldInMemory
  BY Zenon DEF IInv
<1>2. QED
  BY <1>1, Inductive, PTL

\* Without a crash no byte of text is shipped a second time, whatever the channel
\* refuses, the writer truncates or the rotation tool moves, and across any number
\* of graceful stops and restarts.
THEOREM ShippedOnce == Spec => []NoDuplicates
<1>1. Once => NoDuplicates
  BY Zenon DEF Once, NoDuplicates
<1>2. QED
  BY <1>1, Inductive, InitOnce, NextOnce, PTL DEF Spec

-----------------------------------------------------------------------------
(* Start lines. *)

\* What the reader holds behind the record is one unfinished line.
PartialIsUnfinished ==
    (epoch = "current" /\ agg = "some") =>
        \A i \in (pos + record_bytes + 1)..read_ahead : file[i].k # "n"

Starts == StartsItsOwnRecord /\ PartialIsUnfinished

\* A step after which there is no record and no partial.
LEMMA EmptyStarts ==
    ASSUME IInv', epoch' = "current" => agg' = "none" \/ (record_bytes' = 0 /\ read_ahead' = pos')
    PROVE  Starts'
<1>1. pos' \in Nat
  BY Zenon DEF IInv, TypeOK, TailedFileTypeOK
<1>2. CASE epoch' = "current" /\ agg' # "none"
  <2>1. /\ (pos' + 1)..(pos' + record_bytes') = {}
        /\ (pos' + record_bytes' + 1)..read_ahead' = {}
    BY <1>1, <1>2
  <2>2. QED
    BY Zenon, <2>1 DEF Starts, StartsItsOwnRecord, PartialIsUnfinished
<1>3. QED
  BY Zenon, <1>2 DEF Starts, StartsItsOwnRecord, PartialIsUnfinished

\* A step that leaves alone the file and what is in memory.
LEMMA SameStarts ==
    ASSUME Starts, UNCHANGED <<file, epoch, agg, pos, record_bytes, read_ahead>>,
           cut \subseteq cut', retained_fd' = "none" => retained_fd = "none"
    PROVE  Starts'
BY Zenon DEF Starts, StartsItsOwnRecord, PartialIsUnfinished

\* A step after which there is no record, with the partial as it was.
LEMMA ShippedStarts ==
    ASSUME Starts, UNCHANGED <<file, epoch, agg, read_ahead>>, pos \in Nat, record_bytes \in Nat,
           pos' = pos + record_bytes, record_bytes' = 0
    PROVE  Starts'
<1>1. (pos' + 1)..(pos' + record_bytes') = {} /\ pos' + record_bytes' + 1 = pos + record_bytes + 1
  OBVIOUS
<1>2. QED
  BY Zenon, <1>1 DEF Starts, StartsItsOwnRecord, PartialIsUnfinished

\* The writer and the rotation tool.
LEMMA EnvironmentStarts == IInv /\ Starts /\ Environment => Starts'
<1> SUFFICES ASSUME IInv, Starts, Environment, epoch' = "current", agg' = "some" PROVE Starts'
  BY Zenon DEF Starts, StartsItsOwnRecord, PartialIsUnfinished
<1>1. /\ UNCHANGED <<tailer, aggregator>> /\ epoch = "current"
      /\ \A i \in 1..Len(file) : file'[i] = file[i]
  BY Zenon, WriterFrame DEF Environment, IInv, TypeOK
<1>2. UNCHANGED <<agg, pos, record_bytes, read_ahead, cut, retained_fd>>
  BY Zenon, <1>1 DEF tailer, aggregator
<1>3. /\ (pos + 1)..(pos + record_bytes) \subseteq 1..Len(file)
      /\ (pos + record_bytes + 1)..read_ahead \subseteq 1..Len(file)
  BY <1>1, <1>2 DEF IInv, TypeOK, TailedFileTypeOK, ReadAheadExact, HeldInMemory
<1>4. /\ \A i \in (pos + 1)..(pos + record_bytes) : file'[i] = file[i]
      /\ \A i \in (pos + record_bytes + 1)..read_ahead : file'[i] = file[i]
  BY Zenon, <1>1, <1>3
<1>5. PartialIsUnfinished'
  BY Zenon, <1>1, <1>2, <1>4 DEF Starts, PartialIsUnfinished
<1>6. ASSUME retained_fd = "none", NEW i \in (pos + 1)..(pos + record_bytes),
             NEW j \in (pos + 1)..(pos + record_bytes), i < j, file'[i].k = "n", file'[j].k = "S"
      PROVE  file'[j] \in cut
  <2>1. file[i].k = "n" /\ file[j].k = "S" /\ file'[j] = file[j]
    BY Zenon, <1>4, <1>6
  <2>2. QED
    BY Zenon, <1>1, <1>2, <1>6, <2>1 DEF Starts, StartsItsOwnRecord
<1>7. StartsItsOwnRecord'
  BY Zenon, <1>2, <1>6 DEF StartsItsOwnRecord
<1>8. QED
  BY Zenon, <1>5, <1>7 DEF Starts

\* poll_all reaching the file.
LEMMA VisitingStarts == IInv /\ Starts /\ Visiting => Starts'
<1> SUFFICES ASSUME IInv, Starts, NEW a \in {"poll", "cancel"},
                    \/ VisitRetained(a) \/ VisitRotated(a) \/ VisitRotatedLost(a)
                    \/ VisitTruncated(a) \/ VisitLive(a)
             PROVE  Starts'
  BY Zenon DEF Visiting
<1>1. IInv'
  BY Zenon, VisitingIInv DEF Visiting
<1>2. CASE VisitRetained(a)
  <2>1. UNCHANGED <<file, epoch, pos, cut, retained_fd>>
    BY Zenon, <1>2 DEF VisitRetained, world
  <2>2. CASE agg = "some"
    BY Zenon, <1>2, <2>1, <2>2, SameStarts DEF VisitRetained, aggregator
  <2>3. CASE agg # "some"
    BY Zenon, <1>1, <1>2, <2>1, <2>3, EmptyStarts DEF VisitRetained, SetAgg
  <2>4. QED
    BY Zenon, <2>2, <2>3
<1>3. CASE VisitRotated(a)
  <2>1. UNCHANGED <<file, epoch, agg, pos, record_bytes, read_ahead, cut>> /\ retained_fd' = "some"
    BY Zenon, <1>3 DEF VisitRotated, world, aggregator
  <2>2. QED
    BY Zenon, <2>1, SameStarts
<1>4. CASE VisitRotatedLost(a)
  BY Zenon, <1>1, <1>4, EmptyStarts DEF VisitRotatedLost, SetAgg
<1>5. CASE VisitTruncated(a)
  BY Zenon, <1>1, <1>5, EmptyStarts DEF VisitTruncated, SetAgg
<1>6. CASE VisitLive(a)
  <2>1. UNCHANGED <<file, epoch, pos, cut, retained_fd>>
    BY Zenon, <1>6 DEF VisitLive, world
  <2>2. CASE UNCHANGED aggregator
    BY Zenon, <2>1, <2>2, SameStarts DEF aggregator
  <2>3. CASE SetAgg("some", pos)
    BY Zenon, <1>1, <2>1, <2>3, EmptyStarts DEF SetAgg
  <2>4. QED
    BY Zenon, <1>6, <2>2, <2>3 DEF VisitLive
<1>7. QED
  BY Zenon, <1>2, <1>3, <1>4, <1>5, <1>6

\* One complete line: it matches if its start is in memory, and then it is appended
\* to no record.
LEMMA CommitLineStarts ==
    ASSUME IInv, Starts, NEW ok \in BOOLEAN, ReadLine(ok)
    PROVE  Starts'
<1>1. /\ agg = "some" /\ UNCHANGED <<file, epoch, retained_fd>> /\ file \in Seq(Byte)
      /\ pos \in Nat /\ record_bytes \in Nat /\ read_ahead \in Nat /\ partial_bytes \in Nat
      /\ read_ahead = pos + record_bytes + partial_bytes
  BY Zenon DEF ReadLine, world, IInv, TypeOK, TailedFileTypeOK, ReadAheadExact
<1>2. PICK e \in (read_ahead + 1)..Len(file) : StopsAt(file, read_ahead, e) /\ CommitLine(e, ok)
  BY Zenon DEF ReadLine
<1> DEFINE new == Span(file, read_ahead, e)
           line == TrimEnd(partial \cup new)
           flush == Matches(line) /\ HasRecord
<1>3. CASE flush /\ ~Ships(record, ok)
  <2>1. UNCHANGED <<pos, cut, agg, record_bytes, read_ahead>>
    BY Zenon, <1>2, <1>3 DEF CommitLine, aggregator
  <2>2. QED
    BY Zenon, <1>1, <2>1, SameStarts
<1>4. CASE ~(flush /\ ~Ships(record, ok))
  <2>1. /\ pos' = IF flush THEN pos + record_bytes ELSE pos
        /\ record_bytes' = (IF flush THEN 0 ELSE record_bytes) + partial_bytes + (e - read_ahead)
        /\ read_ahead' = read_ahead + (e - read_ahead)
        /\ agg' = agg /\ cut \subseteq cut'
    BY Zenon, <1>2, <1>4 DEF CommitLine
  <2>2. ~flush => \A b \in partial \cup new : b.k = "S" => record_bytes = 0
    <3>1. ASSUME NEW b \in partial \cup new, b.k = "S" PROVE Matches(line)
      <4>1. /\ partial \cup new \in SUBSET Byte
            /\ b \in Text(partial) \cup Text(new)
        <5>1. read_ahead \in Nat /\ e \in Nat /\ e <= Len(file)
          BY <1>1
        <5>2. new \in SUBSET Byte /\ partial \in SUBSET Byte
          BY Zenon, <1>1, <5>1, SpanType DEF IInv, TypeOK, TailedFileTypeOK
        <5>3. QED
          BY Zenon, <3>1, <5>2 DEF Text, IsText
      <4>2. b \in line
        BY Zenon, <4>1, TrimEndText DEF Text
      <4>3. QED
        BY Zenon, <3>1, <4>2 DEF Matches
    <3>2. ~HasRecord => record_bytes = 0
      BY <1>1 DEF HasRecord
    <3>3. QED
      BY Zenon, <3>1, <3>2
  <2> HIDE DEF flush, line
  <2>3. /\ pos' + record_bytes' = e /\ read_ahead' = e /\ e \in Nat /\ e <= Len(file)
        /\ pos' + record_bytes' + 1 > read_ahead'
        /\ flush => pos' = pos + record_bytes
        /\ ~flush => pos' = pos
    BY <1>1, <2>1
  <2>4. PartialIsUnfinished'
    <3>1. (pos' + record_bytes' + 1)..read_ahead' = {}
      BY <2>3
    <3>2. QED
      BY Zenon, <3>1 DEF PartialIsUnfinished
  <2>5. ASSUME epoch = "current", retained_fd = "none",
               NEW i \in (pos' + 1)..e, NEW j \in (pos' + 1)..e,
               i < j, file[i].k = "n", file[j].k = "S"
        PROVE  file[j] \in cut'
    <3>1. i \in Nat /\ j \in Nat /\ i < e /\ (i > pos + record_bytes => i <= read_ahead \/ i > read_ahead)
      BY <1>1, <2>3, <2>5
    <3>2. ~ (i > pos + record_bytes)
      <4>1. i \in (pos + record_bytes + 1)..read_ahead => file[i].k # "n"
        BY Zenon, <1>1, <2>5 DEF Starts, PartialIsUnfinished
      <4>2. i \in (read_ahead + 1)..(e - 1) => file[i].k # "n"
        BY Zenon, <1>2 DEF StopsAt
      <4>3. i > pos + record_bytes => \/ i \in (pos + record_bytes + 1)..read_ahead
                                      \/ i \in (read_ahead + 1)..(e - 1)
        BY <1>1, <2>3, <3>1
      <4>4. QED
        BY Zenon, <2>5, <4>1, <4>2, <4>3
    <3>3. ~flush /\ pos' = pos /\ record_bytes # 0
      BY <1>1, <2>3, <2>5, <3>1, <3>2
    <3>4. CASE j <= pos + record_bytes
      <4>1. i \in (pos + 1)..(pos + record_bytes) /\ j \in (pos + 1)..(pos + record_bytes)
        BY <1>1, <2>5, <3>1, <3>2, <3>3, <3>4
      <4>2. QED
        BY Zenon, <1>1, <2>1, <2>5, <4>1 DEF Starts, StartsItsOwnRecord
    <3>5. CASE j > pos + record_bytes
      <4>1. \/ file[j] \in Span(file, pos + record_bytes, read_ahead)
            \/ file[j] \in new
        <5>1. j \in (pos + record_bytes + 1)..read_ahead \/ j \in (read_ahead + 1)..e
          BY <1>1, <2>5, <3>1, <3>5
        <5>2. QED
          BY Zenon, <5>1 DEF Span
      <4>2. file[j] \in partial \cup new \cup cut
        <5>1. Text(Span(file, pos + record_bytes, read_ahead)) \subseteq partial \cup cut
          BY Zenon, <1>1, <2>5 DEF IInv, HeldInMemory
        <5>2. QED
          BY Zenon, <2>5, <4>1, <5>1 DEF Text, IsText
      <4>3. QED
        BY Zenon, <2>1, <2>2, <2>5, <3>3, <4>2
    <3>6. QED
      BY <1>1, <3>1, <3>4, <3>5
  <2>6. QED
    BY Zenon, <1>1, <2>3, <2>4, <2>5 DEF Starts, StartsItsOwnRecord
<1>5. QED
  BY Zenon, <1>3, <1>4

\* Bytes without a newline.
LEMMA ReadPartialStarts == IInv /\ Starts /\ ReadPartial => Starts'
<1> SUFFICES ASSUME IInv, Starts, ReadPartial PROVE Starts'
  BY Zenon
<1>1. /\ UNCHANGED <<file, epoch, agg, pos, record_bytes, retained_fd>>
      /\ pos \in Nat /\ record_bytes \in Nat /\ read_ahead \in Nat
  BY Zenon DEF ReadPartial, world, IInv, TypeOK, TailedFileTypeOK
<1>2. PICK e \in (read_ahead + 1)..Len(file) :
         StopsAt(file, read_ahead, e) /\ file[e].k # "n" /\ read_ahead' = e /\ cut \subseteq cut'
  BY Zenon DEF ReadPartial, PushPartial
<1>3. StartsItsOwnRecord'
  BY Zenon, <1>1, <1>2 DEF Starts, StartsItsOwnRecord
<1>4. ASSUME epoch = "current", agg = "some", NEW i \in (pos + record_bytes + 1)..e
      PROVE  file[i].k # "n"
  <2>1. \/ i \in (pos + record_bytes + 1)..read_ahead
        \/ i \in (read_ahead + 1)..(e - 1)
        \/ i = e
    BY <1>1
  <2>2. QED
    BY Zenon, <1>2, <1>4, <2>1 DEF Starts, PartialIsUnfinished, StopsAt
<1>5. QED
  BY Zenon, <1>1, <1>2, <1>3, <1>4 DEF Starts, PartialIsUnfinished

\* What is behind the folded partial is unfinished as well.
LEMMA FoldStarts ==
    ASSUME IInv, Starts, agg = "some", epoch = "current"
    PROVE  \A i \in (pos + FoldedBytes + 1)..read_ahead : file[i].k # "n"
<1>1. (pos + FoldedBytes + 1)..read_ahead \subseteq (pos + record_bytes + 1)..read_ahead
  BY FoldedText DEF IInv, TypeOK, TailedFileTypeOK
<1>2. QED
  BY Zenon, <1>1 DEF Starts, PartialIsUnfinished

\* The end of a drain.
LEMMA DrainEofStarts ==
    ASSUME IInv, Starts, NEW ok \in BOOLEAN, DrainEof(ok), retained_fd = "some"
    PROVE  Starts'
<1>1. UNCHANGED <<file, epoch, agg, read_ahead>> /\ agg = "some"
  BY Zenon DEF DrainEof, world, IInv
<1>2. /\ FoldedBytes \in Nat /\ pos \in Nat
  BY Zenon, FoldedText DEF IInv, TypeOK, TailedFileTypeOK
<1>3. CASE Ships(FoldedRecord, ok)
  <2>1. pos' = pos + FoldedBytes /\ record_bytes' = 0
    BY Zenon, <1>3 DEF DrainEof
  <2>2. (pos' + 1)..(pos' + record_bytes') = {} /\ pos' + record_bytes' + 1 = pos + FoldedBytes + 1
    BY <1>2, <2>1
  <2>3. QED
    BY Zenon, <1>1, <2>2, FoldStarts DEF Starts, StartsItsOwnRecord, PartialIsUnfinished
<1>4. CASE ~Ships(FoldedRecord, ok)
  <2>1. pos' = pos /\ record_bytes' = FoldedBytes /\ retained_fd' = "some"
    BY Zenon, <1>4 DEF DrainEof
  <2>2. QED
    BY Zenon, <1>1, <2>1, FoldStarts DEF Starts, StartsItsOwnRecord, PartialIsUnfinished
<1>5. QED
  BY Zenon, <1>3, <1>4

\* The end of a tick, the save tick and the shutdown.
LEMMA LoopingStarts == IInv /\ Starts /\ Looping => Starts'
<1> SUFFICES ASSUME IInv, Starts, Looping PROVE Starts'
  BY Zenon
<1>1. IInv' /\ pos \in Nat /\ record_bytes \in Nat
  BY Zenon, LoopingIInv DEF IInv, TypeOK, TailedFileTypeOK
<1>2. ASSUME NEW expired \in BOOLEAN, NEW ok \in BOOLEAN, NEW save \in BOOLEAN,
             Tick(expired, ok, save)
      PROVE  Starts'
  <2>1. UNCHANGED <<file, epoch, agg, read_ahead, retained_fd, cut>>
    BY Zenon, <1>2 DEF Tick, world
  <2>2. \/ pos' = pos + record_bytes /\ record_bytes' = 0
        \/ UNCHANGED <<pos, record_bytes>>
    BY Zenon, <1>2 DEF Tick
  <2>3. QED
    BY Zenon, <1>1, <2>1, <2>2, ShippedStarts, SameStarts
<1>3. CASE SaveTick
  BY Zenon, <1>3, SameStarts DEF SaveTick, world, aggregator
<1>4. ASSUME NEW ok \in BOOLEAN, Final(ok) PROVE Starts'
  BY Zenon, <1>1, <1>4, EmptyStarts DEF Final, SetAgg
<1>5. QED
  BY Zenon, <1>2, <1>3, <1>4 DEF Looping

\* A file is drained through its retained fd.
Drains == pc = "drain" => retained_fd = "some"

LEMMA NextDrains == Drains /\ [Next]_vars => Drains'
<1> SUFFICES ASSUME Drains, [Next]_vars PROVE Drains'
  BY Zenon
<1>1. CASE Environment \/ UNCHANGED vars
  BY Zenon, <1>1 DEF Environment, WriterStep, Write, Truncate, Rename, Unlink, tailer, vars, Drains
<1>2. CASE Visiting
  BY Zenon, <1>2 DEF Visiting, VisitRetained, VisitRotated, VisitRotatedLost, VisitTruncated,
     VisitLive, Visit, AfterPoll, Drains
<1>3. CASE ReadPartial \/ ReadEof
  BY Zenon, <1>3 DEF ReadPartial, ReadEof, AfterPoll, Drains
<1>4. ASSUME NEW ok \in BOOLEAN, ReadLine(ok) PROVE Drains'
  BY Zenon, <1>4 DEF ReadLine, CommitLine, NextLine, AfterPoll, Drains
<1>5. ASSUME NEW ok \in BOOLEAN, DrainEof(ok) PROVE Drains'
  BY Zenon, <1>5 DEF DrainEof, AfterPoll, Drains
<1>6. CASE Looping
  BY Zenon, <1>6 DEF Looping, Tick, SaveTick, Final, EndProcess, Drains
<1>7. CASE Crash \/ Restart
  BY Zenon, <1>7 DEF Crash, CrashProcess, EndProcess, Restart, RegisterFile, Drains
<1>8. QED
  BY Zenon, <1>1, <1>2, <1>3, <1>4, <1>5, <1>6, <1>7 DEF Next, Reading

LEMMA NextStarts == IInv /\ Drains /\ Starts /\ [Next]_vars => Starts'
<1> SUFFICES ASSUME IInv, Drains, Starts, [Next]_vars PROVE Starts'
  BY Zenon
<1>1. IInv'
  BY Zenon, NextIInv
<1>2. CASE UNCHANGED vars
  BY Zenon, <1>2, SameStarts DEF vars, world, aggregator
<1>3. CASE ReadEof
  BY Zenon, <1>3, SameStarts DEF ReadEof, world, aggregator
<1>4. CASE Crash
  BY Zenon, <1>1, <1>4, EmptyStarts DEF Crash, SetAgg
<1>5. CASE Restart
  BY Zenon, <1>1, <1>5, EmptyStarts DEF Restart, RegisterFile, aggregator, IInv
<1>6. ASSUME NEW ok \in BOOLEAN, DrainEof(ok) PROVE Starts'
  BY Zenon, <1>6, DrainEofStarts DEF DrainEof, Drains
<1>7. QED
  BY Zenon, <1>2, <1>3, <1>4, <1>5, <1>6, EnvironmentStarts, VisitingStarts, CommitLineStarts,
     ReadPartialStarts, LoopingStarts DEF Next, Reading

\* A start line that is read live begins a record of its own, for any caps and however
\* often the record before it is refused.
THEOREM StartsOwnRecord == Spec => []StartsItsOwnRecord
<1>1. Init => Drains /\ Starts
  BY Zenon DEF Init, InitTailedFile, Drains, Starts, StartsItsOwnRecord, PartialIsUnfinished
<1>2. Starts => StartsItsOwnRecord
  BY Zenon DEF Starts
<1>3. QED
  BY <1>1, <1>2, Inductive, NextDrains, NextStarts, PTL DEF Spec
=============================================================================
