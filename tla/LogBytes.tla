------------------------------ MODULE LogBytes ------------------------------
(***************************************************************************)
(* The contents of a log file, as the two reading paths of the tailer see  *)
(* them.  A file is a sequence of bytes.  Of a byte we keep what the code  *)
(* tells apart and a serial number, unique per write, that lets the        *)
(* properties follow it from the file to the SDK:                          *)
(*                                                                         *)
(*   "S"  text that makes its line match multiline_start_pattern           *)
(*   "c"  any other text                                                   *)
(*   "w"  whitespace other than the newline                                *)
(*   "n"  the newline                                                      *)
(*                                                                         *)
(* Buffers (partial, record) are sets of bytes: serial numbers give their  *)
(* order back where it matters, in TrimEnd and Keep.                       *)
(***************************************************************************)
EXTENDS Integers, Sequences, FiniteSets

Kind == {"S", "c", "w", "n"}
Byte == [k : Kind, n : Nat]

IsText(b) == b.k \in {"S", "c"}
Text(B) == {b \in B : IsText(b)}

\* The bytes of f at offsets from .. upto-1 (offsets count from 0).
Span(f, from, upto) == {f[i] : i \in (from + 1)..upto}

\* read_line from offset `from` stops after offset e: at the first newline, or
\* at the end of the file when there is none.
StopsAt(f, from, e) ==
    /\ e \in (from + 1)..Len(f)
    /\ \A i \in (from + 1)..(e - 1) : f[i].k # "n"
    /\ f[e].k = "n" \/ e = Len(f)

\* str::trim_end: whitespace with no text after it goes.
TrimEnd(B) == {b \in B : b.k # "n" /\ \E t \in Text(B) : b.n <= t.n}

\* truncate: the first `cap` bytes of B.
Keep(B, cap) == {b \in B : Cardinality({a \in B : a.n <= b.n}) <= cap}

\* The start pattern matches a (normalized) line.
Matches(B) == \E b \in B : b.k = "S"
=============================================================================
