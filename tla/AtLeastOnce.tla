----------------------------- MODULE AtLeastOnce -----------------------------
(***************************************************************************)
(* What a log source with a durable position promises: an entry is behind  *)
(* the position only if it is done, that is, shipped, or given up for a    *)
(* reason that has nothing to do with the state of the agent.  A restart   *)
(* goes on from the durable position, so entries may be shipped again, but *)
(* none is passed over - except that a source without any durable position *)
(* may start at the end of the log, and give up all that is there.         *)
(***************************************************************************)
EXTENDS Integers

VARIABLES
    log,        \* how many entries the log holds, numbered from 1
    done,       \* those that need no further work
    pos,        \* the position in memory, 0 for none
    mark        \* the durable position, 0 for none

abstract == <<log, done, pos, mark>>

Init == log = 0 /\ done = {} /\ pos = 0 /\ mark = 0

Append ==
    /\ log' = log + 1
    /\ UNCHANGED <<done, pos, mark>>

\* An entry is dealt with; the position may move up to it, and may be saved, if
\* all the entries before it are dealt with too.
Handle(i) ==
    /\ done' = done \cup {i}
    /\ pos' \in {pos, i} /\ pos' >= pos
    /\ 1..pos' \subseteq done'
    /\ mark' \in {mark, pos'}
    /\ UNCHANGED log

\* An entry is dealt with, and the source fails before its position moves: it falls
\* back to the durable one.
FallBack(i) ==
    /\ done' = done \cup {i}
    /\ pos' = mark
    /\ UNCHANGED <<log, mark>>

Save ==
    /\ mark' = pos
    /\ UNCHANGED <<log, done, pos>>

\* The source starts, for the first time or again.
Begin ==
    /\ pos' = mark
    /\ done' \in IF mark = 0 THEN {done, 1..log} ELSE {done}
    /\ UNCHANGED <<log, mark>>

Next ==
    \/ Append \/ (\E i \in 1..log : Handle(i) \/ FallBack(i))
    \/ Save \/ Begin

Spec == Init /\ [][Next]_abstract

\* Nothing behind the durable position is still to be done.
MarkIsSafe == 1..mark \subseteq done
=============================================================================
