------------------------------ MODULE MCWatcher ------------------------------
(* Instances of Watcher: inode numbers all different, or the third file      *)
(* getting the number of the first one again.                                *)
EXTENDS Watcher

Distinct == [f \in File |-> f]
Recycled == [f \in File |-> IF f = "f3" THEN "f1" ELSE f]
=============================================================================
