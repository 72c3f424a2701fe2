---------------------------- MODULE MCTaskLists ----------------------------
(***************************************************************************)
(* Small instances of TaskLists for TLC: a day of four ticks, ann six      *)
(* hours ahead of UTC and bob twelve behind; ann owns the personal task t1 *)
(* and bob the group task t2.                                              *)
(***************************************************************************)
EXTENDS TaskLists

CONSTANTS ann, bob, t1, t2, s1

MC_ownerOf == [t \in Tasks |-> IF t = t1 THEN ann ELSE bob]
MC_zone == [u \in Users |-> IF u = ann THEN 1 ELSE -2]
MC_Dates == 0 .. 1

=============================================================================
