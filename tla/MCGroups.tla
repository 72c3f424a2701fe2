------------------------------ MODULE MCGroups ------------------------------
(***************************************************************************)
(* Small instances of Groups for TLC: boss founded the group, ann is an    *)
(* admin of it, bob not yet a member.                                      *)
(***************************************************************************)
EXTENDS Groups, TLC

CONSTANTS boss, ann, bob, p1, p2

MC_firstRole ==
  [u \in Users |-> IF u = boss THEN "OWNER"
                   ELSE IF u = ann THEN "ADMIN" ELSE NoRow]

\* The requests in flight are interchangeable.
ProcSymmetry == Permutations(Procs)

=============================================================================
