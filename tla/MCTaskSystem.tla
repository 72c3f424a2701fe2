---------------------------- MODULE MCTaskSystem ----------------------------
(***************************************************************************)
(* Small instances of TaskSystem for TLC: boss owns the group, ann is a    *)
(* member and bob a stranger at first.  Where they are in Tasks and Users, *)
(* t1 is a task of the group that ann owns, else boss, and t2 a personal   *)
(* task that bob owns, else ann; s1 is a sub-task of t1.                   *)
(***************************************************************************)
EXTENDS TaskSystem, TLC

CONSTANTS boss, ann, bob, t1, t2, s1, p1, p2, why

MC_ownerOf    ==
  [t \in Tasks |-> IF t = t2 /\ bob \in Users THEN bob
                   ELSE IF ann \in Users THEN ann ELSE boss]
MC_groupTasks == {t1}
MC_parentOf   == [s \in SubTasks |-> t1]
MC_firstRole  ==
  [u \in Users |-> IF u = boss THEN "OWNER"
                   ELSE IF u = ann THEN "MEMBER" ELSE NoRow]

\* The mails somebody has kept: ann's for t1, boss's for s1.
MC_taskLinks == {[task |-> t1, sub |-> Null, user |-> ann]}
MC_subLinks  == {[task |-> t1, sub |-> s1, user |-> boss]}

\* The requests in flight are interchangeable.
ProcSymmetry == Permutations(Procs)

=============================================================================
