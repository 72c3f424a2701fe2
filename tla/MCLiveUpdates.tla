--------------------------- MODULE MCLiveUpdates ---------------------------
(***************************************************************************)
(* Small instances of LiveUpdates for TLC.  Users are numbers other than 0,*)
(* as their ids are.                                                       *)
(***************************************************************************)
EXTENDS LiveUpdates

\* All sub-tasks belong to the first task.
FirstTask == [s \in SubTasks |-> 1]

=============================================================================
