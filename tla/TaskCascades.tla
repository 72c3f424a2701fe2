---------------------------- MODULE TaskCascades ----------------------------
(***************************************************************************)
(* What closing, archiving and restoring a task promise: the task, its     *)
(* assignees and its sub-tasks change together, in one step, and nothing   *)
(* else changes.  Who may ask for it and when is TaskSystem's concern.     *)
(***************************************************************************)
EXTENDS TaskRules

CONSTANTS Users, Tasks, SubTasks, Reasons, Null, parentOf

VARIABLES task, assignee, subTask

rows == <<task, assignee, subTask>>

New(st) ==
  [ status |-> st, closedById |-> Null, closedReason |-> Null,
    closedWithOpenAssignees |-> FALSE ]

\* New tasks, with assignees and sub-tasks in any state.
Init ==
  /\ task \in [Tasks -> {New(st) : st \in TaskStatus}]
  /\ assignee \in [Tasks \X Users -> AssignmentStatus \cup {NoRow}]
  /\ subTask \in [SubTasks -> [ status : TaskStatus \cup {NoRow},
                                closedById : Users \cup {Null},
                                closedReason : Reasons \cup {Null} ]]

-----------------------------------------------------------------------------
(* What becomes of a row                                                   *)

\* Whoever has not finished is let go.
Released(st) ==
  CASE st = "ACCEPTED" -> "DROPPED"
    [] st = "PENDING"  -> "SKIPPED"
    [] OTHER           -> st

\* Whoever was let go is asked again.
Revived(st) == IF st \in {"SKIPPED", "DROPPED"} THEN "PENDING" ELSE st

Terminated(row, u) ==
  IF row.status \in {"CLOSED", NoRow}
  THEN row ELSE [row EXCEPT !.status = "CLOSED", !.closedById = u]

Shelved(row) ==
  IF row.status = NoRow THEN row ELSE [row EXCEPT !.status = "ARCHIVED"]

Unshelved(row) ==
  IF row.status = "ARCHIVED" THEN [row EXCEPT !.status = "OPEN"] ELSE row

\* F of every assignee, G of every sub-task of t.
Assignees(t, F(_)) ==
  assignee' = [k \in Tasks \X Users |->
                 IF k[1] = t THEN F(assignee[k]) ELSE assignee[k]]

SubTasksOf(t, G(_)) ==
  subTask' = [s \in SubTasks |->
                IF parentOf[s] = t THEN G(subTask[s]) ELSE subTask[s]]

-----------------------------------------------------------------------------
(* The operations                                                          *)

\* A close over open items is explained, and takes the sub-tasks along.
Close(t, u, why, forced) ==
  LET Terminate(row) == Terminated(row, u) IN
  /\ forced => why # Null
  /\ task' = [task EXCEPT ![t] =
                [ status |-> "CLOSED", closedById |-> u, closedReason |-> why,
                  closedWithOpenAssignees |-> forced ]]
  /\ Assignees(t, Released)
  /\ IF forced THEN SubTasksOf(t, Terminate) ELSE UNCHANGED subTask

Archive(t) ==
  /\ task' = [task EXCEPT ![t].status = "ARCHIVED"]
  /\ SubTasksOf(t, Shelved)
  /\ UNCHANGED assignee

\* What else comes back depends on a status read before the task was locked:
\* the assignees, the sub-tasks, or nothing, but never both.
Restore(t) ==
  /\ task' = [task EXCEPT ![t] = New("OPEN")]
  /\ \/ Assignees(t, Revived) /\ UNCHANGED subTask
     \/ SubTasksOf(t, Unshelved) /\ UNCHANGED assignee
     \/ UNCHANGED <<assignee, subTask>>

Next ==
  \E t \in Tasks :
    \/ \E u \in Users, why \in Reasons \cup {Null}, forced \in BOOLEAN :
         Close(t, u, why, forced)
    \/ Archive(t)
    \/ Restore(t)

Spec == Init /\ [][Next]_rows

=============================================================================
