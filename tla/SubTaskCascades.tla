-------------------------- MODULE SubTaskCascades --------------------------
(***************************************************************************)
(* What creating, closing and restoring a sub-task promise: its row and    *)
(* its assignees change together, in one step, and nothing else changes.   *)
(***************************************************************************)
EXTENDS TaskRules

CONSTANTS Users, SubTasks, Reasons, Null

VARIABLES subTask, subAssignee

rows == <<subTask, subAssignee>>

New(st) == [status |-> st, closedById |-> Null, closedReason |-> Null]

\* Sub-tasks that are open, or yet to be created, with nobody let go.
Init ==
  /\ subTask \in [SubTasks -> {New("OPEN"), New(NoRow)}]
  /\ subAssignee \in [ SubTasks \X Users ->
       ({NoRow} \cup AssignmentStatus) \ {"SKIPPED", "DROPPED"} ]
  /\ \A s \in SubTasks, u \in Users :
       subTask[s].status = NoRow => subAssignee[<<s, u>>] = NoRow

\* Whoever has not finished is let go,
Released(st) ==
  CASE st = "ACCEPTED" -> "DROPPED"
    [] st = "PENDING"  -> "SKIPPED"
    [] OTHER           -> st

\* and takes up where they were.
Resumed(st) ==
  CASE st = "DROPPED" -> "ACCEPTED"
    [] st = "SKIPPED" -> "PENDING"
    [] OTHER          -> st

Exists(s) == subTask[s].status # NoRow

Create(s, st) ==
  /\ ~Exists(s)
  /\ subTask' = [subTask EXCEPT ![s] = New(st)]
  /\ UNCHANGED subAssignee

\* Closing a sub-task, whatever its status, counts as having done it.
Close(s, u, why) ==
  /\ Exists(s)
  /\ subTask' = [subTask EXCEPT ![s] =
       [status |-> "CLOSED", closedById |-> u, closedReason |-> why]]
  /\ subAssignee' = [k \in SubTasks \X Users |->
       IF k[1] # s THEN subAssignee[k]
       ELSE IF k[2] = u THEN "COMPLETED" ELSE Released(subAssignee[k])]

\* The reason of the last closing stays.
Restore(s) ==
  /\ Exists(s)
  /\ subTask' = [subTask EXCEPT ![s].status = "OPEN", ![s].closedById = Null]
  /\ subAssignee' = [k \in SubTasks \X Users |->
       IF k[1] # s THEN subAssignee[k] ELSE Resumed(subAssignee[k])]

Next ==
  \E s \in SubTasks :
    \/ \E st \in TaskStatus : Create(s, st)
    \/ \E u \in Users, why \in Reasons \cup {Null} : Close(s, u, why)
    \/ Restore(s)

Spec == Init /\ [][Next]_rows

=============================================================================
