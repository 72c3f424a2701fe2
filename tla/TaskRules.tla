----------------------------- MODULE TaskRules -----------------------------
(***************************************************************************)
(* The status machines and role predicates of tasks.util.ts, and the       *)
(* enumerations of the Prisma schema they range over.  Everything here is  *)
(* a constant: no state, no recursion.                                     *)
(***************************************************************************)

TaskStatus == {"OPEN", "CLOSED", "ARCHIVED"}

AssignmentStatus ==
  {"PENDING", "ACCEPTED", "DECLINED", "COMPLETED", "SKIPPED", "DROPPED"}

GroupRole == {"OWNER", "ADMIN", "MEMBER"}

\* A row that is not in its table.
NoRow == "NONE"

ASSIGNMENT_RULES ==
  [ PENDING   |-> {"ACCEPTED", "DECLINED", "SKIPPED"},
    ACCEPTED  |-> {"COMPLETED", "DECLINED", "PENDING", "DROPPED"},
    DECLINED  |-> {"ACCEPTED", "PENDING"},
    SKIPPED   |-> {},
    DROPPED   |-> {},
    COMPLETED |-> {} ]

TASK_STATUS_MAP ==
  [ OPEN     |-> {"CLOSED", "ARCHIVED"},
    CLOSED   |-> {"OPEN", "ARCHIVED"},
    ARCHIVED |-> {"OPEN"} ]

\* The statuses a close still has to deal with: the where clause of the
\* assignee count that closeTask takes.
OpenAssignment == {"PENDING", "ACCEPTED", "DECLINED"}

-----------------------------------------------------------------------------

isAdminish(role) == role \in {"OWNER", "ADMIN"}

taskStatusCanTransition(from, to) == from = to \/ to \in TASK_STATUS_MAP[from]

\* Mutant of isValidAssignmentTransition: completed work may be taken up again
\* on a closed task.
isValidAssignmentTransitionAnytime(prev, next, taskStatus) ==
  \/ prev = next
  \/ prev = "COMPLETED" /\ next = "ACCEPTED"
  \/ prev # "COMPLETED" /\ next \in ASSIGNMENT_RULES[prev]

\* next may be any string: the mail link carries one that is no status at all.
isValidAssignmentTransition(prev, next, taskStatus) ==
  \/ prev = next
  \/ prev = "COMPLETED" /\ taskStatus = "OPEN" /\ next = "ACCEPTED"
  \/ prev # "COMPLETED" /\ next \in ASSIGNMENT_RULES[prev]

=============================================================================
