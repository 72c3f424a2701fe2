----------------------------- MODULE TaskStore -----------------------------
(***************************************************************************)
(* What every task request of the server works on: the four tables of      *)
(* tasks.prisma, the roles of the group that owns the group tasks, the     *)
(* requests in flight and their database transactions.                     *)
(*                                                                         *)
(* The Node process interleaves requests at every await, so a request is a *)
(* process of this specification and each statement it sends is a step.    *)
(* Outside a transaction a statement takes effect at once.  Inside         *)
(* prisma.$transaction the rows written so far are kept in tx[p]: they are *)
(* locked, invisible to the other requests and merged into the tables by   *)
(* Commit (PostgreSQL's READ COMMITTED, which Prisma leaves at its         *)
(* default).  A statement whose rows another transaction has written       *)
(* waits: its action is not enabled.                                       *)
(***************************************************************************)
EXTENDS TaskRules, Naturals

CONSTANTS
  Users,        \* the accounts
  Tasks,        \* the rows of Task
  SubTasks,     \* the ids sub-tasks may get; a row exists once it is created
  Procs,        \* the requests the server may be serving at one moment
  Reasons,      \* non-empty reasons a user may type
  Null,         \* SQL's NULL, and an unused field of a request
  ownerOf,      \* Task.ownerId
  groupTasks,   \* the tasks whose groupId is not null
  parentOf,     \* SubTask.taskId
  MutableUsers, \* users whose membership may change during the run
  Ops,          \* the operations clients ask for
  MaxCalls      \* bound: requests received in one behaviour

ASSUME StoreAssumption ==
  /\ Null \notin Users \cup Tasks \cup SubTasks \cup Reasons
  /\ ownerOf \in [Tasks -> Users]
  /\ groupTasks \subseteq Tasks
  /\ parentOf \in [SubTasks -> Tasks]
  /\ MutableUsers \subseteq Users
  /\ MaxCalls \in Nat

VARIABLES
  task,        \* Task rows
  assignee,    \* TaskAssignee rows, by task and user
  subTask,     \* SubTask rows
  subAssignee, \* SubTaskAssignee rows, by sub-task and user
  role,        \* GroupMember.role of each user in the group
  mailed,      \* decision links that have been mailed
  tx,          \* the uncommitted writes of each request, by table
  req,         \* the request each process is serving
  calls,       \* requests received so far
  wasMember,   \* history: users that have been members of the group
  wasAdmin     \* history: users that have been its owner or an admin

tables == <<task, assignee, subTask, subAssignee>>
people == <<role, wasMember, wasAdmin>>
vars   == <<tables, people, mailed, tx, req, calls>>

-----------------------------------------------------------------------------
(* Rows                                                                    *)

\* closedAt is written with closedById in every statement: closedById stands
\* for both.
TaskRow ==
  [ status : TaskStatus, closedById : Users \cup {Null},
    closedReason : Reasons \cup {Null}, closedWithOpenAssignees : BOOLEAN ]

SubTaskRow ==
  [ status : TaskStatus \cup {NoRow}, closedById : Users \cup {Null},
    closedReason : Reasons \cup {Null} ]

\* TaskAssignee and SubTaskAssignee: the status, or no row.
AssigneeRow == AssignmentStatus \cup {NoRow}

\* createTask and createSubTask take the status from the form.
NewTask(st) ==
  [ status |-> st, closedById |-> Null, closedReason |-> Null,
    closedWithOpenAssignees |-> FALSE ]

NewSubTask(st) == [status |-> st, closedById |-> Null, closedReason |-> Null]

\* Partial functions: the rows of a table one transaction has written.
Writes(Keys, Row) == UNION {[D -> Row] : D \in SUBSET Keys}

Clean == [x \in {} |-> Null]
NoWrites ==
  [ task |-> Clean, assignee |-> Clean, subTask |-> Clean,
    subAssignee |-> Clean ]

Transaction ==
  [ task : Writes(Tasks, TaskRow),
    assignee : Writes(Tasks \X Users, AssigneeRow),
    subTask : Writes(SubTasks, SubTaskRow),
    subAssignee : Writes(SubTasks \X Users, AssigneeRow) ]

\* The rows of f with those of w in their place.
Over(w, f) ==
  [x \in DOMAIN f \cup DOMAIN w |-> IF x \in DOMAIN w THEN w[x] ELSE f[x]]

-----------------------------------------------------------------------------
(* Requests                                                                *)

PC ==
  { "idle", "guard", "sub_guard", "commit",
    "close_count", "close_update", "close_drop", "close_skip", "close_subs",
    "archive_read", "archive_update", "archive_subs",
    "restore_peek", "restore_read", "restore_update", "restore_cascade",
    "report_read", "report_claim", "report_write",
    "assign_target", "assign_assigner", "assign_assignee", "assign_upsert",
    "assign_mail", "decide_read", "decide_write",
    "createSub_insert", "closeSub_update", "closeSub_own", "closeSub_upsert",
    "closeSub_drop", "closeSub_skip", "restoreSub_update",
    "restoreSub_accept", "restoreSub_pend",
    "reportSub_task", "reportSub_own", "reportSub_claim", "reportSub_write" }

\* What a handler holds between two awaits: its route's operation and
\* parameters, the context TaskMemberGuard stored, and what it has read.
NoRequest ==
  [ op |-> "none", pc |-> "idle", actor |-> Null, task |-> Null, sub |-> Null,
    target |-> Null, status |-> NoRow, reason |-> Null, sendMail |-> FALSE,
    isOwner |-> FALSE, isAdminish |-> FALSE, hasOpenItems |-> FALSE,
    seen |-> NoRow ]

Request ==
  [ op : {"none"} \cup Ops, pc : PC, actor : Users \cup {Null},
    task : Tasks \cup {Null}, sub : SubTasks \cup {Null},
    target : Users \cup {Null},
    status : AssigneeRow \cup TaskStatus \cup {"REJECTED"},
    reason : Reasons \cup {Null}, sendMail : BOOLEAN, isOwner : BOOLEAN,
    isAdminish : BOOLEAN, hasOpenItems : BOOLEAN,
    seen : TaskStatus \cup {NoRow} ]

\* A decision token names the task, the sub-task if there is one, and the user.
Link == [task : Tasks, sub : SubTasks \cup {Null}, user : Users]

Goto(p, pc) == req' = [req EXCEPT ![p].pc = pc]

\* The handler answers: with a result, or with the error it threw.
Finish(p) == req' = [req EXCEPT ![p] = NoRequest]

Receive(p, r) ==
  /\ req[p] = NoRequest
  /\ r.op \in Ops
  /\ calls < MaxCalls
  /\ req' = [req EXCEPT ![p] = r]
  /\ calls' = calls + 1
  /\ UNCHANGED <<tables, people, mailed, tx>>

-----------------------------------------------------------------------------
(* Transactions                                                            *)

\* No other transaction has written one of these rows.
Unlocked(p, table, keys) ==
  \A q \in Procs \ {p} : DOMAIN tx[q][table] \cap keys = {}

\* One UPDATE of a transaction: waits for the rows, then keeps them.
Write(p, table, rows) ==
  /\ Unlocked(p, table, DOMAIN rows)
  /\ tx' = [tx EXCEPT ![p][table] = Over(rows, @)]

\* The tables as the statements of p see them.
TaskView(p)        == Over(tx[p].task, task)
AssigneeView(p)    == Over(tx[p].assignee, assignee)
SubTaskView(p)     == Over(tx[p].subTask, subTask)
SubAssigneeView(p) == Over(tx[p].subAssignee, subAssignee)

\* The callback of $transaction returned and COMMIT succeeded.
Commit(p) ==
  /\ req[p].pc = "commit"
  /\ task' = TaskView(p)
  /\ assignee' = AssigneeView(p)
  /\ subTask' = SubTaskView(p)
  /\ subAssignee' = SubAssigneeView(p)
  /\ tx' = [tx EXCEPT ![p] = NoWrites]
  /\ Finish(p)
  /\ UNCHANGED <<people, mailed, calls>>

\* The request dies where it stands: Prisma's five-second limit on an
\* interactive transaction, a lost connection, the process crashing.
\* Whatever it had not committed is rolled back.
Abort(p) ==
  /\ req[p] # NoRequest
  /\ tx' = [tx EXCEPT ![p] = NoWrites]
  /\ Finish(p)
  /\ UNCHANGED <<tables, people, mailed, calls>>

-----------------------------------------------------------------------------
(* Guards                                                                  *)

\* A personal task's owner is its only member and its admin.
IsMember(u, t) ==
  IF t \in groupTasks THEN role[u] # NoRow ELSE ownerOf[t] = u

IsAdminOf(u, t) ==
  IF t \in groupTasks THEN isAdminish(role[u]) ELSE ownerOf[t] = u

\* The first step of the service behind each guarded route.
ServiceEntry ==
  [ close |-> "close_count", archive |-> "archive_read",
    restore |-> "restore_peek", report |-> "report_read",
    createSub |-> "createSub_insert", closeSub |-> "closeSub_update",
    restoreSub |-> "restoreSub_update", reportSub |-> "reportSub_task",
    assignSub |-> "assign_target" ]

\* Mutant of SubTaskExistsGuard: it stands in for TaskMemberGuard.
SubTaskExistsGuardAlone(p) ==
  LET r == req[p] IN
  /\ r.pc = "sub_guard"
  /\ IF subTask[r.sub].status # NoRow THEN Goto(p, ServiceEntry[r.op])
                                      ELSE Finish(p)
  /\ UNCHANGED <<tables, people, mailed, tx, calls>>

\* SubTaskExistsGuard is the decorator nearest to the handlers and runs first.
\* Rows do not disappear, so the read by which closeSubTask repeats it always
\* finds the row and is no step of its own.
SubTaskExistsGuard(p) ==
  LET r == req[p] IN
  /\ r.pc = "sub_guard"
  /\ IF subTask[r.sub].status # NoRow THEN Goto(p, "guard") ELSE Finish(p)
  /\ UNCHANGED <<tables, people, mailed, tx, calls>>

\* TaskMemberGuard: anyone but a member gets 404; for a member the flags are
\* stored in the request and never read again from the database.
TaskMemberGuard(p) ==
  LET r == req[p] IN
  /\ r.pc = "guard"
  /\ IF IsMember(r.actor, r.task)
     THEN req' = [req EXCEPT ![p].pc = ServiceEntry[r.op],
                             ![p].isAdminish = IsAdminOf(r.actor, r.task),
                             ![p].isOwner = (ownerOf[r.task] = r.actor)]
     ELSE Finish(p)
  /\ UNCHANGED <<tables, people, mailed, tx, calls>>

-----------------------------------------------------------------------------
(* The group                                                               *)

\* A change of one user's membership by GroupsService: an accepted
\* invitation, a new role, a departure or a removal.  Which of them the group
\* rules allow is not this module's concern: any change may happen.
ChangeMembership(u) ==
  \E r \in GroupRole \cup {NoRow} :
    /\ r # role[u]
    /\ role' = [role EXCEPT ![u] = r]
    /\ wasMember' = IF r = NoRow THEN wasMember ELSE wasMember \cup {u}
    /\ wasAdmin' = IF isAdminish(r) THEN wasAdmin \cup {u} ELSE wasAdmin
    /\ UNCHANGED <<tables, mailed, tx, req, calls>>

=============================================================================
