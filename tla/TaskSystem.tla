----------------------------- MODULE TaskSystem -----------------------------
(***************************************************************************)
(* The task component as a whole: the requests of TaskRequests,            *)
(* AssignmentRequests and SubTaskRequests served concurrently over one     *)
(* TaskStore, with members coming and going and requests dying half-way.   *)
(* The properties are the promises of the services' comments, and what     *)
(* their cascades must keep true whatever is interleaved with them.        *)
(***************************************************************************)
EXTENDS TaskRequests, AssignmentRequests, SubTaskRequests

CONSTANTS
  firstRole,        \* the roles in the group at the start
  FirstTasks,       \* statuses the tasks may be created with
  FirstAssignments, \* statuses (or NoRow) task assignees may have at the start
  FirstSubAssignments, \* the same for the assignees of sub-tasks
  FirstSubTasks,    \* statuses (or NoRow) sub-tasks may have at the start
  FirstLinks        \* links mailed before, where they have a row to answer

ASSUME SystemAssumption ==
  /\ firstRole \in [Users -> GroupRole \cup {NoRow}]
  /\ FirstTasks \subseteq TaskStatus
  /\ FirstAssignments \subseteq AssigneeRow /\ NoRow \in FirstAssignments
  /\ FirstSubAssignments \subseteq AssigneeRow /\ NoRow \in FirstSubAssignments
  /\ FirstSubTasks \subseteq TaskStatus \cup {NoRow}
  /\ FirstLinks \subseteq Link
  /\ \A l \in FirstLinks : l.sub # Null => parentOf[l.sub] = l.task

-----------------------------------------------------------------------------

\* The row that the decision link l answers is there.
LinkHasRow(l) ==
  IF l.sub = Null THEN assignee[<<l.task, l.user>>] # NoRow
                  ELSE subAssignee[<<l.sub, l.user>>] # NoRow

\* New tasks, some of them assigned to members and split into sub-tasks.
Init ==
  /\ \E st \in [Tasks -> FirstTasks] :
       task = [t \in Tasks |-> NewTask(st[t])]
  /\ assignee \in [Tasks \X Users -> FirstAssignments]
  /\ \A t \in Tasks, u \in Users :
       assignee[<<t, u>>] # NoRow => t \in groupTasks /\ firstRole[u] # NoRow
  /\ \E st \in [SubTasks -> FirstSubTasks] :
       subTask = [s \in SubTasks |-> NewSubTask(st[s])]
  /\ subAssignee \in [SubTasks \X Users -> FirstSubAssignments]
  /\ \A s \in SubTasks, u \in Users :
       subAssignee[<<s, u>>] # NoRow =>
         /\ subTask[s].status # NoRow
         /\ parentOf[s] \in groupTasks
         /\ firstRole[u] # NoRow
  /\ role = firstRole
  /\ mailed = {l \in FirstLinks : LinkHasRow(l)}
  /\ tx = [p \in Procs |-> NoWrites]
  /\ req = [p \in Procs |-> NoRequest]
  /\ calls = 0
  /\ wasMember = {u \in Users : firstRole[u] # NoRow}
  /\ wasAdmin = {u \in Users : isAdminish(firstRole[u])}

Call(p) == TaskCall(p) \/ AssignmentCall(p) \/ SubTaskCall(p)

Step(p) ==
  \/ TaskMemberGuard(p) \/ SubTaskExistsGuard(p) \/ Commit(p)
  \/ TaskStep(p) \/ AssignmentStep(p) \/ SubTaskStep(p)

Next ==
  \/ \E p \in Procs : Call(p) \/ Step(p) \/ Abort(p)
  \/ \E u \in MutableUsers : ChangeMembership(u)

Spec == Init /\ [][Next]_vars

\* The event loop resumes every await, and PostgreSQL grants row locks in the
\* order they were asked for: a request whose next step keeps becoming
\* possible takes it.  Nothing is assumed of clients, members or failures.
FairSpec == Spec /\ \A p \in Procs : SF_vars(Step(p))

-----------------------------------------------------------------------------

TypeOK ==
  /\ task \in [Tasks -> TaskRow]
  /\ assignee \in [Tasks \X Users -> AssigneeRow]
  /\ subTask \in [SubTasks -> SubTaskRow]
  /\ subAssignee \in [SubTasks \X Users -> AssigneeRow]
  /\ role \in [Users -> GroupRole \cup {NoRow}]
  /\ mailed \subseteq Link
  /\ tx \in [Procs -> Transaction]
  /\ req \in [Procs -> Request]
  /\ calls \in 0 .. MaxCalls
  /\ wasMember \subseteq Users
  /\ wasAdmin \subseteq wasMember

-----------------------------------------------------------------------------
(* The closing audit                                                       *)

\* An open task carries nothing of an earlier closing, although archiving
\* keeps the audit, closing an archived task is possible, and a restore may
\* run between the reads and the writes of a close (executeUpdateLogic resets
\* four columns, closeTask sets the same four).
OpenTaskHasNoAudit ==
  \A t \in Tasks : task[t].status = "OPEN" => task[t] = NewTask("OPEN")

\* A task recorded as closed over open items says why and by whom, however
\* often it was closed, archived and restored since: closeTask demands a
\* reason on what it counted, before the transaction that writes the row.
ForcedCloseHasReason ==
  \A t \in Tasks :
    task[t].closedWithOpenAssignees =>
      task[t].closedReason # Null /\ task[t].closedById # Null

\* Only an administrator forces a close: whoever is recorded has at some time
\* been owner or admin of the group (the guard's flag may be stale by the time
\* the row is written), or owns the personal task.
ForcedCloseByAdmin ==
  \A t \in Tasks :
    task[t].closedWithOpenAssignees =>
      IF t \in groupTasks THEN task[t].closedById \in wasAdmin
                          ELSE task[t].closedById = ownerOf[t]

-----------------------------------------------------------------------------
(* Assignments                                                             *)

\* Whoever has a row in TaskAssignee has been a member of the group, and a
\* personal task has no assignees: report, assign and decide create or revive
\* rows, each with checks of its own some awaits before the write.
AssigneesWereMembers ==
  \A t \in Tasks, u \in Users :
    assignee[<<t, u>>] # NoRow => t \in groupTasks /\ u \in wasMember

\* u has been let in to t: as a member of its group at some time, or as the
\* owner of a personal task.
WasLetIn(u, t) ==
  IF t \in groupTasks THEN u \in wasMember ELSE u = ownerOf[t]

\* Nobody is given a sub-task of a group without having been its member.  Who
\* has a new row and never was one took it, by a claim or by closing the
\* sub-task, past the guard of the task in the URL: nothing in the routes says
\* that this is the sub-task's own.
SubTaskWorkIsGivenOrTaken ==
  [][\A s \in SubTasks, u \in Users :
       subAssignee[<<s, u>>] = NoRow /\ subAssignee'[<<s, u>>] # NoRow =>
         \/ parentOf[s] \in groupTasks /\ u \in wasMember
         \/ \E p \in Procs :
              /\ req[p].op \in {"reportSub", "closeSub"} /\ req'[p] # req[p]
              /\ req[p].sub = s /\ req[p].actor = u
              /\ WasLetIn(u, req[p].task)]_vars

\* A decision link is mailed only once the assignment it answers is stored,
\* so the claim branch behind the link is never needed.
MailedLinkHasRow == \A l \in mailed : LinkHasRow(l)

\* Work reported complete is undone only by whoever reported it or by an admin
\* assigning the task anew: no cascade of a close, an archive or a restore
\* touches a COMPLETED row (handleRestoreFromClosed says so).
CompletionKept ==
  [][\A t \in Tasks, u \in Users :
       assignee[<<t, u>>] = "COMPLETED" /\ assignee'[<<t, u>>] # "COMPLETED" =>
         \E p \in Procs :
           /\ req[p].task = t /\ req'[p] # req[p]
           /\ \/ req[p].op \in {"report", "decide"} /\ req[p].actor = u
              \/ req[p].op = "assign" /\ req[p].target = u]_vars

\* The same of sub-tasks: closing and restoring a sub-task, which any member
\* may do at any time, leave the completed rows of the others alone.
SubCompletionKept ==
  [][\A s \in SubTasks, u \in Users :
       /\ subAssignee[<<s, u>>] = "COMPLETED"
       /\ subAssignee'[<<s, u>>] # "COMPLETED"
       => \E p \in Procs :
            /\ req[p].sub = s /\ req'[p] # req[p]
            /\ \/ req[p].op \in {"reportSub", "decide"} /\ req[p].actor = u
               \/ req[p].op = "assignSub" /\ req[p].target = u]_vars

-----------------------------------------------------------------------------
(* Settled work                                                            *)

\* What u did on t is settled: the task is closed or archived, u's row is at
\* an end, and no request in flight has come to reopen the one, to assign the
\* other anew, or to write a status it was allowed before.
Settled(t, u) ==
  LET row == assignee[<<t, u>>] IN
  /\ task[t].status # "OPEN"
  /\ row \in {"COMPLETED", "SKIPPED", "DROPPED"}
  /\ \A p \in Procs :
       req[p].task = t =>
         /\ req[p].op \notin {"restore", "assign"}
         /\ /\ req[p].pc \in {"report_write", "decide_write"}
            /\ req[p].actor = u /\ req[p].sub = Null
            => req[p].status = row

\* What is settled stays so until the task is restored or assigned anew: no
\* close or archive, no report and no decision link moves the row, however
\* often the link is followed and whatever status its query string names.
SettledStays ==
  [][\A t \in Tasks, u \in Users :
       Settled(t, u) =>
         \/ assignee'[<<t, u>>] = assignee[<<t, u>>] /\ Settled(t, u)'
         \/ \E p \in Procs :
              /\ req[p] = NoRequest
              /\ req'[p].op \in {"restore", "assign"}
              /\ req'[p].task = t]_vars

-----------------------------------------------------------------------------
(* Cascades.  These hold of the operations that take the task's (or the    *)
(* sub-task's) row lock before they cascade; the runs that check them      *)
(* leave the others out of Ops.                                            *)

\* closeTask leaves nobody pending or at work on the task.
ClosedTaskReleasesAssignees ==
  \A t \in Tasks, u \in Users :
    task[t].status = "CLOSED" =>
      assignee[<<t, u>>] \notin {"PENDING", "ACCEPTED"}

\* A forced close takes every sub-task with it.
ForcedCloseClosesSubTasks ==
  \A s \in SubTasks :
    LET t == task[parentOf[s]] IN
    t.status = "CLOSED" /\ t.closedWithOpenAssignees =>
      subTask[s].status \in {"CLOSED", NoRow}

\* closeSubTask and restoreSubTask move the assignees along with the status:
\* none is parked on an open sub-task, none is active on a closed one.
SubTaskAssigneesFollow ==
  \A s \in SubTasks, u \in Users :
    /\ subTask[s].status = "CLOSED" =>
         subAssignee[<<s, u>>] \notin {"PENDING", "ACCEPTED"}
    /\ subTask[s].status = "OPEN" =>
         subAssignee[<<s, u>>] \notin {"SKIPPED", "DROPPED"}

\* Whoever is recorded as having closed a sub-task has completed it.
CloserHasCompleted ==
  \A s \in SubTasks :
    subTask[s].status = "CLOSED" /\ subTask[s].closedById # Null =>
      subAssignee[<<s, subTask[s].closedById>>] = "COMPLETED"

Cascades == INSTANCE TaskCascades

\* To everybody but the request that runs it a cascade is one step: nobody
\* sees, and no failure leaves, a task closed whose assignees are still at
\* work, or sub-tasks archived under an open task, although the cascade is
\* four statements in a transaction and its decisions are older than that.
CascadesAreAtomic == Cascades!Spec

\* The same of a task and its assignees alone, whatever is done meanwhile to
\* the sub-tasks.  Those routes take no row of the task, and any member may
\* call them in the middle of a cascade.
AssigneeCascades ==
  INSTANCE TaskCascades WITH SubTasks <- {}, parentOf <- Clean, subTask <- Clean

AssigneeCascadesAreAtomic == AssigneeCascades!Spec

\* And of the statuses of a task and its sub-tasks, whatever work is assigned,
\* claimed and reported meanwhile.  Those writes do not wait for the task.
StatusCascades ==
  INSTANCE TaskCascades WITH assignee <- [k \in Tasks \X Users |-> NoRow]

StatusCascadesAreAtomic == StatusCascades!Spec

SubCascades == INSTANCE SubTaskCascades

\* So are the closing and the restoring of a sub-task, in which the closer's
\* own assignment is read, completed and spared by three statements.
SubCascadesAreAtomic == SubCascades!Spec

-----------------------------------------------------------------------------
(* Waiting                                                                 *)

\* Rows, by table, among which are those the next statement of r writes.
Wanted(r) ==
  LET At(pcs, rows) == IF r.pc \in pcs THEN rows ELSE {} IN
  [ task |->
      At({"close_update", "archive_update", "restore_update"}, {r.task}),
    assignee |->
      At({ "close_drop", "close_skip", "restore_cascade", "report_claim",
           "report_write", "assign_upsert", "decide_write" },
         {r.task} \X Users),
    subTask |->
      At({"close_subs", "archive_subs", "restore_cascade"},
         {s \in SubTasks : parentOf[s] = r.task})
      \cup At({"closeSub_update", "restoreSub_update"}, {r.sub}),
    subAssignee |->
      At({ "closeSub_upsert", "closeSub_drop", "closeSub_skip",
           "restoreSub_accept", "restoreSub_pend", "reportSub_claim",
           "reportSub_write", "assign_upsert", "decide_write" },
         {r.sub} \X Users) ]

\* q has written a row that p may need next, and has yet to commit it.
MayWaitFor(p, q) ==
  /\ p # q
  /\ \E table \in DOMAIN NoWrites :
       DOMAIN tx[q][table] \cap Wanted(req[p])[table] # {}

\* Of any requests one waits for none of the others, so that no two (and no
\* ring of more) wait for each other: four transactions and as many single
\* statements take rows of four tables one after another.
NoDeadlock ==
  \A S \in (SUBSET Procs) \ {{}} : \E p \in S : \A q \in S : ~MayWaitFor(p, q)

\* The rows of a table that this step changes.  An INSERT of a sub-task makes
\* a row that was not there for anybody to hold.
Changed ==
  [ task        |-> {t \in Tasks : task'[t] # task[t]},
    assignee    |-> {k \in Tasks \X Users : assignee'[k] # assignee[k]},
    subTask     |-> {s \in SubTasks : /\ subTask[s].status # NoRow
                                      /\ subTask'[s] # subTask[s]},
    subAssignee |->
      {k \in SubTasks \X Users : subAssignee'[k] # subAssignee[k]} ]

\* MayWaitFor misses no wait: no request takes a row, in its transaction or
\* at once, that it does not already hold and that Wanted has not foreseen at
\* the statement it stood before.
WaitsAreForeseen ==
  [][\A table \in DOMAIN NoWrites :
       /\ \A p \in Procs :
            DOMAIN tx'[p][table]
              \subseteq DOMAIN tx[p][table] \cup Wanted(req[p])[table]
       /\ \A k \in Changed[table] :
            \E p \in Procs :
              /\ req'[p] # req[p]
              /\ k \in DOMAIN tx[p][table] \cup Wanted(req[p])[table]]_vars

\* A request waits for rows of others and for nothing else: wherever its
\* handler stands and whatever it has read, there is a next statement.
StopsForRowsOnly ==
  \A p \in Procs :
    req[p] # NoRequest /\ (\A q \in Procs : ~MayWaitFor(p, q)) =>
      ENABLED Step(p)

-----------------------------------------------------------------------------
(* Liveness                                                                *)

\* The most statements that a request at pc has yet to send, COMMIT included.
StatementsLeft(pc) ==
  CASE pc = "idle" -> 0
    [] pc \in { "commit", "report_claim", "report_write", "assign_mail",
                "decide_write", "createSub_insert", "reportSub_claim",
                "reportSub_write" } -> 1
    [] pc \in { "close_subs", "archive_subs", "restore_cascade", "report_read",
                "assign_upsert", "decide_read", "closeSub_skip",
                "restoreSub_pend", "reportSub_own" } -> 2
    [] pc \in { "close_skip", "archive_update", "restore_update",
                "assign_assignee", "closeSub_drop", "restoreSub_accept",
                "reportSub_task" } -> 3
    [] pc \in { "close_drop", "archive_read", "restore_read",
                "assign_assigner", "closeSub_upsert",
                "restoreSub_update" } -> 4
    [] pc \in { "close_update", "restore_peek", "assign_target",
                "closeSub_own" } -> 5
    [] pc \in {"close_count", "closeSub_update"} -> 6
    [] pc = "guard" -> 7
    [] pc = "sub_guard" -> 8

\* No handler goes back to a statement it has sent, or stays where it is: each
\* step of a request, whatever it finds, leaves it fewer statements to send.
\* So a request that is not kept waiting is answered after eight at most.
RequestsAdvance ==
  [][\A p \in Procs :
       req[p] # NoRequest /\ <<tx[p], req[p]>>' # <<tx[p], req[p]>> =>
         StatementsLeft(req'[p].pc) < StatementsLeft(req[p].pc)]_vars

\* Every request is answered, whatever requests keep coming and whichever die
\* holding rows.
RequestsAreAnswered ==
  \A p \in Procs : req[p] # NoRequest ~> req[p] = NoRequest

=============================================================================
