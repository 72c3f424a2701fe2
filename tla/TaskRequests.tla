---------------------------- MODULE TaskRequests ----------------------------
(***************************************************************************)
(* The task routes of tasks.controller.ts that change a task's status or   *)
(* an assignee's own status: close, archive, restore and                   *)
(* update/assignee-status, with the cascades TasksService runs in their    *)
(* transactions.                                                           *)
(***************************************************************************)
EXTENDS TaskStore

\* The rows of the assignees (or sub-tasks) of r's task, in the view v of its
\* transaction, whose status is in from: the where clause of an updateMany.
AssigneesIn(v, r, from) ==
  {k \in {r.task} \X Users : v[k] \in from}

SubTasksIn(v, r, from) ==
  {s \in SubTasks : parentOf[s] = r.task /\ v[s].status \in from}

\* taskAssignee.updateMany of the rows with a status in from.
MoveAssignees(p, from, to) ==
  Write(p, "assignee",
        [k \in AssigneesIn(AssigneeView(p), req[p], from) |-> to])

\* subTask.updateMany of status alone.
MoveSubTasks(p, from, to) ==
  LET v == SubTaskView(p) IN
  Write(p, "subTask",
        [s \in SubTasksIn(v, req[p], from) |-> [v[s] EXCEPT !.status = to]])

\* task.update by id: row is computed from the newest version of the row.
WriteTask(p, row) == Write(p, "task", [t \in {req[p].task} |-> row])

Current(p) == TaskView(p)[req[p].task]

InTransaction == UNCHANGED <<tables, people, mailed, calls>>

-----------------------------------------------------------------------------
(* POST tasks/:id/close                                                    *)

PostClose(p) ==
  \E u \in Users, t \in Tasks, why \in Reasons \cup {Null} :
    Receive(p, [NoRequest EXCEPT !.op = "close", !.pc = "guard", !.actor = u,
                                 !.task = t, !.reason = why])

\* _count of the task: sub-tasks that are not closed, assignees that are
\* pending, accepted or declined.
HasOpenItems(t) ==
  \/ \E s \in SubTasks : /\ parentOf[s] = t
                         /\ subTask[s].status \notin {"CLOSED", NoRow}
  \/ \E u \in Users : assignee[<<t, u>>] \in OpenAssignment

\* Mutants of CloseAllowed: the reason is not asked for; the owner may force.
CloseAllowedUnexplained(r, hasOpenItems) ==
  r.isAdminish \/ (r.isOwner /\ ~hasOpenItems)

CloseAllowedToOwner(r, hasOpenItems) ==
  (hasOpenItems => r.reason # Null) /\ (r.isAdminish \/ r.isOwner)

\* A forced close needs a reason and an admin; a plain one the owner or an
\* admin.
CloseAllowed(r, hasOpenItems) ==
  /\ hasOpenItems => r.reason # Null
  /\ r.isAdminish \/ (r.isOwner /\ ~hasOpenItems)

\* The read before the transaction, and everything decided from it: a task
\* already closed is returned as it is.
CloseCount(p) ==
  LET r == req[p]
      hasOpenItems == HasOpenItems(r.task)
  IN
  /\ r.pc = "close_count"
  /\ IF task[r.task].status # "CLOSED" /\ CloseAllowed(r, hasOpenItems)
     THEN req' = [req EXCEPT ![p].pc = "close_update",
                             ![p].hasOpenItems = hasOpenItems]
     ELSE Finish(p)
  /\ UNCHANGED <<tables, people, mailed, tx, calls>>

ClosedTask(r) ==
  [ status |-> "CLOSED", closedById |-> r.actor, closedReason |-> r.reason,
    closedWithOpenAssignees |-> r.hasOpenItems ]

\* Mutant of CloseUpdate: with nothing open by the count, no cascade is run.
CloseUpdateTrustingCount(p) ==
  /\ req[p].pc = "close_update"
  /\ WriteTask(p, ClosedTask(req[p]))
  /\ Goto(p, IF req[p].hasOpenItems THEN "close_drop" ELSE "commit")
  /\ InTransaction

CloseUpdate(p) ==
  /\ req[p].pc = "close_update"
  /\ WriteTask(p, ClosedTask(req[p]))
  /\ Goto(p, "close_drop")
  /\ InTransaction

\* Mutant of CloseDrop: sent to prismaService instead of tx, so at once.
CloseDropAutocommitted(p) ==
  LET ks == AssigneesIn(assignee, req[p], {"ACCEPTED"}) IN
  /\ req[p].pc = "close_drop"
  /\ Unlocked(p, "assignee", ks)
  /\ assignee' = Over([k \in ks |-> "DROPPED"], assignee)
  /\ Goto(p, "close_skip")
  /\ UNCHANGED <<task, subTask, subAssignee, people, mailed, tx, calls>>

CloseDrop(p) ==
  /\ req[p].pc = "close_drop"
  /\ MoveAssignees(p, {"ACCEPTED"}, "DROPPED")
  /\ Goto(p, "close_skip")
  /\ InTransaction

CloseSkip(p) ==
  /\ req[p].pc = "close_skip"
  /\ MoveAssignees(p, {"PENDING"}, "SKIPPED")
  /\ Goto(p, IF req[p].hasOpenItems THEN "close_subs" ELSE "commit")
  /\ InTransaction

\* Mutant of CloseSubs: only open sub-tasks are closed, not the archived.
CloseSubsOpen(p) ==
  LET v == SubTaskView(p) IN
  /\ req[p].pc = "close_subs"
  /\ Write(p, "subTask",
           [s \in SubTasksIn(v, req[p], {"OPEN"}) |->
              [v[s] EXCEPT !.status = "CLOSED", !.closedById = req[p].actor]])
  /\ Goto(p, "commit")
  /\ InTransaction

\* Only a forced close terminates the sub-tasks; their closedReason is kept.
CloseSubs(p) ==
  LET r == req[p]
      v == SubTaskView(p)
  IN
  /\ r.pc = "close_subs"
  /\ Write(p, "subTask",
           [s \in SubTasksIn(v, r, TaskStatus \ {"CLOSED"}) |->
              [v[s] EXCEPT !.status = "CLOSED", !.closedById = r.actor]])
  /\ Goto(p, "commit")
  /\ InTransaction

-----------------------------------------------------------------------------
(* POST tasks/:id/archive                                                  *)

PostArchive(p) ==
  \E u \in Users, t \in Tasks :
    Receive(p, [NoRequest EXCEPT !.op = "archive", !.pc = "guard",
                                 !.actor = u, !.task = t])

\* executeUpdateLogic up to its update: permission, then the status machine.
StatusUpdateAllowed(r, newStatus) ==
  /\ r.isOwner \/ r.isAdminish
  /\ taskStatusCanTransition(task[r.task].status, newStatus)

ArchiveRead(p) ==
  /\ req[p].pc = "archive_read"
  /\ IF StatusUpdateAllowed(req[p], "ARCHIVED") THEN Goto(p, "archive_update")
                                                ELSE Finish(p)
  /\ UNCHANGED <<tables, people, mailed, tx, calls>>

\* Mutant of ArchiveUpdate: the sub-tasks are written before the task.
ArchiveUpdateLast(p) ==
  /\ req[p].pc = "archive_update"
  /\ IF tx[p].subTask = Clean
        /\ SubTasksIn(SubTaskView(p), req[p], {"OPEN", "CLOSED"}) # {}
     THEN /\ MoveSubTasks(p, {"OPEN", "CLOSED"}, "ARCHIVED")
          /\ Goto(p, "archive_update")
     ELSE /\ WriteTask(p, [Current(p) EXCEPT !.status = "ARCHIVED"])
          /\ Goto(p, "commit")
  /\ InTransaction

\* Of the closing audit nothing is touched.
ArchiveUpdate(p) ==
  /\ req[p].pc = "archive_update"
  /\ WriteTask(p, [Current(p) EXCEPT !.status = "ARCHIVED"])
  /\ Goto(p, "archive_subs")
  /\ InTransaction

ArchiveSubs(p) ==
  /\ req[p].pc = "archive_subs"
  /\ MoveSubTasks(p, TaskStatus \ {"ARCHIVED"}, "ARCHIVED")
  /\ Goto(p, "commit")
  /\ InTransaction

-----------------------------------------------------------------------------
(* POST tasks/:id/restore                                                  *)

PostRestore(p) ==
  \E u \in Users, t \in Tasks :
    Receive(p, [NoRequest EXCEPT !.op = "restore", !.pc = "guard",
                                 !.actor = u, !.task = t])

\* The original status, read before the transaction begins.
RestorePeek(p) ==
  /\ req[p].pc = "restore_peek"
  /\ req' = [req EXCEPT ![p].pc = "restore_read",
                        ![p].seen = task[req[p].task].status]
  /\ UNCHANGED <<tables, people, mailed, tx, calls>>

RestoreRead(p) ==
  /\ req[p].pc = "restore_read"
  /\ IF StatusUpdateAllowed(req[p], "OPEN") THEN Goto(p, "restore_update")
                                            ELSE Finish(p)
  /\ UNCHANGED <<tables, people, mailed, tx, calls>>

\* Mutant of Reopened: the audit is reset but for its reason.
ReopenedWithReason(row) ==
  [row EXCEPT !.status = "OPEN", !.closedById = Null,
              !.closedWithOpenAssignees = FALSE]

\* status and the whole closing audit.
Reopened(row) ==
  [row EXCEPT !.status = "OPEN", !.closedById = Null, !.closedReason = Null,
              !.closedWithOpenAssignees = FALSE]

RestoreUpdate(p) ==
  /\ req[p].pc = "restore_update"
  /\ WriteTask(p, Reopened(Current(p)))
  /\ Goto(p, IF req[p].seen \in {"ARCHIVED", "CLOSED"} THEN "restore_cascade"
                                                       ELSE "commit")
  /\ InTransaction

\* Mutant of RestoreCascade: completed assignees are sent back as well.
RestoreCascadeOfAll(p) ==
  /\ req[p].pc = "restore_cascade"
  /\ MoveAssignees(p, {"SKIPPED", "DROPPED", "COMPLETED"}, "PENDING")
  /\ Goto(p, "commit")
  /\ InTransaction

\* handleRestoreFromArchived or handleRestoreFromClosed, chosen by what was
\* read first.
RestoreCascade(p) ==
  /\ req[p].pc = "restore_cascade"
  /\ \/ req[p].seen = "ARCHIVED" /\ MoveSubTasks(p, {"ARCHIVED"}, "OPEN")
     \/ req[p].seen = "CLOSED"
        /\ MoveAssignees(p, {"SKIPPED", "DROPPED"}, "PENDING")
  /\ Goto(p, "commit")
  /\ InTransaction

-----------------------------------------------------------------------------
(* POST tasks/:id/update/assignee-status                                   *)

PostReport(p) ==
  \E u \in Users, t \in Tasks, st \in AssignmentStatus :
    Receive(p, [NoRequest EXCEPT !.op = "report", !.pc = "guard", !.actor = u,
                                 !.task = t, !.status = st])

\* The read that opens the transaction: the task and the actor's own row.
\* Without a row the actor may only claim the task; with one, the status asked
\* for must follow from the one just read.
ReportRead(p) ==
  LET r == req[p]
      own == assignee[<<r.task, r.actor>>]
  IN
  /\ r.pc = "report_read"
  /\ IF r.task \notin groupTasks THEN Finish(p)
     ELSE IF own = NoRow
       THEN IF r.status = "ACCEPTED" THEN Goto(p, "report_claim")
                                     ELSE Finish(p)
       ELSE IF isValidAssignmentTransition(own, r.status, task[r.task].status)
         THEN Goto(p, "report_write") ELSE Finish(p)
  /\ UNCHANGED <<tables, people, mailed, tx, calls>>

\* Mutant of ReportClaim: on a unique violation it starts over.
ReportClaimRetried(p) ==
  LET k == <<req[p].task, req[p].actor>> IN
  /\ req[p].pc = "report_claim"
  /\ Unlocked(p, "assignee", {k})
  /\ assignee' = IF assignee[k] = NoRow
                 THEN [assignee EXCEPT ![k] = "ACCEPTED"] ELSE assignee
  /\ IF assignee[k] = NoRow THEN Finish(p) ELSE Goto(p, "report_read")
  /\ UNCHANGED <<task, subTask, subAssignee, people, mailed, tx, calls>>

\* taskAssignee.create and the commit after it; if another request has made
\* the row first the unique key rejects the insert and all is rolled back.
ReportClaim(p) ==
  LET k == <<req[p].task, req[p].actor>> IN
  /\ req[p].pc = "report_claim"
  /\ Unlocked(p, "assignee", {k})
  /\ assignee' = IF assignee[k] = NoRow
                 THEN [assignee EXCEPT ![k] = "ACCEPTED"] ELSE assignee
  /\ Finish(p)
  /\ UNCHANGED <<task, subTask, subAssignee, people, mailed, tx, calls>>

\* taskAssignee.update by key, whatever the row holds by now, and the commit.
ReportWrite(p) ==
  LET k == <<req[p].task, req[p].actor>> IN
  /\ req[p].pc = "report_write"
  /\ Unlocked(p, "assignee", {k})
  /\ assignee' = [assignee EXCEPT ![k] = req[p].status]
  /\ Finish(p)
  /\ UNCHANGED <<task, subTask, subAssignee, people, mailed, tx, calls>>

-----------------------------------------------------------------------------

TaskCall(p) ==
  PostClose(p) \/ PostArchive(p) \/ PostRestore(p) \/ PostReport(p)

TaskStep(p) ==
  \/ CloseCount(p) \/ CloseUpdate(p) \/ CloseDrop(p) \/ CloseSkip(p)
  \/ CloseSubs(p)
  \/ ArchiveRead(p) \/ ArchiveUpdate(p) \/ ArchiveSubs(p)
  \/ RestorePeek(p) \/ RestoreRead(p) \/ RestoreUpdate(p)
  \/ RestoreCascade(p)
  \/ ReportRead(p) \/ ReportClaim(p) \/ ReportWrite(p)

=============================================================================
