-------------------------- MODULE SubTaskRequests --------------------------
(***************************************************************************)
(* The sub-task routes of sub-tasks.controller.ts that change a status:    *)
(* create, close, restore and update/assignee-status.  Every one of them   *)
(* passes TaskMemberGuard on the task of the URL.  But for a new sub-task  *)
(* nothing compares that task with the sub-task's parent: whoever is let   *)
(* through may do any of them, and none looks at the parent's status.      *)
(***************************************************************************)
EXTENDS TaskStore

\* Rows of the sub-task's assignees with a status in from, as p sees them.
SubAssigneesIn(p, from) ==
  {k \in {req[p].sub} \X Users : SubAssigneeView(p)[k] \in from}

\* subTaskAssignee.updateMany of the rows with that status.
MoveSubAssignees(p, from, to) ==
  Write(p, "subAssignee", [k \in SubAssigneesIn(p, {from}) |-> to])

\* :taskId and :id of the URL, each whatever the client sends.
PostSub(p, op, st, why) ==
  \E u \in Users, t \in Tasks, s \in SubTasks :
    Receive(p, [NoRequest EXCEPT !.op = op, !.pc = "sub_guard", !.actor = u,
                                 !.task = t, !.sub = s,
                                 !.status = st, !.reason = why])

InSubTransaction == UNCHANGED <<tables, people, mailed, calls>>

-----------------------------------------------------------------------------
(* POST tasks/:taskId/sub-tasks                                            *)

\* s is the id the database will give the new row, whose parent is the task of
\* the URL.
PostCreateSub(p) ==
  \E u \in Users, s \in SubTasks, st \in TaskStatus :
    Receive(p, [NoRequest EXCEPT !.op = "createSub", !.pc = "guard",
                                 !.actor = u, !.task = parentOf[s], !.sub = s,
                                 !.status = st])

\* createSubTask: on a personal task for its owner only; the parent may have
\* any status.
CreateSubInsert(p) ==
  LET r == req[p] IN
  /\ r.pc = "createSub_insert"
  /\ subTask' = IF /\ r.task \in groupTasks \/ ownerOf[r.task] = r.actor
                   /\ subTask[r.sub].status = NoRow
                THEN [subTask EXCEPT ![r.sub] = NewSubTask(r.status)]
                ELSE subTask
  /\ Finish(p)
  /\ UNCHANGED <<task, assignee, subAssignee, people, mailed, tx, calls>>

-----------------------------------------------------------------------------
(* POST sub-tasks/:id/close                                                *)

PostCloseSub(p) ==
  \E why \in Reasons \cup {Null} :
    PostSub(p, "closeSub", NoRow, why)

ClosedSubTask(r) ==
  [status |-> "CLOSED", closedById |-> r.actor, closedReason |-> r.reason]

CloseSubUpdate(p) ==
  LET r == req[p] IN
  /\ r.pc = "closeSub_update"
  /\ Write(p, "subTask", [s \in {r.sub} |-> ClosedSubTask(r)])
  /\ Goto(p, "closeSub_own")
  /\ InSubTransaction

\* Mutant of CloseSubOwn: a closer without a row is not given one.
CloseSubOwnAssigned(p) ==
  LET r == req[p] IN
  /\ r.pc = "closeSub_own"
  /\ Goto(p, IF SubAssigneeView(p)[<<r.sub, r.actor>>] \in {"COMPLETED", NoRow}
             THEN "closeSub_drop" ELSE "closeSub_upsert")
  /\ UNCHANGED <<tables, people, mailed, tx, calls>>

\* The closer's own row: closing counts as completing it.
CloseSubOwn(p) ==
  LET r == req[p] IN
  /\ r.pc = "closeSub_own"
  /\ Goto(p, IF SubAssigneeView(p)[<<r.sub, r.actor>>] = "COMPLETED"
             THEN "closeSub_drop" ELSE "closeSub_upsert")
  /\ UNCHANGED <<tables, people, mailed, tx, calls>>

CloseSubUpsert(p) ==
  LET r == req[p] IN
  /\ r.pc = "closeSub_upsert"
  /\ Write(p, "subAssignee", [k \in {<<r.sub, r.actor>>} |-> "COMPLETED"])
  /\ Goto(p, "closeSub_drop")
  /\ InSubTransaction

\* Mutant of CloseSubDrop: sent to prismaService instead of tx, so it waits for
\* the rows of its own transaction too.
CloseSubDropOutside(p) ==
  LET ks == {k \in {req[p].sub} \X Users : subAssignee[k] = "ACCEPTED"} IN
  /\ req[p].pc = "closeSub_drop"
  /\ \A q \in Procs : DOMAIN tx[q].subAssignee \cap ks = {}
  /\ subAssignee' = Over([k \in ks |-> "DROPPED"], subAssignee)
  /\ Goto(p, "closeSub_skip")
  /\ UNCHANGED <<task, assignee, subTask, people, mailed, tx, calls>>

CloseSubDrop(p) ==
  /\ req[p].pc = "closeSub_drop"
  /\ MoveSubAssignees(p, "ACCEPTED", "DROPPED")
  /\ Goto(p, "closeSub_skip")
  /\ InSubTransaction

CloseSubSkip(p) ==
  /\ req[p].pc = "closeSub_skip"
  /\ MoveSubAssignees(p, "PENDING", "SKIPPED")
  /\ Goto(p, "commit")
  /\ InSubTransaction

-----------------------------------------------------------------------------
(* POST sub-tasks/:id/restore                                              *)

PostRestoreSub(p) == PostSub(p, "restoreSub", NoRow, Null)

\* closedReason is not reset.
ReopenedSubTask(row) == [row EXCEPT !.status = "OPEN", !.closedById = Null]

\* Mutant of RestoreSubUpdate: the update is sent outside the transaction.
RestoreSubUpdateAutocommitted(p) ==
  LET r == req[p] IN
  /\ r.pc = "restoreSub_update"
  /\ Unlocked(p, "subTask", {r.sub})
  /\ subTask' = [subTask EXCEPT ![r.sub] = ReopenedSubTask(@)]
  /\ Goto(p, "restoreSub_accept")
  /\ UNCHANGED <<task, assignee, subAssignee, people, mailed, tx, calls>>

RestoreSubUpdate(p) ==
  LET r == req[p] IN
  /\ r.pc = "restoreSub_update"
  /\ Write(p, "subTask",
           [s \in {r.sub} |-> ReopenedSubTask(SubTaskView(p)[s])])
  /\ Goto(p, "restoreSub_accept")
  /\ InSubTransaction

\* Mutant of RestoreSubAccept: completed rows are reopened with the sub-task.
RestoreSubAcceptCompleted(p) ==
  /\ req[p].pc = "restoreSub_accept"
  /\ MoveSubAssignees(p, "COMPLETED", "ACCEPTED")
  /\ Goto(p, "restoreSub_pend")
  /\ InSubTransaction

RestoreSubAccept(p) ==
  /\ req[p].pc = "restoreSub_accept"
  /\ MoveSubAssignees(p, "DROPPED", "ACCEPTED")
  /\ Goto(p, "restoreSub_pend")
  /\ InSubTransaction

RestoreSubPend(p) ==
  /\ req[p].pc = "restoreSub_pend"
  /\ MoveSubAssignees(p, "SKIPPED", "PENDING")
  /\ Goto(p, "commit")
  /\ InSubTransaction

-----------------------------------------------------------------------------
(* POST sub-tasks/:id/update/assignee-status                               *)

PostReportSub(p) ==
  \E st \in AssignmentStatus :
    PostSub(p, "reportSub", st, Null)

ReportSubTask(p) ==
  /\ req[p].pc = "reportSub_task"
  /\ req' = [req EXCEPT ![p].pc = "reportSub_own",
                        ![p].seen = subTask[req[p].sub].status]
  /\ UNCHANGED <<tables, people, mailed, tx, calls>>

\* A claim without a row, else a transition judged by the two reads.
ReportSubOwn(p) ==
  LET r == req[p]
      own == subAssignee[<<r.sub, r.actor>>]
  IN
  /\ r.pc = "reportSub_own"
  /\ IF own = NoRow
     THEN IF r.status = "ACCEPTED" THEN Goto(p, "reportSub_claim")
                                   ELSE Finish(p)
     ELSE IF isValidAssignmentTransition(own, r.status, r.seen)
          THEN Goto(p, "reportSub_write") ELSE Finish(p)
  /\ UNCHANGED <<tables, people, mailed, tx, calls>>

\* The insert, refused by the key if the row has appeared, and the commit.
ReportSubClaim(p) ==
  LET k == <<req[p].sub, req[p].actor>> IN
  /\ req[p].pc = "reportSub_claim"
  /\ Unlocked(p, "subAssignee", {k})
  /\ subAssignee' = IF subAssignee[k] = NoRow
                    THEN [subAssignee EXCEPT ![k] = "ACCEPTED"]
                    ELSE subAssignee
  /\ Finish(p)
  /\ UNCHANGED <<task, assignee, subTask, people, mailed, tx, calls>>

\* The update by key, whatever the row holds by now, and the commit.
ReportSubWrite(p) ==
  LET k == <<req[p].sub, req[p].actor>> IN
  /\ req[p].pc = "reportSub_write"
  /\ Unlocked(p, "subAssignee", {k})
  /\ subAssignee' = [subAssignee EXCEPT ![k] = req[p].status]
  /\ Finish(p)
  /\ UNCHANGED <<task, assignee, subTask, people, mailed, tx, calls>>

-----------------------------------------------------------------------------

SubTaskCall(p) ==
  \/ PostCreateSub(p) \/ PostCloseSub(p) \/ PostRestoreSub(p)
  \/ PostReportSub(p)

SubTaskStep(p) ==
  \/ CreateSubInsert(p)
  \/ CloseSubUpdate(p) \/ CloseSubOwn(p) \/ CloseSubUpsert(p)
  \/ CloseSubDrop(p) \/ CloseSubSkip(p)
  \/ RestoreSubUpdate(p) \/ RestoreSubAccept(p) \/ RestoreSubPend(p)
  \/ ReportSubTask(p) \/ ReportSubOwn(p) \/ ReportSubClaim(p)
  \/ ReportSubWrite(p)

=============================================================================
