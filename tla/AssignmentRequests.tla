------------------------- MODULE AssignmentRequests -------------------------
(***************************************************************************)
(* TaskAssignmentManager: an admin assigns a task or a sub-task to a       *)
(* member (execute), and the member answers by the link that was mailed    *)
(* (executeDecision).  A request whose sub is Null is about the task.      *)
(***************************************************************************)
EXTENDS TaskStore

\* The task whose group decides: for a sub-task the one its row names, whatever
\* task the URL named.
TargetTask(r) == IF r.sub = Null THEN r.task ELSE parentOf[r.sub]

LinkOf(r, u) == [task |-> TargetTask(r), sub |-> r.sub, user |-> u]

\* The target of r, and the row one user has for it.
TargetStatus(r) ==
  IF r.sub = Null THEN task[r.task].status ELSE subTask[r.sub].status

RowOf(r, u) ==
  IF r.sub = Null THEN assignee[<<r.task, u>>] ELSE subAssignee[<<r.sub, u>>]

\* One autocommitted (or immediately committed) write of that row.
SetRow(p, r, u, status) ==
  \/ /\ r.sub = Null
     /\ Unlocked(p, "assignee", {<<r.task, u>>})
     /\ assignee' = [assignee EXCEPT ![<<r.task, u>>] = status]
     /\ UNCHANGED subAssignee
  \/ /\ r.sub # Null
     /\ Unlocked(p, "subAssignee", {<<r.sub, u>>})
     /\ subAssignee' = [subAssignee EXCEPT ![<<r.sub, u>>] = status]
     /\ UNCHANGED assignee

-----------------------------------------------------------------------------
(* POST tasks/:id/assign-task and sub-tasks/:id/assign-sub-task            *)

\* The task route has no TaskMemberGuard.
PostAssign(p) ==
  \E u \in Users, a \in Users, t \in Tasks, m \in BOOLEAN :
    Receive(p, [NoRequest EXCEPT !.op = "assign", !.pc = "assign_target",
                                 !.actor = u, !.target = a, !.task = t,
                                 !.sendMail = m])

\* The task of the URL need not be the sub-task's.
PostAssignSub(p) ==
  \E u \in Users, a \in Users, t \in Tasks, s \in SubTasks, m \in BOOLEAN :
    Receive(p, [NoRequest EXCEPT !.op = "assignSub", !.pc = "sub_guard",
                                 !.actor = u, !.target = a, !.task = t,
                                 !.sub = s, !.sendMail = m])

\* The target must be open and belong to a group.
AssignTarget(p) ==
  LET r == req[p] IN
  /\ r.pc = "assign_target"
  /\ IF TargetStatus(r) = "OPEN" /\ TargetTask(r) \in groupTasks
     THEN Goto(p, "assign_assigner") ELSE Finish(p)
  /\ UNCHANGED <<tables, people, mailed, tx, calls>>

\* assigner.role read now, whatever a guard found before.
MayAssign(u) == role[u] \notin {NoRow, "MEMBER"}

AssignAssigner(p) ==
  /\ req[p].pc = "assign_assigner"
  /\ IF MayAssign(req[p].actor) THEN Goto(p, "assign_assignee") ELSE Finish(p)
  /\ UNCHANGED <<tables, people, mailed, tx, calls>>

\* Mutant of MayBeAssigned: the assignee's membership is not checked.
MayBeAssignedAnyone(u) == u \in Users

MayBeAssigned(u) == role[u] # NoRow

\* Mutant of AssignAssignee: the mail goes out before the row is written.
AssignAssigneeMailed(p) ==
  /\ req[p].pc = "assign_assignee"
  /\ IF MayBeAssigned(req[p].target)
     THEN /\ mailed' = mailed \cup {LinkOf(req[p], req[p].target)}
          /\ Goto(p, "assign_upsert")
     ELSE /\ Finish(p)
          /\ UNCHANGED mailed
  /\ UNCHANGED <<tables, people, tx, calls>>

AssignAssignee(p) ==
  /\ req[p].pc = "assign_assignee"
  /\ IF MayBeAssigned(req[p].target) THEN Goto(p, "assign_upsert")
                                     ELSE Finish(p)
  /\ UNCHANGED <<tables, people, mailed, tx, calls>>

\* A task always becomes PENDING, a sub-task ACCEPTED when one assigns it to
\* oneself.
AssignedStatus(r) ==
  IF r.sub # Null /\ r.target = r.actor THEN "ACCEPTED" ELSE "PENDING"

AssignUpsert(p) ==
  LET r == req[p] IN
  /\ r.pc = "assign_upsert"
  /\ SetRow(p, r, r.target, AssignedStatus(r))
  /\ IF r.sendMail THEN Goto(p, "assign_mail") ELSE Finish(p)
  /\ UNCHANGED <<task, subTask, people, mailed, tx, calls>>

AssignMail(p) ==
  /\ req[p].pc = "assign_mail"
  /\ mailed' = mailed \cup {LinkOf(req[p], req[p].target)}
  /\ Finish(p)
  /\ UNCHANGED <<tables, people, tx, calls>>

-----------------------------------------------------------------------------
(* GET assignments/decision?token=...&status=...                           *)

\* The status is a query parameter that nothing validates: any status, or a
\* string that is none, of which the reject link's REJECTED stands for all.  A
\* link is valid for as long as its token, and may be followed again.
DecisionStatus == AssignmentStatus \cup {"REJECTED"}

GetDecision(p) ==
  \E l \in mailed, st \in DecisionStatus :
    Receive(p, [NoRequest EXCEPT !.op = "decide", !.pc = "decide_read",
                                 !.actor = l.user, !.task = l.task,
                                 !.sub = l.sub, !.status = st])

\* Mutant of DecisionAllowed: a row's transition is not checked.
DecisionAllowedUnchecked(r) ==
  /\ TargetTask(r) \in groupTasks
  /\ RowOf(r, r.actor) = NoRow => r.status = "ACCEPTED"

\* What updateGenericStatus lets through: a claim when the user has no row (no
\* link is mailed before the row exists), else a transition of the row.
DecisionAllowed(r) ==
  LET own == RowOf(r, r.actor) IN
  /\ TargetTask(r) \in groupTasks
  /\ IF own = NoRow
     THEN r.status = "ACCEPTED"
     ELSE isValidAssignmentTransition(own, r.status, TargetStatus(r))

\* No membership is read again.
DecideRead(p) ==
  /\ req[p].pc = "decide_read"
  /\ IF DecisionAllowed(req[p]) THEN Goto(p, "decide_write") ELSE Finish(p)
  /\ UNCHANGED <<tables, people, mailed, tx, calls>>

\* createRecord or updateRecord, whatever the row holds by now, and the commit.
DecideWrite(p) ==
  LET r == req[p] IN
  /\ r.pc = "decide_write"
  /\ SetRow(p, r, r.actor, r.status)
  /\ Finish(p)
  /\ UNCHANGED <<task, subTask, people, mailed, tx, calls>>

-----------------------------------------------------------------------------

AssignmentCall(p) == PostAssign(p) \/ PostAssignSub(p) \/ GetDecision(p)

AssignmentStep(p) ==
  \/ AssignTarget(p) \/ AssignAssigner(p) \/ AssignAssignee(p)
  \/ AssignUpsert(p) \/ AssignMail(p)
  \/ DecideRead(p) \/ DecideWrite(p)

=============================================================================
