------------------------ MODULE TaskCascades_proofs ------------------------
(***************************************************************************)
(* The transactions of close, archive and restore implement TaskCascades,  *)
(* for every number of users, tasks, sub-tasks and concurrent requests,    *)
(* and what follows from it for closed tasks.                              *)
(*                                                                         *)
(* The argument is the lock discipline of TaskWork_proofs: each of the     *)
(* three holds the row of its task before it writes any other, so nobody   *)
(* else cascades over the task until it commits, and what its statements   *)
(* have made of the rows so far is a function of what is committed.  For   *)
(* the task's own row that is so whatever is requested meanwhile, for its  *)
(* assignees as long as no request reports or assigns work on a task, for  *)
(* its sub-tasks as long as none creates, closes or restores one.          *)
(***************************************************************************)
EXTENDS TaskWork_proofs

\* Requests other than cascades that write the assignees of a task, and the
\* rows of sub-tasks: with none of them the cascades have these rows alone.
AssigneesAlone == Ops \cap {"report", "assign", "decide"} = {}
SubTasksAlone  == Ops \cap {"createSub", "closeSub", "restoreSub"} = {}

-----------------------------------------------------------------------------
(* What the request r, holding its task's row, has made so far of what is  *)
(* committed as row, or as st.                                             *)

TaskMade(r, row) ==
  IF r.op = "close" THEN ClosedTask(r)
  ELSE IF r.op = "archive" THEN [row EXCEPT !.status = "ARCHIVED"]
  ELSE NewTask("OPEN")

AssigneeMade(r, st) ==
  IF r.pc = "close_skip" THEN IF st = "ACCEPTED" THEN "DROPPED" ELSE st
  ELSE IF r.pc = "close_subs" \/ (r.pc = "commit" /\ r.op = "close")
       THEN Cascades!Released(st)
  ELSE IF r.pc = "commit" /\ r.op = "restore" /\ r.seen = "CLOSED"
       THEN Cascades!Revived(st)
  ELSE st

SubTaskMade(r, row) ==
  IF r.pc = "commit" /\ r.op = "close" /\ r.hasOpenItems
  THEN Cascades!Terminated(row, r.actor)
  ELSE IF r.pc = "commit" /\ r.op = "archive" THEN Cascades!Shelved(row)
  ELSE IF r.pc = "commit" /\ r.op = "restore" /\ r.seen = "ARCHIVED"
       THEN Cascades!Unshelved(row)
  ELSE row

\* What p sees is what it has made.
TaskDone(p) ==
  TaskView(p)[req[p].task] = TaskMade(req[p], task[req[p].task])

AssigneesDone(p) ==
  AssigneesAlone =>
    \A u \in Users :
      AssigneeView(p)[<<req[p].task, u>>]
        = AssigneeMade(req[p], assignee[<<req[p].task, u>>])

SubTasksDone(p) ==
  SubTasksAlone =>
    \A s \in SubTasks :
      parentOf[s] = req[p].task =>
        SubTaskView(p)[s] = SubTaskMade(req[p], subTask[s])

\* closeTask goes on to the sub-tasks only over open items, and has asked for
\* a reason then.
Explained(r) ==
  /\ r.hasOpenItems => r.reason # Null
  /\ r.pc = "close_subs" => r.hasOpenItems

Progress(p) ==
  /\ HoldsTask(req[p]) => TaskDone(p) /\ AssigneesDone(p) /\ SubTasksDone(p)
  /\ Explained(req[p])

CascadeInv == \A p \in Procs : Progress(p)

\* What the invariant rests on.
Base == TypeInv /\ WorkInv /\ LockInv

LEMMA CascadeInit == Init => CascadeInv
<1> SUFFICES ASSUME Init, NEW p \in Procs  PROVE Progress(p)
  BY DEF CascadeInv
<1>1. req[p] = NoRequest
  BY DEF Init
<1> QED BY <1>1 DEF Progress, HoldsTask, Explained, NoRequest

-----------------------------------------------------------------------------
(* Views, row by row                                                       *)

LEMMA OverAt ==
  ASSUME NEW w, NEW f, NEW x \in DOMAIN f
  PROVE  Over(w, f)[x] = IF x \in DOMAIN w THEN w[x] ELSE f[x]
BY DEF Over

\* The holder of a task's row: its parameters, and nobody else holds it.
LEMMA HolderAt ==
  ASSUME TypeInv, LockInv, NEW p \in Procs, HoldsTask(req[p])
  PROVE  /\ req[p] \in Request /\ req[p].task \in Tasks
         /\ req[p].actor \in Users
         /\ req[p].op \in {"close", "archive", "restore"}
         /\ DOMAIN tx[p].task = {req[p].task}
         /\ DOMAIN tx[p].assignee \subseteq {req[p].task} \X Users
         /\ \A s \in DOMAIN tx[p].subTask : parentOf[s] = req[p].task
         /\ \A q \in Procs \ {p} :
              HoldsTask(req[q]) => req[q].task # req[p].task
<1>1. req[p] \in Request /\ Parameters(req[p]) /\ Handler(req[p])
  BY DEF TypeInv, RequestInv, GoodRequest
<1>2. req[p].op \in {"close", "archive", "restore"}
  BY <1>1 DEF HoldsTask, Handler
<1>3. req[p].task \in Tasks /\ req[p].actor \in Users
  BY <1>1, <1>2 DEF Parameters
<1>4. Held(req[p], tx[p]) /\ \A q \in Procs : Held(req[q], tx[q])
  BY DEF LockInv
<1>5. \A q \in Procs \ {p} : HoldsTask(req[q]) => req[q].task # req[p].task
  BY <1>4 DEF LockInv, Held
<1> QED BY <1>1, <1>2, <1>3, <1>4, <1>5 DEF Held

\* A request that does not move: nobody but the holder of a task's row changes
\* what its views of the task are made of.
LEMMA Untouched ==
  ASSUME TypeInv, TypeInv', LockInv, NEW q \in Procs, Progress(q),
         req'[q] = req[q], tx'[q] = tx[q],
         HoldsTask(req[q]) =>
           /\ task'[req[q].task] = task[req[q].task]
           /\ AssigneesAlone =>
                \A u \in Users : assignee'[<<req[q].task, u>>]
                                   = assignee[<<req[q].task, u>>]
           /\ SubTasksAlone =>
                \A s \in SubTasks :
                  parentOf[s] = req[q].task => subTask'[s] = subTask[s]
  PROVE  Progress(q)'
<1> DEFINE r == req[q]
           t == req[q].task
<1>1. Explained(r)'
  BY DEF Progress, Explained
<1>2. ASSUME HoldsTask(r)
      PROVE  TaskDone(q)' /\ AssigneesDone(q)' /\ SubTasksDone(q)'
  <2>1. t \in Tasks
    BY <1>2, HolderAt
  <2>2. TaskDone(q) /\ AssigneesDone(q) /\ SubTasksDone(q)
    BY <1>2 DEF Progress
  <2>3. TaskDone(q)'
    <3>1. TaskView(q)'[t] = TaskView(q)[t]
      BY <1>2, <2>1, OverAt DEF TaskView, TypeInv, TypeOK
    <3> QED BY <1>2, <2>2, <3>1 DEF TaskDone, TaskMade, ClosedTask
  <2>4. AssigneesDone(q)'
    <3> SUFFICES ASSUME AssigneesAlone, NEW u \in Users
                 PROVE  AssigneeView(q)'[<<t, u>>]
                          = AssigneeMade(r, assignee'[<<t, u>>])
      BY DEF AssigneesDone, AssigneeMade, AssigneesAlone
    <3>1. <<t, u>> \in DOMAIN assignee /\ <<t, u>> \in DOMAIN assignee'
      BY <2>1 DEF TypeInv, TypeOK
    <3>2. AssigneeView(q)'[<<t, u>>] = AssigneeView(q)[<<t, u>>]
      BY <1>2, <3>1, OverAt DEF AssigneeView
    <3> QED BY <1>2, <2>2, <3>2 DEF AssigneesDone
  <2>5. SubTasksDone(q)'
    <3> SUFFICES ASSUME SubTasksAlone, NEW s \in SubTasks, parentOf[s] = t
                 PROVE  SubTaskView(q)'[s] = SubTaskMade(r, subTask'[s])
      BY DEF SubTasksDone, SubTaskMade, SubTasksAlone
    <3>1. s \in DOMAIN subTask /\ s \in DOMAIN subTask'
      BY DEF TypeInv, TypeOK
    <3>2. SubTaskView(q)'[s] = SubTaskView(q)[s]
      BY <1>2, <3>1, OverAt DEF SubTaskView
    <3> QED BY <1>2, <2>2, <3>2 DEF SubTasksDone
  <2> QED BY <2>3, <2>4, <2>5
<1>3. HoldsTask(r)' => HoldsTask(r)
  BY DEF HoldsTask
<1> QED BY <1>1, <1>2, <1>3 DEF Progress

\* A step of p that commits nothing of tasks.
LEMMA StepInside ==
  ASSUME TypeInv, TypeInv', LockInv, CascadeInv, NEW p \in Procs,
         UNCHANGED task, AssigneesAlone => UNCHANGED assignee,
         SubTasksAlone => UNCHANGED subTask,
         \A q \in Procs \ {p} : req'[q] = req[q] /\ tx'[q] = tx[q],
         Progress(p)'
  PROVE  CascadeInv'
<1>1. ASSUME NEW q \in Procs \ {p}  PROVE Progress(q)'
  BY Untouched DEF CascadeInv
<1> QED BY <1>1 DEF CascadeInv

\* Where a handler goes on, it holds what it held.
LEMMA GotoAt ==
  ASSUME TypeInv, NEW p \in Procs, NEW pc, Goto(p, pc)
  PROVE  /\ req'[p].pc = pc /\ req'[p].op = req[p].op
         /\ req'[p].task = req[p].task /\ req'[p].actor = req[p].actor
         /\ req'[p].reason = req[p].reason /\ req'[p].seen = req[p].seen
         /\ req'[p].hasOpenItems = req[p].hasOpenItems
         /\ \A q \in Procs \ {p} : req'[q] = req[q]
<1>1. req \in [Procs -> Request] /\ req[p] \in Request
  BY DEF TypeInv, RequestInv
<1>2. req'[p] = [req[p] EXCEPT !.pc = pc]
  BY <1>1 DEF Goto
<1>3. \A q \in Procs \ {p} : req'[q] = req[q]
  BY <1>1 DEF Goto
<1> QED BY <1>1, <1>2, <1>3 DEF Request

-----------------------------------------------------------------------------
(* The statements of the transactions                                      *)

\* The first: the task's row.
LEMMA TaskTaken ==
  ASSUME TypeInv, WorkInv, NEW p \in Procs, req[p].pc \notin Writing,
         req[p].task \in Tasks, NEW row, WriteTask(p, row), UNCHANGED tables
  PROVE  /\ \A q \in Procs \ {p} : tx'[q] = tx[q]
         /\ TaskView(p)'[req[p].task] = row
         /\ \A u \in Users : AssigneeView(p)'[<<req[p].task, u>>]
                               = assignee[<<req[p].task, u>>]
         /\ \A s \in SubTasks : SubTaskView(p)'[s] = subTask[s]
<1> DEFINE t == req[p].task
           rows == [x \in {t} |-> row]
<1>1. tx[p] = NoWrites /\ tx \in [Procs -> Transaction]
  BY DEF WorkInv, TypeInv, TypeOK
<1>2. tx' = [tx EXCEPT ![p].task = Over(rows, @)]
  BY DEF WriteTask, Write
<1>3. /\ tx'[p].task = Over(rows, Clean) /\ tx'[p].assignee = Clean
      /\ tx'[p].subTask = Clean
      /\ \A q \in Procs \ {p} : tx'[q] = tx[q]
  BY <1>1, <1>2 DEF NoWrites
<1>4. TaskView(p)'[t] = row
  <2>1. t \in DOMAIN task'
    BY DEF TypeInv, TypeOK, tables
  <2> QED BY <1>3, <2>1 DEF TaskView, Over, Clean
<1>5. ASSUME NEW u \in Users
      PROVE  AssigneeView(p)'[<<t, u>>] = assignee[<<t, u>>]
  <2>1. <<t, u>> \in DOMAIN assignee' /\ assignee' = assignee
    BY DEF TypeInv, TypeOK, tables
  <2> QED BY <1>3, <2>1, OverAt DEF AssigneeView, Clean
<1>6. ASSUME NEW s \in SubTasks  PROVE SubTaskView(p)'[s] = subTask[s]
  <2>1. s \in DOMAIN subTask' /\ subTask' = subTask
    BY DEF TypeInv, TypeOK, tables
  <2> QED BY <1>3, <2>1, OverAt DEF SubTaskView, Clean
<1> QED BY <1>3, <1>4, <1>5, <1>6

\* A later one over the assignees of the task.
LEMMA AssigneesMoved ==
  ASSUME TypeInv, NEW p \in Procs, NEW from, NEW to,
         MoveAssignees(p, from, to), UNCHANGED tables, req[p].task \in Tasks
  PROVE  /\ \A q \in Procs \ {p} : tx'[q] = tx[q]
         /\ TaskView(p)' = TaskView(p) /\ SubTaskView(p)' = SubTaskView(p)
         /\ \A u \in Users :
              LET old == AssigneeView(p)[<<req[p].task, u>>] IN
              AssigneeView(p)'[<<req[p].task, u>>]
                = IF old \in from THEN to ELSE old
<1> DEFINE t == req[p].task
           v == AssigneeView(p)
           ks == AssigneesIn(v, req[p], from)
           rows == [k \in ks |-> to]
<1>1. tx \in [Procs -> Transaction]
  BY DEF TypeInv, TypeOK
<1>2. tx' = [tx EXCEPT ![p].assignee = Over(rows, @)]
  BY DEF MoveAssignees, Write
<1>3. /\ tx'[p].task = tx[p].task /\ tx'[p].subTask = tx[p].subTask
      /\ tx'[p].assignee = Over(rows, tx[p].assignee)
      /\ \A q \in Procs \ {p} : tx'[q] = tx[q]
  BY <1>1, <1>2 DEF Transaction
<1>4. TaskView(p)' = TaskView(p) /\ SubTaskView(p)' = SubTaskView(p)
  BY <1>3 DEF TaskView, SubTaskView, tables
<1>5. ASSUME NEW u \in Users
      PROVE  AssigneeView(p)'[<<t, u>>]
               = IF v[<<t, u>>] \in from THEN to ELSE v[<<t, u>>]
  <2> DEFINE k == <<t, u>>
  <2>1. k \in DOMAIN assignee /\ assignee' = assignee
    BY DEF TypeInv, TypeOK, tables
  <2>2. AssigneeView(p)'[k]
          = IF k \in DOMAIN tx'[p].assignee
            THEN tx'[p].assignee[k] ELSE assignee[k]
    BY <2>1, OverAt DEF AssigneeView
  <2>3. v[k] = IF k \in DOMAIN tx[p].assignee
               THEN tx[p].assignee[k] ELSE assignee[k]
    BY <2>1, OverAt DEF AssigneeView
  <2>4. k \in ks <=> v[k] \in from
    BY DEF AssigneesIn
  <2>5. /\ DOMAIN tx'[p].assignee = DOMAIN tx[p].assignee \cup ks
        /\ k \in DOMAIN tx'[p].assignee =>
             tx'[p].assignee[k] = IF k \in ks THEN to ELSE tx[p].assignee[k]
    BY <1>3 DEF Over
  <2> HIDE DEF k, ks, v
  <2> QED BY <2>2, <2>3, <2>4, <2>5 DEF k, v
<1> QED BY <1>3, <1>4, <1>5

\* A later one over its sub-tasks.
LEMMA SubTasksWritten ==
  ASSUME TypeInv, NEW p \in Procs, NEW rows, Write(p, "subTask", rows),
         UNCHANGED tables
  PROVE  /\ \A q \in Procs \ {p} : tx'[q] = tx[q]
         /\ TaskView(p)' = TaskView(p) /\ AssigneeView(p)' = AssigneeView(p)
         /\ \A s \in SubTasks :
              SubTaskView(p)'[s]
                = IF s \in DOMAIN rows THEN rows[s] ELSE SubTaskView(p)[s]
<1> DEFINE v == SubTaskView(p)
<1>1. tx \in [Procs -> Transaction]
  BY DEF TypeInv, TypeOK
<1>2. tx' = [tx EXCEPT ![p].subTask = Over(rows, @)]
  BY DEF Write
<1>3. /\ tx'[p].task = tx[p].task /\ tx'[p].assignee = tx[p].assignee
      /\ tx'[p].subTask = Over(rows, tx[p].subTask)
      /\ \A q \in Procs \ {p} : tx'[q] = tx[q]
  BY <1>1, <1>2 DEF Transaction
<1>4. TaskView(p)' = TaskView(p) /\ AssigneeView(p)' = AssigneeView(p)
  BY <1>3 DEF TaskView, AssigneeView, tables
<1>5. ASSUME NEW s \in SubTasks
      PROVE  SubTaskView(p)'[s] = IF s \in DOMAIN rows THEN rows[s] ELSE v[s]
  <2>1. s \in DOMAIN subTask /\ subTask' = subTask
    BY DEF TypeInv, TypeOK, tables
  <2>2. SubTaskView(p)'[s] = IF s \in DOMAIN tx'[p].subTask
                             THEN tx'[p].subTask[s] ELSE subTask[s]
    BY <2>1, OverAt DEF SubTaskView
  <2>3. v[s] = IF s \in DOMAIN tx[p].subTask
               THEN tx[p].subTask[s] ELSE subTask[s]
    BY <2>1, OverAt DEF SubTaskView
  <2>4. /\ DOMAIN tx'[p].subTask = DOMAIN tx[p].subTask \cup DOMAIN rows
        /\ s \in DOMAIN tx'[p].subTask =>
             tx'[p].subTask[s] = IF s \in DOMAIN rows THEN rows[s]
                                 ELSE tx[p].subTask[s]
    BY <1>3 DEF Over
  <2> QED BY <2>2, <2>3, <2>4
<1> QED BY <1>3, <1>4, <1>5

LEMMA SubTasksMoved ==
  ASSUME TypeInv, NEW p \in Procs, NEW from, NEW to,
         MoveSubTasks(p, from, to), UNCHANGED tables
  PROVE  /\ \A q \in Procs \ {p} : tx'[q] = tx[q]
         /\ TaskView(p)' = TaskView(p) /\ AssigneeView(p)' = AssigneeView(p)
         /\ \A s \in SubTasks :
              LET old == SubTaskView(p)[s] IN
              parentOf[s] = req[p].task =>
                SubTaskView(p)'[s] = IF old.status \in from
                                     THEN [old EXCEPT !.status = to] ELSE old
<1> DEFINE v == SubTaskView(p)
           open == SubTasksIn(v, req[p], from)
           rows == [s \in open |-> [v[s] EXCEPT !.status = to]]
<1>1. Write(p, "subTask", rows)
  BY DEF MoveSubTasks
<1>2. \A s \in SubTasks : parentOf[s] = req[p].task =>
        /\ s \in DOMAIN rows <=> v[s].status \in from
        /\ s \in DOMAIN rows => rows[s] = [v[s] EXCEPT !.status = to]
  BY DEF SubTasksIn
<1> HIDE DEF rows
<1>3. /\ \A q \in Procs \ {p} : tx'[q] = tx[q]
      /\ TaskView(p)' = TaskView(p) /\ AssigneeView(p)' = AssigneeView(p)
      /\ \A s \in SubTasks :
           SubTaskView(p)'[s] = IF s \in DOMAIN rows THEN rows[s] ELSE v[s]
  BY <1>1, SubTasksWritten
<1> QED BY <1>2, <1>3

-----------------------------------------------------------------------------
(* The steps of the three handlers                                         *)

\* The four columns a restore resets are all a new task does not leave Null.
LEMMA ReopenedIsNew ==
  ASSUME NEW row \in TaskRow  PROVE Reopened(row) = NewTask("OPEN")
<1> DEFINE r == Reopened(row)
<1>1. r \in [ status : {"OPEN"}, closedById : {Null}, closedReason : {Null},
              closedWithOpenAssignees : {FALSE} ]
  BY DEF Reopened, TaskRow
<1> HIDE DEF r
<1>2. r = [ status |-> "OPEN", closedById |-> Null, closedReason |-> Null,
            closedWithOpenAssignees |-> FALSE ]
  BY <1>1
<1> QED BY <1>2 DEF r, NewTask

\* The statement that takes the task's row.
LEMMA UpdateStep ==
  ASSUME Base, TypeInv', CascadeInv, NEW p \in Procs,
         CloseUpdate(p) \/ ArchiveUpdate(p) \/ RestoreUpdate(p)
  PROVE  CascadeInv'
<1> DEFINE r == req[p]
           t == req[p].task
<1>1. /\ r \in Request /\ Handler(r) /\ Parameters(r) /\ Explained(r)
      /\ UNCHANGED tables
  BY DEF Base, TypeInv, RequestInv, GoodRequest, CascadeInv, Progress,
         CloseUpdate, ArchiveUpdate, RestoreUpdate, InTransaction
<1>2. r.pc \notin Writing /\ r.op \in {"close", "archive", "restore"}
  BY <1>1 DEF CloseUpdate, ArchiveUpdate, RestoreUpdate, Writing, Handler
<1>3. t \in Tasks
  BY <1>1, <1>2 DEF Parameters
<1>4. PICK pc \in {"close_drop", "archive_subs", "restore_cascade", "commit"} :
        /\ Goto(p, pc)
        /\ pc = "commit" =>
             r.op = "restore" /\ r.seen \notin {"ARCHIVED", "CLOSED"}
  BY <1>1 DEF CloseUpdate, ArchiveUpdate, RestoreUpdate, Handler
<1>5. WriteTask(p, TaskMade(r, task[t]))
  <2>1. TaskView(p)[t] = task[t]
    <3>1. tx[p] = NoWrites /\ t \in DOMAIN task
      BY <1>2, <1>3 DEF Base, WorkInv, TypeInv, TypeOK
    <3> QED BY <3>1, OverAt DEF TaskView, NoWrites, Clean
  <2>2. task[t] \in TaskRow
    BY <1>3 DEF Base, TypeInv, TypeOK
  <2>3. Reopened(task[t]) = NewTask("OPEN")
    BY <2>2, ReopenedIsNew
  <2> QED BY <1>1, <2>1, <2>3
          DEF CloseUpdate, ArchiveUpdate, RestoreUpdate, Current, TaskMade,
              Handler
<1>6. /\ \A q \in Procs \ {p} : tx'[q] = tx[q] /\ req'[q] = req[q]
      /\ TaskView(p)'[t] = TaskMade(r, task[t])
      /\ \A u \in Users : AssigneeView(p)'[<<t, u>>] = assignee[<<t, u>>]
      /\ \A s \in SubTasks : SubTaskView(p)'[s] = subTask[s]
  BY <1>1, <1>2, <1>3, <1>4, <1>5, TaskTaken, GotoAt DEF Base
<1>7. /\ req'[p].pc = pc /\ req'[p].op = r.op /\ req'[p].task = t
      /\ req'[p].actor = r.actor /\ req'[p].reason = r.reason
      /\ req'[p].seen = r.seen /\ req'[p].hasOpenItems = r.hasOpenItems
  BY <1>4, GotoAt DEF Base
<1>8. TaskDone(p)'
  BY <1>1, <1>6, <1>7 DEF TaskDone, TaskMade, ClosedTask, tables
<1>9. AssigneesDone(p)'
  <2>1. \A st : AssigneeMade(req'[p], st) = st
    BY <1>4, <1>7 DEF AssigneeMade
  <2> QED BY <1>1, <1>6, <1>7, <2>1 DEF AssigneesDone, tables
<1>10. SubTasksDone(p)'
  <2>1. \A row : SubTaskMade(req'[p], row) = row
    BY <1>4, <1>7 DEF SubTaskMade
  <2> QED BY <1>1, <1>6, <1>7, <2>1 DEF SubTasksDone, tables
<1>11. Explained(req'[p])
  BY <1>1, <1>4, <1>7 DEF Explained
<1> QED BY <1>1, <1>6, <1>8, <1>9, <1>10, <1>11, StepInside
        DEF Base, Progress, tables

\* What the holder of a task's row knows before its next statement.
LEMMA HolderKnows ==
  ASSUME Base, CascadeInv, NEW p \in Procs,
         \/ CloseDrop(p) \/ CloseSkip(p) \/ CloseSubs(p)
         \/ ArchiveSubs(p) \/ RestoreCascade(p)
  PROVE  /\ HoldsTask(req[p]) /\ req[p].task \in Tasks /\ Handler(req[p])
         /\ TaskDone(p) /\ AssigneesDone(p) /\ SubTasksDone(p)
         /\ Explained(req[p]) /\ UNCHANGED tables
<1>1. HoldsTask(req[p])
  BY DEF CloseDrop, CloseSkip, CloseSubs, ArchiveSubs, RestoreCascade,
         HoldsTask
<1>2. UNCHANGED tables
  BY DEF CloseDrop, CloseSkip, CloseSubs, ArchiveSubs, RestoreCascade,
         InTransaction
<1>3. Handler(req[p])
  BY DEF Base, TypeInv, RequestInv, GoodRequest
<1>4. req[p].task \in Tasks
  BY <1>1, HolderAt DEF Base
<1> QED BY <1>1, <1>2, <1>3, <1>4 DEF CascadeInv, Progress

\* A statement over the assignees.
LEMMA AssigneeStep ==
  ASSUME Base, TypeInv', CascadeInv, NEW p \in Procs,
         NEW from, NEW to, MoveAssignees(p, from, to),
         \/ CloseDrop(p) /\ from = {"ACCEPTED"} /\ to = "DROPPED"
         \/ CloseSkip(p) /\ from = {"PENDING"} /\ to = "SKIPPED"
         \/ /\ RestoreCascade(p) /\ req[p].seen = "CLOSED"
            /\ from = {"SKIPPED", "DROPPED"} /\ to = "PENDING"
  PROVE  CascadeInv'
<1> DEFINE r == req[p]
           t == req[p].task
<1>1. /\ t \in Tasks /\ Handler(r) /\ TaskDone(p) /\ AssigneesDone(p)
      /\ SubTasksDone(p) /\ Explained(r) /\ UNCHANGED tables
  BY HolderKnows
<1>2. PICK pc \in {"close_skip", "close_subs", "commit"} :
        /\ Goto(p, pc)
        /\ \/ r.pc = "close_drop" /\ pc = "close_skip"
           \/ r.pc = "close_skip" /\ pc = "close_subs" /\ r.hasOpenItems
           \/ r.pc = "close_skip" /\ pc = "commit" /\ ~r.hasOpenItems
           \/ r.pc = "restore_cascade" /\ pc = "commit"
  BY DEF CloseDrop, CloseSkip, RestoreCascade
<1>3. /\ \A q \in Procs \ {p} : tx'[q] = tx[q] /\ req'[q] = req[q]
      /\ TaskView(p)' = TaskView(p) /\ SubTaskView(p)' = SubTaskView(p)
      /\ \A u \in Users :
           LET old == AssigneeView(p)[<<t, u>>] IN
           AssigneeView(p)'[<<t, u>>] = IF old \in from THEN to ELSE old
  BY <1>1, <1>2, AssigneesMoved, GotoAt DEF Base
<1>4. /\ req'[p].pc = pc /\ req'[p].op = r.op /\ req'[p].task = t
      /\ req'[p].actor = r.actor /\ req'[p].reason = r.reason
      /\ req'[p].seen = r.seen /\ req'[p].hasOpenItems = r.hasOpenItems
  BY <1>2, GotoAt DEF Base
<1>5. TaskDone(p)'
  BY <1>1, <1>3, <1>4 DEF TaskDone, TaskMade, ClosedTask, tables
<1>6. AssigneesDone(p)'
  <2> SUFFICES ASSUME AssigneesAlone, NEW u \in Users
               PROVE  AssigneeView(p)'[<<t, u>>]
                        = AssigneeMade(req'[p], assignee[<<t, u>>])
    BY <1>1, <1>4 DEF AssigneesDone, AssigneesAlone, AssigneeMade, tables
  <2> DEFINE st == assignee[<<t, u>>]
             new == AssigneeView(p)'[<<t, u>>]
  <2>1. new = IF AssigneeMade(r, st) \in from THEN to ELSE AssigneeMade(r, st)
    BY <1>1, <1>3 DEF AssigneesDone
  <2> HIDE DEF new, st
  <2>2. ASSUME CloseDrop(p)  PROVE new = AssigneeMade(req'[p], st)
    <3>1. r.pc = "close_drop" /\ from = {"ACCEPTED"} /\ to = "DROPPED"
      BY <2>2 DEF CloseDrop, CloseSkip, RestoreCascade
    <3> QED BY <1>2, <1>4, <2>1, <3>1 DEF AssigneeMade
  <2>3. ASSUME CloseSkip(p)  PROVE new = AssigneeMade(req'[p], st)
    <3>1. /\ r.pc = "close_skip" /\ from = {"PENDING"} /\ to = "SKIPPED"
          /\ r.op = "close"
      BY <1>1, <2>3 DEF CloseDrop, CloseSkip, RestoreCascade, Handler
    <3> QED BY <1>2, <1>4, <2>1, <3>1 DEF AssigneeMade, Cascades!Released
  <2>4. ASSUME RestoreCascade(p)  PROVE new = AssigneeMade(req'[p], st)
    <3>1. /\ r.pc = "restore_cascade" /\ from = {"SKIPPED", "DROPPED"}
          /\ to = "PENDING" /\ r.op = "restore" /\ r.seen = "CLOSED"
      BY <1>1, <2>4 DEF CloseDrop, CloseSkip, RestoreCascade, Handler
    <3> QED BY <1>2, <1>4, <2>1, <3>1 DEF AssigneeMade, Cascades!Revived
  <2>5. new = AssigneeMade(req'[p], st)
    BY <2>2, <2>3, <2>4
  <2> QED BY <2>5 DEF new, st
<1>7. SubTasksDone(p)'
  <2>1. \A row : SubTaskMade(req'[p], row) = row /\ SubTaskMade(r, row) = row
    <3>1. /\ r.pc # "commit"
          /\ pc = "commit" =>
               \/ r.op = "close" /\ ~r.hasOpenItems
               \/ r.op = "restore" /\ r.seen = "CLOSED"
      BY <1>1, <1>2 DEF CloseDrop, CloseSkip, RestoreCascade, Handler
    <3> QED BY <1>4, <3>1 DEF SubTaskMade
  <2> QED BY <1>1, <1>3, <1>4, <2>1 DEF SubTasksDone, tables
<1>8. Explained(req'[p])
  BY <1>1, <1>2, <1>4 DEF Explained
<1> QED BY <1>1, <1>3, <1>5, <1>6, <1>7, <1>8, StepInside
        DEF Base, Progress, tables

\* A statement over the sub-tasks.
LEMMA SubTaskStatement ==
  ASSUME Base, TypeInv', CascadeInv, NEW p \in Procs,
         UNCHANGED tables, Goto(p, "commit"),
         \/ CloseSubs(p) \/ ArchiveSubs(p)
         \/ RestoreCascade(p) /\ req[p].seen = "ARCHIVED",
         /\ \A q \in Procs \ {p} : tx'[q] = tx[q]
         /\ TaskView(p)' = TaskView(p) /\ AssigneeView(p)' = AssigneeView(p)
         /\ \A s \in SubTasks :
              parentOf[s] = req[p].task /\ SubTaskView(p)[s] = subTask[s] =>
                SubTaskView(p)'[s] = SubTaskMade(req'[p], subTask[s])
  PROVE  CascadeInv'
<1> DEFINE r == req[p]
           t == req[p].task
<1>1. /\ t \in Tasks /\ Handler(r) /\ TaskDone(p) /\ AssigneesDone(p)
      /\ SubTasksDone(p) /\ Explained(r)
  BY HolderKnows
<1>2. /\ req'[p].pc = "commit" /\ req'[p].op = r.op /\ req'[p].task = t
      /\ req'[p].actor = r.actor /\ req'[p].reason = r.reason
      /\ req'[p].seen = r.seen /\ req'[p].hasOpenItems = r.hasOpenItems
      /\ \A q \in Procs \ {p} : req'[q] = req[q]
  BY GotoAt DEF Base
<1>3. \/ r.pc = "close_subs" /\ r.op = "close"
      \/ r.pc = "archive_subs" /\ r.op = "archive"
      \/ r.pc = "restore_cascade" /\ r.op = "restore" /\ r.seen = "ARCHIVED"
  BY <1>1 DEF CloseSubs, ArchiveSubs, RestoreCascade, Handler
<1>4. TaskDone(p)'
  BY <1>1, <1>2 DEF TaskDone, TaskMade, ClosedTask, tables
<1>5. AssigneesDone(p)'
  <2>1. \A st : AssigneeMade(req'[p], st) = AssigneeMade(r, st)
    BY <1>2, <1>3 DEF AssigneeMade
  <2> QED BY <1>1, <1>2, <2>1 DEF AssigneesDone, tables
<1>6. SubTasksDone(p)'
  <2>1. \A row : SubTaskMade(r, row) = row
    BY <1>3 DEF SubTaskMade
  <2> QED BY <1>1, <1>2, <2>1 DEF SubTasksDone, tables
<1>7. Explained(req'[p])
  BY <1>1, <1>2 DEF Explained
<1> QED BY <1>2, <1>4, <1>5, <1>6, <1>7, StepInside
        DEF Base, Progress, tables

\* What the statements over the sub-tasks make of one row.
LEMMA RowsMade ==
  ASSUME NEW row \in SubTaskRow, NEW u
  PROVE  /\ Cascades!Terminated(row, u)
              = IF row.status \in TaskStatus \ {"CLOSED"}
                THEN [row EXCEPT !.status = "CLOSED", !.closedById = u] ELSE row
         /\ Cascades!Shelved(row)
              = IF row.status \in TaskStatus \ {"ARCHIVED"}
                THEN [row EXCEPT !.status = "ARCHIVED"] ELSE row
         /\ Cascades!Unshelved(row)
              = IF row.status \in {"ARCHIVED"}
                THEN [row EXCEPT !.status = "OPEN"] ELSE row
<1>1. row.status \in TaskStatus \cup {NoRow}
  BY DEF SubTaskRow
<1>2. row.status = "ARCHIVED" => row = [row EXCEPT !.status = "ARCHIVED"]
  BY DEF SubTaskRow
<1> QED BY <1>1, <1>2 DEF Cascades!Terminated, Cascades!Shelved,
                          Cascades!Unshelved, Cascades!NoRow, NoRow, TaskStatus

LEMMA CloseSubsStep ==
  ASSUME Base, TypeInv', CascadeInv, NEW p \in Procs, CloseSubs(p)
  PROVE  CascadeInv'
<1> DEFINE r == req[p]
           v == SubTaskView(p)
           open == SubTasksIn(v, r, TaskStatus \ {"CLOSED"})
           rows == [s \in open |-> [v[s] EXCEPT !.status = "CLOSED",
                                                !.closedById = r.actor]]
<1>1. /\ r.pc = "close_subs" /\ Goto(p, "commit") /\ Write(p, "subTask", rows)
      /\ UNCHANGED tables
  BY DEF CloseSubs, InTransaction
<1>2. /\ r.hasOpenItems /\ r.op = "close"
      /\ subTask \in [SubTasks -> SubTaskRow]
  BY <1>1 DEF CascadeInv, Progress, Explained, Base, TypeInv, TypeOK,
              RequestInv, GoodRequest, Handler
<1>3. \A s \in SubTasks : parentOf[s] = r.task =>
        /\ s \in DOMAIN rows <=> v[s].status \in TaskStatus \ {"CLOSED"}
        /\ s \in DOMAIN rows =>
             rows[s] = [v[s] EXCEPT !.status = "CLOSED", !.closedById = r.actor]
  BY DEF SubTasksIn
<1> HIDE DEF rows
<1>4. /\ \A q \in Procs \ {p} : tx'[q] = tx[q]
      /\ TaskView(p)' = TaskView(p) /\ AssigneeView(p)' = AssigneeView(p)
      /\ \A s \in SubTasks :
           SubTaskView(p)'[s] = IF s \in DOMAIN rows THEN rows[s] ELSE v[s]
  BY <1>1, SubTasksWritten DEF Base
<1>5. \A row : SubTaskMade(req'[p], row) = Cascades!Terminated(row, r.actor)
  BY <1>1, <1>2, GotoAt DEF Base, SubTaskMade
<1>6. ASSUME NEW s \in SubTasks, parentOf[s] = r.task, v[s] = subTask[s]
      PROVE  SubTaskView(p)'[s] = SubTaskMade(req'[p], subTask[s])
  <2>1. subTask[s] \in SubTaskRow
    BY <1>2
  <2> DEFINE row == subTask[s]
             closed == [row EXCEPT !.status = "CLOSED", !.closedById = r.actor]
  <2>2. SubTaskView(p)'[s]
          = IF row.status \in TaskStatus \ {"CLOSED"} THEN closed ELSE row
    BY <1>3, <1>4, <1>6
  <2>3. Cascades!Terminated(row, r.actor)
          = IF row.status \in TaskStatus \ {"CLOSED"} THEN closed ELSE row
    BY <2>1, RowsMade
  <2> QED BY <1>5, <2>2, <2>3
<1> QED BY <1>1, <1>4, <1>6, SubTaskStatement

\* archiveTask and a restore from the archive.
LEMMA SubTasksStep ==
  ASSUME Base, TypeInv', CascadeInv, NEW p \in Procs,
         NEW from, NEW to, MoveSubTasks(p, from, to),
         \/ ArchiveSubs(p) /\ from = TaskStatus \ {"ARCHIVED"} /\ to = "ARCHIVED"
         \/ /\ RestoreCascade(p) /\ req[p].seen = "ARCHIVED"
            /\ from = {"ARCHIVED"} /\ to = "OPEN"
  PROVE  CascadeInv'
<1> DEFINE r == req[p]
           v == SubTaskView(p)
<1>1. /\ Goto(p, "commit") /\ UNCHANGED tables
      /\ subTask \in [SubTasks -> SubTaskRow]
  BY DEF ArchiveSubs, RestoreCascade, InTransaction, Base, TypeInv, TypeOK
<1>2. /\ \A q \in Procs \ {p} : tx'[q] = tx[q]
      /\ TaskView(p)' = TaskView(p) /\ AssigneeView(p)' = AssigneeView(p)
      /\ \A s \in SubTasks :
           parentOf[s] = r.task =>
             SubTaskView(p)'[s] = IF v[s].status \in from
                                  THEN [v[s] EXCEPT !.status = to] ELSE v[s]
  BY <1>1, SubTasksMoved DEF Base
<1>3. Handler(r)
  BY DEF Base, TypeInv, RequestInv, GoodRequest
<1>4. ASSUME NEW s \in SubTasks, parentOf[s] = r.task, v[s] = subTask[s]
      PROVE  SubTaskView(p)'[s] = SubTaskMade(req'[p], subTask[s])
  <2>1. subTask[s] \in SubTaskRow
    BY <1>1
  <2>2. CASE ArchiveSubs(p) /\ from = TaskStatus \ {"ARCHIVED"} /\ to = "ARCHIVED"
    <3>1. SubTaskMade(req'[p], subTask[s]) = Cascades!Shelved(subTask[s])
      BY <1>1, <1>3, <2>2, GotoAt DEF Base, SubTaskMade, ArchiveSubs, Handler
    <3> QED BY <1>2, <1>4, <2>1, <2>2, <3>1, RowsMade
  <2>3. CASE /\ RestoreCascade(p) /\ r.seen = "ARCHIVED"
             /\ from = {"ARCHIVED"} /\ to = "OPEN"
    <3>1. SubTaskMade(req'[p], subTask[s]) = Cascades!Unshelved(subTask[s])
      BY <1>1, <1>3, <2>3, GotoAt DEF Base, SubTaskMade, RestoreCascade, Handler
    <3> QED BY <1>2, <1>4, <2>1, <2>3, <3>1, RowsMade
  <2> QED BY <2>2, <2>3
<1> QED BY <1>1, <1>2, <1>4, SubTaskStatement

LEMMA CascadeStep ==
  ASSUME Base, TypeInv', CascadeInv, NEW p \in Procs,
         \/ CloseUpdate(p) \/ CloseDrop(p) \/ CloseSkip(p) \/ CloseSubs(p)
         \/ ArchiveUpdate(p) \/ ArchiveSubs(p)
         \/ RestoreUpdate(p) \/ RestoreCascade(p)
  PROVE  CascadeInv' /\ UNCHANGED tables
<1>1. UNCHANGED tables
  BY DEF CloseUpdate, CloseDrop, CloseSkip, CloseSubs, ArchiveUpdate,
         ArchiveSubs, RestoreUpdate, RestoreCascade, InTransaction
<1>2. CASE CloseUpdate(p) \/ ArchiveUpdate(p) \/ RestoreUpdate(p)
  BY <1>1, <1>2, UpdateStep
<1>3. CASE CloseDrop(p) \/ CloseSkip(p)
  BY <1>1, <1>3, AssigneeStep DEF CloseDrop, CloseSkip
<1>4. CASE CloseSubs(p)
  BY <1>1, <1>4, CloseSubsStep
<1>5. CASE ArchiveSubs(p)
  BY <1>1, <1>5, SubTasksStep DEF ArchiveSubs
<1>6. CASE RestoreCascade(p)
  BY <1>1, <1>6, AssigneeStep, SubTasksStep DEF RestoreCascade
<1> QED BY <1>1, <1>2, <1>3, <1>4, <1>5, <1>6

-----------------------------------------------------------------------------
(* The steps of all the others                                             *)

\* A step of p that is none of a cascade.
LEMMA QuietStep ==
  ASSUME Base, TypeInv', CascadeInv, NEW p \in Procs,
         UNCHANGED task, AssigneesAlone => UNCHANGED assignee,
         SubTasksAlone => UNCHANGED subTask,
         \A q \in Procs \ {p} : req'[q] = req[q] /\ tx'[q] = tx[q],
         ~HoldsTask(req'[p]), Explained(req'[p])
  PROVE  CascadeInv'
<1>1. Progress(p)'
  BY DEF Progress
<1> QED BY <1>1, StepInside DEF Base

\* Whoever closes over open items has given a reason, and no other step
\* changes either.
LEMMA ReasonGiven ==
  ASSUME TypeInv, NEW p \in Procs, Explained(req[p]), Step(p)
  PROVE  req'[p].hasOpenItems => req'[p].reason # Null
<1> DEFINE Given == req'[p].hasOpenItems => req'[p].reason # Null
<1>1. req \in [Procs -> Request] /\ req[p] \in Request
  BY DEF TypeInv, RequestInv
<1>2. ASSUME Finish(p)  PROVE Given
  BY <1>1, <1>2 DEF Finish, NoRequest
<1>3. ASSUME NEW pc, Goto(p, pc)  PROVE Given
  BY <1>3, GotoAt DEF Explained
<1>4. ASSUME \/ req'[p].hasOpenItems = req[p].hasOpenItems
                /\ req'[p].reason = req[p].reason
             \/ CloseAllowed(req'[p], req'[p].hasOpenItems)
      PROVE  Given
  BY <1>4 DEF Explained, CloseAllowed
<1> SUFFICES Given
  OBVIOUS
<1> HIDE DEF Given
<1>5. CASE SubTaskExistsGuard(p) \/ Commit(p)
  BY <1>2, <1>3, <1>5 DEF SubTaskExistsGuard, Commit
<1>6. CASE TaskMemberGuard(p)
  BY <1>1, <1>2, <1>4, <1>6 DEF TaskMemberGuard, Request
<1>7. CASE CloseCount(p)
  <2>1. CASE req' = [req EXCEPT ![p].pc = "close_update",
                                ![p].hasOpenItems = HasOpenItems(req[p].task)]
    <3>1. CloseAllowed(req[p], HasOpenItems(req[p].task))
      BY <1>1, <1>7, <2>1 DEF CloseCount, Finish, NoRequest, Request
    <3>2. req'[p] = [req[p] EXCEPT !.pc = "close_update",
                              !.hasOpenItems = HasOpenItems(req[p].task)]
      BY <1>1, <2>1
    <3>3. CloseAllowed(req'[p], req'[p].hasOpenItems)
      BY <1>1, <3>1, <3>2 DEF CloseAllowed, Request
    <3> QED BY <1>4, <3>3
  <2> QED BY <1>2, <1>7, <2>1 DEF CloseCount
<1>8. CASE RestorePeek(p) \/ ReportSubTask(p)
  BY <1>1, <1>4, <1>8 DEF RestorePeek, ReportSubTask, Request
<1>9. CASE \/ CloseUpdate(p) \/ CloseDrop(p) \/ CloseSkip(p) \/ CloseSubs(p)
           \/ ArchiveRead(p) \/ ArchiveUpdate(p) \/ ArchiveSubs(p)
           \/ RestoreRead(p) \/ RestoreUpdate(p) \/ RestoreCascade(p)
           \/ ReportRead(p) \/ ReportClaim(p) \/ ReportWrite(p)
  BY <1>2, <1>3, <1>9
     DEF CloseUpdate, CloseDrop, CloseSkip, CloseSubs, ArchiveRead,
         ArchiveUpdate, ArchiveSubs, RestoreRead, RestoreUpdate,
         RestoreCascade, ReportRead, ReportClaim, ReportWrite
<1>10. CASE AssignmentStep(p)
  BY <1>2, <1>3, <1>10
     DEF AssignmentStep, AssignTarget, AssignAssigner, AssignAssignee,
         AssignUpsert, AssignMail, DecideRead, DecideWrite
<1>11. CASE SubTaskStep(p)
  BY <1>2, <1>3, <1>8, <1>11
     DEF SubTaskStep, CreateSubInsert, CloseSubUpdate, CloseSubOwn,
         CloseSubUpsert, CloseSubDrop, CloseSubSkip, RestoreSubUpdate,
         RestoreSubAccept, RestoreSubPend, ReportSubOwn, ReportSubClaim,
         ReportSubWrite
<1> QED BY <1>5, <1>6, <1>7, <1>8, <1>9, <1>10, <1>11 DEF Step, TaskStep

\* What the requests write that have no transaction, or one of one statement.
LEMMA OutsideWrites ==
  ASSUME TypeInv, NEW p \in Procs,
         \/ TaskMemberGuard(p) \/ SubTaskExistsGuard(p)
         \/ CloseCount(p) \/ ArchiveRead(p) \/ RestorePeek(p) \/ RestoreRead(p)
         \/ ReportRead(p) \/ ReportClaim(p) \/ ReportWrite(p)
         \/ AssignmentStep(p)
         \/ CreateSubInsert(p) \/ ReportSubTask(p) \/ ReportSubOwn(p)
         \/ ReportSubClaim(p) \/ ReportSubWrite(p)
  PROVE  /\ UNCHANGED task
         /\ AssigneesAlone => UNCHANGED assignee
         /\ SubTasksAlone => UNCHANGED subTask
<1>1. /\ req[p] \in Request /\ Handler(req[p]) /\ Parameters(req[p])
      /\ req[p].op \in {"none"} \cup Ops
  BY DEF TypeInv, RequestInv, GoodRequest, Request
<1>2. CASE \/ TaskMemberGuard(p) \/ SubTaskExistsGuard(p)
           \/ CloseCount(p) \/ ArchiveRead(p) \/ RestorePeek(p)
           \/ RestoreRead(p) \/ ReportRead(p) \/ ReportSubTask(p)
           \/ ReportSubOwn(p) \/ ReportSubClaim(p) \/ ReportSubWrite(p)
  BY <1>2 DEF TaskMemberGuard, SubTaskExistsGuard, CloseCount, ArchiveRead,
              RestorePeek, RestoreRead, ReportRead, ReportSubTask,
              ReportSubOwn, ReportSubClaim, ReportSubWrite, tables
<1>3. CASE ReportClaim(p) \/ ReportWrite(p)
  <2>1. UNCHANGED <<task, subTask>> /\ req[p].op = "report"
    BY <1>1, <1>3 DEF ReportClaim, ReportWrite, Handler
  <2> QED BY <1>1, <2>1 DEF AssigneesAlone
<1>4. CASE CreateSubInsert(p)
  <2>1. UNCHANGED <<task, assignee>> /\ req[p].op = "createSub"
    BY <1>1, <1>4 DEF CreateSubInsert, Handler
  <2> QED BY <1>1, <2>1 DEF SubTasksAlone
<1>5. CASE AssignmentStep(p)
  <2>1. UNCHANGED <<task, subTask>>
    BY <1>5 DEF AssignmentStep, AssignTarget, AssignAssigner, AssignAssignee,
                AssignUpsert, AssignMail, DecideRead, DecideWrite, tables
  <2>2. ASSUME AssigneesAlone  PROVE UNCHANGED assignee
    <3>1. AssignUpsert(p) => UNCHANGED assignee
      <4> SUFFICES ASSUME AssignUpsert(p)  PROVE UNCHANGED assignee
        OBVIOUS
      <4>1. req[p].pc = "assign_upsert" /\ req[p].op \in {"assign", "assignSub"}
        BY <1>1 DEF AssignUpsert, Handler
      <4>2. req[p].op = "assignSub"
        BY <1>1, <2>2, <4>1 DEF AssigneesAlone
      <4>3. req[p].sub # Null
        BY <1>1, <4>2, StoreAssumption DEF Parameters, SubOps
      <4> QED BY <4>3 DEF AssignUpsert, SetRow
    <3>2. ~DecideWrite(p)
      BY <1>1, <2>2 DEF DecideWrite, Handler, AssigneesAlone
    <3> QED BY <1>5, <3>1, <3>2
            DEF AssignmentStep, AssignTarget, AssignAssigner, AssignAssignee,
                AssignMail, DecideRead, tables
  <2> QED BY <2>1, <2>2
<1> QED BY <1>2, <1>3, <1>4, <1>5

LEMMA OutsideStep ==
  ASSUME Base, TypeInv', CascadeInv, NEW p \in Procs, Step(p),
         \/ TaskMemberGuard(p) \/ SubTaskExistsGuard(p)
         \/ CloseCount(p) \/ ArchiveRead(p) \/ RestorePeek(p) \/ RestoreRead(p)
         \/ ReportRead(p) \/ ReportClaim(p) \/ ReportWrite(p)
         \/ AssignmentStep(p)
         \/ CreateSubInsert(p) \/ ReportSubTask(p) \/ ReportSubOwn(p)
         \/ ReportSubClaim(p) \/ ReportSubWrite(p)
  PROVE  /\ CascadeInv' /\ UNCHANGED task
         /\ AssigneesAlone => UNCHANGED assignee
         /\ SubTasksAlone => UNCHANGED subTask
<1>1. req'[p].pc \notin Writing /\ UNCHANGED tx
  BY OutsideStays DEF Base
<1>2. ~HoldsTask(req'[p])
  BY <1>1, HoldersWrite
<1>3. Explained(req'[p])
  <2>1. Explained(req[p])
    BY DEF CascadeInv, Progress
  <2>2. req'[p].hasOpenItems => req'[p].reason # Null
    BY <2>1, ReasonGiven DEF Base
  <2> QED BY <1>1, <2>2 DEF Explained, Writing
<1>4. \A q \in Procs \ {p} : req'[q] = req[q] /\ tx'[q] = tx[q]
  BY <1>1, OthersStay DEF Base
<1>5. /\ UNCHANGED task
      /\ AssigneesAlone => UNCHANGED assignee
      /\ SubTasksAlone => UNCHANGED subTask
  BY OutsideWrites DEF Base
<1> QED BY <1>2, <1>3, <1>4, <1>5, QuietStep

\* The transactions of a sub-task.
LEMMA SubTaskStepQuiet ==
  ASSUME Base, TypeInv', CascadeInv, NEW p \in Procs, Step(p),
         \/ CloseSubUpdate(p) \/ CloseSubOwn(p) \/ CloseSubUpsert(p)
         \/ CloseSubDrop(p) \/ CloseSubSkip(p)
         \/ RestoreSubUpdate(p) \/ RestoreSubAccept(p) \/ RestoreSubPend(p)
  PROVE  CascadeInv' /\ UNCHANGED tables
<1>1. UNCHANGED tables
  BY DEF CloseSubUpdate, CloseSubOwn, CloseSubUpsert, CloseSubDrop,
         CloseSubSkip, RestoreSubUpdate, RestoreSubAccept, RestoreSubPend,
         InSubTransaction
<1>2. /\ Handler(req[p]) /\ tx \in [Procs -> Transaction]
      /\ Explained(req[p])
  BY DEF Base, TypeInv, TypeOK, RequestInv, GoodRequest, CascadeInv, Progress
<1>3. PICK pc \in { "closeSub_own", "closeSub_upsert", "closeSub_drop",
                    "closeSub_skip", "restoreSub_accept", "restoreSub_pend",
                    "commit" } : Goto(p, pc)
  BY DEF CloseSubUpdate, CloseSubOwn, CloseSubUpsert, CloseSubDrop,
         CloseSubSkip, RestoreSubUpdate, RestoreSubAccept, RestoreSubPend
<1>4. req[p].op \in {"closeSub", "restoreSub"}
  BY <1>2 DEF CloseSubUpdate, CloseSubOwn, CloseSubUpsert, CloseSubDrop,
              CloseSubSkip, RestoreSubUpdate, RestoreSubAccept,
              RestoreSubPend, Handler
<1>5. ~HoldsTask(req'[p])
  BY <1>3, <1>4, GotoAt DEF Base, HoldsTask
<1>6. Explained(req'[p])
  BY <1>2, <1>3, GotoAt DEF Base, Explained
<1>7. \A q \in Procs \ {p} : tx'[q] = tx[q]
  <2>1. ASSUME NEW table, NEW rows, Write(p, table, rows)
        PROVE  \A q \in Procs \ {p} : tx'[q] = tx[q]
    BY <1>2, <2>1 DEF Write
  <2> QED BY <2>1 DEF CloseSubUpdate, CloseSubOwn, CloseSubUpsert,
             CloseSubDrop, CloseSubSkip, RestoreSubUpdate, RestoreSubAccept,
             RestoreSubPend, MoveSubAssignees
<1> QED BY <1>1, <1>5, <1>6, <1>7, OthersStay, QuietStep DEF Base, tables

LEMMA CallOrAbort ==
  ASSUME Base, TypeInv', CascadeInv, NEW p \in Procs, Call(p) \/ Abort(p)
  PROVE  CascadeInv' /\ UNCHANGED tables
<1>1. CASE Abort(p)
  <2>1. /\ req'[p] = NoRequest /\ UNCHANGED tables
        /\ \A q \in Procs \ {p} : req'[q] = req[q] /\ tx'[q] = tx[q]
    BY <1>1 DEF Abort, Finish, Base, TypeInv, TypeOK, RequestInv
  <2>2. ~HoldsTask(req'[p]) /\ Explained(req'[p])
    BY <2>1 DEF NoRequest, HoldsTask, Explained
  <2> QED BY <2>1, <2>2, QuietStep DEF tables
<1>2. ASSUME NEW r, Receive(p, r), r.hasOpenItems = FALSE,
             r.pc \in {"guard", "sub_guard", "assign_target", "decide_read"}
      PROVE  CascadeInv' /\ UNCHANGED tables
  <2>1. /\ req'[p] = r /\ UNCHANGED <<tables, tx>>
        /\ \A q \in Procs \ {p} : req'[q] = req[q]
    BY <1>2 DEF Receive, Base, TypeInv, RequestInv
  <2>2. ~HoldsTask(req'[p]) /\ Explained(req'[p])
    BY <1>2, <2>1 DEF HoldsTask, Explained
  <2> QED BY <2>1, <2>2, QuietStep DEF tables
<1>3. CASE TaskCall(p)
  BY <1>2, <1>3 DEF TaskCall, PostClose, PostArchive, PostRestore, PostReport,
                    NoRequest
<1>4. CASE AssignmentCall(p)
  BY <1>2, <1>4 DEF AssignmentCall, PostAssign, PostAssignSub, GetDecision,
                    NoRequest
<1>5. CASE SubTaskCall(p)
  BY <1>2, <1>5 DEF SubTaskCall, PostCreateSub, PostCloseSub, PostRestoreSub,
                    PostReportSub, PostSub, NoRequest
<1> QED BY <1>1, <1>3, <1>4, <1>5 DEF Call

-----------------------------------------------------------------------------
(* The commit                                                              *)

\* Of a cascade: it replaces the rows of its task by what the transaction saw
\* of them, and leaves every other row alone.
LEMMA CommitRows ==
  ASSUME TypeInv, LockInv, NEW p \in Procs, Commit(p), HoldsTask(req[p])
  PROVE  LET t == req[p].task IN
         /\ t \in Tasks
         /\ task' = [task EXCEPT ![t] = TaskView(p)[t]]
         /\ assignee' = [k \in Tasks \X Users |->
                           IF k[1] = t THEN AssigneeView(p)[<<t, k[2]>>]
                                       ELSE assignee[k]]
         /\ subTask' = [s \in SubTasks |->
                          IF parentOf[s] = t THEN SubTaskView(p)[s]
                                             ELSE subTask[s]]
<1> DEFINE t == req[p].task
<1>1. /\ t \in Tasks /\ DOMAIN tx[p].task = {t}
      /\ DOMAIN tx[p].assignee \subseteq {t} \X Users
      /\ \A s \in DOMAIN tx[p].subTask : parentOf[s] = t
  BY HolderAt
<1>2. /\ task' = TaskView(p) /\ assignee' = AssigneeView(p)
      /\ subTask' = SubTaskView(p)
  BY DEF Commit
<1>3. /\ TaskView(p) \in [Tasks -> TaskRow]
      /\ AssigneeView(p) \in [Tasks \X Users -> AssigneeRow]
      /\ SubTaskView(p) \in [SubTasks -> SubTaskRow]
  BY ViewsTyped DEF TypeInv
<1>4. /\ task \in [Tasks -> TaskRow]
      /\ assignee \in [Tasks \X Users -> AssigneeRow]
      /\ subTask \in [SubTasks -> SubTaskRow]
  BY DEF TypeInv, TypeOK
<1>5. \A x \in Tasks \ {t} : TaskView(p)[x] = task[x]
  BY <1>1, <1>4, OverAt DEF TaskView
<1>6. ASSUME NEW k \in Tasks \X Users
      PROVE  AssigneeView(p)[k] = IF k[1] = t THEN AssigneeView(p)[<<t, k[2]>>]
                                              ELSE assignee[k]
  <2>1. k = <<k[1], k[2]>>
    OBVIOUS
  <2>2. k[1] # t => k \notin DOMAIN tx[p].assignee
    BY <1>1, <2>1
  <2>3. k[1] # t => AssigneeView(p)[k] = assignee[k]
    BY <1>4, <2>2, OverAt DEF AssigneeView
  <2> QED BY <2>1, <2>3
<1>7. \A s \in SubTasks : parentOf[s] # t => SubTaskView(p)[s] = subTask[s]
  BY <1>1, <1>4, OverAt DEF SubTaskView
<1>8. task' = [task EXCEPT ![t] = TaskView(p)[t]]
  BY <1>1, <1>2, <1>3, <1>4, <1>5
<1>9. assignee' = [k \in Tasks \X Users |->
                    IF k[1] = t THEN AssigneeView(p)[<<t, k[2]>>]
                                ELSE assignee[k]]
  BY <1>2, <1>3, <1>6
<1>10. subTask' = [s \in SubTasks |-> IF parentOf[s] = t
                                      THEN SubTaskView(p)[s] ELSE subTask[s]]
  BY <1>2, <1>3, <1>7
<1> QED BY <1>1, <1>8, <1>9, <1>10

\* Of any other transaction: one of a sub-task.
LEMMA CommitElsewhere ==
  ASSUME TypeInv, LockInv, NEW p \in Procs, Commit(p), ~HoldsTask(req[p])
  PROVE  UNCHANGED <<task, assignee>> /\ (SubTasksAlone => UNCHANGED subTask)
<1>1. /\ task' = TaskView(p) /\ assignee' = AssigneeView(p)
      /\ subTask' = SubTaskView(p)
      /\ task = [x \in DOMAIN task |-> task[x]]
      /\ assignee = [x \in DOMAIN assignee |-> assignee[x]]
      /\ subTask = [x \in DOMAIN subTask |-> subTask[x]]
  BY DEF Commit, TypeInv, TypeOK
<1>2. Held(req[p], tx[p])
  BY DEF LockInv
<1>3. DOMAIN tx[p].task = {} /\ DOMAIN tx[p].assignee = {}
  BY <1>2, NothingHeld DEF Held
<1>4. UNCHANGED task
  BY <1>1, <1>3 DEF TaskView, Over
<1>5. UNCHANGED assignee
  BY <1>1, <1>3 DEF AssigneeView, Over
<1>6. ASSUME SubTasksAlone  PROVE UNCHANGED subTask
  <2>1. req[p].op \in {"none"} \cup Ops /\ Handler(req[p])
    BY DEF TypeInv, RequestInv, GoodRequest, Request
  <2>2. ~HoldsSubTask(req[p])
    BY <1>6, <2>1 DEF HoldsSubTask, Handler, SubTasksAlone
  <2>3. DOMAIN tx[p].subTask = {}
    BY <1>2, <2>2, NothingHeld DEF Held
  <2> QED BY <1>1, <2>3 DEF SubTaskView, Over
<1> QED BY <1>4, <1>5, <1>6

\* Another task's rows are not committed with it.
LEMMA CommitApart ==
  ASSUME TypeInv, LockInv, NEW p \in Procs, Commit(p), HoldsTask(req[p]),
         NEW x \in Tasks, x # req[p].task
  PROVE  /\ task'[x] = task[x]
         /\ \A u \in Users : assignee'[<<x, u>>] = assignee[<<x, u>>]
         /\ \A s \in SubTasks : parentOf[s] = x => subTask'[s] = subTask[s]
<1> DEFINE t == req[p].task
<1>1. task'[x] = task[x]
  BY CommitRows DEF TypeInv, TypeOK
<1>2. ASSUME NEW u \in Users
      PROVE  assignee'[<<x, u>>] = assignee[<<x, u>>]
  <2> DEFINE k == <<x, u>>
  <2>1. k \in Tasks \X Users /\ k[1] # t
    OBVIOUS
  <2> HIDE DEF k
  <2>2. assignee' = [y \in Tasks \X Users |->
                      IF y[1] = t THEN AssigneeView(p)[<<t, y[2]>>]
                                  ELSE assignee[y]]
    BY CommitRows
  <2>3. assignee'[k] = IF k[1] = t THEN AssigneeView(p)[<<t, k[2]>>]
                                   ELSE assignee[k]
    BY <2>1, <2>2
  <2> QED BY <2>1, <2>3 DEF k
<1>3. \A s \in SubTasks : parentOf[s] = x => subTask'[s] = subTask[s]
  BY CommitRows
<1> QED BY <1>1, <1>2, <1>3

LEMMA CommitStep ==
  ASSUME Base, TypeInv', CascadeInv, NEW p \in Procs, Commit(p)
  PROVE  CascadeInv'
<1>1. /\ req'[p] = NoRequest
      /\ \A q \in Procs \ {p} : req'[q] = req[q] /\ tx'[q] = tx[q]
  BY DEF Commit, Finish, Base, TypeInv, TypeOK, RequestInv
<1>2. ~HoldsTask(req'[p]) /\ Explained(req'[p])
  BY <1>1 DEF NoRequest, HoldsTask, Explained
<1>3. CASE ~HoldsTask(req[p])
  BY <1>1, <1>2, <1>3, CommitElsewhere, QuietStep DEF Base
<1>4. CASE HoldsTask(req[p])
  <2>1. ASSUME NEW q \in Procs \ {p}  PROVE Progress(q)'
    <3>1. ASSUME HoldsTask(req[q])
          PROVE  req[q].task \in Tasks /\ req[q].task # req[p].task
      BY <1>4, <3>1, HolderAt DEF Base
    <3>2. HoldsTask(req[q]) =>
            /\ task'[req[q].task] = task[req[q].task]
            /\ \A u \in Users : assignee'[<<req[q].task, u>>]
                                  = assignee[<<req[q].task, u>>]
            /\ \A s \in SubTasks :
                 parentOf[s] = req[q].task => subTask'[s] = subTask[s]
      BY <1>4, <3>1, CommitApart DEF Base
    <3> QED BY <1>1, <3>2, Untouched DEF Base, CascadeInv
  <2>2. Progress(p)'
    BY <1>2 DEF Progress
  <2> QED BY <2>1, <2>2 DEF CascadeInv
<1> QED BY <1>3, <1>4

\* The rows a cascade commits are what it has made of those committed before.
LEMMA CommitParts ==
  ASSUME TypeInv, LockInv, CascadeInv, NEW p \in Procs, Commit(p),
         HoldsTask(req[p])
  PROVE  LET r == req[p]
             t == req[p].task
         IN
         /\ t \in Tasks
         /\ task' = [task EXCEPT ![t] = TaskMade(r, task[t])]
         /\ AssigneesAlone =>
              assignee' = [k \in Tasks \X Users |->
                             IF k[1] = t THEN AssigneeMade(r, assignee[k])
                                         ELSE assignee[k]]
         /\ SubTasksAlone =>
              subTask' = [s \in SubTasks |->
                            IF parentOf[s] = t THEN SubTaskMade(r, subTask[s])
                                               ELSE subTask[s]]
<1> DEFINE r == req[p]
           t == req[p].task
<1>1. /\ t \in Tasks
      /\ task' = [task EXCEPT ![t] = TaskView(p)[t]]
      /\ assignee' = [k \in Tasks \X Users |->
                        IF k[1] = t THEN AssigneeView(p)[<<t, k[2]>>]
                                    ELSE assignee[k]]
      /\ subTask' = [s \in SubTasks |->
                       IF parentOf[s] = t THEN SubTaskView(p)[s]
                                          ELSE subTask[s]]
  BY CommitRows
<1>2. TaskDone(p) /\ AssigneesDone(p) /\ SubTasksDone(p)
  BY DEF CascadeInv, Progress
<1>3. task' = [task EXCEPT ![t] = TaskMade(r, task[t])]
  BY <1>1, <1>2 DEF TaskDone
<1>4. ASSUME AssigneesAlone
      PROVE  assignee' = [k \in Tasks \X Users |->
                            IF k[1] = t THEN AssigneeMade(r, assignee[k])
                                        ELSE assignee[k]]
  <2>1. ASSUME NEW k \in Tasks \X Users, k[1] = t
        PROVE  AssigneeView(p)[<<t, k[2]>>] = AssigneeMade(r, assignee[k])
    <3>1. k = <<t, k[2]>> /\ k[2] \in Users
      BY <2>1
    <3> QED BY <1>2, <1>4, <3>1 DEF AssigneesDone
  <2> QED BY <1>1, <2>1
<1>5. ASSUME SubTasksAlone
      PROVE  subTask' = [s \in SubTasks |->
                           IF parentOf[s] = t THEN SubTaskMade(r, subTask[s])
                                              ELSE subTask[s]]
  BY <1>1, <1>2, <1>5 DEF SubTasksDone
<1> QED BY <1>1, <1>3, <1>4, <1>5

-----------------------------------------------------------------------------
(* Every step                                                              *)

\* A step of p that is no cascade's commit leaves the rows alone.
LEMMA CascadeNext ==
  ASSUME Base, TypeInv', CascadeInv, [Next]_vars
  PROVE  /\ CascadeInv'
         /\ \/ \E p \in Procs : Commit(p) /\ HoldsTask(req[p])
            \/ /\ UNCHANGED task
               /\ AssigneesAlone => UNCHANGED assignee
               /\ SubTasksAlone => UNCHANGED subTask
<1> DEFINE Still == /\ UNCHANGED task
                    /\ AssigneesAlone => UNCHANGED assignee
                    /\ SubTasksAlone => UNCHANGED subTask
<1>1. UNCHANGED tables => Still
  BY DEF tables
<1>2. ASSUME NEW p \in Procs, Step(p)
      PROVE  CascadeInv' /\ ((Commit(p) /\ HoldsTask(req[p])) \/ Still)
  <2>1. CASE Commit(p)
    BY <2>1, CommitStep, CommitElsewhere DEF Base
  <2>2. CASE TaskMemberGuard(p) \/ SubTaskExistsGuard(p) \/ AssignmentStep(p)
    BY <1>2, <2>2, OutsideStep
  <2>3. CASE TaskStep(p)
    BY <1>1, <1>2, <2>3, OutsideStep, CascadeStep DEF TaskStep
  <2>4. CASE SubTaskStep(p)
    BY <1>1, <1>2, <2>4, OutsideStep, SubTaskStepQuiet DEF SubTaskStep
  <2> QED BY <1>2, <2>1, <2>2, <2>3, <2>4 DEF Step
<1>3. ASSUME NEW p \in Procs, Call(p) \/ Abort(p)
      PROVE  CascadeInv' /\ Still
  BY <1>1, <1>3, CallOrAbort
<1>4. ASSUME UNCHANGED <<tables, tx, req>>  PROVE CascadeInv' /\ Still
  <2>1. \A p \in Procs : Progress(p)'
    BY <1>4, Untouched DEF Base, CascadeInv, tables
  <2> QED BY <1>1, <1>4, <2>1 DEF CascadeInv
<1>5. ASSUME NEW u \in MutableUsers, ChangeMembership(u)
      PROVE  CascadeInv' /\ Still
  BY <1>4, <1>5 DEF ChangeMembership
<1>6. CASE UNCHANGED vars
  BY <1>4, <1>6 DEF vars
<1> QED BY <1>2, <1>3, <1>5, <1>6 DEF Next

\* What the commits of the three are.
LEMMA CommitClose ==
  ASSUME Base, CascadeInv, NEW p \in Procs, Commit(p), req[p].op = "close"
  PROVE  LET r == req[p]
             t == req[p].task
         IN
         /\ t \in Tasks /\ r.actor \in Users /\ r.hasOpenItems \in BOOLEAN
         /\ r.reason \in Reasons \cup {Null}
         /\ r.hasOpenItems => r.reason # Null
         /\ task' = [task EXCEPT ![t] = ClosedTask(r)]
         /\ AssigneesAlone =>
              assignee' = [k \in Tasks \X Users |->
                             IF k[1] = t THEN Cascades!Released(assignee[k])
                                         ELSE assignee[k]]
         /\ SubTasksAlone =>
              IF r.hasOpenItems
              THEN subTask' = [s \in SubTasks |->
                                 IF parentOf[s] = t
                                 THEN Cascades!Terminated(subTask[s], r.actor)
                                 ELSE subTask[s]]
              ELSE UNCHANGED subTask
<1> DEFINE r == req[p]
           t == req[p].task
<1>1. r.pc = "commit" /\ HoldsTask(r)
  BY DEF Commit, HoldsTask
<1>2. /\ r \in Request /\ r.actor \in Users /\ Explained(r)
      /\ subTask \in [SubTasks -> SubTaskRow]
  BY <1>1, HolderAt DEF Base, CascadeInv, Progress, TypeInv, TypeOK
<1>3. /\ \A row : TaskMade(r, row) = ClosedTask(r)
      /\ \A st : AssigneeMade(r, st) = Cascades!Released(st)
      /\ \A row : SubTaskMade(r, row) =
                    IF r.hasOpenItems THEN Cascades!Terminated(row, r.actor)
                                      ELSE row
  BY <1>1 DEF TaskMade, AssigneeMade, SubTaskMade
<1>4. /\ t \in Tasks
      /\ task' = [task EXCEPT ![t] = TaskMade(r, task[t])]
      /\ AssigneesAlone =>
           assignee' = [k \in Tasks \X Users |->
                          IF k[1] = t THEN AssigneeMade(r, assignee[k])
                                      ELSE assignee[k]]
      /\ SubTasksAlone =>
           subTask' = [s \in SubTasks |->
                         IF parentOf[s] = t THEN SubTaskMade(r, subTask[s])
                                            ELSE subTask[s]]
  BY <1>1, CommitParts DEF Base
<1>5. r.hasOpenItems \in BOOLEAN /\ r.reason \in Reasons \cup {Null}
  BY <1>2 DEF Request
<1>6. SubTasksAlone =>
        IF r.hasOpenItems
        THEN subTask' = [s \in SubTasks |->
                           IF parentOf[s] = t
                           THEN Cascades!Terminated(subTask[s], r.actor)
                           ELSE subTask[s]]
        ELSE UNCHANGED subTask
  BY <1>2, <1>3, <1>4, <1>5
<1>7. task' = [task EXCEPT ![t] = ClosedTask(r)]
  BY <1>3, <1>4
<1>8. AssigneesAlone =>
        assignee' = [k \in Tasks \X Users |->
                       IF k[1] = t THEN Cascades!Released(assignee[k])
                                   ELSE assignee[k]]
  BY <1>3, <1>4
<1>9. r.hasOpenItems => r.reason # Null
  BY <1>2 DEF Explained
<1> QED BY <1>2, <1>4, <1>5, <1>6, <1>7, <1>8, <1>9

LEMMA CommitArchive ==
  ASSUME Base, CascadeInv, NEW p \in Procs, Commit(p), req[p].op = "archive"
  PROVE  LET t == req[p].task IN
         /\ t \in Tasks
         /\ task' = [task EXCEPT ![t].status = "ARCHIVED"]
         /\ AssigneesAlone => UNCHANGED assignee
         /\ SubTasksAlone =>
              subTask' = [s \in SubTasks |->
                            IF parentOf[s] = t THEN Cascades!Shelved(subTask[s])
                                               ELSE subTask[s]]
<1> DEFINE r == req[p]
           t == req[p].task
<1>1. r.pc = "commit" /\ HoldsTask(r)
  BY DEF Commit, HoldsTask
<1>2. assignee \in [Tasks \X Users -> AssigneeRow]
  BY DEF Base, TypeInv, TypeOK
<1>3. /\ \A row : TaskMade(r, row) = [row EXCEPT !.status = "ARCHIVED"]
      /\ \A st : AssigneeMade(r, st) = st
      /\ \A row : SubTaskMade(r, row) = Cascades!Shelved(row)
  BY <1>1 DEF TaskMade, AssigneeMade, SubTaskMade
<1>4. /\ t \in Tasks
      /\ task' = [task EXCEPT ![t] = TaskMade(r, task[t])]
      /\ AssigneesAlone =>
           assignee' = [k \in Tasks \X Users |->
                          IF k[1] = t THEN AssigneeMade(r, assignee[k])
                                      ELSE assignee[k]]
      /\ SubTasksAlone =>
           subTask' = [s \in SubTasks |->
                         IF parentOf[s] = t THEN SubTaskMade(r, subTask[s])
                                            ELSE subTask[s]]
  BY <1>1, CommitParts DEF Base
<1>5. AssigneesAlone => UNCHANGED assignee
  BY <1>2, <1>3, <1>4
<1>6. task' = [task EXCEPT ![t].status = "ARCHIVED"]
  BY <1>3, <1>4
<1>7. SubTasksAlone =>
        subTask' = [s \in SubTasks |->
                      IF parentOf[s] = t THEN Cascades!Shelved(subTask[s])
                                         ELSE subTask[s]]
  BY <1>3, <1>4
<1> QED BY <1>4, <1>5, <1>6, <1>7

LEMMA CommitRestore ==
  ASSUME Base, CascadeInv, NEW p \in Procs, Commit(p), req[p].op = "restore"
  PROVE  LET r == req[p]
             t == req[p].task
         IN
         /\ t \in Tasks
         /\ task' = [task EXCEPT ![t] = NewTask("OPEN")]
         /\ AssigneesAlone =>
              IF r.seen = "CLOSED"
              THEN assignee' = [k \in Tasks \X Users |->
                                  IF k[1] = t THEN Cascades!Revived(assignee[k])
                                              ELSE assignee[k]]
              ELSE UNCHANGED assignee
         /\ SubTasksAlone =>
              IF r.seen = "ARCHIVED"
              THEN subTask' = [s \in SubTasks |->
                                 IF parentOf[s] = t
                                 THEN Cascades!Unshelved(subTask[s])
                                 ELSE subTask[s]]
              ELSE UNCHANGED subTask
<1> DEFINE r == req[p]
           t == req[p].task
<1>1. r.pc = "commit" /\ HoldsTask(r)
  BY DEF Commit, HoldsTask
<1>2. /\ assignee \in [Tasks \X Users -> AssigneeRow]
      /\ subTask \in [SubTasks -> SubTaskRow]
  BY DEF Base, TypeInv, TypeOK
<1>3. /\ \A row : TaskMade(r, row) = NewTask("OPEN")
      /\ \A st : AssigneeMade(r, st) =
                   IF r.seen = "CLOSED" THEN Cascades!Revived(st) ELSE st
      /\ \A row : SubTaskMade(r, row) =
                    IF r.seen = "ARCHIVED" THEN Cascades!Unshelved(row) ELSE row
  BY <1>1 DEF TaskMade, AssigneeMade, SubTaskMade
<1>4. /\ t \in Tasks
      /\ task' = [task EXCEPT ![t] = TaskMade(r, task[t])]
      /\ AssigneesAlone =>
           assignee' = [k \in Tasks \X Users |->
                          IF k[1] = t THEN AssigneeMade(r, assignee[k])
                                      ELSE assignee[k]]
      /\ SubTasksAlone =>
           subTask' = [s \in SubTasks |->
                         IF parentOf[s] = t THEN SubTaskMade(r, subTask[s])
                                            ELSE subTask[s]]
  BY <1>1, CommitParts DEF Base
<1>5. task' = [task EXCEPT ![t] = NewTask("OPEN")]
  BY <1>3, <1>4
<1>6. ASSUME AssigneesAlone
      PROVE  IF r.seen = "CLOSED"
             THEN assignee' = [k \in Tasks \X Users |->
                                 IF k[1] = t THEN Cascades!Revived(assignee[k])
                                             ELSE assignee[k]]
             ELSE UNCHANGED assignee
  <2>1. CASE r.seen = "CLOSED"
    BY <1>3, <1>4, <1>6, <2>1
  <2>2. CASE r.seen # "CLOSED"
    BY <1>2, <1>3, <1>4, <1>6, <2>2
  <2> QED BY <2>1, <2>2
<1>7. ASSUME SubTasksAlone
      PROVE  IF r.seen = "ARCHIVED"
             THEN subTask' = [s \in SubTasks |->
                                IF parentOf[s] = t
                                THEN Cascades!Unshelved(subTask[s])
                                ELSE subTask[s]]
             ELSE UNCHANGED subTask
  <2>1. CASE r.seen = "ARCHIVED"
    BY <1>3, <1>4, <1>7, <2>1
  <2>2. CASE r.seen # "ARCHIVED"
    BY <1>2, <1>3, <1>4, <1>7, <2>2
  <2> QED BY <2>1, <2>2
<1> QED BY <1>4, <1>5, <1>6, <1>7

-----------------------------------------------------------------------------
(* The three abstractions                                                  *)

LEMMA NewRows == \A st : NewTask(st) = Cascades!New(st)
BY DEF NewTask, Cascades!New

LEMMA InitMaps ==
  ASSUME Init
  PROVE  Cascades!Init /\ AssigneeCascades!Init /\ StatusCascades!Init
<1>1. task \in [Tasks -> {Cascades!New(st) : st \in TaskStatus}]
  <2>1. PICK st \in [Tasks -> FirstTasks] :
          task = [t \in Tasks |-> NewTask(st[t])]
    BY DEF Init
  <2>2. \A t \in Tasks : st[t] \in TaskStatus
    BY SystemAssumption
  <2> QED BY <2>1, <2>2, NewRows
<1>2. TypeInv
  BY InitTyped, StoreAssumption, SystemAssumption
<1>3. /\ assignee \in [Tasks \X Users -> AssignmentStatus \cup {NoRow}]
      /\ subTask \in [SubTasks -> [ status : TaskStatus \cup {NoRow},
                                    closedById : Users \cup {Null},
                                    closedReason : Reasons \cup {Null} ]]
  BY <1>2 DEF TypeInv, TypeOK, AssigneeRow, SubTaskRow
<1>4. Cascades!Init
  BY <1>1, <1>3 DEF Cascades!Init, Cascades!New, Cascades!AssignmentStatus,
                    AssignmentStatus, Cascades!TaskStatus, TaskStatus,
                    Cascades!NoRow, NoRow
<1>5. AssigneeCascades!Init
  <2>1. \A S : Clean \in [{} -> S]
    BY DEF Clean
  <2> QED BY <1>1, <1>3, <2>1
          DEF AssigneeCascades!Init, AssigneeCascades!New, Cascades!New,
              AssigneeCascades!AssignmentStatus, AssignmentStatus,
              AssigneeCascades!TaskStatus, TaskStatus, AssigneeCascades!NoRow,
              NoRow
<1>6. StatusCascades!Init
  BY <1>1, <1>3
     DEF StatusCascades!Init, StatusCascades!New, Cascades!New,
         StatusCascades!AssignmentStatus, AssignmentStatus,
         StatusCascades!TaskStatus, TaskStatus, StatusCascades!NoRow, NoRow
<1> QED BY <1>4, <1>5, <1>6

\* The commit is the one step of TaskCascades.
LEMMA CommitMaps ==
  ASSUME AssigneesAlone, SubTasksAlone, Base, CascadeInv,
         NEW p \in Procs, Commit(p), HoldsTask(req[p])
  PROVE  Cascades!Next
<1> DEFINE r == req[p]
           t == req[p].task
<1>1. r.op \in {"close", "archive", "restore"} /\ t \in Tasks
  BY HolderAt DEF Base
<1>2. CASE r.op = "close"
  <2>1. Cascades!Close(t, r.actor, r.reason, r.hasOpenItems)
    BY <1>2, CommitClose
       DEF Cascades!Close, Cascades!Assignees, Cascades!SubTasksOf, ClosedTask
  <2>2. /\ r.actor \in Users /\ r.hasOpenItems \in BOOLEAN
        /\ r.reason \in Reasons \cup {Null}
    BY <1>2, CommitClose
  <2> QED BY <1>1, <2>1, <2>2 DEF Cascades!Next
<1>3. CASE r.op = "archive"
  <2>1. Cascades!Archive(t)
    BY <1>3, CommitArchive DEF Cascades!Archive, Cascades!SubTasksOf
  <2> QED BY <1>1, <2>1 DEF Cascades!Next
<1>4. CASE r.op = "restore"
  <2>1. Cascades!Restore(t)
    BY <1>4, CommitRestore, NewRows
       DEF Cascades!Restore, Cascades!SubTasksOf, Cascades!Assignees
  <2> QED BY <1>1, <2>1 DEF Cascades!Next
<1> QED BY <1>1, <1>2, <1>3, <1>4

\* With no sub-tasks in sight.
LEMMA CommitMapsAssignees ==
  ASSUME AssigneesAlone, Base, CascadeInv,
         NEW p \in Procs, Commit(p), HoldsTask(req[p])
  PROVE  AssigneeCascades!Next
<1> DEFINE r == req[p]
           t == req[p].task
<1>1. r.op \in {"close", "archive", "restore"} /\ t \in Tasks
  BY HolderAt DEF Base
<1>2. \A st : AssigneeCascades!New(st) = NewTask(st)
  BY DEF AssigneeCascades!New, NewTask
<1>3. CASE r.op = "close"
  <2>1. AssigneeCascades!Close(t, r.actor, r.reason, r.hasOpenItems)
    BY <1>3, CommitClose
       DEF AssigneeCascades!Close, AssigneeCascades!Assignees, ClosedTask,
           AssigneeCascades!Released, Cascades!Released,
           AssigneeCascades!SubTasksOf, Clean
  <2>2. /\ r.actor \in Users /\ r.hasOpenItems \in BOOLEAN
        /\ r.reason \in Reasons \cup {Null}
    BY <1>3, CommitClose
  <2> QED BY <1>1, <2>1, <2>2 DEF AssigneeCascades!Next
<1>4. CASE r.op = "archive"
  <2>1. AssigneeCascades!Archive(t)
    BY <1>4, CommitArchive
       DEF AssigneeCascades!Archive, AssigneeCascades!SubTasksOf, Clean
  <2> QED BY <1>1, <2>1 DEF AssigneeCascades!Next
<1>5. CASE r.op = "restore"
  <2>1. AssigneeCascades!Restore(t)
    BY <1>2, <1>5, CommitRestore
       DEF AssigneeCascades!Restore, AssigneeCascades!SubTasksOf, Clean,
           AssigneeCascades!Assignees, AssigneeCascades!Revived,
           Cascades!Revived
  <2> QED BY <1>1, <2>1 DEF AssigneeCascades!Next
<1> QED BY <1>1, <1>3, <1>4, <1>5

\* With no assignees in sight.
LEMMA CommitMapsStatuses ==
  ASSUME SubTasksAlone, Base, CascadeInv,
         NEW p \in Procs, Commit(p), HoldsTask(req[p])
  PROVE  StatusCascades!Next
<1> DEFINE r == req[p]
           t == req[p].task
<1>1. r.op \in {"close", "archive", "restore"} /\ t \in Tasks
  BY HolderAt DEF Base
<1>2. /\ StatusCascades!Released(NoRow) = NoRow
      /\ StatusCascades!Revived(NoRow) = NoRow
  BY DEF StatusCascades!Released, StatusCascades!Revived, NoRow
<1>3. \A st : StatusCascades!New(st) = NewTask(st)
  BY DEF StatusCascades!New, NewTask
<1>4. CASE r.op = "close"
  <2>1. StatusCascades!Close(t, r.actor, r.reason, r.hasOpenItems)
    BY <1>2, <1>4, CommitClose
       DEF StatusCascades!Close, StatusCascades!Assignees, ClosedTask,
           StatusCascades!SubTasksOf, StatusCascades!Terminated,
           Cascades!Terminated, StatusCascades!NoRow, Cascades!NoRow
  <2>2. /\ r.actor \in Users /\ r.hasOpenItems \in BOOLEAN
        /\ r.reason \in Reasons \cup {Null}
    BY <1>4, CommitClose
  <2> QED BY <1>1, <2>1, <2>2 DEF StatusCascades!Next
<1>5. CASE r.op = "archive"
  <2>1. StatusCascades!Archive(t)
    BY <1>5, CommitArchive
       DEF StatusCascades!Archive, StatusCascades!SubTasksOf,
           StatusCascades!Shelved, Cascades!Shelved, StatusCascades!NoRow,
           Cascades!NoRow
  <2> QED BY <1>1, <2>1 DEF StatusCascades!Next
<1>6. CASE r.op = "restore"
  <2>1. StatusCascades!Restore(t)
    BY <1>2, <1>3, <1>6, CommitRestore
       DEF StatusCascades!Restore, StatusCascades!SubTasksOf,
           StatusCascades!Assignees, StatusCascades!Unshelved,
           Cascades!Unshelved
  <2> QED BY <1>1, <2>1 DEF StatusCascades!Next
<1> QED BY <1>1, <1>4, <1>5, <1>6

\* Every step of the requests is a step of each abstraction or none.
LEMMA NextMaps ==
  ASSUME Base, TypeInv', CascadeInv, [Next]_vars
  PROVE  /\ AssigneesAlone /\ SubTasksAlone => [Cascades!Next]_(Cascades!rows)
         /\ AssigneesAlone =>
              [AssigneeCascades!Next]_(AssigneeCascades!rows)
         /\ SubTasksAlone => [StatusCascades!Next]_(StatusCascades!rows)
<1>1. ASSUME NEW p \in Procs, Commit(p) /\ HoldsTask(req[p])
      PROVE  /\ AssigneesAlone /\ SubTasksAlone => Cascades!Next
             /\ AssigneesAlone => AssigneeCascades!Next
             /\ SubTasksAlone => StatusCascades!Next
  BY <1>1, CommitMaps, CommitMapsAssignees, CommitMapsStatuses
<1>2. CASE /\ UNCHANGED task
           /\ AssigneesAlone => UNCHANGED assignee
           /\ SubTasksAlone => UNCHANGED subTask
  <2>1. AssigneesAlone /\ SubTasksAlone => UNCHANGED Cascades!rows
    BY <1>2 DEF Cascades!rows
  <2>2. AssigneesAlone => UNCHANGED AssigneeCascades!rows
    BY <1>2 DEF AssigneeCascades!rows, Clean
  <2>3. SubTasksAlone => UNCHANGED StatusCascades!rows
    BY <1>2 DEF StatusCascades!rows
  <2> QED BY <2>1, <2>2, <2>3
<1> QED BY <1>1, <1>2, CascadeNext

\* Between the write of a task's row and the commit, what its holder has made
\* of the task, and of the rows nobody else writes, is a function of what is
\* committed: the inductive invariant, for requests of every operation.
THEOREM CascadeInvariant == Spec => [](Base /\ CascadeInv)
<1>1. Init => CascadeInv
  BY CascadeInit
<1>2. Base /\ TypeInv' /\ CascadeInv /\ [Next]_vars => CascadeInv'
  BY CascadeNext
<1> QED BY <1>1, <1>2, Typed, WorkInvariant, LockInvariant, PTL
        DEF Spec, Base

\* closeTask, archiveTask and restoreTask, four statements each and decided
\* before they began, are atomic to whoever has no part in the rows they take
\* along: beside them any request may run that writes assignees of sub-tasks.
THEOREM CascadesImplemented ==
  ASSUME AssigneesAlone, SubTasksAlone
  PROVE  Spec => CascadesAreAtomic
<1>1. Init => Cascades!Init
  BY InitMaps
<1>2. Base /\ TypeInv' /\ CascadeInv /\ [Next]_vars
        => [Cascades!Next]_(Cascades!rows)
  BY NextMaps
<1> QED BY <1>1, <1>2, Typed, CascadeInvariant, PTL
        DEF Spec, CascadesAreAtomic, Cascades!Spec

\* To a task and its assignees they are atomic whatever is requested of the
\* sub-tasks.
THEOREM AssigneeCascadesImplemented ==
  ASSUME AssigneesAlone
  PROVE  Spec => AssigneeCascadesAreAtomic
<1>1. Init => AssigneeCascades!Init
  BY InitMaps
<1>2. Base /\ TypeInv' /\ CascadeInv /\ [Next]_vars
        => [AssigneeCascades!Next]_(AssigneeCascades!rows)
  BY NextMaps
<1> QED BY <1>1, <1>2, Typed, CascadeInvariant, PTL
        DEF Spec, AssigneeCascadesAreAtomic, AssigneeCascades!Spec

\* To the statuses of a task and its sub-tasks, whatever work is assigned,
\* claimed, answered and reported.
THEOREM StatusCascadesImplemented ==
  ASSUME SubTasksAlone
  PROVE  Spec => StatusCascadesAreAtomic
<1>1. Init => StatusCascades!Init
  BY InitMaps
<1>2. Base /\ TypeInv' /\ CascadeInv /\ [Next]_vars
        => [StatusCascades!Next]_(StatusCascades!rows)
  BY NextMaps
<1> QED BY <1>1, <1>2, Typed, CascadeInvariant, PTL
        DEF Spec, StatusCascadesAreAtomic, StatusCascades!Spec

-----------------------------------------------------------------------------
(* What the atomic operations keep true                                    *)

LEMMA FirstStatus ==
  ASSUME Init, NEW t \in Tasks
  PROVE  /\ task[t].status \in FirstTasks
         /\ task[t].closedWithOpenAssignees = FALSE
<1>1. PICK st \in [Tasks -> FirstTasks] :
        task = [x \in Tasks |-> NewTask(st[x])]
  BY DEF Init
<1> QED BY <1>1 DEF NewTask

LEMMA StepReleases ==
  ASSUME TypeOK, ClosedTaskReleasesAssignees, AssigneeCascades!Next
  PROVE  ClosedTaskReleasesAssignees'
<1>1. PICK t \in Tasks :
        \/ \E u \in Users, why \in Reasons \cup {Null}, forced \in BOOLEAN :
             AssigneeCascades!Close(t, u, why, forced)
        \/ AssigneeCascades!Archive(t)
        \/ AssigneeCascades!Restore(t)
  BY DEF AssigneeCascades!Next
<1>2. /\ task \in [Tasks -> TaskRow]
      /\ assignee \in [Tasks \X Users -> AssigneeRow]
  BY DEF TypeOK
<1> SUFFICES ASSUME NEW x \in Tasks, NEW v \in Users,
                    task'[x].status = "CLOSED"
             PROVE  assignee'[<<x, v>>] \notin {"PENDING", "ACCEPTED"}
  BY DEF ClosedTaskReleasesAssignees
<1> DEFINE k == <<x, v>>
<1>3. k \in Tasks \X Users /\ k[1] = x
  OBVIOUS
<1>4. task[x].status = "CLOSED" => assignee[k] \notin {"PENDING", "ACCEPTED"}
  BY DEF ClosedTaskReleasesAssignees
<1> HIDE DEF k
<1>5. ASSUME NEW u \in Users, NEW why \in Reasons \cup {Null},
             NEW forced \in BOOLEAN, AssigneeCascades!Close(t, u, why, forced)
      PROVE  assignee'[k] \notin {"PENDING", "ACCEPTED"}
  <2>1. assignee' = [y \in Tasks \X Users |->
                      IF y[1] = t THEN AssigneeCascades!Released(assignee[y])
                                  ELSE assignee[y]]
    BY <1>5 DEF AssigneeCascades!Close, AssigneeCascades!Assignees
  <2>2. CASE x = t
    BY <1>3, <2>1, <2>2 DEF AssigneeCascades!Released
  <2>3. CASE x # t
    <3>1. task'[x] = task[x]
      BY <1>2, <1>5, <2>3 DEF AssigneeCascades!Close
    <3> QED BY <1>3, <1>4, <2>1, <2>3, <3>1
  <2> QED BY <2>2, <2>3
<1>6. CASE AssigneeCascades!Archive(t)
  <2>1. x # t
    BY <1>2, <1>6 DEF AssigneeCascades!Archive, TaskRow
  <2>2. task'[x] = task[x] /\ assignee' = assignee
    BY <1>2, <1>6, <2>1 DEF AssigneeCascades!Archive
  <2> QED BY <1>4, <2>2 DEF k
<1>7. CASE AssigneeCascades!Restore(t)
  <2>1. task' = [task EXCEPT ![t] = AssigneeCascades!New("OPEN")]
    BY <1>7 DEF AssigneeCascades!Restore
  <2>2. x # t
    BY <1>2, <2>1 DEF AssigneeCascades!New
  <2>3. task'[x] = task[x]
    BY <1>2, <2>1, <2>2
  <2>4. assignee'[k] = assignee[k]
    BY <1>2, <1>3, <1>7, <2>2
       DEF AssigneeCascades!Restore, AssigneeCascades!Assignees
  <2> QED BY <1>4, <2>3, <2>4 DEF k
<1> QED BY <1>1, <1>5, <1>6, <1>7 DEF k

\* What a forced close makes of the sub-task s, after any of the three.
TakenByClose(s) ==
  task[parentOf[s]].status = "CLOSED"
    /\ task[parentOf[s]].closedWithOpenAssignees =>
      subTask[s].status \in {"CLOSED", NoRow}

LEMMA StepTakes ==
  ASSUME StoreAssumption, TypeOK, StatusCascades!Next, NEW s \in SubTasks,
         TakenByClose(s)
  PROVE  TakenByClose(s)'
<1>1. PICK t \in Tasks :
        \/ \E u \in Users, why \in Reasons \cup {Null}, forced \in BOOLEAN :
             StatusCascades!Close(t, u, why, forced)
        \/ StatusCascades!Archive(t)
        \/ StatusCascades!Restore(t)
  BY DEF StatusCascades!Next
<1>2. /\ task \in [Tasks -> TaskRow]
      /\ subTask \in [SubTasks -> SubTaskRow]
      /\ parentOf \in [SubTasks -> Tasks]
  BY DEF TypeOK, StoreAssumption
<1> DEFINE x == parentOf[s]
<1>3. x \in Tasks /\ subTask[s] \in SubTaskRow
  BY <1>2
<1>4. CASE x # t
  <2>1. task'[x] = task[x]
    BY <1>1, <1>2, <1>3, <1>4
       DEF StatusCascades!Close, StatusCascades!Archive, StatusCascades!Restore
  <2>2. subTask'[s] = subTask[s]
    BY <1>1, <1>2, <1>4
       DEF StatusCascades!Close, StatusCascades!Archive, StatusCascades!Restore,
           StatusCascades!SubTasksOf
  <2> QED BY <2>1, <2>2 DEF TakenByClose
<1>5. CASE x = t /\ StatusCascades!Archive(t)
  <2>1. task'[x].status = "ARCHIVED"
    BY <1>2, <1>3, <1>5 DEF StatusCascades!Archive, TaskRow
  <2> QED BY <1>5, <2>1 DEF TakenByClose
<1>6. CASE x = t /\ StatusCascades!Restore(t)
  <2>1. task'[x].status = "OPEN"
    BY <1>2, <1>3, <1>6 DEF StatusCascades!Restore, StatusCascades!New
  <2> QED BY <1>6, <2>1 DEF TakenByClose
<1>7. ASSUME x = t, NEW u \in Users, NEW why \in Reasons \cup {Null},
             NEW forced \in BOOLEAN, StatusCascades!Close(t, u, why, forced)
      PROVE  /\ task'[x].status = "CLOSED"
             /\ task'[x].closedWithOpenAssignees =>
                  subTask'[s].status \in {"CLOSED", NoRow}
  <2>1. task'[x] = [ status |-> "CLOSED", closedById |-> u,
                     closedReason |-> why, closedWithOpenAssignees |-> forced ]
    BY <1>2, <1>3, <1>7 DEF StatusCascades!Close
  <2>2. forced => subTask'[s] = StatusCascades!Terminated(subTask[s], u)
    BY <1>7 DEF StatusCascades!Close, StatusCascades!SubTasksOf
  <2>3. forced => subTask'[s].status \in {"CLOSED", NoRow}
    BY <1>3, <2>2
       DEF StatusCascades!Terminated, StatusCascades!NoRow, NoRow, SubTaskRow
  <2> QED BY <2>1, <2>3
<1>8. CASE /\ x = t
           /\ \E u \in Users, why \in Reasons \cup {Null}, forced \in BOOLEAN :
                StatusCascades!Close(t, u, why, forced)
  BY <1>7, <1>8 DEF TakenByClose
<1> QED BY <1>1, <1>4, <1>5, <1>6, <1>8

-----------------------------------------------------------------------------

\* closeTask leaves nobody pending or at work, whatever is asked of the
\* sub-tasks and whatever closes, archives and restores overlap with it.
THEOREM CloseReleases ==
  ASSUME AssigneesAlone, "CLOSED" \notin FirstTasks
  PROVE  Spec => []ClosedTaskReleasesAssignees
<1>1. Init => ClosedTaskReleasesAssignees
  <2> SUFFICES ASSUME Init  PROVE ClosedTaskReleasesAssignees
    OBVIOUS
  <2>1. \A t \in Tasks : task[t].status # "CLOSED"
    BY FirstStatus
  <2> QED BY <2>1 DEF ClosedTaskReleasesAssignees
<1>2. /\ Base /\ TypeInv' /\ CascadeInv /\ [Next]_vars
      /\ ClosedTaskReleasesAssignees
      => ClosedTaskReleasesAssignees'
  <2> SUFFICES ASSUME Base, TypeInv', CascadeInv, [Next]_vars,
                      ClosedTaskReleasesAssignees
               PROVE  ClosedTaskReleasesAssignees'
    OBVIOUS
  <2>1. CASE AssigneeCascades!Next
    BY <2>1, StepReleases DEF Base, TypeInv
  <2>2. CASE UNCHANGED AssigneeCascades!rows
    BY <2>2 DEF AssigneeCascades!rows, ClosedTaskReleasesAssignees
  <2> QED BY <2>1, <2>2, NextMaps
<1> QED BY <1>1, <1>2, Typed, CascadeInvariant, PTL DEF Spec

\* A forced close takes every sub-task along, whoever is assigned meanwhile,
\* and however the task is archived, closed again and restored.
THEOREM ForcedCloseTakesSubTasks ==
  ASSUME SubTasksAlone
  PROVE  Spec => []ForcedCloseClosesSubTasks
<1>1. Init => ForcedCloseClosesSubTasks
  <2> SUFFICES ASSUME Init  PROVE ForcedCloseClosesSubTasks
    OBVIOUS
  <2>1. \A s \in SubTasks : task[parentOf[s]].closedWithOpenAssignees = FALSE
    BY FirstStatus, StoreAssumption DEF StoreAssumption
  <2> QED BY <2>1 DEF ForcedCloseClosesSubTasks
<1>2. /\ Base /\ TypeInv' /\ CascadeInv /\ [Next]_vars
      /\ ForcedCloseClosesSubTasks
      => ForcedCloseClosesSubTasks'
  <2> SUFFICES ASSUME Base, TypeInv', CascadeInv, [Next]_vars,
                      ForcedCloseClosesSubTasks
               PROVE  ForcedCloseClosesSubTasks'
    OBVIOUS
  <2>1. \A s \in SubTasks : TakenByClose(s)
    BY DEF ForcedCloseClosesSubTasks, TakenByClose
  <2>2. CASE StatusCascades!Next
    <3>1. \A s \in SubTasks : TakenByClose(s)'
      BY <2>1, <2>2, StepTakes, StoreAssumption DEF Base, TypeInv
    <3> QED BY <3>1 DEF ForcedCloseClosesSubTasks, TakenByClose
  <2>3. CASE UNCHANGED StatusCascades!rows
    BY <2>3 DEF StatusCascades!rows, ForcedCloseClosesSubTasks
  <2> QED BY <2>2, <2>3, NextMaps
<1> QED BY <1>1, <1>2, Typed, CascadeInvariant, PTL DEF Spec

=============================================================================
