------------------------- MODULE TaskSystem_proofs -------------------------
(***************************************************************************)
(* Theorems of TaskSystem for every set of users, tasks, sub-tasks and     *)
(* concurrent requests, and any number of calls.                           *)
(***************************************************************************)
EXTENDS TaskSystem, TLAPS

-----------------------------------------------------------------------------
(* Tables with the uncommitted rows of a transaction over them             *)

LEMMA OverTyped ==
  ASSUME NEW Keys, NEW Row, NEW f \in [Keys -> Row], NEW w \in Writes(Keys, Row)
  PROVE  Over(w, f) \in [Keys -> Row]
BY DEF Writes, Over

LEMMA OverWrites ==
  ASSUME NEW Keys, NEW Row,
         NEW v \in Writes(Keys, Row), NEW w \in Writes(Keys, Row)
  PROVE  Over(w, v) \in Writes(Keys, Row)
<1>1. PICK D \in SUBSET Keys : v \in [D -> Row]
  BY DEF Writes
<1>2. PICK E \in SUBSET Keys : w \in [E -> Row]
  BY DEF Writes
<1>3. Over(w, v) \in [D \cup E -> Row]
  BY <1>1, <1>2 DEF Over
<1> QED BY <1>3 DEF Writes

\* One statement writes rows of its table, within its type.
LEMMA RowsTyped ==
  ASSUME NEW Keys, NEW Row, NEW D \in SUBSET Keys, NEW w \in [D -> Row]
  PROVE  w \in Writes(Keys, Row)
BY DEF Writes

LEMMA NoWritesTyped == NoWrites \in Transaction
<1>1. \A K, R : Clean \in Writes(K, R)
  <2> TAKE K, R
  <2>1. Clean \in [{} -> R]
    BY DEF Clean
  <2> QED BY <2>1 DEF Writes
<1> QED BY <1>1 DEF NoWrites, Transaction

\* A transaction stays within its type, whichever table it writes.
LEMMA WriteTyped ==
  ASSUME tx \in [Procs -> Transaction], NEW p \in Procs, NEW table, NEW rows,
         Write(p, table, rows),
         \/ table = "task" /\ rows \in Writes(Tasks, TaskRow)
         \/ table = "assignee" /\ rows \in Writes(Tasks \X Users, AssigneeRow)
         \/ table = "subTask" /\ rows \in Writes(SubTasks, SubTaskRow)
         \/ /\ table = "subAssignee"
            /\ rows \in Writes(SubTasks \X Users, AssigneeRow)
  PROVE  tx' \in [Procs -> Transaction]
<1> tx[p] \in Transaction
  OBVIOUS
<1>1. CASE table = "task" /\ rows \in Writes(Tasks, TaskRow)
  <2>1. Over(rows, tx[p].task) \in Writes(Tasks, TaskRow)
    BY <1>1, OverWrites DEF Transaction
  <2>2. tx' = [tx EXCEPT ![p].task = Over(rows, @)]
    BY <1>1 DEF Write
  <2> QED BY <2>1, <2>2 DEF Transaction
<1>2. CASE table = "assignee" /\ rows \in Writes(Tasks \X Users, AssigneeRow)
  <2>1. Over(rows, tx[p].assignee) \in Writes(Tasks \X Users, AssigneeRow)
    BY <1>2, OverWrites DEF Transaction
  <2>2. tx' = [tx EXCEPT ![p].assignee = Over(rows, @)]
    BY <1>2 DEF Write
  <2> QED BY <2>1, <2>2 DEF Transaction
<1>3. CASE table = "subTask" /\ rows \in Writes(SubTasks, SubTaskRow)
  <2>1. Over(rows, tx[p].subTask) \in Writes(SubTasks, SubTaskRow)
    BY <1>3, OverWrites DEF Transaction
  <2>2. tx' = [tx EXCEPT ![p].subTask = Over(rows, @)]
    BY <1>3 DEF Write
  <2> QED BY <2>1, <2>2 DEF Transaction
<1>4. CASE /\ table = "subAssignee"
           /\ rows \in Writes(SubTasks \X Users, AssigneeRow)
  <2>1. Over(rows, tx[p].subAssignee) \in Writes(SubTasks \X Users, AssigneeRow)
    BY <1>4, OverWrites DEF Transaction
  <2>2. tx' = [tx EXCEPT ![p].subAssignee = Over(rows, @)]
    BY <1>4 DEF Write
  <2> QED BY <2>1, <2>2 DEF Transaction
<1> QED BY <1>1, <1>2, <1>3, <1>4

\* What a transaction sees is typed like the tables.
LEMMA ViewsTyped ==
  ASSUME TypeOK, NEW p \in Procs
  PROVE  /\ TaskView(p) \in [Tasks -> TaskRow]
         /\ AssigneeView(p) \in [Tasks \X Users -> AssigneeRow]
         /\ SubTaskView(p) \in [SubTasks -> SubTaskRow]
         /\ SubAssigneeView(p) \in [SubTasks \X Users -> AssigneeRow]
<1> tx[p] \in Transaction
  BY DEF TypeOK
<1>1. TaskView(p) \in [Tasks -> TaskRow]
  BY OverTyped DEF TaskView, TypeOK, Transaction
<1>2. AssigneeView(p) \in [Tasks \X Users -> AssigneeRow]
  BY OverTyped DEF AssigneeView, TypeOK, Transaction
<1>3. SubTaskView(p) \in [SubTasks -> SubTaskRow]
  BY OverTyped DEF SubTaskView, TypeOK, Transaction
<1>4. SubAssigneeView(p) \in [SubTasks \X Users -> AssigneeRow]
  BY OverTyped DEF SubAssigneeView, TypeOK, Transaction
<1> QED BY <1>1, <1>2, <1>3, <1>4

-----------------------------------------------------------------------------
(* Requests.  The type of req alone is not inductive: a handler indexes    *)
(* the tables by its parameters, so they must be those of its operation,   *)
(* and the program counter must be one of that operation's.                *)

SubOps == {"createSub", "closeSub", "restoreSub", "reportSub", "assignSub"}

\* The parameters each route parses.
Parameters(r) ==
  /\ r.op # "none" => r.actor \in Users /\ r.task \in Tasks
  /\ r.op \in SubOps => r.sub \in SubTasks
  /\ r.op \in {"assign", "assignSub"} => r.target \in Users
  /\ r.op \in {"report", "reportSub"} => r.status \in AssignmentStatus
  /\ r.op = "createSub" => r.status \in TaskStatus

\* The handler each program counter belongs to.
Handler(r) ==
  /\ r.pc = "guard" => r.op \in { "close", "archive", "restore", "report",
                                  "createSub", "closeSub", "restoreSub",
                                  "reportSub", "assignSub" }
  /\ r.pc = "sub_guard" => r.op \in { "closeSub", "restoreSub", "reportSub",
                                      "assignSub" }
  /\ r.pc \in { "close_count", "close_update", "close_drop", "close_skip",
                "close_subs" } => r.op = "close"
  /\ r.pc \in {"archive_read", "archive_update", "archive_subs"} =>
       r.op = "archive"
  /\ r.pc \in { "restore_peek", "restore_read", "restore_update",
                "restore_cascade" } => r.op = "restore"
  /\ r.pc \in {"report_read", "report_claim", "report_write"} =>
       r.op = "report"
  /\ r.pc \in { "assign_target", "assign_assigner", "assign_assignee",
                "assign_upsert", "assign_mail" } =>
       r.op \in {"assign", "assignSub"}
  /\ r.pc \in {"decide_read", "decide_write"} => r.op = "decide"
  /\ r.pc = "decide_write" => r.status \in AssignmentStatus
  /\ r.pc = "createSub_insert" => r.op = "createSub"
  /\ r.pc \in { "closeSub_update", "closeSub_own", "closeSub_upsert",
                "closeSub_drop", "closeSub_skip" } => r.op = "closeSub"
  /\ r.pc \in {"restoreSub_update", "restoreSub_accept", "restoreSub_pend"} =>
       r.op = "restoreSub"
  /\ r.pc \in { "reportSub_task", "reportSub_own", "reportSub_claim",
                "reportSub_write" } => r.op = "reportSub"
  /\ r.pc = "commit" => r.op # "none"

GoodRequest(r) == r \in Request /\ Parameters(r) /\ Handler(r)

RequestInv == req \in [Procs -> Request] /\ \A p \in Procs : GoodRequest(req[p])

LEMMA NoRequestGood == GoodRequest(NoRequest)
BY DEF GoodRequest, Request, Parameters, Handler, NoRequest, SubOps, PC,
       AssigneeRow, TaskStatus

LEMMA SetRequest ==
  ASSUME RequestInv, NEW p \in Procs, NEW r, GoodRequest(r),
         req' = [req EXCEPT ![p] = r]
  PROVE  RequestInv'
BY DEF RequestInv, GoodRequest

LEMMA FinishGood ==
  ASSUME RequestInv, NEW p \in Procs, Finish(p)
  PROVE  RequestInv'
BY SetRequest, NoRequestGood DEF Finish

\* A step within one handler.
LEMMA GotoGood ==
  ASSUME RequestInv, NEW p \in Procs, NEW pc \in PC, Goto(p, pc),
         Handler([req[p] EXCEPT !.pc = pc])
  PROVE  RequestInv'
<1> DEFINE r == [req[p] EXCEPT !.pc = pc]
<1>1. req[p] \in Request /\ Parameters(req[p])
  BY DEF RequestInv, GoodRequest
<1>2. r \in Request
  BY <1>1 DEF Request
<1>3. Parameters(r)
  BY <1>1 DEF Parameters, Request
<1>4. req' = [req EXCEPT ![p] = r]
  BY DEF Goto
<1> QED BY <1>2, <1>3, <1>4, SetRequest DEF GoodRequest

-----------------------------------------------------------------------------
(* Type correctness                                                        *)

TypeInv == TypeOK /\ RequestInv

LEMMA InitTyped == SystemAssumption /\ StoreAssumption /\ Init => TypeInv
<1> SUFFICES ASSUME SystemAssumption, StoreAssumption, Init  PROVE TypeInv
  OBVIOUS
<1>1. RequestInv
  BY NoRequestGood DEF Init, RequestInv, GoodRequest
<1>2. task \in [Tasks -> TaskRow]
  <2>1. PICK st \in [Tasks -> FirstTasks] :
          task = [t \in Tasks |-> NewTask(st[t])]
    BY DEF Init
  <2> QED BY <2>1 DEF NewTask, TaskRow, SystemAssumption
<1>3. assignee \in [Tasks \X Users -> AssigneeRow]
  BY DEF Init, SystemAssumption
<1>4. subTask \in [SubTasks -> SubTaskRow]
  <2>1. PICK st \in [SubTasks -> FirstSubTasks] :
          subTask = [s \in SubTasks |-> NewSubTask(st[s])]
    BY DEF Init
  <2> QED BY <2>1 DEF NewSubTask, SubTaskRow, SystemAssumption
<1>5. subAssignee \in [SubTasks \X Users -> AssigneeRow]
  BY DEF Init, SystemAssumption
<1>6. tx \in [Procs -> Transaction]
  BY NoWritesTyped DEF Init
<1>7. calls \in 0 .. MaxCalls
  BY DEF Init, StoreAssumption
<1>8. wasAdmin \subseteq wasMember
  BY DEF Init, isAdminish, NoRow
<1> QED BY <1>1, <1>2, <1>3, <1>4, <1>5, <1>6, <1>7, <1>8
        DEF TypeInv, TypeOK, Init, RequestInv, SystemAssumption

\* A step of a handler that writes no table.
LEMMA ReadTyped ==
  ASSUME TypeInv, RequestInv', UNCHANGED <<tables, people, mailed, tx, calls>>
  PROVE  TypeInv'
BY DEF TypeInv, TypeOK, RequestInv, tables, people

\* A step of a handler that writes rows in its transaction.
LEMMA TransactionTyped ==
  ASSUME TypeInv, RequestInv', tx' \in [Procs -> Transaction],
         UNCHANGED <<tables, people, mailed, calls>>
  PROVE  TypeInv'
BY DEF TypeInv, TypeOK, RequestInv, tables, people

LEMMA ReceiveTyped ==
  ASSUME StoreAssumption, TypeInv, NEW p \in Procs, NEW r,
         r.op \in Ops => GoodRequest(r), Receive(p, r)
  PROVE  TypeInv'
<1>1. RequestInv'
  BY SetRequest DEF Receive, TypeInv
<1>2. calls' \in 0 .. MaxCalls
  BY DEF Receive, TypeInv, TypeOK, StoreAssumption
<1> QED BY <1>1, <1>2 DEF Receive, TypeInv, TypeOK, RequestInv, tables, people

LEMMA CallTyped ==
  ASSUME StoreAssumption, TypeInv, NEW p \in Procs, Call(p)
  PROVE  TypeInv'
<1> USE DEF GoodRequest, Request, Parameters, Handler, NoRequest, SubOps, PC,
            AssigneeRow, TaskStatus, NoRow
<1>1. CASE PostClose(p)
  BY <1>1, ReceiveTyped DEF PostClose
<1>2. CASE PostArchive(p)
  BY <1>2, ReceiveTyped DEF PostArchive
<1>3. CASE PostRestore(p)
  BY <1>3, ReceiveTyped DEF PostRestore
<1>4. CASE PostReport(p)
  BY <1>4, ReceiveTyped DEF PostReport
<1>5. CASE PostAssign(p)
  BY <1>5, ReceiveTyped DEF PostAssign
<1>6. CASE PostAssignSub(p)
  <2> PICK u \in Users, a \in Users, t \in Tasks, s \in SubTasks, m \in BOOLEAN :
        Receive(p, [NoRequest EXCEPT !.op = "assignSub", !.pc = "sub_guard",
                                     !.actor = u, !.target = a, !.task = t,
                                     !.sub = s, !.sendMail = m])
    BY <1>6 DEF PostAssignSub
  <2> QED BY ReceiveTyped
<1>7. CASE GetDecision(p)
  <2> PICK l \in mailed, st \in DecisionStatus :
        Receive(p, [NoRequest EXCEPT !.op = "decide", !.pc = "decide_read",
                                     !.actor = l.user, !.task = l.task,
                                     !.sub = l.sub, !.status = st])
    BY <1>7 DEF GetDecision
  <2>1. l.user \in Users /\ l.task \in Tasks /\ l.sub \in SubTasks \cup {Null}
    BY DEF TypeInv, TypeOK, Link
  <2>2. st \in AssignmentStatus \cup {"REJECTED"}
    BY DEF DecisionStatus, AssignmentStatus
  <2> QED BY <2>1, <2>2, ReceiveTyped
<1>8. CASE PostCreateSub(p)
  <2> PICK u \in Users, s \in SubTasks, st \in TaskStatus :
        Receive(p, [NoRequest EXCEPT !.op = "createSub", !.pc = "guard",
                                     !.actor = u, !.task = parentOf[s],
                                     !.sub = s, !.status = st])
    BY <1>8 DEF PostCreateSub
  <2> parentOf[s] \in Tasks
    BY DEF StoreAssumption
  <2> QED BY ReceiveTyped
<1>9. CASE PostCloseSub(p)
  BY <1>9, ReceiveTyped DEF PostCloseSub, PostSub
<1>10. CASE PostRestoreSub(p)
  BY <1>10, ReceiveTyped DEF PostRestoreSub, PostSub
<1>11. CASE PostReportSub(p)
  BY <1>11, ReceiveTyped DEF PostReportSub, PostSub
<1> QED BY <1>1, <1>2, <1>3, <1>4, <1>5, <1>6, <1>7, <1>8, <1>9, <1>10, <1>11
        DEF Call, TaskCall, AssignmentCall, SubTaskCall

LEMMA MembershipTyped ==
  ASSUME TypeInv, NEW u \in Users, ChangeMembership(u)
  PROVE  TypeInv'
<1>1. PICK r \in GroupRole \cup {NoRow} :
        /\ role' = [role EXCEPT ![u] = r]
        /\ wasMember' = IF r = NoRow THEN wasMember ELSE wasMember \cup {u}
        /\ wasAdmin' = IF isAdminish(r) THEN wasAdmin \cup {u} ELSE wasAdmin
  BY DEF ChangeMembership
<1>2. wasMember' \subseteq Users /\ wasAdmin' \subseteq wasMember'
  BY <1>1 DEF TypeInv, TypeOK, isAdminish, NoRow
<1> QED BY <1>1, <1>2
        DEF ChangeMembership, TypeInv, TypeOK, RequestInv, tables

\* The steps of the guards, and the end of a request.
LEMMA StoreStepTyped ==
  ASSUME StoreAssumption, TypeInv, NEW p \in Procs,
         \/ TaskMemberGuard(p) \/ SubTaskExistsGuard(p) \/ Commit(p) \/ Abort(p)
  PROVE  TypeInv'
<1> RequestInv /\ GoodRequest(req[p])
  BY DEF TypeInv, RequestInv
<1>1. CASE TaskMemberGuard(p)
  <2> DEFINE r == [req[p] EXCEPT
                     !.pc = ServiceEntry[req[p].op],
                     !.isAdminish = IsAdminOf(req[p].actor, req[p].task),
                     !.isOwner = (ownerOf[req[p].task] = req[p].actor)]
  <2>1. CASE Finish(p)
    BY <1>1, <2>1, FinishGood, ReadTyped DEF TaskMemberGuard
  <2>2. CASE req' = [req EXCEPT ![p] = r]
    <3>1. r \in Request /\ Parameters(r) /\ Handler(r)
      <4> DEFINE pc == ServiceEntry[req[p].op]
                 a == IsAdminOf(req[p].actor, req[p].task)
                 o == ownerOf[req[p].task] = req[p].actor
      <4>1. a \in BOOLEAN
        <5>1. CASE req[p].task \in groupTasks
          BY <5>1 DEF IsAdminOf, isAdminish
        <5>2. CASE req[p].task \notin groupTasks
          BY <5>2 DEF IsAdminOf
        <5> QED BY <5>1, <5>2
      <4>2. o \in BOOLEAN
        OBVIOUS
      <4>3. /\ pc \in PC
            /\ \A x \in Request : x.op = req[p].op /\ x.pc = pc => Handler(x)
        BY <1>1 DEF TaskMemberGuard, GoodRequest, Handler, ServiceEntry, PC
      <4> HIDE DEF pc, a, o
      <4>4. r = [req[p] EXCEPT !.pc = pc, !.isAdminish = a, !.isOwner = o]
        BY DEF pc, a, o
      <4>5. r \in Request /\ r.op = req[p].op /\ r.pc = pc
        BY <4>1, <4>2, <4>3, <4>4 DEF GoodRequest, Request
      <4>6. Parameters(r)
        BY <4>4, <4>5 DEF GoodRequest, Request, Parameters
      <4> QED BY <4>3, <4>5, <4>6
    <3>2. RequestInv'
      BY <2>2, <3>1, SetRequest DEF GoodRequest
    <3> QED BY <1>1, <3>2, ReadTyped DEF TaskMemberGuard
  <2>3. \/ Finish(p)
        \/ req' = [req EXCEPT ![p].pc = ServiceEntry[req[p].op],
                     ![p].isAdminish = IsAdminOf(req[p].actor, req[p].task),
                     ![p].isOwner = (ownerOf[req[p].task] = req[p].actor)]
    BY <1>1 DEF TaskMemberGuard
  <2> QED BY <2>1, <2>2, <2>3
<1>2. CASE SubTaskExistsGuard(p)
  <2>1. CASE Finish(p)
    BY <1>2, <2>1, FinishGood, ReadTyped DEF SubTaskExistsGuard
  <2>2. CASE Goto(p, "guard")
    <3>1. "guard" \in PC /\ Handler([req[p] EXCEPT !.pc = "guard"])
      BY <1>2 DEF SubTaskExistsGuard, GoodRequest, Request, Handler, PC
    <3>2. RequestInv'
      BY <2>2, <3>1, GotoGood
    <3> QED BY <1>2, <3>2, ReadTyped DEF SubTaskExistsGuard
  <2> QED BY <1>2, <2>1, <2>2 DEF SubTaskExistsGuard
<1>3. CASE Commit(p)
  <2>1. RequestInv'
    BY <1>3, FinishGood DEF Commit
  <2>2. tx' \in [Procs -> Transaction]
    BY <1>3, NoWritesTyped DEF Commit, TypeInv, TypeOK
  <2>3. /\ task' \in [Tasks -> TaskRow]
        /\ assignee' \in [Tasks \X Users -> AssigneeRow]
        /\ subTask' \in [SubTasks -> SubTaskRow]
        /\ subAssignee' \in [SubTasks \X Users -> AssigneeRow]
    BY <1>3, ViewsTyped DEF Commit, TypeInv
  <2> QED BY <1>3, <2>1, <2>2, <2>3
          DEF Commit, TypeInv, TypeOK, RequestInv, people
<1>4. CASE Abort(p)
  <2>1. RequestInv'
    BY <1>4, FinishGood DEF Abort
  <2>2. tx' \in [Procs -> Transaction]
    BY <1>4, NoWritesTyped DEF Abort, TypeInv, TypeOK
  <2> QED BY <1>4, <2>1, <2>2
          DEF Abort, TypeInv, TypeOK, RequestInv, tables, people
<1> QED BY <1>1, <1>2, <1>3, <1>4

-----------------------------------------------------------------------------
(* The updateMany of each table: whatever rows its where clause selects    *)

LEMMA MoveAssigneesTyped ==
  ASSUME TypeInv, NEW p \in Procs, req[p].op # "none", NEW from,
         NEW to \in AssignmentStatus, MoveAssignees(p, from, to)
  PROVE  tx' \in [Procs -> Transaction]
<1> DEFINE rows == [k \in AssigneesIn(AssigneeView(p), req[p], from) |-> to]
<1>1. req[p].task \in Tasks
  BY DEF TypeInv, RequestInv, GoodRequest, Parameters
<1>2. rows \in Writes(Tasks \X Users, AssigneeRow)
  <2>1. AssigneesIn(AssigneeView(p), req[p], from) \in SUBSET (Tasks \X Users)
    BY <1>1 DEF AssigneesIn
  <2>2. rows \in [AssigneesIn(AssigneeView(p), req[p], from) -> AssigneeRow]
    BY DEF AssigneeRow
  <2> QED BY <2>1, <2>2, RowsTyped
<1> QED BY <1>2, WriteTyped DEF MoveAssignees, TypeInv, TypeOK

LEMMA MoveSubTasksTyped ==
  ASSUME TypeInv, NEW p \in Procs, NEW from, NEW to \in TaskStatus,
         MoveSubTasks(p, from, to)
  PROVE  tx' \in [Procs -> Transaction]
<1> DEFINE v == SubTaskView(p)
           rows == [s \in SubTasksIn(v, req[p], from) |->
                      [v[s] EXCEPT !.status = to]]
<1>1. v \in [SubTasks -> SubTaskRow]
  BY ViewsTyped DEF TypeInv
<1>2. \A s \in SubTasks : [v[s] EXCEPT !.status = to] \in SubTaskRow
  BY <1>1 DEF SubTaskRow
<1>3. rows \in Writes(SubTasks, SubTaskRow)
  <2>1. SubTasksIn(v, req[p], from) \in SUBSET SubTasks
    BY DEF SubTasksIn
  <2>2. rows \in [SubTasksIn(v, req[p], from) -> SubTaskRow]
    BY <1>2, <2>1
  <2> QED BY <2>1, <2>2, RowsTyped
<1> QED BY <1>3, WriteTyped DEF MoveSubTasks, TypeInv, TypeOK

LEMMA MoveSubAssigneesTyped ==
  ASSUME TypeInv, NEW p \in Procs, req[p].op \in SubOps, NEW from,
         NEW to \in AssignmentStatus, MoveSubAssignees(p, from, to)
  PROVE  tx' \in [Procs -> Transaction]
<1> DEFINE rows == [k \in SubAssigneesIn(p, {from}) |-> to]
<1>1. req[p].sub \in SubTasks
  BY DEF TypeInv, RequestInv, GoodRequest, Parameters
<1>2. rows \in Writes(SubTasks \X Users, AssigneeRow)
  <2>1. SubAssigneesIn(p, {from}) \in SUBSET (SubTasks \X Users)
    BY <1>1 DEF SubAssigneesIn
  <2>2. rows \in [SubAssigneesIn(p, {from}) -> AssigneeRow]
    BY DEF AssigneeRow
  <2> QED BY <2>1, <2>2, RowsTyped
<1> QED BY <1>2, WriteTyped DEF MoveSubAssignees, TypeInv, TypeOK

LEMMA WriteTaskTyped ==
  ASSUME TypeInv, NEW p \in Procs, req[p].op # "none", NEW row \in TaskRow,
         WriteTask(p, row)
  PROVE  tx' \in [Procs -> Transaction]
<1> DEFINE rows == [t \in {req[p].task} |-> row]
<1>1. req[p].task \in Tasks
  BY DEF TypeInv, RequestInv, GoodRequest, Parameters
<1>2. rows \in Writes(Tasks, TaskRow)
  BY <1>1, RowsTyped
<1> QED BY <1>2, WriteTyped DEF WriteTask, TypeInv, TypeOK

\* The newest version of the task's row, as an update computes from it.
LEMMA CurrentTyped ==
  ASSUME TypeInv, NEW p \in Procs, req[p].op # "none"
  PROVE  Current(p) \in TaskRow
<1>1. req[p].task \in Tasks
  BY DEF TypeInv, RequestInv, GoodRequest, Parameters
<1> QED BY <1>1, ViewsTyped DEF Current, TypeInv

-----------------------------------------------------------------------------
(* The steps of the task routes                                            *)

\* A step that answers or goes on within its handler, and writes nothing.
LEMMA ReadStepTyped ==
  ASSUME TypeInv, NEW p \in Procs, NEW pc \in PC,
         UNCHANGED <<tables, people, mailed, tx, calls>>,
         \/ Finish(p)
         \/ Goto(p, pc) /\ Handler([req[p] EXCEPT !.pc = pc])
  PROVE  TypeInv'
<1>1. RequestInv'
  BY FinishGood, GotoGood DEF TypeInv
<1> QED BY <1>1, ReadTyped

\* A step that writes in its transaction and goes on.
LEMMA WriteStepTyped ==
  ASSUME TypeInv, NEW p \in Procs, NEW pc \in PC,
         UNCHANGED <<tables, people, mailed, calls>>,
         tx' \in [Procs -> Transaction],
         Goto(p, pc), Handler([req[p] EXCEPT !.pc = pc])
  PROVE  TypeInv'
<1>1. RequestInv'
  BY GotoGood DEF TypeInv
<1> QED BY <1>1, TransactionTyped

LEMMA CloseTyped ==
  ASSUME TypeInv, NEW p \in Procs,
         \/ CloseCount(p) \/ CloseUpdate(p) \/ CloseDrop(p) \/ CloseSkip(p)
         \/ CloseSubs(p)
  PROVE  TypeInv'
<1> RequestInv /\ req[p] \in Request /\ Parameters(req[p]) /\ Handler(req[p])
  BY DEF TypeInv, RequestInv, GoodRequest
<1>1. CASE CloseCount(p)
  <2> DEFINE open == HasOpenItems(req[p].task)
             r == [req[p] EXCEPT !.pc = "close_update", !.hasOpenItems = open]
  <2>1. CASE Finish(p)
    BY <1>1, <2>1, FinishGood, ReadTyped DEF CloseCount
  <2>2. CASE req' = [req EXCEPT ![p].pc = "close_update",
                                ![p].hasOpenItems = open]
    <3>1. open \in BOOLEAN
      BY DEF HasOpenItems
    <3> HIDE DEF open
    <3>2. GoodRequest(r)
      <4>1. r \in Request
        <5>1. "close_update" \in PC
          BY DEF PC
        <5>2. PICK b \in BOOLEAN : b = open
          BY <3>1
        <5>3. r = [req[p] EXCEPT !.pc = "close_update", !.hasOpenItems = b]
          BY <5>2
        <5> QED BY <5>1, <5>3 DEF Request
      <4>2. Parameters(r)
        BY DEF Request, Parameters
      <4>3. Handler(r)
        BY <1>1 DEF CloseCount, Request, Handler
      <4> QED BY <4>1, <4>2, <4>3 DEF GoodRequest
    <3>3. req' = [req EXCEPT ![p] = r]
      BY <2>2
    <3>4. RequestInv'
      BY <3>2, <3>3, SetRequest
    <3> QED BY <1>1, <3>4, ReadTyped DEF CloseCount
  <2>3. \/ Finish(p)
        \/ req' = [req EXCEPT ![p].pc = "close_update",
                              ![p].hasOpenItems = open]
    BY <1>1 DEF CloseCount
  <2> QED BY <2>1, <2>2, <2>3
<1>2. CASE CloseUpdate(p)
  <2>1. ClosedTask(req[p]) \in TaskRow
    BY <1>2 DEF CloseUpdate, ClosedTask, TaskRow, TaskStatus, Request,
                Parameters, Handler
  <2>2. tx' \in [Procs -> Transaction]
    BY <1>2, <2>1, WriteTaskTyped DEF CloseUpdate, Handler
  <2> QED BY <1>2, <2>2, WriteStepTyped
          DEF CloseUpdate, InTransaction, Request, Handler, PC
<1>3. CASE CloseDrop(p)
  <2>1. tx' \in [Procs -> Transaction]
    BY <1>3, MoveAssigneesTyped DEF CloseDrop, Handler, AssignmentStatus
  <2> QED BY <1>3, <2>1, WriteStepTyped
          DEF CloseDrop, InTransaction, Request, Handler, PC
<1>4. CASE CloseSkip(p)
  <2>1. tx' \in [Procs -> Transaction]
    BY <1>4, MoveAssigneesTyped DEF CloseSkip, Handler, AssignmentStatus
  <2>2. PICK pc \in {"close_subs", "commit"} : Goto(p, pc)
    BY <1>4 DEF CloseSkip
  <2>3. Handler([req[p] EXCEPT !.pc = pc])
    BY <1>4 DEF CloseSkip, Request, Handler
  <2> QED BY <1>4, <2>1, <2>2, <2>3, WriteStepTyped
          DEF CloseSkip, InTransaction, PC
<1>5. CASE CloseSubs(p)
  <2> DEFINE v == SubTaskView(p)
             D == SubTasksIn(v, req[p], TaskStatus \ {"CLOSED"})
             rows == [s \in D |-> [v[s] EXCEPT !.status = "CLOSED",
                                               !.closedById = req[p].actor]]
  <2>1. v \in [SubTasks -> SubTaskRow] /\ req[p].actor \in Users
    BY <1>5, ViewsTyped DEF CloseSubs, TypeInv, Handler, Parameters
  <2>2. \A s \in SubTasks : [v[s] EXCEPT !.status = "CLOSED",
                                         !.closedById = req[p].actor]
                            \in SubTaskRow
    BY <2>1 DEF SubTaskRow, TaskStatus
  <2>3. D \in SUBSET SubTasks
    BY DEF SubTasksIn
  <2>4. rows \in Writes(SubTasks, SubTaskRow)
    <3>1. rows \in [D -> SubTaskRow]
      BY <2>2, <2>3
    <3> QED BY <3>1, <2>3, RowsTyped
  <2>5. tx' \in [Procs -> Transaction]
    BY <1>5, <2>4, WriteTyped DEF CloseSubs, TypeInv, TypeOK
  <2>6. Handler([req[p] EXCEPT !.pc = "commit"])
    BY <1>5 DEF CloseSubs, Request, Handler
  <2>7. Goto(p, "commit") /\ UNCHANGED <<tables, people, mailed, calls>>
    BY <1>5 DEF CloseSubs, InTransaction
  <2> QED BY <2>5, <2>6, <2>7, WriteStepTyped DEF PC
<1> QED BY <1>1, <1>2, <1>3, <1>4, <1>5

LEMMA ArchiveRestoreTyped ==
  ASSUME TypeInv, NEW p \in Procs,
         \/ ArchiveRead(p) \/ ArchiveUpdate(p) \/ ArchiveSubs(p)
         \/ RestorePeek(p) \/ RestoreRead(p) \/ RestoreUpdate(p)
         \/ RestoreCascade(p)
  PROVE  TypeInv'
<1> RequestInv /\ req[p] \in Request /\ Parameters(req[p]) /\ Handler(req[p])
  BY DEF TypeInv, RequestInv, GoodRequest
<1>1. CASE ArchiveRead(p)
  <2>1. Handler([req[p] EXCEPT !.pc = "archive_update"])
    BY <1>1 DEF ArchiveRead, Request, Handler
  <2> QED BY <1>1, <2>1, ReadStepTyped DEF ArchiveRead, PC
<1>2. CASE ArchiveUpdate(p)
  <2>1. [Current(p) EXCEPT !.status = "ARCHIVED"] \in TaskRow
    BY <1>2, CurrentTyped DEF ArchiveUpdate, Handler, TaskRow, TaskStatus
  <2>2. tx' \in [Procs -> Transaction]
    BY <1>2, <2>1, WriteTaskTyped DEF ArchiveUpdate, Handler
  <2> QED BY <1>2, <2>2, WriteStepTyped
          DEF ArchiveUpdate, InTransaction, Request, Handler, PC
<1>3. CASE ArchiveSubs(p)
  <2>1. tx' \in [Procs -> Transaction]
    BY <1>3, MoveSubTasksTyped DEF ArchiveSubs, TaskStatus
  <2> QED BY <1>3, <2>1, WriteStepTyped
          DEF ArchiveSubs, InTransaction, Request, Handler, PC
<1>4. CASE RestorePeek(p)
  <2> DEFINE st == task[req[p].task].status
             r == [req[p] EXCEPT !.pc = "restore_read", !.seen = st]
  <2>1. st \in TaskStatus
    BY <1>4 DEF RestorePeek, Handler, Parameters, TypeInv, TypeOK, TaskRow
  <2> HIDE DEF st
  <2>2. GoodRequest(r)
    <3>1. r \in Request
      BY <2>1 DEF Request, PC
    <3>2. Parameters(r)
      BY DEF Request, Parameters
    <3>3. Handler(r)
      BY <1>4 DEF RestorePeek, Request, Handler
    <3> QED BY <3>1, <3>2, <3>3 DEF GoodRequest
  <2>3. req' = [req EXCEPT ![p] = r]
    BY <1>4 DEF RestorePeek, st
  <2>4. RequestInv'
    BY <2>2, <2>3, SetRequest
  <2> QED BY <1>4, <2>4, ReadTyped DEF RestorePeek
<1>5. CASE RestoreRead(p)
  <2>1. Handler([req[p] EXCEPT !.pc = "restore_update"])
    BY <1>5 DEF RestoreRead, Request, Handler
  <2> QED BY <1>5, <2>1, ReadStepTyped DEF RestoreRead, PC
<1>6. CASE RestoreUpdate(p)
  <2>1. Reopened(Current(p)) \in TaskRow
    BY <1>6, CurrentTyped DEF RestoreUpdate, Handler, Reopened, TaskRow,
                              TaskStatus
  <2>2. tx' \in [Procs -> Transaction]
    BY <1>6, <2>1, WriteTaskTyped DEF RestoreUpdate, Handler
  <2>3. PICK pc \in {"restore_cascade", "commit"} : Goto(p, pc)
    BY <1>6 DEF RestoreUpdate
  <2>4. Handler([req[p] EXCEPT !.pc = pc])
    BY <1>6 DEF RestoreUpdate, Request, Handler
  <2> QED BY <1>6, <2>2, <2>3, <2>4, WriteStepTyped
          DEF RestoreUpdate, InTransaction, PC
<1>7. CASE RestoreCascade(p)
  <2>1. tx' \in [Procs -> Transaction]
    BY <1>7, MoveSubTasksTyped, MoveAssigneesTyped
       DEF RestoreCascade, Handler, TaskStatus, AssignmentStatus
  <2> QED BY <1>7, <2>1, WriteStepTyped
          DEF RestoreCascade, InTransaction, Request, Handler, PC
<1> QED BY <1>1, <1>2, <1>3, <1>4, <1>5, <1>6, <1>7

\* A handler that writes one row and answers.
LEMMA AnswerTyped ==
  ASSUME TypeInv, NEW p \in Procs, Finish(p),
         UNCHANGED <<task, people, mailed, tx, calls>>,
         assignee' \in [Tasks \X Users -> AssigneeRow],
         subTask' \in [SubTasks -> SubTaskRow],
         subAssignee' \in [SubTasks \X Users -> AssigneeRow]
  PROVE  TypeInv'
<1>1. RequestInv'
  BY FinishGood DEF TypeInv
<1> QED BY <1>1 DEF TypeInv, TypeOK, RequestInv, people

LEMMA ReportTyped ==
  ASSUME TypeInv, NEW p \in Procs,
         ReportRead(p) \/ ReportClaim(p) \/ ReportWrite(p)
  PROVE  TypeInv'
<1> RequestInv /\ req[p] \in Request /\ Parameters(req[p]) /\ Handler(req[p])
  BY DEF TypeInv, RequestInv, GoodRequest
<1>1. CASE ReportRead(p)
  <2>1. \/ Finish(p)
        \/ \E pc \in {"report_claim", "report_write"} : Goto(p, pc)
    BY <1>1 DEF ReportRead
  <2>2. \A pc \in {"report_claim", "report_write"} :
          pc \in PC /\ Handler([req[p] EXCEPT !.pc = pc])
    BY <1>1 DEF ReportRead, Request, Handler, PC
  <2>3. "report_claim" \in PC
    BY DEF PC
  <2> QED BY <1>1, <2>1, <2>2, <2>3, ReadStepTyped DEF ReportRead
<1>2. CASE ReportClaim(p)
  <2>1. assignee' \in [Tasks \X Users -> AssigneeRow]
    BY <1>2 DEF ReportClaim, TypeInv, TypeOK, AssigneeRow, AssignmentStatus
  <2> QED BY <1>2, <2>1, AnswerTyped DEF ReportClaim, TypeInv, TypeOK
<1>3. CASE ReportWrite(p)
  <2>1. assignee' \in [Tasks \X Users -> AssigneeRow]
    BY <1>3 DEF ReportWrite, TypeInv, TypeOK, AssigneeRow, Parameters, Handler
  <2> QED BY <1>3, <2>1, AnswerTyped DEF ReportWrite, TypeInv, TypeOK
<1> QED BY <1>1, <1>2, <1>3

-----------------------------------------------------------------------------
(* The steps of the assignment manager                                     *)

LEMMA SetRowTyped ==
  ASSUME TypeInv, NEW p \in Procs, req[p].op # "none", NEW u \in Users,
         NEW st \in AssignmentStatus, SetRow(p, req[p], u, st)
  PROVE  /\ assignee' \in [Tasks \X Users -> AssigneeRow]
         /\ subAssignee' \in [SubTasks \X Users -> AssigneeRow]
<1>1. /\ assignee \in [Tasks \X Users -> AssigneeRow]
      /\ subAssignee \in [SubTasks \X Users -> AssigneeRow]
      /\ st \in AssigneeRow
  BY DEF TypeInv, TypeOK, AssigneeRow
<1>2. \/ /\ assignee' = [assignee EXCEPT ![<<req[p].task, u>>] = st]
         /\ UNCHANGED subAssignee
      \/ /\ subAssignee' = [subAssignee EXCEPT ![<<req[p].sub, u>>] = st]
         /\ UNCHANGED assignee
  BY DEF SetRow
<1> QED BY <1>1, <1>2

LEMMA AssignTyped ==
  ASSUME StoreAssumption, TypeInv, NEW p \in Procs,
         \/ AssignTarget(p) \/ AssignAssigner(p) \/ AssignAssignee(p)
         \/ AssignUpsert(p) \/ AssignMail(p)
  PROVE  TypeInv'
<1> RequestInv /\ req[p] \in Request /\ Parameters(req[p]) /\ Handler(req[p])
  BY DEF TypeInv, RequestInv, GoodRequest
<1>1. CASE AssignTarget(p)
  <2>1. Handler([req[p] EXCEPT !.pc = "assign_assigner"])
    BY <1>1 DEF AssignTarget, Request, Handler
  <2> QED BY <1>1, <2>1, ReadStepTyped DEF AssignTarget, PC
<1>2. CASE AssignAssigner(p)
  <2>1. Handler([req[p] EXCEPT !.pc = "assign_assignee"])
    BY <1>2 DEF AssignAssigner, Request, Handler
  <2> QED BY <1>2, <2>1, ReadStepTyped DEF AssignAssigner, PC
<1>3. CASE AssignAssignee(p)
  <2>1. Handler([req[p] EXCEPT !.pc = "assign_upsert"])
    BY <1>3 DEF AssignAssignee, Request, Handler
  <2> QED BY <1>3, <2>1, ReadStepTyped DEF AssignAssignee, PC
<1>4. CASE AssignUpsert(p)
  <2>1. AssignedStatus(req[p]) \in AssignmentStatus
    BY DEF AssignedStatus, AssignmentStatus
  <2>2. req[p].target \in Users /\ req[p].op # "none"
    BY <1>4 DEF AssignUpsert, Handler, Parameters
  <2>3. /\ assignee' \in [Tasks \X Users -> AssigneeRow]
        /\ subAssignee' \in [SubTasks \X Users -> AssigneeRow]
    BY <1>4, <2>1, <2>2, SetRowTyped DEF AssignUpsert
  <2>4. CASE Finish(p)
    BY <1>4, <2>3, <2>4, AnswerTyped DEF AssignUpsert, TypeInv, TypeOK
  <2>5. CASE Goto(p, "assign_mail")
    <3>1. Handler([req[p] EXCEPT !.pc = "assign_mail"]) /\ "assign_mail" \in PC
      BY <1>4 DEF AssignUpsert, Request, Handler, PC
    <3>2. RequestInv'
      BY <2>5, <3>1, GotoGood
    <3> QED BY <1>4, <2>3, <3>2
            DEF AssignUpsert, TypeInv, TypeOK, RequestInv, people
  <2> QED BY <1>4, <2>4, <2>5 DEF AssignUpsert
<1>5. CASE AssignMail(p)
  <2>1. RequestInv'
    BY <1>5, FinishGood DEF AssignMail
  <2>2. LinkOf(req[p], req[p].target) \in Link
    BY <1>5 DEF AssignMail, LinkOf, TargetTask, Link, Handler, Parameters,
                Request, StoreAssumption
  <2> QED BY <1>5, <2>1, <2>2
          DEF AssignMail, TypeInv, TypeOK, RequestInv, tables, people
<1> QED BY <1>1, <1>2, <1>3, <1>4, <1>5

\* Only a status of the enumeration gets past the transition check, whatever
\* the link says.
LEMMA AllowedIsStatus ==
  ASSUME NEW prev \in AssignmentStatus, NEW next, NEW st,
         isValidAssignmentTransition(prev, next, st)
  PROVE  next \in AssignmentStatus
<1>1. \A x \in AssignmentStatus : ASSIGNMENT_RULES[x] \subseteq AssignmentStatus
  BY DEF ASSIGNMENT_RULES, AssignmentStatus
<1> QED BY <1>1 DEF isValidAssignmentTransition, AssignmentStatus

LEMMA DecideTyped ==
  ASSUME TypeInv, NEW p \in Procs, DecideRead(p) \/ DecideWrite(p)
  PROVE  TypeInv'
<1> RequestInv /\ req[p] \in Request /\ Parameters(req[p]) /\ Handler(req[p])
  BY DEF TypeInv, RequestInv, GoodRequest
<1>1. CASE DecideRead(p)
  <2>1. ASSUME DecisionAllowed(req[p])  PROVE req[p].status \in AssignmentStatus
    <3> DEFINE own == RowOf(req[p], req[p].actor)
    <3>1. own \in AssigneeRow
      BY <1>1 DEF RowOf, DecideRead, Handler, Parameters, Request, TypeInv,
                  TypeOK
    <3>2. CASE own = NoRow
      BY <2>1, <3>2 DEF DecisionAllowed, AssignmentStatus
    <3>3. CASE own # NoRow
      BY <2>1, <3>1, <3>3, AllowedIsStatus DEF DecisionAllowed, AssigneeRow
    <3> QED BY <3>2, <3>3
  <2>2. CASE DecisionAllowed(req[p]) /\ Goto(p, "decide_write")
    <3>1. Handler([req[p] EXCEPT !.pc = "decide_write"])
      BY <1>1, <2>1, <2>2 DEF DecideRead, Request, Handler
    <3> QED BY <1>1, <2>2, <3>1, ReadStepTyped DEF DecideRead, PC
  <2>3. CASE Finish(p)
    BY <1>1, <2>3, FinishGood, ReadTyped DEF DecideRead
  <2> QED BY <1>1, <2>2, <2>3 DEF DecideRead
<1>2. CASE DecideWrite(p)
  <2>1. /\ req[p].status \in AssignmentStatus
        /\ req[p].actor \in Users /\ req[p].op # "none"
    BY <1>2 DEF DecideWrite, Handler, Parameters
  <2>2. /\ assignee' \in [Tasks \X Users -> AssigneeRow]
        /\ subAssignee' \in [SubTasks \X Users -> AssigneeRow]
    BY <1>2, <2>1, SetRowTyped DEF DecideWrite
  <2> QED BY <1>2, <2>2, AnswerTyped DEF DecideWrite, TypeInv, TypeOK
<1> QED BY <1>1, <1>2

-----------------------------------------------------------------------------
(* The steps of the sub-task routes                                        *)

LEMMA CloseSubTyped ==
  ASSUME TypeInv, NEW p \in Procs,
         \/ CloseSubUpdate(p) \/ CloseSubOwn(p) \/ CloseSubUpsert(p)
         \/ CloseSubDrop(p) \/ CloseSubSkip(p)
  PROVE  TypeInv'
<1> RequestInv /\ req[p] \in Request /\ Parameters(req[p]) /\ Handler(req[p])
  BY DEF TypeInv, RequestInv, GoodRequest
<1>1. req[p].op = "closeSub" /\ req[p].op \in SubOps
  BY DEF Handler, SubOps, CloseSubUpdate, CloseSubOwn, CloseSubUpsert,
         CloseSubDrop, CloseSubSkip
<1>2. req[p].sub \in SubTasks /\ req[p].actor \in Users
  BY <1>1 DEF Parameters
<1>3. \A pc \in { "closeSub_own", "closeSub_upsert", "closeSub_drop",
                  "closeSub_skip", "commit" } :
        pc \in PC /\ Handler([req[p] EXCEPT !.pc = pc])
  BY <1>1 DEF Request, Handler, PC
<1>4. CASE CloseSubUpdate(p)
  <2> DEFINE rows == [s \in {req[p].sub} |-> ClosedSubTask(req[p])]
  <2>1. ClosedSubTask(req[p]) \in SubTaskRow
    BY <1>2 DEF ClosedSubTask, SubTaskRow, TaskStatus, Request
  <2>2. rows \in Writes(SubTasks, SubTaskRow)
    BY <1>2, <2>1, RowsTyped
  <2>3. tx' \in [Procs -> Transaction]
    BY <1>4, <2>2, WriteTyped DEF CloseSubUpdate, TypeInv, TypeOK
  <2> QED BY <1>3, <1>4, <2>3, WriteStepTyped
          DEF CloseSubUpdate, InSubTransaction
<1>5. CASE CloseSubOwn(p)
  <2>1. PICK pc \in {"closeSub_drop", "closeSub_upsert"} : Goto(p, pc)
    BY <1>5 DEF CloseSubOwn
  <2> QED BY <1>3, <1>5, <2>1, ReadStepTyped DEF CloseSubOwn
<1>6. CASE CloseSubUpsert(p)
  <2> DEFINE rows == [k \in {<<req[p].sub, req[p].actor>>} |-> "COMPLETED"]
  <2>1. rows \in Writes(SubTasks \X Users, AssigneeRow)
    <3>1. rows \in [{<<req[p].sub, req[p].actor>>} -> AssigneeRow]
      BY DEF AssigneeRow, AssignmentStatus
    <3>2. {<<req[p].sub, req[p].actor>>} \in SUBSET (SubTasks \X Users)
      BY <1>2
    <3> QED BY <3>1, <3>2, RowsTyped
  <2>2. tx' \in [Procs -> Transaction]
    BY <1>6, <2>1, WriteTyped DEF CloseSubUpsert, TypeInv, TypeOK
  <2> QED BY <1>3, <1>6, <2>2, WriteStepTyped
          DEF CloseSubUpsert, InSubTransaction
<1>7. CASE CloseSubDrop(p)
  <2>1. tx' \in [Procs -> Transaction]
    BY <1>1, <1>7, MoveSubAssigneesTyped DEF CloseSubDrop, AssignmentStatus
  <2> QED BY <1>3, <1>7, <2>1, WriteStepTyped
          DEF CloseSubDrop, InSubTransaction
<1>8. CASE CloseSubSkip(p)
  <2>1. tx' \in [Procs -> Transaction]
    BY <1>1, <1>8, MoveSubAssigneesTyped DEF CloseSubSkip, AssignmentStatus
  <2> QED BY <1>3, <1>8, <2>1, WriteStepTyped
          DEF CloseSubSkip, InSubTransaction
<1> QED BY <1>4, <1>5, <1>6, <1>7, <1>8

LEMMA RestoreSubTyped ==
  ASSUME TypeInv, NEW p \in Procs,
         RestoreSubUpdate(p) \/ RestoreSubAccept(p) \/ RestoreSubPend(p)
  PROVE  TypeInv'
<1> RequestInv /\ req[p] \in Request /\ Parameters(req[p]) /\ Handler(req[p])
  BY DEF TypeInv, RequestInv, GoodRequest
<1>1. req[p].op = "restoreSub" /\ req[p].op \in SubOps
  BY DEF Handler, SubOps, RestoreSubUpdate, RestoreSubAccept, RestoreSubPend
<1>2. req[p].sub \in SubTasks
  BY <1>1 DEF Parameters
<1>3. \A pc \in {"restoreSub_accept", "restoreSub_pend", "commit"} :
        pc \in PC /\ Handler([req[p] EXCEPT !.pc = pc])
  BY <1>1 DEF Request, Handler, PC
<1>4. CASE RestoreSubUpdate(p)
  <2> DEFINE row == SubTaskView(p)[req[p].sub]
             rows == [s \in {req[p].sub} |-> ReopenedSubTask(SubTaskView(p)[s])]
  <2>1. row \in SubTaskRow
    BY <1>2, ViewsTyped DEF TypeInv
  <2>2. ReopenedSubTask(row) \in SubTaskRow
    BY <2>1 DEF ReopenedSubTask, SubTaskRow, TaskStatus
  <2>3. rows \in Writes(SubTasks, SubTaskRow)
    <3>1. rows \in [{req[p].sub} -> SubTaskRow]
      BY <2>2
    <3> QED BY <1>2, <3>1, RowsTyped
  <2>4. tx' \in [Procs -> Transaction]
    BY <1>4, <2>3, WriteTyped DEF RestoreSubUpdate, TypeInv, TypeOK
  <2> QED BY <1>3, <1>4, <2>4, WriteStepTyped
          DEF RestoreSubUpdate, InSubTransaction
<1>5. CASE RestoreSubAccept(p)
  <2>1. tx' \in [Procs -> Transaction]
    BY <1>1, <1>5, MoveSubAssigneesTyped DEF RestoreSubAccept, AssignmentStatus
  <2> QED BY <1>3, <1>5, <2>1, WriteStepTyped
          DEF RestoreSubAccept, InSubTransaction
<1>6. CASE RestoreSubPend(p)
  <2>1. tx' \in [Procs -> Transaction]
    BY <1>1, <1>6, MoveSubAssigneesTyped DEF RestoreSubPend, AssignmentStatus
  <2> QED BY <1>3, <1>6, <2>1, WriteStepTyped
          DEF RestoreSubPend, InSubTransaction
<1> QED BY <1>4, <1>5, <1>6

LEMMA CreateReportSubTyped ==
  ASSUME TypeInv, NEW p \in Procs,
         \/ CreateSubInsert(p) \/ ReportSubTask(p) \/ ReportSubOwn(p)
         \/ ReportSubClaim(p) \/ ReportSubWrite(p)
  PROVE  TypeInv'
<1> RequestInv /\ req[p] \in Request /\ Parameters(req[p]) /\ Handler(req[p])
  BY DEF TypeInv, RequestInv, GoodRequest
<1>1. CASE CreateSubInsert(p)
  <2>1. NewSubTask(req[p].status) \in SubTaskRow
    BY <1>1 DEF CreateSubInsert, Handler, Parameters, NewSubTask, SubTaskRow
  <2>2. subTask' \in [SubTasks -> SubTaskRow]
    BY <1>1, <2>1 DEF CreateSubInsert, TypeInv, TypeOK
  <2> QED BY <1>1, <2>2, AnswerTyped DEF CreateSubInsert, TypeInv, TypeOK
<1>2. CASE ReportSubTask(p)
  <2> DEFINE st == subTask[req[p].sub].status
             r == [req[p] EXCEPT !.pc = "reportSub_own", !.seen = st]
  <2>1. st \in TaskStatus \cup {NoRow}
    BY <1>2 DEF ReportSubTask, Handler, Parameters, SubOps, TypeInv, TypeOK,
                SubTaskRow
  <2> HIDE DEF st
  <2>2. GoodRequest(r)
    <3>1. r \in Request
      <4>1. "reportSub_own" \in PC
        BY DEF PC
      <4> QED BY <2>1, <4>1 DEF Request
    <3>2. Parameters(r)
      BY DEF Request, Parameters
    <3>3. Handler(r)
      BY <1>2 DEF ReportSubTask, Request, Handler
    <3> QED BY <3>1, <3>2, <3>3 DEF GoodRequest
  <2>3. req' = [req EXCEPT ![p] = r]
    BY <1>2 DEF ReportSubTask, st
  <2>4. RequestInv'
    BY <2>2, <2>3, SetRequest
  <2> QED BY <1>2, <2>4, ReadTyped DEF ReportSubTask
<1>3. CASE ReportSubOwn(p)
  <2>1. \/ Finish(p)
        \/ \E pc \in {"reportSub_claim", "reportSub_write"} : Goto(p, pc)
    BY <1>3 DEF ReportSubOwn
  <2>2. \A pc \in {"reportSub_claim", "reportSub_write"} :
          pc \in PC /\ Handler([req[p] EXCEPT !.pc = pc])
    BY <1>3 DEF ReportSubOwn, Request, Handler, PC
  <2>3. "reportSub_claim" \in PC
    BY DEF PC
  <2> QED BY <1>3, <2>1, <2>2, <2>3, ReadStepTyped DEF ReportSubOwn
<1>4. CASE ReportSubClaim(p)
  <2>1. subAssignee' \in [SubTasks \X Users -> AssigneeRow]
    BY <1>4 DEF ReportSubClaim, TypeInv, TypeOK, AssigneeRow, AssignmentStatus
  <2> QED BY <1>4, <2>1, AnswerTyped DEF ReportSubClaim, TypeInv, TypeOK
<1>5. CASE ReportSubWrite(p)
  <2>1. req[p].status \in AssigneeRow
    BY <1>5 DEF ReportSubWrite, Parameters, Handler, AssigneeRow
  <2>2. subAssignee' \in [SubTasks \X Users -> AssigneeRow]
    BY <1>5, <2>1 DEF ReportSubWrite, TypeInv, TypeOK
  <2> QED BY <1>5, <2>2, AnswerTyped DEF ReportSubWrite, TypeInv, TypeOK
<1> QED BY <1>1, <1>2, <1>3, <1>4, <1>5

-----------------------------------------------------------------------------

\* Every step of every request keeps the tables, the open transactions and
\* the requests within their types.
LEMMA NextTyped ==
  ASSUME StoreAssumption, TypeInv, [Next]_vars
  PROVE  TypeInv'
<1>1. ASSUME NEW p \in Procs, Call(p)  PROVE TypeInv'
  BY <1>1, CallTyped
<1>2. ASSUME NEW p \in Procs, Step(p)  PROVE TypeInv'
  <2>1. CASE TaskMemberGuard(p) \/ SubTaskExistsGuard(p) \/ Commit(p)
    BY <2>1, StoreStepTyped
  <2>2. CASE TaskStep(p)
    BY <2>2, CloseTyped, ArchiveRestoreTyped, ReportTyped DEF TaskStep
  <2>3. CASE AssignmentStep(p)
    BY <2>3, AssignTyped, DecideTyped DEF AssignmentStep
  <2>4. CASE SubTaskStep(p)
    BY <2>4, CloseSubTyped, RestoreSubTyped, CreateReportSubTyped
       DEF SubTaskStep
  <2> QED BY <1>2, <2>1, <2>2, <2>3, <2>4 DEF Step
<1>3. ASSUME NEW p \in Procs, Abort(p)  PROVE TypeInv'
  BY <1>3, StoreStepTyped
<1>4. ASSUME NEW u \in MutableUsers, ChangeMembership(u)  PROVE TypeInv'
  <2>1. u \in Users
    BY DEF StoreAssumption
  <2> QED BY <1>4, <2>1, MembershipTyped
<1>5. CASE UNCHANGED vars
  BY <1>5 DEF vars, tables, people, TypeInv, TypeOK, RequestInv
<1> QED BY <1>1, <1>2, <1>3, <1>4, <1>5 DEF Next

\* The specification keeps its types, and every handler the parameters of its
\* route, for every number of users, tasks, sub-tasks and requests.
THEOREM Typed == Spec => []TypeInv
<1>1. Init => TypeInv
  BY InitTyped, StoreAssumption, SystemAssumption
<1>2. TypeInv /\ [Next]_vars => TypeInv'
  BY NextTyped, StoreAssumption
<1> QED BY <1>1, <1>2, PTL DEF Spec

\* Type correctness, as the runs check it.
THEOREM TypeCorrect == Spec => []TypeOK
<1>1. TypeInv => TypeOK
  BY DEF TypeInv
<1> QED BY <1>1, Typed, PTL

-----------------------------------------------------------------------------
(***************************************************************************)
(* The closing audit: OpenTaskHasNoAudit, ForcedCloseHasReason and         *)
(* ForcedCloseByAdmin.  None of the three is inductive.  The rows a        *)
(* transaction has yet to commit must satisfy them too, and so must what   *)
(* the request remembers between its reads and its writes: the guard's     *)
(* flag, and the decision taken on the count of closeTask.                 *)
(***************************************************************************)


\* u has had the authority to force a close of t.
MayForce(u, t) == IF t \in groupTasks THEN u \in wasAdmin ELSE u = ownerOf[t]

\* What the columns of one row of Task, committed or not, say together.
AuditRow(t, row) ==
  /\ row.status = "OPEN" => row = NewTask("OPEN")
  /\ row.closedWithOpenAssignees =>
       /\ row.closedReason # Null /\ row.closedById # Null
       /\ MayForce(row.closedById, t)

\* What a handler may rely on between two awaits.
AuditRequest(r) ==
  /\ r.isAdminish => MayForce(r.actor, r.task)
  /\ r.pc = "close_update" /\ r.hasOpenItems => r.reason # Null /\ r.isAdminish

AuditInv ==
  /\ \A u \in Users : isAdminish(role[u]) => u \in wasAdmin
  /\ \A t \in Tasks : AuditRow(t, task[t])
  /\ \A p \in Procs : \A t \in DOMAIN tx[p].task : AuditRow(t, tx[p].task[t])
  /\ \A p \in Procs : AuditRequest(req[p])

-----------------------------------------------------------------------------

LEMMA AuditInit == StoreAssumption /\ Init => AuditInv
<1> SUFFICES ASSUME StoreAssumption, Init  PROVE AuditInv
  OBVIOUS
<1>1. \A u \in Users : isAdminish(role[u]) => u \in wasAdmin
  BY DEF Init
<1>2. \A t \in Tasks : AuditRow(t, task[t])
  <2>1. PICK st \in [Tasks -> FirstTasks] :
          task = [t \in Tasks |-> NewTask(st[t])]
    BY DEF Init
  <2> QED BY <2>1 DEF AuditRow, NewTask
<1>3. \A p \in Procs : DOMAIN tx[p].task = {}
  BY DEF Init, NoWrites, Clean
<1>4. \A p \in Procs : AuditRequest(req[p])
  BY DEF Init, NoRequest, AuditRequest
<1> QED BY <1>1, <1>2, <1>3, <1>4 DEF AuditInv

\* Most steps leave the tasks alone, gain no authority and do not enter the
\* transaction of a close.
Quiet ==
  /\ UNCHANGED <<task, people>>
  /\ \A q \in Procs : tx'[q].task = tx[q].task
  /\ \A q \in Procs :
       \/ req'[q] = req[q]
       \/ /\ req'[q].pc # "close_update"
          /\ req'[q].isAdminish =>
               /\ req[q].isAdminish
               /\ req'[q].actor = req[q].actor /\ req'[q].task = req[q].task

LEMMA QuietAudit == ASSUME AuditInv, Quiet  PROVE AuditInv'
<1>1. \A u, t : MayForce(u, t)' <=> MayForce(u, t)
  BY DEF Quiet, MayForce, people
<1>2. \A t \in Tasks : AuditRow(t, task[t])'
  BY <1>1 DEF AuditInv, Quiet, AuditRow
<1>3. \A p \in Procs : \A t \in DOMAIN tx[p].task' :
        AuditRow(t, tx[p].task[t])'
  BY <1>1 DEF AuditInv, Quiet, AuditRow
<1>4. \A p \in Procs : AuditRequest(req[p])'
  BY <1>1 DEF AuditInv, Quiet, AuditRequest
<1>5. \A u \in Users : (isAdminish(role[u]) => u \in wasAdmin)'
  BY DEF AuditInv, Quiet, people
<1> QED BY <1>2, <1>3, <1>4, <1>5 DEF AuditInv

\* The write of another table leaves the transaction's tasks alone.
LEMMA WriteElsewhere ==
  ASSUME TypeInv, NEW p \in Procs, NEW rows,
         NEW table \in {"assignee", "subTask", "subAssignee"},
         Write(p, table, rows)
  PROVE  \A q \in Procs : tx'[q].task = tx[q].task
<1>1. tx \in [Procs -> Transaction]
  BY DEF TypeInv, TypeOK
<1>2. tx' = [tx EXCEPT ![p][table] = Over(rows, @)]
  BY DEF Write
<1> QED BY <1>1, <1>2 DEF Transaction

\* Where a handler goes on to, but for the transaction of a close.
LEMMA GotoQuiet ==
  ASSUME TypeInv, NEW p \in Procs, NEW pc, pc # "close_update",
         UNCHANGED <<task, people>>,
         \A q \in Procs : tx'[q].task = tx[q].task,
         Goto(p, pc)
  PROVE  Quiet
<1>1. req \in [Procs -> Request]
  BY DEF TypeInv, TypeOK
<1> QED BY <1>1 DEF Quiet, Goto, Request

LEMMA FinishQuiet ==
  ASSUME TypeInv, NEW p \in Procs, UNCHANGED <<task, people>>,
         \A q \in Procs : tx'[q].task = tx[q].task,
         Finish(p)
  PROVE  Quiet
<1>1. req \in [Procs -> Request]
  BY DEF TypeInv, TypeOK
<1> QED BY <1>1 DEF Quiet, Finish, NoRequest

\* A call arrives without authority; the guard has yet to look.
LEMMA CallQuiet == ASSUME TypeInv, NEW p \in Procs, Call(p)  PROVE Quiet
<1>1. \A r : /\ Receive(p, r)
             /\ r.pc \in {"guard", "sub_guard", "assign_target", "decide_read"}
             /\ r.isAdminish = FALSE
             => Quiet
  BY DEF Receive, Quiet, TypeInv, TypeOK, tables
<1>2. CASE TaskCall(p)
  BY <1>1, <1>2 DEF TaskCall, PostClose, PostArchive, PostRestore, PostReport,
                    NoRequest
<1>3. CASE AssignmentCall(p)
  BY <1>1, <1>3 DEF AssignmentCall, PostAssign, PostAssignSub, GetDecision,
                    NoRequest
<1>4. CASE SubTaskCall(p)
  BY <1>1, <1>4 DEF SubTaskCall, PostCreateSub, PostCloseSub, PostRestoreSub,
                    PostReportSub, PostSub, NoRequest
<1> QED BY <1>2, <1>3, <1>4 DEF Call

LEMMA AssignmentQuiet ==
  ASSUME TypeInv, NEW p \in Procs, AssignmentStep(p)  PROVE Quiet
<1>1. UNCHANGED <<task, people, tx>>
  BY DEF AssignmentStep, AssignTarget, AssignAssigner, AssignAssignee,
         AssignUpsert, AssignMail, DecideRead, DecideWrite, tables
<1>2. \/ Finish(p)
      \/ \E pc \in { "assign_assigner", "assign_assignee", "assign_upsert",
                     "assign_mail", "decide_write" } : Goto(p, pc)
  BY DEF AssignmentStep, AssignTarget, AssignAssigner, AssignAssignee,
         AssignUpsert, AssignMail, DecideRead, DecideWrite
<1> QED BY <1>1, <1>2, FinishQuiet, GotoQuiet

LEMMA SubTaskQuiet ==
  ASSUME TypeInv, NEW p \in Procs, SubTaskStep(p)  PROVE Quiet
<1> req[p] \in Request /\ req \in [Procs -> Request]
  BY DEF TypeInv, TypeOK
<1>1. CASE CreateSubInsert(p) \/ ReportSubClaim(p) \/ ReportSubWrite(p)
  BY <1>1, FinishQuiet DEF CreateSubInsert, ReportSubClaim, ReportSubWrite
<1>2. CASE ReportSubTask(p)
  BY <1>2 DEF ReportSubTask, Quiet, Request, tables
<1>3. CASE ReportSubOwn(p) \/ CloseSubOwn(p)
  <2>1. UNCHANGED <<task, people, tx>>
    BY <1>3 DEF ReportSubOwn, CloseSubOwn, tables
  <2>2. \/ Finish(p)
        \/ \E pc \in { "reportSub_claim", "reportSub_write", "closeSub_drop",
                       "closeSub_upsert" } : Goto(p, pc)
    BY <1>3 DEF ReportSubOwn, CloseSubOwn
  <2> QED BY <2>1, <2>2, FinishQuiet, GotoQuiet
<1>4. CASE \/ CloseSubUpdate(p) \/ CloseSubUpsert(p) \/ CloseSubDrop(p)
           \/ CloseSubSkip(p) \/ RestoreSubUpdate(p) \/ RestoreSubAccept(p)
           \/ RestoreSubPend(p)
  <2>1. UNCHANGED <<task, people>>
    BY <1>4 DEF CloseSubUpdate, CloseSubUpsert, CloseSubDrop, CloseSubSkip,
                RestoreSubUpdate, RestoreSubAccept, RestoreSubPend,
                InSubTransaction, tables
  <2>2. \E table \in {"subTask", "subAssignee"} : \E rows :
          Write(p, table, rows)
    BY <1>4 DEF CloseSubUpdate, CloseSubUpsert, CloseSubDrop, CloseSubSkip,
                RestoreSubUpdate, RestoreSubAccept, RestoreSubPend,
                MoveSubAssignees
  <2>3. \E pc \in { "closeSub_own", "closeSub_drop", "closeSub_skip",
                    "restoreSub_accept", "restoreSub_pend", "commit" } :
          Goto(p, pc)
    BY <1>4 DEF CloseSubUpdate, CloseSubUpsert, CloseSubDrop, CloseSubSkip,
                RestoreSubUpdate, RestoreSubAccept, RestoreSubPend
  <2>4. \A q \in Procs : tx'[q].task = tx[q].task
    BY <2>2, WriteElsewhere
  <2> QED BY <2>1, <2>3, <2>4, GotoQuiet
<1> QED BY <1>1, <1>2, <1>3, <1>4 DEF SubTaskStep

\* The steps of the task routes that neither decide on a close nor write Task.
LEMMA TaskQuiet ==
  ASSUME TypeInv, NEW p \in Procs,
         \/ CloseDrop(p) \/ CloseSkip(p) \/ CloseSubs(p) \/ ArchiveRead(p)
         \/ ArchiveSubs(p) \/ RestorePeek(p) \/ RestoreRead(p)
         \/ RestoreCascade(p) \/ ReportRead(p) \/ ReportClaim(p)
         \/ ReportWrite(p)
  PROVE  Quiet
<1> req[p] \in Request /\ req \in [Procs -> Request]
  BY DEF TypeInv, TypeOK
<1>1. CASE ReportClaim(p) \/ ReportWrite(p)
  BY <1>1, FinishQuiet DEF ReportClaim, ReportWrite
<1>2. CASE RestorePeek(p)
  BY <1>2 DEF RestorePeek, Quiet, Request, tables
<1>3. CASE ArchiveRead(p) \/ RestoreRead(p) \/ ReportRead(p)
  <2>1. UNCHANGED <<task, people, tx>>
    BY <1>3 DEF ArchiveRead, RestoreRead, ReportRead, tables
  <2>2. \/ Finish(p)
        \/ \E pc \in { "archive_update", "restore_update", "report_claim",
                       "report_write" } : Goto(p, pc)
    BY <1>3 DEF ArchiveRead, RestoreRead, ReportRead
  <2> QED BY <2>1, <2>2, FinishQuiet, GotoQuiet
<1>4. CASE \/ CloseDrop(p) \/ CloseSkip(p) \/ CloseSubs(p) \/ ArchiveSubs(p)
           \/ RestoreCascade(p)
  <2>1. UNCHANGED <<task, people>>
    BY <1>4 DEF CloseDrop, CloseSkip, CloseSubs, ArchiveSubs, RestoreCascade,
                InTransaction, tables
  <2>2. \E table \in {"assignee", "subTask"} : \E rows :
          Write(p, table, rows)
    BY <1>4 DEF CloseDrop, CloseSkip, CloseSubs, ArchiveSubs, RestoreCascade,
                MoveAssignees, MoveSubTasks
  <2>3. \E pc \in {"close_skip", "close_subs", "commit"} : Goto(p, pc)
    BY <1>4 DEF CloseDrop, CloseSkip, CloseSubs, ArchiveSubs, RestoreCascade
  <2>4. \A q \in Procs : tx'[q].task = tx[q].task
    BY <2>2, WriteElsewhere
  <2> QED BY <2>1, <2>3, <2>4, GotoQuiet
<1> QED BY <1>1, <1>2, <1>3, <1>4

-----------------------------------------------------------------------------
(* The steps that matter to the audit                                      *)

\* The update of Task by a close, an archive or a restore.
LEMMA WriteTaskAudit ==
  ASSUME TypeInv, AuditInv, NEW p \in Procs, NEW row, NEW pc,
         pc # "close_update", AuditRow(req[p].task, row),
         WriteTask(p, row), Goto(p, pc), InTransaction
  PROVE  AuditInv'
<1> DEFINE rows == [t \in {req[p].task} |-> row]
<1>1. tx \in [Procs -> Transaction] /\ req \in [Procs -> Request]
  BY DEF TypeInv, TypeOK
<1>2. tx' = [tx EXCEPT ![p].task = Over(rows, @)]
  BY DEF WriteTask, Write
<1>3. UNCHANGED <<task, people>>
  BY DEF InTransaction, tables
<1>4. \A u, t : MayForce(u, t)' <=> MayForce(u, t)
  BY <1>3 DEF MayForce, people
<1>5. ASSUME NEW q \in Procs, NEW t \in DOMAIN tx[q].task'
      PROVE  AuditRow(t, tx[q].task[t])'
  <2>1. CASE q # p
    <3>1. tx'[q].task = tx[q].task
      BY <1>1, <1>2, <2>1 DEF Transaction
    <3>2. AuditRow(t, tx[q].task[t])
      BY <1>5, <3>1 DEF AuditInv
    <3> QED BY <1>4, <3>1, <3>2 DEF AuditRow
  <2>2. CASE q = p
    <3>1. tx'[p].task = Over(rows, tx[p].task)
      BY <1>1, <1>2 DEF Transaction
    <3>2. CASE t = req[p].task
      <4>1. tx'[p].task[t] = row
        BY <3>1, <3>2 DEF Over
      <4> QED BY <1>4, <2>2, <3>2, <4>1 DEF AuditRow
    <3>3. CASE t # req[p].task
      <4>1. t \in DOMAIN tx[p].task /\ tx'[p].task[t] = tx[p].task[t]
        BY <1>5, <2>2, <3>1, <3>3 DEF Over
      <4>2. AuditRow(t, tx[p].task[t])
        BY <4>1 DEF AuditInv
      <4> QED BY <1>4, <2>2, <4>1, <4>2 DEF AuditRow
    <3> QED BY <3>2, <3>3
  <2> QED BY <2>1, <2>2
<1>6. \A q \in Procs : AuditRequest(req[q])'
  <2>1. \A q \in Procs : AuditRequest(req[q])
    BY DEF AuditInv
  <2>2. \A q \in Procs \ {p} : req'[q] = req[q]
    BY <1>1 DEF Goto
  <2>3. /\ req'[p].pc # "close_update"
        /\ req'[p].isAdminish = req[p].isAdminish
        /\ req'[p].actor = req[p].actor /\ req'[p].task = req[p].task
    BY <1>1 DEF Goto, Request
  <2> QED BY <1>4, <2>1, <2>2, <2>3 DEF AuditRequest
<1>7. \A t \in Tasks : AuditRow(t, task[t])'
  BY <1>3, <1>4 DEF AuditInv, AuditRow
<1>8. \A u \in Users : (isAdminish(role[u]) => u \in wasAdmin)'
  BY <1>3 DEF AuditInv, people
<1> QED BY <1>5, <1>6, <1>7, <1>8 DEF AuditInv

\* The newest version of the row obeys the audit: committed or p's own.
LEMMA CurrentAudit ==
  ASSUME TypeInv, AuditInv, NEW p \in Procs, req[p].op # "none"
  PROVE  Current(p) \in TaskRow /\ AuditRow(req[p].task, Current(p))
<1>1. req[p].task \in Tasks /\ task \in [Tasks -> TaskRow]
  BY DEF TypeInv, TypeOK, RequestInv, GoodRequest, Parameters
<1>2. Current(p) = IF req[p].task \in DOMAIN tx[p].task
                   THEN tx[p].task[req[p].task] ELSE task[req[p].task]
  BY <1>1 DEF Current, TaskView, Over
<1>3. AuditRow(req[p].task, Current(p))
  BY <1>1, <1>2 DEF AuditInv
<1> QED BY <1>3, CurrentTyped

LEMMA TaskWriteAudit ==
  ASSUME StoreAssumption, TypeInv, AuditInv, NEW p \in Procs,
         CloseUpdate(p) \/ ArchiveUpdate(p) \/ RestoreUpdate(p)
  PROVE  AuditInv'
<1>1. /\ req[p] \in Request /\ Parameters(req[p]) /\ Handler(req[p])
      /\ AuditRequest(req[p])
  BY DEF TypeInv, RequestInv, GoodRequest, AuditInv
<1>2. CASE CloseUpdate(p)
  <2>1. req[p].actor # Null
    BY <1>1, <1>2 DEF CloseUpdate, Handler, Parameters, StoreAssumption
  <2>2. AuditRow(req[p].task, ClosedTask(req[p]))
    BY <1>1, <1>2, <2>1 DEF CloseUpdate, AuditRequest, AuditRow, ClosedTask
  <2> QED BY <1>2, <2>2, WriteTaskAudit DEF CloseUpdate
<1>3. CASE ArchiveUpdate(p)
  <2> DEFINE row == [Current(p) EXCEPT !.status = "ARCHIVED"]
  <2>1. Current(p) \in TaskRow /\ AuditRow(req[p].task, Current(p))
    BY <1>1, <1>3, CurrentAudit DEF ArchiveUpdate, Handler
  <2>2. AuditRow(req[p].task, row)
    BY <2>1 DEF AuditRow, TaskRow
  <2> QED BY <1>3, <2>2, WriteTaskAudit DEF ArchiveUpdate
<1>4. CASE RestoreUpdate(p)
  <2>1. Current(p) \in TaskRow
    BY <1>1, <1>4, CurrentAudit DEF RestoreUpdate, Handler
  <2>2. Reopened(Current(p)) = NewTask("OPEN")
    <3> DEFINE row == Reopened(Current(p))
    <3>1. /\ row \in TaskRow
          /\ row.status = "OPEN" /\ row.closedById = Null
          /\ row.closedReason = Null /\ row.closedWithOpenAssignees = FALSE
      BY <2>1 DEF Reopened, TaskRow, TaskStatus
    <3> HIDE DEF row
    <3>2. row = [ status |-> row.status, closedById |-> row.closedById,
                  closedReason |-> row.closedReason,
                  closedWithOpenAssignees |-> row.closedWithOpenAssignees ]
      BY <3>1 DEF TaskRow
    <3>3. row = NewTask("OPEN")
      BY <3>1, <3>2 DEF NewTask
    <3> QED BY <3>3 DEF row
  <2>3. AuditRow(req[p].task, NewTask("OPEN"))
    BY DEF AuditRow, NewTask
  <2>4. PICK pc \in {"restore_cascade", "commit"} : Goto(p, pc)
    BY <1>4 DEF RestoreUpdate
  <2> QED BY <1>4, <2>2, <2>3, <2>4, WriteTaskAudit DEF RestoreUpdate
<1> QED BY <1>2, <1>3, <1>4

\* The handler's own view of the request changes; the tables do not.
LEMMA RequestAudit ==
  ASSUME TypeInv, AuditInv, NEW p \in Procs, NEW r, AuditRequest(r),
         req' = [req EXCEPT ![p] = r],
         UNCHANGED <<tables, people, tx>>
  PROVE  AuditInv'
<1>1. \A u, t : MayForce(u, t)' <=> MayForce(u, t)
  BY DEF MayForce, people
<1>2. \A q \in Procs : AuditRequest(req'[q])
  BY DEF AuditInv, TypeInv, TypeOK
<1> QED BY <1>1, <1>2 DEF AuditInv, AuditRow, AuditRequest, tables, people

\* The guard grants the flag to those who have the authority now.
LEMMA GuardAudit ==
  ASSUME TypeInv, AuditInv, NEW p \in Procs, TaskMemberGuard(p)
  PROVE  AuditInv'
<1> DEFINE a == IsAdminOf(req[p].actor, req[p].task)
           r == [req[p] EXCEPT !.pc = ServiceEntry[req[p].op],
                               !.isAdminish = a,
                               !.isOwner = (ownerOf[req[p].task] = req[p].actor)]
<1>1. /\ req[p] \in Request /\ Parameters(req[p]) /\ Handler(req[p])
  BY DEF TypeInv, RequestInv, GoodRequest
<1>2. CASE Finish(p)
  BY <1>2, FinishQuiet, QuietAudit DEF TaskMemberGuard, tables
<1>3. CASE req' = [req EXCEPT ![p] = r]
  <2>1. a => MayForce(req[p].actor, req[p].task)
    <3>1. req[p].actor \in Users
      BY <1>1 DEF TaskMemberGuard, Handler, Parameters
    <3> QED BY <3>1 DEF IsAdminOf, MayForce, AuditInv
  <2>2. ServiceEntry[req[p].op] # "close_update"
    BY <1>1 DEF TaskMemberGuard, Handler, ServiceEntry
  <2>3. /\ r.isAdminish = a /\ r.pc = ServiceEntry[req[p].op]
        /\ r.actor = req[p].actor /\ r.task = req[p].task
    BY <1>1 DEF Request
  <2>4. AuditRequest(r)
    BY <2>1, <2>2, <2>3 DEF AuditRequest
  <2> QED BY <1>3, <2>4, RequestAudit DEF TaskMemberGuard
<1> QED BY <1>2, <1>3 DEF TaskMemberGuard

\* closeTask decides: over open items, with a reason and as an admin only.
LEMMA CountAudit ==
  ASSUME TypeInv, AuditInv, NEW p \in Procs, CloseCount(p)
  PROVE  AuditInv'
<1> DEFINE open == HasOpenItems(req[p].task)
           r == [req[p] EXCEPT !.pc = "close_update", !.hasOpenItems = open]
<1>1. req[p] \in Request /\ AuditRequest(req[p])
  BY DEF TypeInv, TypeOK, AuditInv
<1>2. CASE Finish(p)
  BY <1>2, FinishQuiet, QuietAudit DEF CloseCount, tables
<1>3. CASE CloseAllowed(req[p], open) /\ req' = [req EXCEPT ![p] = r]
  <2>1. open => req[p].reason # Null /\ req[p].isAdminish
    BY <1>3 DEF CloseAllowed
  <2>2. /\ r.hasOpenItems = open /\ r.reason = req[p].reason
        /\ r.isAdminish = req[p].isAdminish
        /\ r.actor = req[p].actor /\ r.task = req[p].task
    BY <1>1 DEF Request
  <2> HIDE DEF open
  <2>3. AuditRequest(r)
    BY <1>1, <2>1, <2>2 DEF AuditRequest
  <2> QED BY <1>3, <2>3, RequestAudit DEF CloseCount
<1> QED BY <1>2, <1>3 DEF CloseCount

LEMMA SubTaskExistsQuiet ==
  ASSUME TypeInv, NEW p \in Procs, SubTaskExistsGuard(p)  PROVE Quiet
<1>1. UNCHANGED <<task, people, tx>>
  BY DEF SubTaskExistsGuard, tables
<1> QED BY <1>1, FinishQuiet, GotoQuiet DEF SubTaskExistsGuard

\* A request ends: what it wrote is merged or forgotten.
LEMMA EndAudit ==
  ASSUME TypeInv, AuditInv, NEW p \in Procs, Commit(p) \/ Abort(p)
  PROVE  AuditInv'
<1>1. tx \in [Procs -> Transaction] /\ req \in [Procs -> Request]
  BY DEF TypeInv, TypeOK
<1>2. /\ UNCHANGED people
      /\ tx' = [tx EXCEPT ![p] = NoWrites]
      /\ req' = [req EXCEPT ![p] = NoRequest]
  BY DEF Commit, Abort, Finish
<1>3. \A u, t : MayForce(u, t)' <=> MayForce(u, t)
  BY <1>2 DEF MayForce, people
<1>4. ASSUME NEW t \in Tasks  PROVE AuditRow(t, task[t])'
  <2>1. AuditRow(t, task'[t])
    <3>1. CASE Commit(p)
      <4>1. task'[t] = IF t \in DOMAIN tx[p].task THEN tx[p].task[t]
                                                  ELSE task[t]
        BY <3>1 DEF Commit, TaskView, Over, TypeInv, TypeOK
      <4> QED BY <4>1 DEF AuditInv
    <3>2. CASE Abort(p)
      BY <3>2 DEF Abort, AuditInv, tables
    <3> QED BY <3>1, <3>2
  <2> QED BY <1>3, <2>1 DEF AuditRow
<1>5. ASSUME NEW q \in Procs, NEW t \in DOMAIN tx[q].task'
      PROVE  AuditRow(t, tx[q].task[t])'
  <2>1. CASE q = p
    BY <1>1, <1>2, <1>5, <2>1 DEF NoWrites, Clean
  <2>2. CASE q # p
    <3>1. tx'[q].task = tx[q].task
      BY <1>1, <1>2, <2>2
    <3>2. AuditRow(t, tx[q].task[t])
      BY <1>5, <3>1 DEF AuditInv
    <3> QED BY <1>3, <3>1, <3>2 DEF AuditRow
  <2> QED BY <2>1, <2>2
<1>6. \A q \in Procs : AuditRequest(req[q])'
  <2>1. \A q \in Procs : req'[q] = req[q] \/ req'[q] = NoRequest
    BY <1>1, <1>2
  <2> QED BY <1>3, <2>1 DEF AuditInv, AuditRequest, NoRequest
<1>7. \A u \in Users : (isAdminish(role[u]) => u \in wasAdmin)'
  BY <1>2 DEF AuditInv, people
<1> QED BY <1>4, <1>5, <1>6, <1>7 DEF AuditInv

\* Members come and go; whoever gains authority is remembered.
LEMMA MembershipAudit ==
  ASSUME TypeInv, AuditInv, NEW u \in Users, ChangeMembership(u)
  PROVE  AuditInv'
<1>1. PICK r \in GroupRole \cup {NoRow} :
        /\ role' = [role EXCEPT ![u] = r]
        /\ wasAdmin' = IF isAdminish(r) THEN wasAdmin \cup {u} ELSE wasAdmin
  BY DEF ChangeMembership
<1>2. UNCHANGED <<tables, tx, req>>
  BY DEF ChangeMembership
<1>3. \A x, t : MayForce(x, t) => MayForce(x, t)'
  BY <1>1 DEF MayForce
<1>4. \A x \in Users : (isAdminish(role[x]) => x \in wasAdmin)'
  BY <1>1 DEF AuditInv, TypeInv, TypeOK
<1> QED BY <1>2, <1>3, <1>4 DEF AuditInv, AuditRow, AuditRequest, tables

LEMMA NextAudit ==
  ASSUME StoreAssumption, TypeInv, AuditInv, [Next]_vars
  PROVE  AuditInv'
<1>1. ASSUME NEW p \in Procs, Call(p)  PROVE AuditInv'
  BY <1>1, CallQuiet, QuietAudit
<1>2. ASSUME NEW p \in Procs, Step(p)  PROVE AuditInv'
  <2>1. CASE TaskMemberGuard(p) \/ SubTaskExistsGuard(p) \/ Commit(p)
    BY <2>1, GuardAudit, SubTaskExistsQuiet, QuietAudit, EndAudit
  <2>2. CASE TaskStep(p)
    BY <2>2, CountAudit, TaskWriteAudit, TaskQuiet, QuietAudit DEF TaskStep
  <2>3. CASE AssignmentStep(p) \/ SubTaskStep(p)
    BY <2>3, AssignmentQuiet, SubTaskQuiet, QuietAudit
  <2> QED BY <1>2, <2>1, <2>2, <2>3 DEF Step
<1>3. ASSUME NEW p \in Procs, Abort(p)  PROVE AuditInv'
  BY <1>3, EndAudit
<1>4. ASSUME NEW u \in MutableUsers, ChangeMembership(u)  PROVE AuditInv'
  <2>1. u \in Users
    BY DEF StoreAssumption
  <2> QED BY <1>4, <2>1, MembershipAudit
<1>5. CASE UNCHANGED vars
  BY <1>5 DEF vars, tables, people, AuditInv, AuditRow, AuditRequest, MayForce
<1> QED BY <1>1, <1>2, <1>3, <1>4, <1>5 DEF Next

-----------------------------------------------------------------------------

\* The inductive invariant: rows, committed or not, and requests in flight.
THEOREM Audited == Spec => []AuditInv
<1>1. Init => AuditInv
  BY AuditInit, StoreAssumption
<1>2. TypeInv /\ AuditInv /\ [Next]_vars => AuditInv'
  BY NextAudit, StoreAssumption
<1> QED BY <1>1, <1>2, Typed, PTL DEF Spec

\* An open task carries nothing of an earlier closing: whatever close, archive
\* and restore requests overlap, and wherever they are cut off.
THEOREM OpenIsClean == Spec => []OpenTaskHasNoAudit
<1>1. AuditInv => OpenTaskHasNoAudit
  BY DEF AuditInv, AuditRow, OpenTaskHasNoAudit
<1> QED BY <1>1, Audited, PTL

\* A task closed over open items says why and by whom, although closeTask
\* decides on a count it takes before its transaction.
THEOREM ForcedCloseExplained == Spec => []ForcedCloseHasReason
<1>1. AuditInv => ForcedCloseHasReason
  BY DEF AuditInv, AuditRow, ForcedCloseHasReason
<1> QED BY <1>1, Audited, PTL

\* And whoever it names has had the authority, although roles change between
\* the guard and the update.
THEOREM ForcedCloseAuthorised == Spec => []ForcedCloseByAdmin
<1>1. AuditInv => ForcedCloseByAdmin
  BY DEF AuditInv, AuditRow, MayForce, ForcedCloseByAdmin
<1> QED BY <1>1, Audited, PTL

=============================================================================
