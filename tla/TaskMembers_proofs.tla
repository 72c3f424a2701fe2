------------------------- MODULE TaskMembers_proofs -------------------------
(***************************************************************************)
(* Rows of TaskAssignee go to people who have been members, rows of        *)
(* SubTaskAssignee to people whom some task has let in, and a decision     *)
(* link is mailed only for a row that is there, for every number of users, *)
(* tasks, sub-tasks and concurrent requests.  Six routes create rows, and  *)
(* what each has checked may be out of date when it writes: the invariant  *)
(* says what of it lasts.  Membership may be lost, having been a member    *)
(* may not; rows change, but do not disappear.                             *)
(***************************************************************************)
EXTENDS TaskSystem_proofs

\* A row at key k is as it should be.  A sub-task's may be of somebody whom
\* another task has let in: the routes do not compare it with the parent.
Backed(k)    == k[1] \in groupTasks /\ k[2] \in wasMember
SubBacked(k) == \E t \in Tasks : WasLetIn(k[2], t)

LinkOK(l) == l.user \in wasMember /\ LinkHasRow(l)

PastGuard ==
  { "report_read", "report_claim", "report_write",
    "closeSub_update", "closeSub_own", "closeSub_upsert",
    "reportSub_task", "reportSub_own", "reportSub_claim", "reportSub_write" }

GroupTaskSeen ==
  { "report_claim", "report_write", "assign_assigner", "assign_assignee",
    "assign_upsert", "assign_mail", "decide_write" }

\* What a handler may rely on between two awaits.
RequestOK(r) ==
  /\ r.pc \in PastGuard => WasLetIn(r.actor, r.task)
  /\ r.pc \in GroupTaskSeen => TargetTask(r) \in groupTasks
  /\ r.pc \in {"assign_upsert", "assign_mail"} => r.target \in wasMember
  /\ r.pc = "assign_mail" => LinkHasRow(LinkOf(r, r.target))
  /\ r.op = "decide" => r.actor \in wasMember
  /\ r.op \in {"report", "assign"} => r.sub = Null

MemberInv ==
  /\ \A u \in Users : role[u] # NoRow => u \in wasMember
  /\ \A k \in Tasks \X Users : assignee[k] # NoRow => Backed(k)
  /\ \A k \in SubTasks \X Users : subAssignee[k] # NoRow => SubBacked(k)
  /\ \A p \in Procs : \A k \in DOMAIN tx[p].assignee :
       tx[p].assignee[k] # NoRow /\ Backed(k)
  /\ \A p \in Procs : \A k \in DOMAIN tx[p].subAssignee :
       tx[p].subAssignee[k] # NoRow /\ SubBacked(k)
  /\ \A p \in Procs : RequestOK(req[p])
  /\ \A l \in mailed : LinkOK(l)

\* A step all of whose changes are sound keeps the invariant.
Sound ==
  /\ wasMember \subseteq wasMember'
  /\ \A u \in Users : role'[u] # NoRow => u \in wasMember'
  /\ \A k \in Tasks \X Users :
       assignee'[k] = assignee[k] \/ (assignee'[k] # NoRow /\ Backed(k))
  /\ \A k \in SubTasks \X Users :
       \/ subAssignee'[k] = subAssignee[k]
       \/ subAssignee'[k] # NoRow /\ SubBacked(k)
  /\ \A p \in Procs : \A k \in DOMAIN tx'[p].assignee :
       \/ /\ k \in DOMAIN tx[p].assignee
          /\ tx'[p].assignee[k] = tx[p].assignee[k]
       \/ tx'[p].assignee[k] # NoRow /\ Backed(k)
  /\ \A p \in Procs : \A k \in DOMAIN tx'[p].subAssignee :
       \/ /\ k \in DOMAIN tx[p].subAssignee
          /\ tx'[p].subAssignee[k] = tx[p].subAssignee[k]
       \/ tx'[p].subAssignee[k] # NoRow /\ SubBacked(k)
  /\ \A p \in Procs : req'[p] = req[p] \/ RequestOK(req[p])'
  /\ \A l \in mailed' : l \in mailed \/ LinkOK(l)'

-----------------------------------------------------------------------------

LEMMA MemberInit ==
  ASSUME StoreAssumption, SystemAssumption, Init
  PROVE  MemberInv
<1>1. wasMember = {u \in Users : role[u] # NoRow}
  BY DEF Init
<1>2. \A k \in Tasks \X Users : assignee[k] # NoRow => Backed(k)
  BY <1>1 DEF Init, Backed
<1>3. \A k \in SubTasks \X Users : subAssignee[k] # NoRow => SubBacked(k)
  <2> SUFFICES ASSUME NEW s \in SubTasks, NEW u \in Users,
                      subAssignee[<<s, u>>] # NoRow
               PROVE  WasLetIn(u, parentOf[s]) /\ parentOf[s] \in Tasks
    BY DEF SubBacked
  <2> QED BY <1>1 DEF Init, WasLetIn, StoreAssumption
<1>4. \A p \in Procs : tx[p] = NoWrites /\ req[p] = NoRequest
  BY DEF Init
<1>5. \A p \in Procs :
        DOMAIN tx[p].assignee = {} /\ DOMAIN tx[p].subAssignee = {}
  BY <1>4 DEF NoWrites, Clean
<1>6. \A p \in Procs : RequestOK(req[p])
  BY <1>4 DEF NoRequest, RequestOK, PastGuard, GroupTaskSeen
<1>7. ASSUME NEW l \in mailed  PROVE LinkOK(l)
  <2>1. l \in Link /\ LinkHasRow(l)
    BY DEF Init, SystemAssumption
  <2>2. role[l.user] # NoRow
    BY <2>1 DEF Init, LinkHasRow, Link
  <2> QED BY <1>1, <2>1, <2>2 DEF LinkOK, Link
<1> QED BY <1>1, <1>2, <1>3, <1>5, <1>6, <1>7 DEF MemberInv

LEMMA SoundKeeps ==
  ASSUME StoreAssumption, TypeInv, MemberInv, Sound
  PROVE  MemberInv'
<1>1. \A k : (Backed(k) => Backed(k)') /\ (SubBacked(k) => SubBacked(k)')
  BY DEF Sound, Backed, SubBacked, WasLetIn
<1>2. \A k \in Tasks \X Users : (assignee[k] # NoRow => Backed(k))'
  BY <1>1 DEF Sound, MemberInv
<1>3. \A k \in SubTasks \X Users : (subAssignee[k] # NoRow => SubBacked(k))'
  BY <1>1 DEF Sound, MemberInv
<1>4. \A p \in Procs : \A k \in DOMAIN tx'[p].assignee :
        (tx[p].assignee[k] # NoRow /\ Backed(k))'
  BY <1>1 DEF Sound, MemberInv
<1>5. \A p \in Procs : \A k \in DOMAIN tx'[p].subAssignee :
        (tx[p].subAssignee[k] # NoRow /\ SubBacked(k))'
  BY <1>1 DEF Sound, MemberInv
<1>6. ASSUME NEW l, l.task \in Tasks, l.user \in Users,
             l.sub \in SubTasks \cup {Null}, LinkHasRow(l)
      PROVE  LinkHasRow(l)'
  <2>1. CASE l.sub = Null
    <3> DEFINE k == <<l.task, l.user>>
    <3>1. k \in Tasks \X Users /\ assignee[k] # NoRow
      BY <1>6, <2>1 DEF LinkHasRow
    <3>2. assignee'[k] # NoRow
      BY <3>1 DEF Sound
    <3> QED BY <2>1, <3>2 DEF LinkHasRow
  <2>2. CASE l.sub # Null
    <3> DEFINE k == <<l.sub, l.user>>
    <3>1. k \in SubTasks \X Users /\ subAssignee[k] # NoRow
      BY <1>6, <2>2 DEF LinkHasRow
    <3>2. subAssignee'[k] # NoRow
      BY <3>1 DEF Sound
    <3> QED BY <2>2, <3>2 DEF LinkHasRow
  <2> QED BY <2>1, <2>2
<1>7. ASSUME NEW p \in Procs, req'[p] = req[p]  PROVE RequestOK(req[p])'
  <2> PICK l : l = LinkOf(req[p], req[p].target)
    OBVIOUS
  <2>1. /\ RequestOK(req[p]) /\ req[p] \in Request
        /\ Parameters(req[p]) /\ Handler(req[p])
    BY DEF MemberInv, TypeInv, RequestInv, GoodRequest
  <2>2. req[p].pc = "assign_mail" =>
          l.task \in Tasks /\ l.user \in Users /\ l.sub \in SubTasks \cup {Null}
    BY <2>1 DEF Handler, Parameters, Request, LinkOf, TargetTask,
                StoreAssumption
  <2>3. req[p].pc = "assign_mail" => LinkHasRow(l)'
    BY <1>6, <2>1, <2>2 DEF RequestOK
  <2>4. \A u, t : WasLetIn(u, t) => WasLetIn(u, t)'
    BY DEF Sound, WasLetIn
  <2>5. l = LinkOf(req[p], req[p].target)'
    BY <1>7 DEF LinkOf
  <2>6. req[p].pc = "assign_mail" => LinkHasRow(LinkOf(req[p], req[p].target))'
    BY <2>3, <2>5
  <2> QED BY <1>7, <2>1, <2>4, <2>6 DEF RequestOK, Sound
<1>8. ASSUME NEW l \in mailed  PROVE LinkOK(l)'
  <2>1. l.task \in Tasks /\ l.user \in Users /\ l.sub \in SubTasks \cup {Null}
    BY DEF TypeInv, TypeOK, Link
  <2> QED BY <1>6, <2>1 DEF MemberInv, LinkOK, Sound
<1> QED BY <1>2, <1>3, <1>4, <1>5, <1>7, <1>8 DEF MemberInv, Sound

-----------------------------------------------------------------------------
(* The shapes a step can have                                              *)

\* Every request is left alone or may rely on what it relies on.
RequestsOK == \A q \in Procs : req'[q] = req[q] \/ RequestOK(req[q])'

LEMMA FinishOK ==
  ASSUME TypeInv, NEW p \in Procs, Finish(p)  PROVE RequestsOK
<1>1. req' = [req EXCEPT ![p] = NoRequest] /\ req \in [Procs -> Request]
  BY DEF Finish, TypeInv, TypeOK
<1>2. \A q \in Procs : req'[q] = req[q] \/ req'[q] = NoRequest
  BY <1>1
<1>3. \A q \in Procs : req'[q] = NoRequest => RequestOK(req[q])'
  BY DEF NoRequest, RequestOK, PastGuard, GroupTaskSeen
<1> QED BY <1>2, <1>3 DEF RequestsOK

LEMMA GotoOK ==
  ASSUME TypeInv, MemberInv, UNCHANGED people,
         NEW p \in Procs, NEW pc, Goto(p, pc),
         pc \in PastGuard => WasLetIn(req[p].actor, req[p].task),
         pc \in GroupTaskSeen => TargetTask(req[p]) \in groupTasks,
         pc \in {"assign_upsert", "assign_mail"} => req[p].target \in wasMember,
         pc = "assign_mail" => LinkHasRow(LinkOf(req[p], req[p].target))'
  PROVE  RequestsOK
<1>1. /\ req' = [req EXCEPT ![p].pc = pc] /\ req \in [Procs -> Request]
      /\ wasMember' = wasMember
  BY DEF Goto, TypeInv, TypeOK, people
<1>2. \A q \in Procs \ {p} : req'[q] = req[q]
  BY <1>1
<1>3. /\ req'[p].pc = pc /\ req'[p].op = req[p].op
      /\ req'[p].actor = req[p].actor /\ req'[p].task = req[p].task
      /\ req'[p].sub = req[p].sub /\ req'[p].target = req[p].target
  BY <1>1 DEF Request
<1>4. \A u, t : WasLetIn(u, t)' = WasLetIn(u, t)
  BY <1>1 DEF WasLetIn
<1>5. RequestOK(req[p])'
  BY <1>1, <1>3, <1>4 DEF RequestOK, TargetTask, MemberInv
<1> QED BY <1>2, <1>5 DEF RequestsOK

\* A step that writes no assignee and mails nothing.
LEMMA QuietSound ==
  ASSUME MemberInv, RequestsOK,
         UNCHANGED <<assignee, subAssignee, people, mailed, tx>>
  PROVE  Sound
BY DEF Sound, MemberInv, RequestsOK, people

\* A statement of a transaction.
LEMMA WriteSound ==
  ASSUME TypeInv, MemberInv, RequestsOK, UNCHANGED <<tables, people, mailed>>,
         NEW p \in Procs, NEW rows,
         NEW table \in {"task", "assignee", "subTask", "subAssignee"},
         Write(p, table, rows),
         table = "assignee" =>
           \A k \in DOMAIN rows : rows[k] # NoRow /\ Backed(k),
         table = "subAssignee" =>
           \A k \in DOMAIN rows : rows[k] # NoRow /\ SubBacked(k)
  PROVE  Sound
<1>1. tx \in [Procs -> Transaction]
  BY DEF TypeInv, TypeOK
<1>2. tx' = [tx EXCEPT ![p][table] = Over(rows, @)]
  BY DEF Write
<1>3. \A q \in Procs : \A k \in DOMAIN tx'[q].assignee :
        \/ k \in DOMAIN tx[q].assignee /\ tx'[q].assignee[k] = tx[q].assignee[k]
        \/ tx'[q].assignee[k] # NoRow /\ Backed(k)
  <2> SUFFICES ASSUME NEW q \in Procs, NEW k \in DOMAIN tx'[q].assignee
               PROVE  \/ /\ k \in DOMAIN tx[q].assignee
                         /\ tx'[q].assignee[k] = tx[q].assignee[k]
                      \/ tx'[q].assignee[k] # NoRow /\ Backed(k)
    OBVIOUS
  <2>1. CASE q = p /\ table = "assignee"
    <3>1. tx'[q].assignee = Over(rows, tx[q].assignee)
      BY <1>1, <1>2, <2>1 DEF Transaction
    <3> QED BY <2>1, <3>1 DEF Over
  <2>2. CASE ~(q = p /\ table = "assignee")
    <3>1. tx'[q].assignee = tx[q].assignee
      BY <1>1, <1>2, <2>2 DEF Transaction
    <3> QED BY <3>1
  <2> QED BY <2>1, <2>2
<1>4. \A q \in Procs : \A k \in DOMAIN tx'[q].subAssignee :
        \/ /\ k \in DOMAIN tx[q].subAssignee
           /\ tx'[q].subAssignee[k] = tx[q].subAssignee[k]
        \/ tx'[q].subAssignee[k] # NoRow /\ SubBacked(k)
  <2> SUFFICES ASSUME NEW q \in Procs, NEW k \in DOMAIN tx'[q].subAssignee
               PROVE  \/ /\ k \in DOMAIN tx[q].subAssignee
                         /\ tx'[q].subAssignee[k] = tx[q].subAssignee[k]
                      \/ tx'[q].subAssignee[k] # NoRow /\ SubBacked(k)
    OBVIOUS
  <2>1. CASE q = p /\ table = "subAssignee"
    <3>1. tx'[q].subAssignee = Over(rows, tx[q].subAssignee)
      BY <1>1, <1>2, <2>1 DEF Transaction
    <3> QED BY <2>1, <3>1 DEF Over
  <2>2. CASE ~(q = p /\ table = "subAssignee")
    <3>1. tx'[q].subAssignee = tx[q].subAssignee
      BY <1>1, <1>2, <2>2 DEF Transaction
    <3> QED BY <3>1
  <2> QED BY <2>1, <2>2
<1> QED BY <1>3, <1>4 DEF Sound, MemberInv, RequestsOK, people, tables

\* A write of one row that is committed at once.
LEMMA RowSound ==
  ASSUME TypeInv, MemberInv, RequestsOK, UNCHANGED <<people, mailed, tx>>,
         NEW k, NEW st, st # NoRow,
         \/ /\ assignee' = [assignee EXCEPT ![k] = st]
            /\ Backed(k) /\ UNCHANGED subAssignee
         \/ /\ subAssignee' = [subAssignee EXCEPT ![k] = st]
            /\ SubBacked(k) /\ UNCHANGED assignee
  PROVE  Sound
<1>1. /\ assignee \in [Tasks \X Users -> AssigneeRow]
      /\ subAssignee \in [SubTasks \X Users -> AssigneeRow]
  BY DEF TypeInv, TypeOK
<1>2. /\ \A x \in Tasks \X Users :
           assignee'[x] = assignee[x] \/ (assignee'[x] # NoRow /\ Backed(x))
      /\ \A x \in SubTasks \X Users :
           \/ subAssignee'[x] = subAssignee[x]
           \/ subAssignee'[x] # NoRow /\ SubBacked(x)
  BY <1>1
<1> QED BY <1>2 DEF Sound, MemberInv, RequestsOK, people

-----------------------------------------------------------------------------
(* Calls, guards, and the end of a request                                 *)

LEMMA CallSound ==
  ASSUME TypeInv, MemberInv, NEW p \in Procs, Call(p)  PROVE Sound
<1>1. req \in [Procs -> Request]
  BY DEF TypeInv, TypeOK
<1>2. ASSUME NEW r, Receive(p, r),
             r.pc \in {"guard", "sub_guard", "assign_target", "decide_read"},
             r.op \in {"report", "assign"} => r.sub = Null,
             r.op = "decide" => r.actor \in wasMember
      PROVE  Sound
  <2>1. \A q \in Procs : req'[q] = req[q] \/ req'[q] = r
    BY <1>1, <1>2 DEF Receive
  <2>2. wasMember' = wasMember
    BY <1>2 DEF Receive, people
  <2>3. \A q \in Procs : req'[q] = r => RequestOK(req[q])'
    BY <1>2, <2>2 DEF RequestOK, PastGuard, GroupTaskSeen
  <2> QED BY <1>2, <2>1, <2>3, QuietSound DEF RequestsOK, Receive, tables
<1>3. CASE TaskCall(p)
  BY <1>2, <1>3 DEF TaskCall, PostClose, PostArchive, PostRestore, PostReport,
                    NoRequest
<1>4. CASE PostAssign(p) \/ PostAssignSub(p)
  BY <1>2, <1>4 DEF PostAssign, PostAssignSub, NoRequest
<1>5. CASE GetDecision(p)
  <2>1. PICK l \in mailed, st \in DecisionStatus :
          Receive(p, [NoRequest EXCEPT !.op = "decide", !.pc = "decide_read",
                                       !.actor = l.user, !.task = l.task,
                                       !.sub = l.sub, !.status = st])
    BY <1>5 DEF GetDecision
  <2>2. LinkOK(l)
    BY DEF MemberInv
  <2> QED BY <1>2, <2>1, <2>2 DEF LinkOK, NoRequest
<1>6. CASE SubTaskCall(p)
  BY <1>2, <1>6 DEF SubTaskCall, PostCreateSub, PostCloseSub, PostRestoreSub,
                    PostReportSub, PostSub, NoRequest
<1> QED BY <1>3, <1>4, <1>5, <1>6 DEF Call, AssignmentCall

\* The guard lets through members only, and a member has been one.
LEMMA GuardSound ==
  ASSUME TypeInv, MemberInv, NEW p \in Procs,
         TaskMemberGuard(p) \/ SubTaskExistsGuard(p)
  PROVE  Sound
<1>1. CASE SubTaskExistsGuard(p)
  <2>1. RequestsOK
    BY <1>1, FinishOK, GotoOK DEF SubTaskExistsGuard, PastGuard, GroupTaskSeen
  <2> QED BY <1>1, <2>1, QuietSound DEF SubTaskExistsGuard, tables
<1>2. CASE TaskMemberGuard(p)
  <2>1. CASE ~IsMember(req[p].actor, req[p].task)
    BY <1>2, <2>1, FinishOK, QuietSound DEF TaskMemberGuard, tables
  <2>2. CASE IsMember(req[p].actor, req[p].task)
    <3>1. /\ req[p] \in Request /\ req \in [Procs -> Request]
          /\ Parameters(req[p]) /\ Handler(req[p]) /\ req[p].pc = "guard"
      BY <1>2 DEF TaskMemberGuard, TypeInv, TypeOK, RequestInv, GoodRequest
    <3>2. /\ wasMember' = wasMember
          /\ UNCHANGED <<assignee, subAssignee, people, mailed, tx>>
      BY <1>2 DEF TaskMemberGuard, tables, people
    <3>3. /\ \A q \in Procs \ {p} : req'[q] = req[q]
          /\ req'[p].pc = ServiceEntry[req[p].op] /\ req'[p].op = req[p].op
          /\ req'[p].actor = req[p].actor /\ req'[p].task = req[p].task
          /\ req'[p].sub = req[p].sub /\ req'[p].target = req[p].target
      BY <1>2, <2>2, <3>1 DEF TaskMemberGuard, Request
    <3>4. WasLetIn(req[p].actor, req[p].task)
      BY <2>2, <3>1 DEF WasLetIn, IsMember, MemberInv, Parameters, Handler
    <3>5. /\ req[p].op # "decide"
          /\ ServiceEntry[req[p].op] \notin GroupTaskSeen
      BY <3>1 DEF Handler, ServiceEntry, GroupTaskSeen
    <3>6. req[p].op \in {"report", "assign"} => req[p].sub = Null
      BY DEF MemberInv, RequestOK
    <3>7. RequestOK(req[p])'
      BY <3>2, <3>3, <3>4, <3>5, <3>6 DEF RequestOK, WasLetIn, GroupTaskSeen
    <3> QED BY <3>2, <3>3, <3>7, QuietSound DEF RequestsOK
  <2> QED BY <2>1, <2>2
<1> QED BY <1>1, <1>2

\* What is committed is sound already; what is rolled back is nothing.
LEMMA EndSound ==
  ASSUME TypeInv, MemberInv, NEW p \in Procs, Commit(p) \/ Abort(p)
  PROVE  Sound
<1>1. RequestsOK
  BY FinishOK DEF Commit, Abort
<1>2. tx' = [tx EXCEPT ![p] = NoWrites] /\ UNCHANGED <<people, mailed>>
  BY DEF Commit, Abort
<1>3. \A q \in Procs :
        \/ tx'[q] = tx[q]
        \/ DOMAIN tx'[q].assignee = {} /\ DOMAIN tx'[q].subAssignee = {}
  BY <1>2 DEF NoWrites, Clean, TypeInv, TypeOK
<1>4. /\ assignee \in [Tasks \X Users -> AssigneeRow]
      /\ subAssignee \in [SubTasks \X Users -> AssigneeRow]
  BY DEF TypeInv, TypeOK
<1>5. \A k \in Tasks \X Users :
        assignee'[k] = assignee[k] \/ (assignee'[k] # NoRow /\ Backed(k))
  BY <1>4 DEF Commit, Abort, AssigneeView, Over, MemberInv, tables
<1>6. \A k \in SubTasks \X Users :
        \/ subAssignee'[k] = subAssignee[k]
        \/ subAssignee'[k] # NoRow /\ SubBacked(k)
  BY <1>4 DEF Commit, Abort, SubAssigneeView, Over, MemberInv, tables
<1> QED BY <1>1, <1>2, <1>3, <1>5, <1>6 DEF Sound, MemberInv, RequestsOK, people

LEMMA MembershipSound ==
  ASSUME TypeInv, MemberInv, NEW u \in Users, ChangeMembership(u)  PROVE Sound
<1>1. PICK r \in GroupRole \cup {NoRow} :
        /\ role' = [role EXCEPT ![u] = r]
        /\ wasMember' = IF r = NoRow THEN wasMember ELSE wasMember \cup {u}
  BY DEF ChangeMembership
<1>2. UNCHANGED <<assignee, subAssignee, mailed, tx, req>>
  BY DEF ChangeMembership, tables
<1> QED BY <1>1, <1>2 DEF Sound, MemberInv, TypeInv, TypeOK

-----------------------------------------------------------------------------
(* The steps of the task routes                                            *)

\* A transaction sees rows of people who may have them, and no others.
LEMMA ViewBacked ==
  ASSUME TypeInv, MemberInv, NEW p \in Procs
  PROVE  /\ \A k \in Tasks \X Users : AssigneeView(p)[k] # NoRow => Backed(k)
         /\ \A k \in SubTasks \X Users :
              SubAssigneeView(p)[k] # NoRow => SubBacked(k)
<1>1. /\ DOMAIN assignee = Tasks \X Users
      /\ DOMAIN subAssignee = SubTasks \X Users
  BY DEF TypeInv, TypeOK
<1> QED BY <1>1 DEF AssigneeView, SubAssigneeView, Over, MemberInv

LEMMA MoveAssigneesSound ==
  ASSUME TypeInv, MemberInv, RequestsOK, UNCHANGED <<tables, people, mailed>>,
         NEW p \in Procs, req[p].op # "none", NEW from, NoRow \notin from,
         NEW to, to # NoRow, MoveAssignees(p, from, to)
  PROVE  Sound
<1> DEFINE D == AssigneesIn(AssigneeView(p), req[p], from)
           rows == [k \in D |-> to]
<1>1. req[p].task \in Tasks
  BY DEF TypeInv, RequestInv, GoodRequest, Parameters
<1>2. \A k \in D : Backed(k)
  BY <1>1, ViewBacked DEF AssigneesIn
<1>3. Write(p, "assignee", rows)
  BY DEF MoveAssignees
<1>4. \A k \in DOMAIN rows : rows[k] # NoRow /\ Backed(k)
  BY <1>2
<1> HIDE DEF rows
<1> QED BY <1>3, <1>4, WriteSound

LEMMA MoveSubAssigneesSound ==
  ASSUME TypeInv, MemberInv, RequestsOK, UNCHANGED <<tables, people, mailed>>,
         NEW p \in Procs, req[p].op \in SubOps, NEW from, from # NoRow,
         NEW to, to # NoRow, MoveSubAssignees(p, from, to)
  PROVE  Sound
<1> DEFINE D == SubAssigneesIn(p, {from})
           rows == [k \in D |-> to]
<1>1. req[p].sub \in SubTasks
  BY DEF TypeInv, RequestInv, GoodRequest, Parameters
<1>2. \A k \in D : SubBacked(k)
  BY <1>1, ViewBacked DEF SubAssigneesIn
<1>3. Write(p, "subAssignee", rows)
  BY DEF MoveSubAssignees
<1>4. \A k \in DOMAIN rows : rows[k] # NoRow /\ SubBacked(k)
  BY <1>2
<1> HIDE DEF rows
<1> QED BY <1>3, <1>4, WriteSound

\* A statement on tasks or sub-tasks.
LEMMA ElsewhereSound ==
  ASSUME TypeInv, MemberInv, RequestsOK, UNCHANGED <<tables, people, mailed>>,
         NEW p \in Procs, NEW rows, NEW table \in {"task", "subTask"},
         Write(p, table, rows)
  PROVE  Sound
BY WriteSound

\* Going on to a step that relies on nothing.
LEMMA GotoFree ==
  ASSUME TypeInv, MemberInv, UNCHANGED people, NEW p \in Procs, NEW pc,
         pc \notin PastGuard \cup GroupTaskSeen, Goto(p, pc)
  PROVE  RequestsOK
<1>1. pc \notin {"assign_upsert", "assign_mail"}
  BY DEF GroupTaskSeen
<1> QED BY <1>1, GotoOK

TaskPC ==
  { "close_update", "close_drop", "close_skip", "close_subs", "archive_update",
    "archive_subs", "restore_read", "restore_update", "restore_cascade",
    "commit" }

LEMMA TaskRoutesSound ==
  ASSUME TypeInv, MemberInv, NEW p \in Procs,
         \/ CloseCount(p) \/ CloseUpdate(p) \/ CloseDrop(p) \/ CloseSkip(p)
         \/ CloseSubs(p)
         \/ ArchiveRead(p) \/ ArchiveUpdate(p) \/ ArchiveSubs(p)
         \/ RestorePeek(p) \/ RestoreRead(p) \/ RestoreUpdate(p)
         \/ RestoreCascade(p)
  PROVE  Sound
<1>1. \A pc \in TaskPC : pc \notin PastGuard \cup GroupTaskSeen
  BY DEF TaskPC, PastGuard, GroupTaskSeen
<1>2. UNCHANGED <<tables, people, mailed>>
  BY DEF CloseCount, CloseUpdate, CloseDrop, CloseSkip, CloseSubs,
         ArchiveRead, ArchiveUpdate, ArchiveSubs, RestorePeek, RestoreRead,
         RestoreUpdate, RestoreCascade, InTransaction
<1>3. Handler(req[p]) /\ req[p] \in Request /\ req \in [Procs -> Request]
  BY DEF TypeInv, TypeOK, RequestInv, GoodRequest
<1>4. CASE CloseCount(p)
  <2>1. \A q \in Procs :
          req'[q] = req[q] \/ RequestOK(req[q])'
    <3>1. CASE Finish(p)
      BY <3>1, FinishOK DEF RequestsOK
    <3>2. CASE req' = [req EXCEPT ![p].pc = "close_update",
                                  ![p].hasOpenItems = HasOpenItems(req[p].task)]
      <4>1. /\ \A q \in Procs \ {p} : req'[q] = req[q]
            /\ req'[p].pc = "close_update" /\ req'[p].op = req[p].op
        BY <1>3, <3>2 DEF Request
      <4>2. req[p].op = "close"
        BY <1>3, <1>4 DEF CloseCount, Handler
      <4>3. RequestOK(req[p])'
        BY <4>1, <4>2 DEF RequestOK, PastGuard, GroupTaskSeen
      <4> QED BY <4>1, <4>3
    <3> QED BY <1>4, <3>1, <3>2 DEF CloseCount
  <2> QED BY <1>4, <2>1, QuietSound DEF CloseCount, RequestsOK, tables
<1>5. CASE ArchiveRead(p) \/ RestoreRead(p)
  <2>1. Finish(p) \/ \E pc \in TaskPC : Goto(p, pc)
    BY <1>5 DEF ArchiveRead, RestoreRead, TaskPC
  <2>2. RequestsOK
    BY <1>1, <1>2, <2>1, FinishOK, GotoFree
  <2> QED BY <1>5, <2>2, QuietSound DEF ArchiveRead, RestoreRead, tables
<1>6. CASE RestorePeek(p)
  <2>1. /\ \A q \in Procs \ {p} : req'[q] = req[q]
        /\ req'[p].pc = "restore_read" /\ req'[p].op = req[p].op
    BY <1>3, <1>6 DEF RestorePeek, Request
  <2>2. req[p].op = "restore"
    BY <1>3, <1>6 DEF RestorePeek, Handler
  <2>3. RequestOK(req[p])'
    BY <2>1, <2>2 DEF RequestOK, PastGuard, GroupTaskSeen
  <2> QED BY <1>6, <2>1, <2>3, QuietSound DEF RestorePeek, RequestsOK, tables
<1>7. CASE CloseUpdate(p) \/ ArchiveUpdate(p) \/ RestoreUpdate(p)
  <2>1. \E pc \in TaskPC : Goto(p, pc)
    BY <1>7 DEF CloseUpdate, ArchiveUpdate, RestoreUpdate, TaskPC
  <2>2. RequestsOK
    BY <1>1, <1>2, <2>1, GotoFree
  <2>3. \E rows : Write(p, "task", rows)
    BY <1>7 DEF CloseUpdate, ArchiveUpdate, RestoreUpdate, WriteTask
  <2> QED BY <1>2, <2>2, <2>3, ElsewhereSound
<1>8. CASE CloseSubs(p) \/ ArchiveSubs(p)
  <2>1. \E pc \in TaskPC : Goto(p, pc)
    BY <1>8 DEF CloseSubs, ArchiveSubs, TaskPC
  <2>2. RequestsOK
    BY <1>1, <1>2, <2>1, GotoFree
  <2>3. \E rows : Write(p, "subTask", rows)
    BY <1>8 DEF CloseSubs, ArchiveSubs, MoveSubTasks
  <2> QED BY <1>2, <2>2, <2>3, ElsewhereSound
<1>9. CASE CloseDrop(p) \/ CloseSkip(p) \/ RestoreCascade(p)
  <2>1. \E pc \in TaskPC : Goto(p, pc)
    BY <1>9 DEF CloseDrop, CloseSkip, RestoreCascade, TaskPC
  <2>2. RequestsOK
    BY <1>1, <1>2, <2>1, GotoFree
  <2>3. req[p].op # "none"
    BY <1>3, <1>9 DEF CloseDrop, CloseSkip, RestoreCascade, Handler
  <2>4. \/ MoveAssignees(p, {"ACCEPTED"}, "DROPPED")
        \/ MoveAssignees(p, {"PENDING"}, "SKIPPED")
        \/ MoveAssignees(p, {"SKIPPED", "DROPPED"}, "PENDING")
        \/ \E rows : Write(p, "subTask", rows)
    BY <1>9 DEF CloseDrop, CloseSkip, RestoreCascade, MoveSubTasks
  <2>5. ASSUME NEW from, NoRow \notin from, NEW to, to # NoRow,
               MoveAssignees(p, from, to)
        PROVE  Sound
    BY <1>2, <2>2, <2>3, <2>5, MoveAssigneesSound
  <2>6. /\ NoRow \notin {"ACCEPTED"} /\ NoRow \notin {"PENDING"}
        /\ NoRow \notin {"SKIPPED", "DROPPED"}
        /\ NoRow # "DROPPED" /\ NoRow # "SKIPPED" /\ NoRow # "PENDING"
    BY DEF NoRow
  <2> QED BY <1>2, <2>2, <2>4, <2>5, <2>6, ElsewhereSound
<1> QED BY <1>4, <1>5, <1>6, <1>7, <1>8, <1>9

\* Claiming and reporting: whoever got here was a member when guarded.
LEMMA ReportSound ==
  ASSUME TypeInv, MemberInv, NEW p \in Procs,
         ReportRead(p) \/ ReportClaim(p) \/ ReportWrite(p)
  PROVE  Sound
<1>1. /\ Handler(req[p]) /\ Parameters(req[p]) /\ RequestOK(req[p])
      /\ req[p].op = "report"
  BY DEF TypeInv, RequestInv, GoodRequest, MemberInv, Handler, ReportRead,
         ReportClaim, ReportWrite
<1>2. WasLetIn(req[p].actor, req[p].task)
  BY <1>1 DEF RequestOK, PastGuard, ReportRead, ReportClaim, ReportWrite
<1>3. CASE ReportRead(p)
  <2>1. UNCHANGED <<assignee, subAssignee, people, mailed, tx>>
    BY <1>3 DEF ReportRead, tables
  <2>2. \/ Finish(p)
        \/ /\ req[p].task \in groupTasks
           /\ \E pc \in {"report_claim", "report_write"} : Goto(p, pc)
    BY <1>3 DEF ReportRead
  <2>3. RequestsOK
    BY <1>1, <1>2, <2>1, <2>2, FinishOK, GotoOK DEF RequestOK, TargetTask
  <2> QED BY <2>1, <2>3, QuietSound
<1>4. CASE ReportClaim(p) \/ ReportWrite(p)
  <2> DEFINE k == <<req[p].task, req[p].actor>>
  <2>1. req[p].task \in groupTasks
    BY <1>1, <1>4 DEF RequestOK, GroupTaskSeen, TargetTask, ReportClaim,
                      ReportWrite
  <2>2. Backed(k)
    BY <1>2, <2>1 DEF Backed, WasLetIn
  <2>3. RequestsOK /\ UNCHANGED <<subAssignee, people, mailed, tx>>
    BY <1>4, FinishOK DEF ReportClaim, ReportWrite
  <2>4. "ACCEPTED" # NoRow /\ req[p].status # NoRow
    BY <1>1 DEF Parameters, AssignmentStatus, NoRow
  <2>5. \/ UNCHANGED assignee
        \/ assignee' = [assignee EXCEPT ![k] = "ACCEPTED"]
        \/ assignee' = [assignee EXCEPT ![k] = req[p].status]
    BY <1>4 DEF ReportClaim, ReportWrite
  <2>6. CASE UNCHANGED assignee
    BY <2>3, <2>6, QuietSound
  <2>7. ASSUME NEW st, st # NoRow, assignee' = [assignee EXCEPT ![k] = st]
        PROVE  Sound
    BY <2>2, <2>3, <2>7, RowSound
  <2> QED BY <2>4, <2>5, <2>6, <2>7
<1> QED BY <1>3, <1>4

-----------------------------------------------------------------------------
(* The steps of the assignment manager                                     *)

\* The row of somebody who has been a member, in a task of the group.
LEMMA SetRowSound ==
  ASSUME StoreAssumption, TypeInv, MemberInv, RequestsOK,
         UNCHANGED <<people, mailed, tx>>,
         NEW p \in Procs, NEW u \in wasMember, NEW st, st # NoRow,
         TargetTask(req[p]) \in groupTasks,
         SetRow(p, req[p], u, st)
  PROVE  Sound
<1>1. CASE req[p].sub = Null
  <2>1. Backed(<<req[p].task, u>>)
    BY <1>1 DEF Backed, TargetTask
  <2>2. /\ assignee' = [assignee EXCEPT ![<<req[p].task, u>>] = st]
        /\ UNCHANGED subAssignee
    BY <1>1 DEF SetRow
  <2> QED BY <2>1, <2>2, RowSound
<1>2. CASE req[p].sub # Null
  <2>1. SubBacked(<<req[p].sub, u>>)
    BY DEF SubBacked, WasLetIn, StoreAssumption
  <2>2. /\ subAssignee' = [subAssignee EXCEPT ![<<req[p].sub, u>>] = st]
        /\ UNCHANGED assignee
    BY <1>2 DEF SetRow
  <2> QED BY <2>1, <2>2, RowSound
<1> QED BY <1>1, <1>2

AssignPC == {"assign_assigner", "assign_assignee", "assign_upsert"}

LEMMA AssignSound ==
  ASSUME StoreAssumption, TypeInv, MemberInv, NEW p \in Procs,
         \/ AssignTarget(p) \/ AssignAssigner(p) \/ AssignAssignee(p)
         \/ AssignUpsert(p) \/ AssignMail(p)
  PROVE  Sound
<1>1. /\ Handler(req[p]) /\ Parameters(req[p]) /\ RequestOK(req[p])
      /\ req[p] \in Request /\ req \in [Procs -> Request]
  BY DEF TypeInv, TypeOK, RequestInv, GoodRequest, MemberInv
<1>2. req[p].op \in {"assign", "assignSub"}
  BY <1>1 DEF Handler, AssignTarget, AssignAssigner, AssignAssignee,
              AssignUpsert, AssignMail
<1>3. /\ req[p].task \in Tasks /\ req[p].target \in Users
      /\ req[p].sub \in SubTasks \cup {Null}
  BY <1>1, <1>2 DEF Parameters, Request
<1>4. CASE AssignTarget(p) \/ AssignAssigner(p) \/ AssignAssignee(p)
  <2>1. UNCHANGED <<assignee, subAssignee, people, mailed, tx>>
    BY <1>4 DEF AssignTarget, AssignAssigner, AssignAssignee, tables
  <2>2. \/ Finish(p)
        \/ Goto(p, "assign_assigner") /\ TargetTask(req[p]) \in groupTasks
        \/ Goto(p, "assign_assignee") /\ req[p].pc = "assign_assigner"
        \/ /\ Goto(p, "assign_upsert") /\ req[p].pc = "assign_assignee"
           /\ role[req[p].target] # NoRow
    BY <1>4 DEF AssignTarget, AssignAssigner, AssignAssignee, MayBeAssigned
  <2>3. req[p].pc \in {"assign_assigner", "assign_assignee"} =>
          TargetTask(req[p]) \in groupTasks
    BY <1>1 DEF RequestOK, GroupTaskSeen
  <2>4. role[req[p].target] # NoRow => req[p].target \in wasMember
    BY <1>3 DEF MemberInv
  <2>5. \A pc \in AssignPC : pc \notin PastGuard /\ pc # "assign_mail"
    BY DEF AssignPC, PastGuard
  <2>6. RequestsOK
    BY <2>1, <2>2, <2>3, <2>4, <2>5, FinishOK, GotoOK DEF AssignPC
  <2> QED BY <2>1, <2>6, QuietSound
<1>5. CASE AssignUpsert(p)
  <2>1. TargetTask(req[p]) \in groupTasks /\ req[p].target \in wasMember
    BY <1>1, <1>5 DEF RequestOK, GroupTaskSeen, AssignUpsert
  <2>2. AssignedStatus(req[p]) # NoRow
    BY DEF AssignedStatus, NoRow
  <2>3. /\ SetRow(p, req[p], req[p].target, AssignedStatus(req[p]))
        /\ UNCHANGED <<people, mailed, tx>>
    BY <1>5 DEF AssignUpsert
  <2>4. RequestsOK
    <3>1. CASE Finish(p)
      BY <3>1, FinishOK
    <3>2. CASE Goto(p, "assign_mail")
      <4>1. /\ req'[p].task = req[p].task /\ req'[p].sub = req[p].sub
            /\ req'[p].target = req[p].target
        BY <1>1, <3>2 DEF Goto, Request
      <4>2. /\ assignee \in [Tasks \X Users -> AssigneeRow]
            /\ subAssignee \in [SubTasks \X Users -> AssigneeRow]
        BY DEF TypeInv, TypeOK
      <4>3. IF req[p].sub = Null
            THEN assignee'[<<req[p].task, req[p].target>>] # NoRow
            ELSE subAssignee'[<<req[p].sub, req[p].target>>] # NoRow
        BY <1>3, <2>2, <2>3, <4>2 DEF SetRow
      <4>4. LinkHasRow(LinkOf(req[p], req[p].target))'
        BY <4>1, <4>3 DEF LinkHasRow, LinkOf, TargetTask
      <4>5. "assign_mail" \notin PastGuard
        BY DEF PastGuard
      <4> QED BY <2>1, <2>3, <3>2, <4>4, <4>5, GotoOK
    <3> QED BY <1>5, <3>1, <3>2 DEF AssignUpsert
  <2> QED BY <1>3, <2>1, <2>2, <2>3, <2>4, SetRowSound
<1>6. CASE AssignMail(p)
  <2> PICK l : l = LinkOf(req[p], req[p].target)
    OBVIOUS
  <2>1. mailed' = mailed \cup {l} /\ UNCHANGED <<tables, people, tx>>
    BY <1>6 DEF AssignMail
  <2>2. l.user \in wasMember /\ LinkHasRow(l)
    BY <1>1, <1>6 DEF RequestOK, AssignMail, LinkOf
  <2>3. LinkOK(l)'
    BY <2>1, <2>2 DEF LinkOK, LinkHasRow, tables, people
  <2>4. RequestsOK
    BY <1>6, FinishOK DEF AssignMail
  <2> QED BY <2>1, <2>3, <2>4 DEF Sound, MemberInv, RequestsOK, tables, people
<1> QED BY <1>4, <1>5, <1>6

\* The answer to a mailed link: its user was a member when it was mailed.
LEMMA DecideSound ==
  ASSUME StoreAssumption, TypeInv, MemberInv, NEW p \in Procs,
         DecideRead(p) \/ DecideWrite(p)
  PROVE  Sound
<1>1. Handler(req[p]) /\ RequestOK(req[p])
  BY DEF TypeInv, RequestInv, GoodRequest, MemberInv
<1>2. CASE DecideRead(p)
  <2>1. UNCHANGED <<assignee, subAssignee, people, mailed, tx>>
    BY <1>2 DEF DecideRead, tables
  <2>2. \/ Finish(p)
        \/ Goto(p, "decide_write") /\ TargetTask(req[p]) \in groupTasks
    BY <1>2 DEF DecideRead, DecisionAllowed
  <2>3. "decide_write" \notin PastGuard
    BY DEF PastGuard
  <2>4. RequestsOK
    BY <2>1, <2>2, <2>3, FinishOK, GotoOK
  <2> QED BY <2>1, <2>4, QuietSound
<1>3. CASE DecideWrite(p)
  <2>1. /\ req[p].op = "decide" /\ TargetTask(req[p]) \in groupTasks
        /\ req[p].actor \in wasMember
    BY <1>1, <1>3 DEF DecideWrite, Handler, RequestOK, GroupTaskSeen
  <2>2. req[p].status # NoRow
    BY <1>1, <1>3 DEF DecideWrite, Handler, AssignmentStatus, NoRow
  <2>3. /\ SetRow(p, req[p], req[p].actor, req[p].status)
        /\ UNCHANGED <<people, mailed, tx>>
    BY <1>3 DEF DecideWrite
  <2>4. RequestsOK
    BY <1>3, FinishOK DEF DecideWrite
  <2> QED BY <2>1, <2>2, <2>3, <2>4, SetRowSound
<1> QED BY <1>2, <1>3

-----------------------------------------------------------------------------
(* The steps of the sub-task routes                                        *)

SubPC ==
  { "closeSub_own", "closeSub_upsert", "closeSub_drop", "closeSub_skip",
    "restoreSub_accept", "restoreSub_pend", "commit",
    "reportSub_claim", "reportSub_write" }

\* Within a sub-task handler what the guard established is kept.
LEMMA SubGoto ==
  ASSUME TypeInv, MemberInv, UNCHANGED people, NEW p \in Procs,
         NEW pc \in SubPC, Goto(p, pc),
         pc \in PastGuard => req[p].pc \in PastGuard
  PROVE  RequestsOK
<1>1. pc \in PastGuard => WasLetIn(req[p].actor, req[p].task)
  BY DEF MemberInv, RequestOK
<1>2. pc \notin GroupTaskSeen /\ pc \notin {"assign_upsert", "assign_mail"}
  BY DEF SubPC, GroupTaskSeen
<1> QED BY <1>1, <1>2, GotoOK

LEMMA CloseRestoreSubSound ==
  ASSUME TypeInv, MemberInv, NEW p \in Procs,
         \/ CloseSubUpdate(p) \/ CloseSubOwn(p) \/ CloseSubUpsert(p)
         \/ CloseSubDrop(p) \/ CloseSubSkip(p)
         \/ RestoreSubUpdate(p) \/ RestoreSubAccept(p) \/ RestoreSubPend(p)
  PROVE  Sound
<1>1. UNCHANGED <<tables, people, mailed>>
  BY DEF CloseSubUpdate, CloseSubOwn, CloseSubUpsert, CloseSubDrop,
         CloseSubSkip, RestoreSubUpdate, RestoreSubAccept, RestoreSubPend,
         InSubTransaction
<1>2. /\ Handler(req[p]) /\ Parameters(req[p]) /\ RequestOK(req[p])
      /\ req[p].op \in {"closeSub", "restoreSub"}
  BY DEF TypeInv, RequestInv, GoodRequest, MemberInv, Handler,
         CloseSubUpdate, CloseSubOwn, CloseSubUpsert, CloseSubDrop,
         CloseSubSkip, RestoreSubUpdate, RestoreSubAccept, RestoreSubPend
<1>3. /\ req[p].op \in SubOps /\ req[p].actor \in Users
      /\ req[p].sub \in SubTasks /\ req[p].task \in Tasks
  BY <1>2 DEF Parameters, SubOps
<1>4. RequestsOK
  <2>1. \E pc \in SubPC :
          Goto(p, pc) /\ (pc \in PastGuard => req[p].pc \in PastGuard)
    BY DEF SubPC, PastGuard, CloseSubUpdate, CloseSubOwn, CloseSubUpsert,
           CloseSubDrop, CloseSubSkip, RestoreSubUpdate, RestoreSubAccept,
           RestoreSubPend
  <2> QED BY <1>1, <2>1, SubGoto
<1>5. CASE CloseSubUpdate(p) \/ RestoreSubUpdate(p)
  <2>1. \E rows : Write(p, "subTask", rows)
    BY <1>5 DEF CloseSubUpdate, RestoreSubUpdate
  <2> QED BY <1>1, <1>4, <2>1, ElsewhereSound
<1>6. CASE CloseSubOwn(p)
  BY <1>4, <1>6, QuietSound DEF CloseSubOwn, tables
<1>7. CASE CloseSubUpsert(p)
  <2> DEFINE k == <<req[p].sub, req[p].actor>>
             rows == [x \in {k} |-> "COMPLETED"]
  <2>1. WasLetIn(req[p].actor, req[p].task)
    BY <1>2, <1>7 DEF RequestOK, PastGuard, CloseSubUpsert
  <2>2. SubBacked(k)
    BY <1>3, <2>1 DEF SubBacked
  <2>3. Write(p, "subAssignee", rows)
    BY <1>7 DEF CloseSubUpsert
  <2>4. \A x \in DOMAIN rows : rows[x] # NoRow /\ SubBacked(x)
    BY <2>2 DEF NoRow
  <2> HIDE DEF rows
  <2> QED BY <1>1, <1>4, <2>3, <2>4, WriteSound
<1>8. CASE \/ CloseSubDrop(p) \/ CloseSubSkip(p)
           \/ RestoreSubAccept(p) \/ RestoreSubPend(p)
  <2>1. \E from, to \in AssignmentStatus : MoveSubAssignees(p, from, to)
    BY <1>8 DEF CloseSubDrop, CloseSubSkip, RestoreSubAccept, RestoreSubPend,
                AssignmentStatus
  <2>2. \A st \in AssignmentStatus : st # NoRow
    BY DEF AssignmentStatus, NoRow
  <2> QED BY <1>1, <1>3, <1>4, <2>1, <2>2, MoveSubAssigneesSound
<1> QED BY <1>5, <1>6, <1>7, <1>8

LEMMA CreateReportSubSound ==
  ASSUME TypeInv, MemberInv, NEW p \in Procs,
         \/ CreateSubInsert(p) \/ ReportSubTask(p) \/ ReportSubOwn(p)
         \/ ReportSubClaim(p) \/ ReportSubWrite(p)
  PROVE  Sound
<1>1. /\ Handler(req[p]) /\ Parameters(req[p]) /\ RequestOK(req[p])
      /\ req[p] \in Request /\ req \in [Procs -> Request]
  BY DEF TypeInv, TypeOK, RequestInv, GoodRequest, MemberInv
<1>2. CASE CreateSubInsert(p)
  BY <1>2, FinishOK, QuietSound DEF CreateSubInsert
<1>3. CASE ReportSubTask(p)
  <2>1. /\ \A q \in Procs \ {p} : req'[q] = req[q]
        /\ req'[p].pc = "reportSub_own" /\ req'[p].op = req[p].op
        /\ req'[p].actor = req[p].actor /\ req'[p].task = req[p].task
    BY <1>1, <1>3 DEF ReportSubTask, Request
  <2>2. req[p].op = "reportSub" /\ WasLetIn(req[p].actor, req[p].task)
    BY <1>1, <1>3 DEF ReportSubTask, Handler, RequestOK, PastGuard
  <2>3. UNCHANGED <<assignee, subAssignee, people, mailed, tx>>
    BY <1>3 DEF ReportSubTask, tables
  <2>4. wasMember' = wasMember
    BY <2>3 DEF people
  <2>5. RequestOK(req[p])'
    BY <2>1, <2>2, <2>4 DEF RequestOK, GroupTaskSeen, WasLetIn
  <2> QED BY <2>1, <2>3, <2>5, QuietSound DEF RequestsOK
<1>4. CASE ReportSubOwn(p)
  <2>1. UNCHANGED <<assignee, subAssignee, people, mailed, tx>>
    BY <1>4 DEF ReportSubOwn, tables
  <2>2. Finish(p) \/ \E pc \in SubPC : Goto(p, pc)
    BY <1>4 DEF ReportSubOwn, SubPC
  <2>3. req[p].pc \in PastGuard
    BY <1>4 DEF ReportSubOwn, PastGuard
  <2> QED BY <2>1, <2>2, <2>3, FinishOK, SubGoto, QuietSound
<1>5. CASE ReportSubClaim(p) \/ ReportSubWrite(p)
  <2> DEFINE k == <<req[p].sub, req[p].actor>>
  <2>1. req[p].op = "reportSub" /\ WasLetIn(req[p].actor, req[p].task)
    BY <1>1, <1>5 DEF Handler, RequestOK, PastGuard, ReportSubClaim,
                      ReportSubWrite
  <2>2. SubBacked(k)
    BY <1>1, <2>1 DEF SubBacked, Parameters, SubOps
  <2>3. RequestsOK /\ UNCHANGED <<assignee, people, mailed, tx>>
    BY <1>5, FinishOK DEF ReportSubClaim, ReportSubWrite
  <2>4. "ACCEPTED" # NoRow /\ req[p].status # NoRow
    BY <1>1, <2>1 DEF Parameters, AssignmentStatus, NoRow
  <2>5. \/ UNCHANGED subAssignee
        \/ subAssignee' = [subAssignee EXCEPT ![k] = "ACCEPTED"]
        \/ subAssignee' = [subAssignee EXCEPT ![k] = req[p].status]
    BY <1>5 DEF ReportSubClaim, ReportSubWrite
  <2>6. CASE UNCHANGED subAssignee
    BY <2>3, <2>6, QuietSound
  <2>7. ASSUME NEW st, st # NoRow, subAssignee' = [subAssignee EXCEPT ![k] = st]
        PROVE  Sound
    BY <2>2, <2>3, <2>7, RowSound
  <2> QED BY <2>4, <2>5, <2>6, <2>7
<1> QED BY <1>2, <1>3, <1>4, <1>5

-----------------------------------------------------------------------------

LEMMA NextSound ==
  ASSUME StoreAssumption, TypeInv, MemberInv, [Next]_vars
  PROVE  Sound
<1>1. ASSUME NEW p \in Procs, Step(p)  PROVE Sound
  <2>1. CASE TaskMemberGuard(p) \/ SubTaskExistsGuard(p) \/ Commit(p)
    BY <2>1, GuardSound, EndSound
  <2>2. CASE TaskStep(p)
    BY <2>2, TaskRoutesSound, ReportSound DEF TaskStep
  <2>3. CASE AssignmentStep(p)
    BY <2>3, AssignSound, DecideSound DEF AssignmentStep
  <2>4. CASE SubTaskStep(p)
    BY <2>4, CloseRestoreSubSound, CreateReportSubSound DEF SubTaskStep
  <2> QED BY <1>1, <2>1, <2>2, <2>3, <2>4 DEF Step
<1>2. ASSUME NEW p \in Procs, Call(p) \/ Abort(p)  PROVE Sound
  BY <1>2, CallSound, EndSound
<1>3. ASSUME NEW u \in MutableUsers, ChangeMembership(u)  PROVE Sound
  BY <1>3, MembershipSound DEF StoreAssumption
<1>4. CASE UNCHANGED vars
  BY <1>4, QuietSound DEF vars, tables, people, RequestsOK
<1> QED BY <1>1, <1>2, <1>3, <1>4 DEF Next

\* Whatever is interleaved, TaskAssignee rows and links are only ever of people
\* who have been members, SubTaskAssignee rows of people whom the guard of some
\* task has let in, and every mailed link answers a row.
THEOREM MemberInvariant == Spec => [](TypeInv /\ MemberInv)
<1>1. Init => MemberInv
  BY MemberInit, StoreAssumption, SystemAssumption
<1>2. TypeInv /\ MemberInv /\ [Next]_vars => MemberInv'
  BY NextSound, SoundKeeps, StoreAssumption
<1> QED BY <1>1, <1>2, Typed, PTL DEF Spec

\* The assignees of a task have been members of its group, and a personal task
\* has none: report, assign and decide all check before they write, awaits ago.
THEOREM OnlyMembersAssigned == Spec => []AssigneesWereMembers
<1>1. TypeInv /\ MemberInv => AssigneesWereMembers
  BY DEF MemberInv, Backed, AssigneesWereMembers
<1> QED BY <1>1, MemberInvariant, PTL

\* A decision link is only mailed once there is a row it answers.
THEOREM LinksAnswerRows == Spec => []MailedLinkHasRow
<1>1. TypeInv /\ MemberInv => MailedLinkHasRow
  BY DEF MemberInv, LinkOK, LinkHasRow, MailedLinkHasRow
<1> QED BY <1>1, MemberInvariant, PTL

=============================================================================
