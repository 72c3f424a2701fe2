-------------------------- MODULE TaskWork_proofs --------------------------
(***************************************************************************)
(* The work of assignees, for every number of users, tasks, sub-tasks and  *)
(* requests.                                                               *)
(*                                                                         *)
(* Completed work is undone only by its owner or by an admin assigning it  *)
(* anew: no cascade does it, although the where clause that spares the     *)
(* completed rows was evaluated some awaits before the commit.  What saves *)
(* a row is its lock: whoever reports it complete meanwhile waits for the  *)
(* transaction, and the transaction took no row that was complete already. *)
(*                                                                         *)
(* Then, who waits for whom: which rows every transaction holds, and why   *)
(* no requests wait for each other; and who has work on a sub-task, which  *)
(* a transaction may hold some statements before it shows.                 *)
(*                                                                         *)
(* Last, from the same locks, that the transactions of a sub-task          *)
(* implement SubTaskCascades, and what follows for its assignees.          *)
(***************************************************************************)
EXTENDS TaskMembers_proofs

\* Where a request may have uncommitted rows.
Writing ==
  { "close_drop", "close_skip", "close_subs", "archive_subs",
    "restore_cascade", "commit",
    "closeSub_own", "closeSub_upsert", "closeSub_drop", "closeSub_skip",
    "restoreSub_accept", "restoreSub_pend" }

\* Rows about to be laid over those of f leave its completed ones completed.
Spares(w, f) ==
  \A k \in DOMAIN w : f[k] = "COMPLETED" => w[k] = "COMPLETED"

Apart(p, q) ==
  /\ DOMAIN tx[p].assignee \cap DOMAIN tx[q].assignee = {}
  /\ DOMAIN tx[p].subAssignee \cap DOMAIN tx[q].subAssignee = {}

WorkInv ==
  /\ \A p \in Procs : req[p].pc \notin Writing => tx[p] = NoWrites
  /\ \A p \in Procs, q \in Procs : p # q => Apart(p, q)
  /\ \A p \in Procs : /\ Spares(tx[p].assignee, assignee)
                      /\ Spares(tx[p].subAssignee, subAssignee)

\* The bodies of the two properties: whose work a step undoes.
Answered ==
  \A t \in Tasks, u \in Users :
    assignee[<<t, u>>] = "COMPLETED" /\ assignee'[<<t, u>>] # "COMPLETED" =>
      \E p \in Procs :
        /\ req[p].task = t /\ req'[p] # req[p]
        /\ \/ req[p].op \in {"report", "decide"} /\ req[p].actor = u
           \/ req[p].op = "assign" /\ req[p].target = u

SubAnswered ==
  \A s \in SubTasks, u \in Users :
    /\ subAssignee[<<s, u>>] = "COMPLETED"
    /\ subAssignee'[<<s, u>>] # "COMPLETED"
    => \E p \in Procs :
         /\ req[p].sub = s /\ req'[p] # req[p]
         /\ \/ req[p].op \in {"reportSub", "decide"} /\ req[p].actor = u
            \/ req[p].op = "assignSub" /\ req[p].target = u

\* What a step has to do.
Careful == WorkInv' /\ Answered /\ SubAnswered

-----------------------------------------------------------------------------
(* The shapes a step can have                                              *)

LEMMA WorkInit == Init => WorkInv
<1> SUFFICES ASSUME Init  PROVE WorkInv
  OBVIOUS
<1>1. \A p \in Procs : tx[p] = NoWrites
  BY DEF Init
<1>2. \A p \in Procs :
        DOMAIN tx[p].assignee = {} /\ DOMAIN tx[p].subAssignee = {}
  BY <1>1 DEF NoWrites, Clean
<1> QED BY <1>1, <1>2 DEF WorkInv, Apart, Spares

\* Request p goes on, and into no state that has to be free of rows with some.
Moves(p) ==
  /\ \A q \in Procs \ {p} : req'[q] = req[q]
  /\ req[p].pc \in Writing => req'[p].pc \in Writing

LEMMA GotoMoves ==
  ASSUME TypeInv, NEW p \in Procs, NEW pc, Goto(p, pc),
         req[p].pc \in Writing => pc \in Writing
  PROVE  Moves(p) /\ req'[p].pc = pc
<1>1. req \in [Procs -> Request] /\ req[p] \in Request
  BY DEF TypeInv, RequestInv
<1> QED BY <1>1 DEF Goto, Moves, Request

LEMMA FinishMoves ==
  ASSUME TypeInv, NEW p \in Procs, Finish(p), req[p].pc \notin Writing
  PROVE  Moves(p)
BY DEF Finish, Moves, TypeInv, RequestInv

\* No assignee is written, committed or not.
LEMMA QuietCareful ==
  ASSUME WorkInv, NEW p \in Procs, Moves(p),
         UNCHANGED <<assignee, subAssignee, tx>>
  PROVE  Careful
<1>1. \A q \in Procs : req'[q].pc \notin Writing => tx'[q] = NoWrites
  BY DEF WorkInv, Moves
<1>2. WorkInv'
  BY <1>1 DEF WorkInv, Apart, Spares
<1> QED BY <1>2 DEF Careful, Answered, SubAnswered

\* A statement of a transaction that spares completed rows.
LEMMA WriteCareful ==
  ASSUME TypeInv, WorkInv, UNCHANGED tables, NEW p \in Procs, Moves(p),
         req'[p].pc \in Writing, NEW rows,
         NEW table \in {"task", "assignee", "subTask", "subAssignee"},
         Write(p, table, rows),
         table = "assignee" => Spares(rows, assignee),
         table = "subAssignee" => Spares(rows, subAssignee)
  PROVE  Careful
<1>1. tx \in [Procs -> Transaction]
  BY DEF TypeInv, TypeOK
<1>2. tx' = [tx EXCEPT ![p][table] = Over(rows, @)]
  BY DEF Write
<1>3. \A q \in Procs \ {p} : tx'[q] = tx[q]
  BY <1>1, <1>2
<1>4. \A q \in Procs : req'[q].pc \notin Writing => tx'[q] = NoWrites
  BY <1>3 DEF WorkInv, Moves
<1>5. /\ tx'[p].assignee = IF table = "assignee"
                           THEN Over(rows, tx[p].assignee) ELSE tx[p].assignee
      /\ tx'[p].subAssignee = IF table = "subAssignee"
                              THEN Over(rows, tx[p].subAssignee)
                              ELSE tx[p].subAssignee
  BY <1>1, <1>2 DEF Transaction
<1>6. \A q \in Procs \ {p} : Apart(p, q)' /\ Apart(q, p)'
  <2> TAKE q \in Procs \ {p}
  <2>1. /\ table = "assignee" =>
             DOMAIN tx[q].assignee \cap DOMAIN rows = {}
        /\ table = "subAssignee" =>
             DOMAIN tx[q].subAssignee \cap DOMAIN rows = {}
    BY DEF Write, Unlocked
  <2>2. /\ DOMAIN tx'[p].assignee \cap DOMAIN tx[q].assignee = {}
        /\ DOMAIN tx'[p].subAssignee \cap DOMAIN tx[q].subAssignee = {}
    BY <1>5, <2>1 DEF WorkInv, Apart, Over
  <2> QED BY <1>3, <2>2 DEF Apart
<1>7. \A q, r \in Procs : q # r => Apart(q, r)'
  BY <1>3, <1>6 DEF WorkInv, Apart
<1>8. /\ Spares(tx'[p].assignee, assignee)
      /\ Spares(tx'[p].subAssignee, subAssignee)
  BY <1>5 DEF Spares, Over, WorkInv
<1>9. \A q \in Procs : /\ Spares(tx'[q].assignee, assignee')
                       /\ Spares(tx'[q].subAssignee, subAssignee')
  BY <1>3, <1>8 DEF WorkInv, tables
<1>10. WorkInv'
  BY <1>4, <1>7, <1>9 DEF WorkInv
<1> QED BY <1>10 DEF Careful, Answered, SubAnswered, tables

\* A row that is written and committed at once, which others wait for.
LEMMA AssigneeCareful ==
  ASSUME TypeInv, WorkInv, UNCHANGED <<subAssignee, tx>>, NEW p \in Procs,
         Moves(p), req[p].pc \notin Writing, req'[p] # req[p],
         NEW t, NEW u, NEW st, Unlocked(p, "assignee", {<<t, u>>}),
         assignee' = [assignee EXCEPT ![<<t, u>>] = st],
         \/ st = assignee[<<t, u>>]
         \/ /\ req[p].task = t
            /\ \/ req[p].op \in {"report", "decide"} /\ req[p].actor = u
               \/ req[p].op = "assign" /\ req[p].target = u
  PROVE  Careful
<1> DEFINE k == <<t, u>>
<1>1. \A q \in Procs : k \notin DOMAIN tx[q].assignee
  <2> TAKE q \in Procs
  <2>1. CASE q = p
    BY <2>1 DEF WorkInv, NoWrites, Clean
  <2>2. CASE q # p
    BY <2>2 DEF Unlocked
  <2> QED BY <2>1, <2>2
<1>2. assignee \in [Tasks \X Users -> AssigneeRow]
  BY DEF TypeInv, TypeOK
<1>3. \A q \in Procs : Spares(tx'[q].assignee, assignee')
  <2> TAKE q \in Procs
  <2>1. tx[q] \in Transaction
    BY DEF TypeInv, TypeOK
  <2>2. DOMAIN tx[q].assignee \subseteq Tasks \X Users
    BY <2>1 DEF Transaction, Writes
  <2>3. \A x \in DOMAIN tx[q].assignee : assignee'[x] = assignee[x]
    BY <1>1, <1>2, <2>2
  <2> QED BY <2>3 DEF WorkInv, Spares
<1>4. \A q \in Procs : req'[q].pc \notin Writing => tx'[q] = NoWrites
  BY DEF WorkInv, Moves
<1>5. WorkInv'
  BY <1>3, <1>4 DEF WorkInv, Apart, Spares
<1>6. Answered
  <2> SUFFICES ASSUME NEW x \in Tasks, NEW y \in Users,
                      assignee[<<x, y>>] = "COMPLETED",
                      assignee'[<<x, y>>] # "COMPLETED"
               PROVE  /\ req[p].task = x /\ req'[p] # req[p]
                      /\ \/ req[p].op \in {"report", "decide"}
                            /\ req[p].actor = y
                         \/ req[p].op = "assign" /\ req[p].target = y
    BY DEF Answered
  <2>1. <<x, y>> = k /\ st # assignee[k]
    BY <1>2
  <2> QED BY <2>1
<1> QED BY <1>5, <1>6 DEF Careful, SubAnswered

LEMMA SubAssigneeCareful ==
  ASSUME TypeInv, WorkInv, UNCHANGED <<assignee, tx>>, NEW p \in Procs,
         Moves(p), req[p].pc \notin Writing, req'[p] # req[p],
         NEW s, NEW u, NEW st, Unlocked(p, "subAssignee", {<<s, u>>}),
         subAssignee' = [subAssignee EXCEPT ![<<s, u>>] = st],
         \/ st = subAssignee[<<s, u>>]
         \/ /\ req[p].sub = s
            /\ \/ req[p].op \in {"reportSub", "decide"} /\ req[p].actor = u
               \/ req[p].op = "assignSub" /\ req[p].target = u
  PROVE  Careful
<1> DEFINE k == <<s, u>>
<1>1. \A q \in Procs : k \notin DOMAIN tx[q].subAssignee
  <2> TAKE q \in Procs
  <2>1. CASE q = p
    BY <2>1 DEF WorkInv, NoWrites, Clean
  <2>2. CASE q # p
    BY <2>2 DEF Unlocked
  <2> QED BY <2>1, <2>2
<1>2. subAssignee \in [SubTasks \X Users -> AssigneeRow]
  BY DEF TypeInv, TypeOK
<1>3. \A q \in Procs : Spares(tx'[q].subAssignee, subAssignee')
  <2> TAKE q \in Procs
  <2>1. tx[q] \in Transaction
    BY DEF TypeInv, TypeOK
  <2>2. DOMAIN tx[q].subAssignee \subseteq SubTasks \X Users
    BY <2>1 DEF Transaction, Writes
  <2>3. \A x \in DOMAIN tx[q].subAssignee : subAssignee'[x] = subAssignee[x]
    BY <1>1, <1>2, <2>2
  <2> QED BY <2>3 DEF WorkInv, Spares
<1>4. \A q \in Procs : req'[q].pc \notin Writing => tx'[q] = NoWrites
  BY DEF WorkInv, Moves
<1>5. WorkInv'
  BY <1>3, <1>4 DEF WorkInv, Apart, Spares
<1>6. SubAnswered
  <2> SUFFICES ASSUME NEW x \in SubTasks, NEW y \in Users,
                      subAssignee[<<x, y>>] = "COMPLETED",
                      subAssignee'[<<x, y>>] # "COMPLETED"
               PROVE  /\ req[p].sub = x /\ req'[p] # req[p]
                      /\ \/ req[p].op \in {"reportSub", "decide"}
                            /\ req[p].actor = y
                         \/ req[p].op = "assignSub" /\ req[p].target = y
    BY DEF SubAnswered
  <2>1. <<x, y>> = k /\ st # subAssignee[k]
    BY <1>2
  <2> QED BY <2>1
<1> QED BY <1>5, <1>6 DEF Careful, Answered

-----------------------------------------------------------------------------
(* The end of a request, calls and guards                                  *)

\* What is committed spares what is complete; what is rolled back is nothing.
LEMMA EndCareful ==
  ASSUME TypeInv, WorkInv, NEW p \in Procs, Commit(p) \/ Abort(p)
  PROVE  Careful
<1>1. /\ tx' = [tx EXCEPT ![p] = NoWrites] /\ tx \in [Procs -> Transaction]
      /\ req' = [req EXCEPT ![p] = NoRequest] /\ req \in [Procs -> Request]
  BY DEF Commit, Abort, Finish, TypeInv, TypeOK, RequestInv
<1>2. /\ tx'[p] = NoWrites
      /\ \A q \in Procs \ {p} : tx'[q] = tx[q] /\ req'[q] = req[q]
  BY <1>1
<1>3. /\ DOMAIN tx'[p].assignee = {} /\ DOMAIN tx'[p].subAssignee = {}
  BY <1>2 DEF NoWrites, Clean
<1>4. /\ \/ assignee' = assignee
         \/ assignee' = Over(tx[p].assignee, assignee)
      /\ \/ subAssignee' = subAssignee
         \/ subAssignee' = Over(tx[p].subAssignee, subAssignee)
  BY DEF Commit, Abort, AssigneeView, SubAssigneeView, tables
<1>5. ASSUME NEW q \in Procs \ {p}
      PROVE  /\ Spares(tx[q].assignee, assignee')
             /\ Spares(tx[q].subAssignee, subAssignee')
  <2>1. /\ DOMAIN tx[q].assignee \subseteq DOMAIN assignee
        /\ DOMAIN tx[q].subAssignee \subseteq DOMAIN subAssignee
    BY DEF TypeInv, TypeOK, Transaction, Writes
  <2>2. /\ DOMAIN tx[q].assignee \cap DOMAIN tx[p].assignee = {}
        /\ DOMAIN tx[q].subAssignee \cap DOMAIN tx[p].subAssignee = {}
    BY DEF WorkInv, Apart
  <2>3. /\ \A k \in DOMAIN tx[q].assignee : assignee'[k] = assignee[k]
        /\ \A k \in DOMAIN tx[q].subAssignee : subAssignee'[k] = subAssignee[k]
    BY <1>4, <2>1, <2>2 DEF Over
  <2> QED BY <2>3 DEF WorkInv, Spares
<1>6. \A q \in Procs : /\ Spares(tx'[q].assignee, assignee')
                       /\ Spares(tx'[q].subAssignee, subAssignee')
  BY <1>2, <1>3, <1>5 DEF Spares
<1>7. WorkInv'
  BY <1>2, <1>3, <1>6 DEF WorkInv, Apart
<1>8. /\ \A k \in Tasks \X Users :
           assignee[k] = "COMPLETED" => assignee'[k] = "COMPLETED"
      /\ \A k \in SubTasks \X Users :
           subAssignee[k] = "COMPLETED" => subAssignee'[k] = "COMPLETED"
  BY <1>4 DEF Over, WorkInv, Spares, TypeInv, TypeOK
<1> QED BY <1>7, <1>8 DEF Careful, Answered, SubAnswered

LEMMA CallCareful ==
  ASSUME TypeInv, WorkInv, NEW p \in Procs, Call(p)  PROVE Careful
<1>1. \E r : Receive(p, r)
  BY DEF Call, TaskCall, AssignmentCall, SubTaskCall, PostClose, PostArchive,
         PostRestore, PostReport, PostAssign, PostAssignSub, GetDecision,
         PostCreateSub, PostCloseSub, PostRestoreSub, PostReportSub, PostSub
<1>2. PICK r : Receive(p, r)
  BY <1>1
<1>3. req[p].pc \notin Writing
  BY <1>2 DEF Receive, NoRequest, Writing
<1>4. Moves(p)
  BY <1>2, <1>3 DEF Receive, Moves, TypeInv, RequestInv
<1> QED BY <1>2, <1>4, QuietCareful DEF Receive, tables

\* A step outside transactions that writes no assignee.
LEMMA OutsideCareful ==
  ASSUME TypeInv, WorkInv, NEW p \in Procs, req[p].pc \notin Writing,
         \A q \in Procs \ {p} : req'[q] = req[q],
         UNCHANGED <<assignee, subAssignee, tx>>
  PROVE  Careful
BY QuietCareful DEF Moves

\* Every step but a change of membership is one request's.
LEMMA OthersStay ==
  ASSUME TypeInv, NEW p \in Procs, Step(p)
  PROVE  \A q \in Procs \ {p} : req'[q] = req[q]
<1>1. req \in [Procs -> Request]
  BY DEF TypeInv, RequestInv
<1>2. \E r : req' = [req EXCEPT ![p] = r]
  <2>1. ASSUME Finish(p)  PROVE \E r : req' = [req EXCEPT ![p] = r]
    BY <2>1 DEF Finish
  <2>2. ASSUME NEW pc, Goto(p, pc)  PROVE \E r : req' = [req EXCEPT ![p] = r]
    BY <2>2 DEF Goto
  <2>3. CASE TaskMemberGuard(p) \/ SubTaskExistsGuard(p) \/ Commit(p)
    BY <2>1, <2>2, <2>3 DEF TaskMemberGuard, SubTaskExistsGuard, Commit
  <2>4. CASE TaskStep(p)
    BY <2>1, <2>2, <2>4
       DEF TaskStep, CloseCount, CloseUpdate, CloseDrop, CloseSkip, CloseSubs,
           ArchiveRead, ArchiveUpdate, ArchiveSubs, RestorePeek, RestoreRead,
           RestoreUpdate, RestoreCascade, ReportRead, ReportClaim, ReportWrite
  <2>5. CASE AssignmentStep(p)
    BY <2>1, <2>2, <2>5
       DEF AssignmentStep, AssignTarget, AssignAssigner, AssignAssignee,
           AssignUpsert, AssignMail, DecideRead, DecideWrite
  <2>6. CASE SubTaskStep(p)
    BY <2>1, <2>2, <2>6
       DEF SubTaskStep, CreateSubInsert, CloseSubUpdate, CloseSubOwn,
           CloseSubUpsert, CloseSubDrop, CloseSubSkip, RestoreSubUpdate,
           RestoreSubAccept, RestoreSubPend, ReportSubTask, ReportSubOwn,
           ReportSubClaim, ReportSubWrite
  <2> QED BY <2>3, <2>4, <2>5, <2>6 DEF Step
<1> QED BY <1>1, <1>2

\* The steps that read, answer, mail or write a sub-task at once.
LEMMA ReadCareful ==
  ASSUME TypeInv, WorkInv, NEW p \in Procs, Step(p),
         \/ TaskMemberGuard(p) \/ SubTaskExistsGuard(p)
         \/ CloseCount(p) \/ ArchiveRead(p) \/ RestorePeek(p) \/ RestoreRead(p)
         \/ ReportRead(p)
         \/ AssignTarget(p) \/ AssignAssigner(p) \/ AssignAssignee(p)
         \/ AssignMail(p) \/ DecideRead(p)
         \/ CreateSubInsert(p) \/ ReportSubTask(p) \/ ReportSubOwn(p)
  PROVE  Careful
<1>1. req[p].pc \notin Writing
  BY DEF TaskMemberGuard, SubTaskExistsGuard, CloseCount, ArchiveRead,
         RestorePeek, RestoreRead, ReportRead, AssignTarget, AssignAssigner,
         AssignAssignee, AssignMail, DecideRead, CreateSubInsert,
         ReportSubTask, ReportSubOwn, Writing
<1>2. UNCHANGED <<assignee, subAssignee, tx>>
  BY DEF TaskMemberGuard, SubTaskExistsGuard, CloseCount, ArchiveRead,
         RestorePeek, RestoreRead, ReportRead, AssignTarget, AssignAssigner,
         AssignAssignee, AssignMail, DecideRead, CreateSubInsert,
         ReportSubTask, ReportSubOwn, tables
<1> QED BY <1>1, <1>2, OthersStay, OutsideCareful

-----------------------------------------------------------------------------
(* The statements of transactions                                          *)

\* Rows chosen by a status other than COMPLETED, as the transaction sees them.
LEMMA MovedSpare ==
  ASSUME TypeInv, WorkInv, NEW p \in Procs, NEW from, "COMPLETED" \notin from,
         NEW to
  PROVE  /\ \A D \in SUBSET (Tasks \X Users) :
              (\A k \in D : AssigneeView(p)[k] \in from) =>
                Spares([k \in D |-> to], assignee)
         /\ \A D \in SUBSET (SubTasks \X Users) :
              (\A k \in D : SubAssigneeView(p)[k] \in from) =>
                Spares([k \in D |-> to], subAssignee)
<1>1. /\ DOMAIN assignee = Tasks \X Users
      /\ DOMAIN subAssignee = SubTasks \X Users
  BY DEF TypeInv, TypeOK
<1>2. \A k \in Tasks \X Users :
        AssigneeView(p)[k] \in from => assignee[k] # "COMPLETED"
  BY <1>1 DEF AssigneeView, Over, WorkInv, Spares
<1>3. \A k \in SubTasks \X Users :
        SubAssigneeView(p)[k] \in from => subAssignee[k] # "COMPLETED"
  BY <1>1 DEF SubAssigneeView, Over, WorkInv, Spares
<1> QED BY <1>2, <1>3 DEF Spares

LEMMA MoveAssigneesCareful ==
  ASSUME TypeInv, WorkInv, UNCHANGED tables, NEW p \in Procs, Moves(p),
         req'[p].pc \in Writing, req[p].op # "none",
         NEW from, "COMPLETED" \notin from, NEW to, MoveAssignees(p, from, to)
  PROVE  Careful
<1> DEFINE D == AssigneesIn(AssigneeView(p), req[p], from)
           rows == [k \in D |-> to]
<1>1. req[p].task \in Tasks
  BY DEF TypeInv, RequestInv, GoodRequest, Parameters
<1>2. D \in SUBSET (Tasks \X Users)
  BY <1>1 DEF AssigneesIn
<1>3. \A k \in D : AssigneeView(p)[k] \in from
  BY DEF AssigneesIn
<1>4. Spares(rows, assignee)
  BY <1>2, <1>3, MovedSpare
<1>5. Write(p, "assignee", rows)
  BY DEF MoveAssignees
<1> HIDE DEF rows
<1> QED BY <1>4, <1>5, WriteCareful

LEMMA MoveSubAssigneesCareful ==
  ASSUME TypeInv, WorkInv, UNCHANGED tables, NEW p \in Procs, Moves(p),
         req'[p].pc \in Writing, req[p].op \in SubOps,
         NEW from, from # "COMPLETED", NEW to, MoveSubAssignees(p, from, to)
  PROVE  Careful
<1> DEFINE D == SubAssigneesIn(p, {from})
           rows == [k \in D |-> to]
<1>1. req[p].sub \in SubTasks
  BY DEF TypeInv, RequestInv, GoodRequest, Parameters
<1>2. D \in SUBSET (SubTasks \X Users)
  BY <1>1 DEF SubAssigneesIn
<1>3. \A k \in D : SubAssigneeView(p)[k] \in {from}
  BY DEF SubAssigneesIn
<1>4. Spares(rows, subAssignee)
  BY <1>2, <1>3, MovedSpare
<1>5. Write(p, "subAssignee", rows)
  BY DEF MoveSubAssignees
<1> HIDE DEF rows
<1> QED BY <1>4, <1>5, WriteCareful

LEMMA TaskWriteCareful ==
  ASSUME TypeInv, WorkInv, NEW p \in Procs,
         \/ CloseUpdate(p) \/ CloseDrop(p) \/ CloseSkip(p) \/ CloseSubs(p)
         \/ ArchiveUpdate(p) \/ ArchiveSubs(p)
         \/ RestoreUpdate(p) \/ RestoreCascade(p)
  PROVE  Careful
<1>1. UNCHANGED tables
  BY DEF CloseUpdate, CloseDrop, CloseSkip, CloseSubs, ArchiveUpdate,
         ArchiveSubs, RestoreUpdate, RestoreCascade, InTransaction
<1>2. \E pc \in Writing : Goto(p, pc)
  BY DEF CloseUpdate, CloseDrop, CloseSkip, CloseSubs, ArchiveUpdate,
         ArchiveSubs, RestoreUpdate, RestoreCascade, Writing
<1>3. Moves(p) /\ req'[p].pc \in Writing
  BY <1>2, GotoMoves
<1>4. Handler(req[p])
  BY DEF TypeInv, RequestInv, GoodRequest
<1>5. req[p].op # "none"
  BY <1>4 DEF CloseUpdate, CloseDrop, CloseSkip, CloseSubs, ArchiveUpdate,
              ArchiveSubs, RestoreUpdate, RestoreCascade, Handler
<1>6. \/ MoveAssignees(p, {"ACCEPTED"}, "DROPPED")
      \/ MoveAssignees(p, {"PENDING"}, "SKIPPED")
      \/ MoveAssignees(p, {"SKIPPED", "DROPPED"}, "PENDING")
      \/ \E rows : Write(p, "task", rows) \/ Write(p, "subTask", rows)
  BY DEF CloseUpdate, CloseDrop, CloseSkip, CloseSubs, ArchiveUpdate,
         ArchiveSubs, RestoreUpdate, RestoreCascade, WriteTask, MoveSubTasks
<1>7. ASSUME NEW from, "COMPLETED" \notin from, NEW to,
             MoveAssignees(p, from, to)
      PROVE  Careful
  BY <1>1, <1>3, <1>5, <1>7, MoveAssigneesCareful
<1>8. /\ "COMPLETED" \notin {"ACCEPTED"} /\ "COMPLETED" \notin {"PENDING"}
      /\ "COMPLETED" \notin {"SKIPPED", "DROPPED"}
  OBVIOUS
<1> QED BY <1>1, <1>3, <1>6, <1>7, <1>8, WriteCareful

LEMMA SubTaskWriteCareful ==
  ASSUME TypeInv, WorkInv, NEW p \in Procs,
         \/ CloseSubUpdate(p) \/ CloseSubOwn(p) \/ CloseSubUpsert(p)
         \/ CloseSubDrop(p) \/ CloseSubSkip(p)
         \/ RestoreSubUpdate(p) \/ RestoreSubAccept(p) \/ RestoreSubPend(p)
  PROVE  Careful
<1>1. UNCHANGED tables
  BY DEF CloseSubUpdate, CloseSubOwn, CloseSubUpsert, CloseSubDrop,
         CloseSubSkip, RestoreSubUpdate, RestoreSubAccept, RestoreSubPend,
         InSubTransaction
<1>2. \E pc \in Writing : Goto(p, pc)
  BY DEF CloseSubUpdate, CloseSubOwn, CloseSubUpsert, CloseSubDrop,
         CloseSubSkip, RestoreSubUpdate, RestoreSubAccept, RestoreSubPend,
         Writing
<1>3. Moves(p) /\ req'[p].pc \in Writing
  BY <1>2, GotoMoves
<1>4. Handler(req[p])
  BY DEF TypeInv, RequestInv, GoodRequest
<1>5. req[p].op \in SubOps
  BY <1>4 DEF CloseSubUpdate, CloseSubOwn, CloseSubUpsert, CloseSubDrop,
              CloseSubSkip, RestoreSubUpdate, RestoreSubAccept, RestoreSubPend,
              Handler, SubOps
<1>6. CASE CloseSubOwn(p)
  BY <1>3, <1>6, QuietCareful DEF CloseSubOwn, tables
<1>7. CASE CloseSubUpsert(p)
  <2> DEFINE rows == [k \in {<<req[p].sub, req[p].actor>>} |-> "COMPLETED"]
  <2>1. Write(p, "subAssignee", rows)
    BY <1>7 DEF CloseSubUpsert
  <2>2. Spares(rows, subAssignee)
    BY DEF Spares
  <2> HIDE DEF rows
  <2> QED BY <1>1, <1>3, <2>1, <2>2, WriteCareful
<1>8. CASE CloseSubUpdate(p) \/ RestoreSubUpdate(p)
  <2>1. \E rows : Write(p, "subTask", rows)
    BY <1>8 DEF CloseSubUpdate, RestoreSubUpdate
  <2> QED BY <1>1, <1>3, <2>1, WriteCareful
<1>9. CASE \/ CloseSubDrop(p) \/ CloseSubSkip(p)
           \/ RestoreSubAccept(p) \/ RestoreSubPend(p)
  <2>1. \E from, to : from # "COMPLETED" /\ MoveSubAssignees(p, from, to)
    BY <1>9 DEF CloseSubDrop, CloseSubSkip, RestoreSubAccept, RestoreSubPend
  <2> QED BY <1>1, <1>3, <1>5, <2>1, MoveSubAssigneesCareful
<1> QED BY <1>6, <1>7, <1>8, <1>9

-----------------------------------------------------------------------------
(* The writes that may undo work, each at somebody's request               *)

LEMMA ReportCareful ==
  ASSUME TypeInv, WorkInv, NEW p \in Procs, ReportClaim(p) \/ ReportWrite(p)
  PROVE  Careful
<1>1. Handler(req[p]) /\ Parameters(req[p])
  BY DEF TypeInv, RequestInv, GoodRequest
<1>2. /\ req[p].pc \in {"report_claim", "report_write"} /\ Finish(p)
      /\ UNCHANGED <<subAssignee, tx>>
      /\ Unlocked(p, "assignee", {<<req[p].task, req[p].actor>>})
  BY DEF ReportClaim, ReportWrite
<1>3. req[p].op = "report" /\ req[p].pc \notin Writing
  BY <1>1, <1>2 DEF Handler, Writing
<1>4. Moves(p)
  BY <1>2, <1>3, FinishMoves
<1>5. req'[p] # req[p]
  BY <1>2, <1>3 DEF Finish, NoRequest, TypeInv, RequestInv
<1>6. \/ UNCHANGED assignee
      \/ \E st : assignee' =
                   [assignee EXCEPT ![<<req[p].task, req[p].actor>>] = st]
  BY DEF ReportClaim, ReportWrite
<1>7. CASE UNCHANGED assignee
  BY <1>2, <1>4, <1>7, QuietCareful
<1>8. ASSUME NEW st,
             assignee' = [assignee EXCEPT ![<<req[p].task, req[p].actor>>] = st]
      PROVE  Careful
  BY <1>2, <1>3, <1>4, <1>5, <1>8, AssigneeCareful
<1> QED BY <1>6, <1>7, <1>8

LEMMA ReportSubCareful ==
  ASSUME TypeInv, WorkInv, NEW p \in Procs,
         ReportSubClaim(p) \/ ReportSubWrite(p)
  PROVE  Careful
<1>1. Handler(req[p]) /\ Parameters(req[p])
  BY DEF TypeInv, RequestInv, GoodRequest
<1>2. /\ req[p].pc \in {"reportSub_claim", "reportSub_write"} /\ Finish(p)
      /\ UNCHANGED <<assignee, tx>>
      /\ Unlocked(p, "subAssignee", {<<req[p].sub, req[p].actor>>})
  BY DEF ReportSubClaim, ReportSubWrite
<1>3. req[p].op = "reportSub" /\ req[p].pc \notin Writing
  BY <1>1, <1>2 DEF Handler, Writing
<1>4. Moves(p)
  BY <1>2, <1>3, FinishMoves
<1>5. req'[p] # req[p]
  BY <1>2, <1>3 DEF Finish, NoRequest, TypeInv, RequestInv
<1>6. \/ UNCHANGED subAssignee
      \/ \E st : subAssignee' =
                   [subAssignee EXCEPT ![<<req[p].sub, req[p].actor>>] = st]
  BY DEF ReportSubClaim, ReportSubWrite
<1>7. CASE UNCHANGED subAssignee
  BY <1>2, <1>4, <1>7, QuietCareful
<1>8. ASSUME NEW st,
             subAssignee' =
               [subAssignee EXCEPT ![<<req[p].sub, req[p].actor>>] = st]
      PROVE  Careful
  BY <1>2, <1>3, <1>4, <1>5, <1>8, SubAssigneeCareful
<1> QED BY <1>6, <1>7, <1>8

LEMMA SetRowCareful ==
  ASSUME TypeInv, WorkInv, UNCHANGED tx, NEW p \in Procs, Moves(p),
         req[p].pc \notin Writing, req'[p] # req[p], NEW u, NEW st,
         SetRow(p, req[p], u, st),
         \/ req[p].op = "decide" /\ req[p].actor = u
         \/ /\ req[p].target = u
            /\ req[p].op = IF req[p].sub = Null THEN "assign" ELSE "assignSub"
  PROVE  Careful
<1>1. CASE req[p].sub = Null
  BY <1>1, AssigneeCareful DEF SetRow
<1>2. CASE req[p].sub # Null
  <2>1. /\ UNCHANGED <<assignee, tx>>
        /\ Unlocked(p, "subAssignee", {<<req[p].sub, u>>})
        /\ subAssignee' = [subAssignee EXCEPT ![<<req[p].sub, u>>] = st]
    BY <1>2 DEF SetRow
  <2>2. \/ req[p].op = "decide" /\ req[p].actor = u
        \/ req[p].op = "assignSub" /\ req[p].target = u
    BY <1>2
  <2> QED BY <2>1, <2>2, SubAssigneeCareful
<1> QED BY <1>1, <1>2

LEMMA AnswerCareful ==
  ASSUME StoreAssumption, TypeInv, MemberInv, WorkInv, NEW p \in Procs,
         AssignUpsert(p) \/ DecideWrite(p)
  PROVE  Careful
<1>1. /\ Handler(req[p]) /\ Parameters(req[p]) /\ RequestOK(req[p])
      /\ req \in [Procs -> Request] /\ req[p] \in Request
  BY DEF TypeInv, RequestInv, GoodRequest, MemberInv
<1>2. req[p].pc \in {"assign_upsert", "decide_write"} /\ UNCHANGED tx
  BY DEF AssignUpsert, DecideWrite
<1>3. req[p].pc \notin Writing
  BY <1>2 DEF Writing
<1>4. Finish(p) \/ Goto(p, "assign_mail")
  BY DEF AssignUpsert, DecideWrite
<1>5. Moves(p) /\ req'[p] # req[p]
  <2>1. CASE Finish(p)
    <3>1. req'[p].pc = "idle"
      BY <1>1, <2>1 DEF Finish, NoRequest
    <3> QED BY <1>2, <1>3, <2>1, <3>1, FinishMoves
  <2>2. CASE Goto(p, "assign_mail")
    BY <1>2, <1>3, <2>2, GotoMoves
  <2> QED BY <1>4, <2>1, <2>2
<1>6. CASE AssignUpsert(p)
  <2>1. req[p].op \in {"assign", "assignSub"}
    BY <1>1, <1>6 DEF AssignUpsert, Handler
  <2>2. req[p].op = IF req[p].sub = Null THEN "assign" ELSE "assignSub"
    BY <1>1, <2>1 DEF RequestOK, Parameters, SubOps, StoreAssumption
  <2> QED BY <1>2, <1>3, <1>5, <1>6, <2>2, SetRowCareful DEF AssignUpsert
<1>7. CASE DecideWrite(p)
  <2>1. req[p].op = "decide"
    BY <1>1, <1>7 DEF DecideWrite, Handler
  <2> QED BY <1>2, <1>3, <1>5, <1>7, <2>1, SetRowCareful DEF DecideWrite
<1> QED BY <1>6, <1>7

-----------------------------------------------------------------------------

LEMMA NextCareful ==
  ASSUME StoreAssumption, TypeInv, MemberInv, WorkInv, [Next]_vars
  PROVE  Careful
<1>1. ASSUME NEW p \in Procs, Step(p)  PROVE Careful
  <2>1. CASE TaskMemberGuard(p) \/ SubTaskExistsGuard(p) \/ Commit(p)
    BY <1>1, <2>1, ReadCareful, EndCareful
  <2>2. CASE TaskStep(p)
    BY <1>1, <2>2, ReadCareful, TaskWriteCareful, ReportCareful DEF TaskStep
  <2>3. CASE AssignmentStep(p)
    BY <1>1, <2>3, ReadCareful, AnswerCareful DEF AssignmentStep
  <2>4. CASE SubTaskStep(p)
    BY <1>1, <2>4, ReadCareful, SubTaskWriteCareful, ReportSubCareful
       DEF SubTaskStep
  <2> QED BY <1>1, <2>1, <2>2, <2>3, <2>4 DEF Step
<1>2. ASSUME NEW p \in Procs, Call(p) \/ Abort(p)  PROVE Careful
  BY <1>2, CallCareful, EndCareful
<1>3. ASSUME UNCHANGED <<assignee, subAssignee, tx, req>>  PROVE Careful
  BY <1>3 DEF Careful, WorkInv, Apart, Spares, Answered, SubAnswered
<1>4. ASSUME NEW u \in MutableUsers, ChangeMembership(u)  PROVE Careful
  BY <1>3, <1>4 DEF ChangeMembership, tables
<1>5. CASE UNCHANGED vars
  BY <1>3, <1>5 DEF vars, tables
<1> QED BY <1>1, <1>2, <1>4, <1>5 DEF Next

\* A transaction's rows are its own, and of completed work it makes nothing
\* else.
THEOREM WorkInvariant == Spec => [](TypeInv /\ MemberInv /\ WorkInv)
<1>1. Init => WorkInv
  BY WorkInit
<1>2. TypeInv /\ MemberInv /\ WorkInv /\ [Next]_vars => WorkInv'
  BY NextCareful, StoreAssumption DEF Careful
<1> QED BY <1>1, <1>2, MemberInvariant, PTL DEF Spec

\* Completed work on a task is undone by its owner or by an assignment only.
THEOREM CompletionStays == Spec => CompletionKept
<1>1. TypeInv /\ MemberInv /\ WorkInv /\ [Next]_vars => [Answered]_vars
  BY NextCareful, StoreAssumption DEF Careful
<1> QED BY <1>1, WorkInvariant, PTL DEF Spec, CompletionKept, Answered

\* And so is completed work on a sub-task.
THEOREM SubCompletionStays == Spec => SubCompletionKept
<1>1. TypeInv /\ MemberInv /\ WorkInv /\ [Next]_vars => [SubAnswered]_vars
  BY NextCareful, StoreAssumption DEF Careful
<1> QED BY <1>1, WorkInvariant, PTL DEF Spec, SubCompletionKept, SubAnswered

-----------------------------------------------------------------------------
(***************************************************************************)
(* The rows a request holds, and whom it may wait for: NoDeadlock, for     *)
(* every number of requests of every operation.  A transaction of a task   *)
(* takes the task's row first and then only rows below that task, one of a *)
(* sub-task takes that sub-task's row first and then only its assignees.   *)
(* So a request that holds nothing may wait for both kinds, a task's       *)
(* transaction only for a sub-task's, and that for nobody.                 *)
(***************************************************************************)

HoldsTask(r) ==
  \/ r.pc \in { "close_drop", "close_skip", "close_subs", "archive_subs",
                "restore_cascade" }
  \/ r.pc = "commit" /\ r.op \in {"close", "archive", "restore"}

HoldsSubTask(r) ==
  \/ r.pc \in { "closeSub_own", "closeSub_upsert", "closeSub_drop",
                "closeSub_skip", "restoreSub_accept", "restoreSub_pend" }
  \/ r.pc = "commit" /\ r.op \in {"closeSub", "restoreSub"}

\* The uncommitted rows w of the request r.
Held(r, w) ==
  /\ HoldsTask(r) =>
       /\ DOMAIN w.task = {r.task}
       /\ DOMAIN w.assignee \subseteq {r.task} \X Users
       /\ \A s \in DOMAIN w.subTask : parentOf[s] = r.task
       /\ DOMAIN w.subAssignee = {}
  /\ HoldsSubTask(r) =>
       /\ DOMAIN w.task = {} /\ DOMAIN w.assignee = {}
       /\ DOMAIN w.subTask = {r.sub}
       /\ DOMAIN w.subAssignee \subseteq {r.sub} \X Users
  /\ HoldsTask(r) \/ HoldsSubTask(r) \/ w = NoWrites

LockInv ==
  /\ \A p \in Procs : Held(req[p], tx[p])
  /\ \A p, q \in Procs :
       p # q => /\ DOMAIN tx[p].task \cap DOMAIN tx[q].task = {}
                /\ DOMAIN tx[p].subTask \cap DOMAIN tx[q].subTask = {}

LEMMA NothingHeld ==
  /\ DOMAIN NoWrites.task = {} /\ DOMAIN NoWrites.assignee = {}
  /\ DOMAIN NoWrites.subTask = {} /\ DOMAIN NoWrites.subAssignee = {}
BY DEF NoWrites, Clean

LEMMA OneKind == \A r : ~(HoldsTask(r) /\ HoldsSubTask(r))
BY DEF HoldsTask, HoldsSubTask

LEMMA HoldersWrite ==
  \A r : HoldsTask(r) \/ HoldsSubTask(r) => r.pc \in Writing
BY DEF HoldsTask, HoldsSubTask, Writing

LEMMA LockInit == Init => LockInv
<1> SUFFICES ASSUME Init  PROVE LockInv
  OBVIOUS
<1>1. \A p \in Procs : tx[p] = NoWrites /\ req[p] = NoRequest
  BY DEF Init
<1>2. ~HoldsTask(NoRequest) /\ ~HoldsSubTask(NoRequest)
  BY DEF HoldsTask, HoldsSubTask, NoRequest
<1> QED BY <1>1, <1>2, NothingHeld DEF LockInv, Held

-----------------------------------------------------------------------------
(* The steps                                                               *)

\* A step by which p writes no row in a transaction, or ends it.
LEMMA NoRowTaken ==
  ASSUME TypeInv, LockInv, NEW p \in Procs,
         \A q \in Procs \ {p} : req'[q] = req[q],
         tx' = tx \/ tx' = [tx EXCEPT ![p] = NoWrites],
         Held(req'[p], tx'[p])
  PROVE  LockInv'
<1>1. tx \in [Procs -> Transaction]
  BY DEF TypeInv, TypeOK
<1>2. \A q \in Procs \ {p} : tx'[q] = tx[q]
  BY <1>1
<1>3. tx'[p] = tx[p] \/ tx'[p] = NoWrites
  BY <1>1
<1>4. \A q \in Procs : Held(req'[q], tx'[q])
  BY <1>2 DEF LockInv
<1>5. \A q \in Procs : /\ DOMAIN tx'[q].task \subseteq DOMAIN tx[q].task
                       /\ DOMAIN tx'[q].subTask \subseteq DOMAIN tx[q].subTask
  BY <1>2, <1>3, NothingHeld
<1> QED BY <1>4, <1>5 DEF LockInv

\* A request that stays out of transactions.
LEMMA StaysOut ==
  ASSUME TypeInv, WorkInv, LockInv, NEW p \in Procs,
         \A q \in Procs \ {p} : req'[q] = req[q], tx' = tx,
         req[p].pc \notin Writing, req'[p].pc \notin Writing
  PROVE  LockInv'
<1>1. tx'[p] = NoWrites
  BY DEF WorkInv
<1>2. Held(req'[p], tx'[p])
  BY <1>1, HoldersWrite DEF Held
<1> QED BY <1>2, NoRowTaken

LEMMA EndLocks ==
  ASSUME TypeInv, LockInv, NEW p \in Procs, Commit(p) \/ Abort(p)
  PROVE  LockInv'
<1>1. /\ tx' = [tx EXCEPT ![p] = NoWrites] /\ tx \in [Procs -> Transaction]
      /\ req' = [req EXCEPT ![p] = NoRequest] /\ req \in [Procs -> Request]
  BY DEF Commit, Abort, Finish, TypeInv, TypeOK, RequestInv
<1>2. Held(NoRequest, NoWrites)
  BY DEF Held, HoldsTask, HoldsSubTask, NoRequest
<1> QED BY <1>1, <1>2, NoRowTaken

\* A statement of a transaction: its first, or one below the row it began with.
LEMMA RowsTaken ==
  ASSUME TypeInv, WorkInv, LockInv, NEW p \in Procs,
         \A q \in Procs \ {p} : req'[q] = req[q],
         req'[p].task = req[p].task, req'[p].sub = req[p].sub,
         NEW table \in {"task", "assignee", "subTask", "subAssignee"},
         NEW rows, Write(p, table, rows),
         \/ /\ req[p].pc \notin Writing /\ HoldsTask(req'[p])
            /\ table = "task" /\ DOMAIN rows = {req[p].task}
         \/ /\ HoldsTask(req[p]) /\ HoldsTask(req'[p])
            /\ \/ /\ table = "assignee"
                  /\ DOMAIN rows \subseteq {req[p].task} \X Users
               \/ /\ table = "subTask"
                  /\ \A s \in DOMAIN rows : parentOf[s] = req[p].task
         \/ /\ req[p].pc \notin Writing /\ HoldsSubTask(req'[p])
            /\ table = "subTask" /\ DOMAIN rows = {req[p].sub}
         \/ /\ HoldsSubTask(req[p]) /\ HoldsSubTask(req'[p])
            /\ table = "subAssignee"
            /\ DOMAIN rows \subseteq {req[p].sub} \X Users
  PROVE  LockInv'
<1> DEFINE New(name) == IF table = name THEN DOMAIN rows ELSE {}
           w == tx[p]
           v == tx'[p]
<1>1. /\ tx \in [Procs -> Transaction]
      /\ tx' = [tx EXCEPT ![p][table] = Over(rows, @)]
  BY DEF TypeInv, TypeOK, Write
<1>2. \A q \in Procs \ {p} : tx'[q] = tx[q]
  BY <1>1
<1>3. /\ DOMAIN v.task = DOMAIN w.task \cup New("task")
      /\ DOMAIN v.assignee = DOMAIN w.assignee \cup New("assignee")
      /\ DOMAIN v.subTask = DOMAIN w.subTask \cup New("subTask")
      /\ DOMAIN v.subAssignee = DOMAIN w.subAssignee \cup New("subAssignee")
  BY <1>1 DEF Over, Transaction
<1>4. \A q \in Procs \ {p} :
        /\ New("task") \cap DOMAIN tx[q].task = {}
        /\ New("subTask") \cap DOMAIN tx[q].subTask = {}
  BY DEF Write, Unlocked
<1>5. req[p].pc \notin Writing =>
        /\ DOMAIN w.task = {} /\ DOMAIN w.assignee = {}
        /\ DOMAIN w.subTask = {} /\ DOMAIN w.subAssignee = {}
  BY NothingHeld DEF WorkInv
<1>6. Held(req[p], w)
  BY DEF LockInv
<1> HIDE DEF v, w
<1>7. Held(req'[p], v)
  BY <1>3, <1>5, <1>6, OneKind DEF Held
<1>8. \A q \in Procs : Held(req'[q], tx'[q])
  BY <1>2, <1>7 DEF LockInv, v
<1>9. \A q \in Procs \ {p} :
        /\ DOMAIN v.task \cap DOMAIN tx[q].task = {}
        /\ DOMAIN v.subTask \cap DOMAIN tx[q].subTask = {}
  BY <1>3, <1>4 DEF LockInv, w
<1>10. \A q, r \in Procs :
         q # r => /\ DOMAIN tx'[q].task \cap DOMAIN tx'[r].task = {}
                  /\ DOMAIN tx'[q].subTask \cap DOMAIN tx'[r].subTask = {}
  BY <1>2, <1>9 DEF LockInv, v
<1> QED BY <1>8, <1>10 DEF LockInv

LEMMA GotoHolding ==
  ASSUME TypeInv, NEW p \in Procs, NEW pc, Goto(p, pc)
  PROVE  /\ req'[p].pc = pc /\ req'[p].op = req[p].op
         /\ req'[p].task = req[p].task /\ req'[p].sub = req[p].sub
         /\ \A q \in Procs \ {p} : req'[q] = req[q]
<1>1. req \in [Procs -> Request] /\ req[p] \in Request
  BY DEF TypeInv, RequestInv
<1>2. req'[p] = [req[p] EXCEPT !.pc = pc]
  BY <1>1 DEF Goto
<1>3. \A q \in Procs \ {p} : req'[q] = req[q]
  BY <1>1 DEF Goto
<1> QED BY <1>1, <1>2, <1>3 DEF Request

LEMMA FinishOut ==
  ASSUME TypeInv, NEW p \in Procs, Finish(p)
  PROVE  req'[p].pc \notin Writing
BY DEF Finish, NoRequest, Writing, TypeInv, RequestInv

LEMMA GotoOut ==
  ASSUME TypeInv, NEW p \in Procs, NEW pc, pc \notin Writing, Goto(p, pc)
  PROVE  req'[p].pc \notin Writing
BY GotoHolding

\* The steps of requests that have no transaction, or one of one statement.
LEMMA OutsideStays ==
  ASSUME TypeInv, NEW p \in Procs, Step(p),
         \/ TaskMemberGuard(p) \/ SubTaskExistsGuard(p)
         \/ CloseCount(p) \/ ArchiveRead(p) \/ RestorePeek(p) \/ RestoreRead(p)
         \/ ReportRead(p) \/ ReportClaim(p) \/ ReportWrite(p)
         \/ AssignmentStep(p)
         \/ CreateSubInsert(p) \/ ReportSubTask(p) \/ ReportSubOwn(p)
         \/ ReportSubClaim(p) \/ ReportSubWrite(p)
  PROVE  /\ req[p].pc \notin Writing /\ req'[p].pc \notin Writing
         /\ UNCHANGED tx
<1>1. /\ req \in [Procs -> Request] /\ req[p] \in Request
      /\ Handler(req[p])
  BY DEF TypeInv, RequestInv, GoodRequest
<1>2. req[p].pc \notin Writing
  BY DEF TaskMemberGuard, SubTaskExistsGuard, CloseCount, ArchiveRead,
         RestorePeek, RestoreRead, ReportRead, ReportClaim, ReportWrite,
         AssignmentStep, AssignTarget, AssignAssigner, AssignAssignee,
         AssignUpsert, AssignMail, DecideRead, DecideWrite, CreateSubInsert,
         ReportSubTask, ReportSubOwn, ReportSubClaim, ReportSubWrite, Writing
<1>3. UNCHANGED tx
  BY DEF TaskMemberGuard, SubTaskExistsGuard, CloseCount, ArchiveRead,
         RestorePeek, RestoreRead, ReportRead, ReportClaim, ReportWrite,
         AssignmentStep, AssignTarget, AssignAssigner, AssignAssignee,
         AssignUpsert, AssignMail, DecideRead, DecideWrite, CreateSubInsert,
         ReportSubTask, ReportSubOwn, ReportSubClaim, ReportSubWrite
<1>4. req'[p].pc \notin Writing
  <2>1. CASE TaskMemberGuard(p)
    <3>1. CASE Finish(p)
      BY <3>1, FinishOut
    <3>2. CASE req'[p].pc = ServiceEntry[req[p].op] /\ req[p].pc = "guard"
      BY <1>1, <3>2 DEF ServiceEntry, Handler, Writing
    <3> QED BY <1>1, <2>1, <3>1, <3>2 DEF TaskMemberGuard, Request
  <2>2. CASE CloseCount(p)
    <3>1. CASE Finish(p)
      BY <3>1, FinishOut
    <3>2. CASE req'[p].pc = "close_update"
      BY <3>2 DEF Writing
    <3> QED BY <1>1, <2>2, <3>1, <3>2 DEF CloseCount, Request
  <2>3. CASE RestorePeek(p) \/ ReportSubTask(p)
    <3>1. req'[p].pc \in {"restore_read", "reportSub_own"}
      BY <1>1, <2>3 DEF RestorePeek, ReportSubTask, Request
    <3> QED BY <3>1 DEF Writing
  <2>4. ASSUME Finish(p) \/ \E pc \in PC \ Writing : Goto(p, pc)
        PROVE  req'[p].pc \notin Writing
    BY <2>4, FinishOut, GotoOut
  <2>5. CASE \/ SubTaskExistsGuard(p) \/ ArchiveRead(p) \/ RestoreRead(p)
             \/ ReportRead(p) \/ ReportClaim(p) \/ ReportWrite(p)
    <3>1. \/ Finish(p) \/ Goto(p, "guard") \/ Goto(p, "archive_update")
          \/ Goto(p, "restore_update") \/ Goto(p, "report_claim")
          \/ Goto(p, "report_write")
      BY <2>5 DEF SubTaskExistsGuard, ArchiveRead, RestoreRead, ReportRead,
                  ReportClaim, ReportWrite
    <3> QED BY <3>1, <2>4 DEF PC, Writing
  <2>6. CASE AssignmentStep(p)
    <3>1. \/ Finish(p) \/ Goto(p, "assign_assigner")
          \/ Goto(p, "assign_assignee") \/ Goto(p, "assign_upsert")
          \/ Goto(p, "assign_mail") \/ Goto(p, "decide_write")
      BY <2>6 DEF AssignmentStep, AssignTarget, AssignAssigner,
                  AssignAssignee, AssignUpsert, AssignMail, DecideRead,
                  DecideWrite
    <3> QED BY <3>1, <2>4 DEF PC, Writing
  <2>7. CASE \/ CreateSubInsert(p) \/ ReportSubOwn(p) \/ ReportSubClaim(p)
             \/ ReportSubWrite(p)
    <3>1. \/ Finish(p) \/ Goto(p, "reportSub_claim")
          \/ Goto(p, "reportSub_write")
      BY <2>7 DEF CreateSubInsert, ReportSubOwn, ReportSubClaim,
                  ReportSubWrite
    <3> QED BY <3>1, <2>4 DEF PC, Writing
  <2> QED BY <2>1, <2>2, <2>3, <2>5, <2>6, <2>7
<1> QED BY <1>2, <1>3, <1>4

LEMMA OutsideLocks ==
  ASSUME TypeInv, WorkInv, LockInv, NEW p \in Procs, Step(p),
         \/ TaskMemberGuard(p) \/ SubTaskExistsGuard(p)
         \/ CloseCount(p) \/ ArchiveRead(p) \/ RestorePeek(p) \/ RestoreRead(p)
         \/ ReportRead(p) \/ ReportClaim(p) \/ ReportWrite(p)
         \/ AssignmentStep(p)
         \/ CreateSubInsert(p) \/ ReportSubTask(p) \/ ReportSubOwn(p)
         \/ ReportSubClaim(p) \/ ReportSubWrite(p)
  PROVE  LockInv'
BY OutsideStays, OthersStay, StaysOut

\* Request p was, and is, in no transaction, and the others go nowhere.
StartsOut(p) ==
  /\ req[p].pc \notin Writing /\ req'[p].pc \notin Writing
  /\ UNCHANGED <<subAssignee, tx>>
  /\ \A q \in Procs \ {p} : req'[q] = req[q]

LEMMA CallOut ==
  ASSUME TypeInv, NEW p \in Procs, Call(p)  PROVE StartsOut(p)
<1>1. ASSUME NEW r, Receive(p, r),
             r.pc \in {"guard", "sub_guard", "assign_target", "decide_read"}
      PROVE  StartsOut(p)
  BY <1>1 DEF StartsOut, Receive, NoRequest, Writing, TypeInv, TypeOK,
              RequestInv, tables
<1>2. CASE TaskCall(p)
  BY <1>1, <1>2 DEF TaskCall, PostClose, PostArchive, PostRestore, PostReport,
                    NoRequest
<1>3. CASE AssignmentCall(p)
  BY <1>1, <1>3 DEF AssignmentCall, PostAssign, PostAssignSub, GetDecision,
                    NoRequest
<1>4. CASE SubTaskCall(p)
  BY <1>1, <1>4 DEF SubTaskCall, PostCreateSub, PostCloseSub, PostRestoreSub,
                    PostReportSub, PostSub, NoRequest
<1> QED BY <1>2, <1>3, <1>4 DEF Call

LEMMA CallLocks ==
  ASSUME TypeInv, WorkInv, LockInv, NEW p \in Procs, Call(p)  PROVE LockInv'
BY CallOut, StaysOut DEF StartsOut

\* The transactions of a task.
LEMMA TaskLocks ==
  ASSUME TypeInv, WorkInv, LockInv, NEW p \in Procs,
         \/ CloseUpdate(p) \/ CloseDrop(p) \/ CloseSkip(p) \/ CloseSubs(p)
         \/ ArchiveUpdate(p) \/ ArchiveSubs(p)
         \/ RestoreUpdate(p) \/ RestoreCascade(p)
  PROVE  LockInv'
<1>1. Handler(req[p])
  BY DEF TypeInv, RequestInv, GoodRequest
<1>2. PICK pc \in { "close_drop", "close_skip", "close_subs", "archive_subs",
                    "restore_cascade", "commit" } : Goto(p, pc)
  BY DEF CloseUpdate, CloseDrop, CloseSkip, CloseSubs, ArchiveUpdate,
         ArchiveSubs, RestoreUpdate, RestoreCascade
<1>3. req[p].op \in {"close", "archive", "restore"}
  BY <1>1 DEF CloseUpdate, CloseDrop, CloseSkip, CloseSubs, ArchiveUpdate,
              ArchiveSubs, RestoreUpdate, RestoreCascade, Handler
<1>4. HoldsTask(req'[p])
  BY <1>2, <1>3, GotoHolding DEF HoldsTask
<1>5. CASE CloseUpdate(p) \/ ArchiveUpdate(p) \/ RestoreUpdate(p)
  <2>1. req[p].pc \notin Writing
    BY <1>5 DEF CloseUpdate, ArchiveUpdate, RestoreUpdate, Writing
  <2>2. \E row : WriteTask(p, row)
    BY <1>5 DEF CloseUpdate, ArchiveUpdate, RestoreUpdate
  <2>3. PICK rows : Write(p, "task", rows) /\ DOMAIN rows = {req[p].task}
    BY <2>2 DEF WriteTask
  <2> QED BY <1>2, <1>4, <2>1, <2>3, GotoHolding, RowsTaken
<1>6. CASE \/ CloseDrop(p) \/ CloseSkip(p) \/ CloseSubs(p) \/ ArchiveSubs(p)
           \/ RestoreCascade(p)
  <2>1. HoldsTask(req[p])
    BY <1>6 DEF CloseDrop, CloseSkip, CloseSubs, ArchiveSubs, RestoreCascade,
                HoldsTask
  <2>2. \/ \E from, to : MoveAssignees(p, from, to)
        \/ \E from, to : MoveSubTasks(p, from, to)
        \/ CloseSubs(p)
    BY <1>6 DEF CloseDrop, CloseSkip, ArchiveSubs, RestoreCascade
  <2>3. \/ \E rows : /\ Write(p, "assignee", rows)
                     /\ DOMAIN rows \subseteq {req[p].task} \X Users
        \/ \E rows : /\ Write(p, "subTask", rows)
                     /\ \A s \in DOMAIN rows : parentOf[s] = req[p].task
    <3>1. ASSUME NEW from, NEW to, MoveAssignees(p, from, to)
          PROVE  \E rows : /\ Write(p, "assignee", rows)
                           /\ DOMAIN rows \subseteq {req[p].task} \X Users
      BY <3>1 DEF MoveAssignees, AssigneesIn
    <3>2. ASSUME NEW from, NEW to, MoveSubTasks(p, from, to)
          PROVE  \E rows : /\ Write(p, "subTask", rows)
                           /\ \A s \in DOMAIN rows : parentOf[s] = req[p].task
      BY <3>2 DEF MoveSubTasks, SubTasksIn
    <3>3. CASE CloseSubs(p)
      <4> DEFINE v == SubTaskView(p)
                 open == SubTasksIn(v, req[p], TaskStatus \ {"CLOSED"})
                 rows == [s \in open |-> [v[s] EXCEPT !.status = "CLOSED",
                                           !.closedById = req[p].actor]]
      <4>1. Write(p, "subTask", rows)
        BY <3>3 DEF CloseSubs
      <4>2. \A s \in DOMAIN rows : parentOf[s] = req[p].task
        BY DEF SubTasksIn
      <4> HIDE DEF rows
      <4> QED BY <4>1, <4>2
    <3> QED BY <2>2, <3>1, <3>2, <3>3
  <2> QED BY <1>2, <1>4, <2>1, <2>3, GotoHolding, RowsTaken
<1> QED BY <1>5, <1>6

\* The transactions of a sub-task.
LEMMA SubTaskLocks ==
  ASSUME TypeInv, WorkInv, LockInv, NEW p \in Procs,
         \/ CloseSubUpdate(p) \/ CloseSubOwn(p) \/ CloseSubUpsert(p)
         \/ CloseSubDrop(p) \/ CloseSubSkip(p)
         \/ RestoreSubUpdate(p) \/ RestoreSubAccept(p) \/ RestoreSubPend(p)
  PROVE  LockInv'
<1>1. Handler(req[p]) /\ Parameters(req[p])
  BY DEF TypeInv, RequestInv, GoodRequest
<1>2. PICK pc \in { "closeSub_own", "closeSub_upsert", "closeSub_drop",
                    "closeSub_skip", "restoreSub_accept", "restoreSub_pend",
                    "commit" } : Goto(p, pc)
  BY DEF CloseSubUpdate, CloseSubOwn, CloseSubUpsert, CloseSubDrop,
         CloseSubSkip, RestoreSubUpdate, RestoreSubAccept, RestoreSubPend
<1>3. req[p].op \in {"closeSub", "restoreSub"}
  BY <1>1 DEF CloseSubUpdate, CloseSubOwn, CloseSubUpsert, CloseSubDrop,
              CloseSubSkip, RestoreSubUpdate, RestoreSubAccept,
              RestoreSubPend, Handler
<1>4. HoldsSubTask(req'[p])
  BY <1>2, <1>3, GotoHolding DEF HoldsSubTask
<1>5. req[p].actor \in Users
  BY <1>1, <1>3 DEF Parameters
<1>6. CASE CloseSubUpdate(p) \/ RestoreSubUpdate(p)
  <2>1. req[p].pc \notin Writing
    BY <1>6 DEF CloseSubUpdate, RestoreSubUpdate, Writing
  <2>2. PICK rows : Write(p, "subTask", rows) /\ DOMAIN rows = {req[p].sub}
    BY <1>6 DEF CloseSubUpdate, RestoreSubUpdate
  <2> QED BY <1>2, <1>4, <2>1, <2>2, GotoHolding, RowsTaken
<1>7. CASE CloseSubOwn(p)
  <2>1. HoldsSubTask(req[p])
    BY <1>7 DEF CloseSubOwn, HoldsSubTask
  <2>2. Held(req'[p], tx[p])
    BY <1>2, <1>4, <2>1, GotoHolding, OneKind DEF LockInv, Held
  <2>3. tx' = tx
    BY <1>7 DEF CloseSubOwn
  <2> QED BY <1>2, <2>2, <2>3, GotoHolding, NoRowTaken
<1>8. CASE \/ CloseSubUpsert(p) \/ CloseSubDrop(p) \/ CloseSubSkip(p)
           \/ RestoreSubAccept(p) \/ RestoreSubPend(p)
  <2>1. HoldsSubTask(req[p])
    BY <1>8 DEF CloseSubUpsert, CloseSubDrop, CloseSubSkip, RestoreSubAccept,
                RestoreSubPend, HoldsSubTask
  <2>2. CloseSubUpsert(p) \/ \E from, to : MoveSubAssignees(p, from, to)
    BY <1>8 DEF CloseSubDrop, CloseSubSkip, RestoreSubAccept, RestoreSubPend
  <2>3. PICK rows : /\ Write(p, "subAssignee", rows)
                    /\ DOMAIN rows \subseteq {req[p].sub} \X Users
    <3>1. CASE CloseSubUpsert(p)
      <4> DEFINE own == [k \in {<<req[p].sub, req[p].actor>>} |-> "COMPLETED"]
      <4>1. Write(p, "subAssignee", own)
        BY <3>1 DEF CloseSubUpsert
      <4>2. DOMAIN own \subseteq {req[p].sub} \X Users
        BY <1>5
      <4> HIDE DEF own
      <4> QED BY <4>1, <4>2
    <3>2. ASSUME NEW from, NEW to, MoveSubAssignees(p, from, to)
          PROVE  \E rows : /\ Write(p, "subAssignee", rows)
                           /\ DOMAIN rows \subseteq {req[p].sub} \X Users
      BY <3>2 DEF MoveSubAssignees, SubAssigneesIn
    <3> QED BY <2>2, <3>1, <3>2
  <2> QED BY <1>2, <1>4, <2>1, <2>3, GotoHolding, RowsTaken
<1> QED BY <1>6, <1>7, <1>8

LEMMA LockNext ==
  ASSUME TypeInv, WorkInv, LockInv, [Next]_vars
  PROVE  LockInv'
<1>1. ASSUME NEW p \in Procs, Step(p)  PROVE LockInv'
  <2>1. CASE TaskMemberGuard(p) \/ SubTaskExistsGuard(p) \/ Commit(p)
    BY <1>1, <2>1, OutsideLocks, EndLocks
  <2>2. CASE TaskStep(p)
    BY <1>1, <2>2, OutsideLocks, TaskLocks DEF TaskStep
  <2>3. CASE AssignmentStep(p)
    BY <1>1, <2>3, OutsideLocks
  <2>4. CASE SubTaskStep(p)
    BY <1>1, <2>4, OutsideLocks, SubTaskLocks DEF SubTaskStep
  <2> QED BY <1>1, <2>1, <2>2, <2>3, <2>4 DEF Step
<1>2. ASSUME NEW p \in Procs, Call(p) \/ Abort(p)  PROVE LockInv'
  BY <1>2, CallLocks, EndLocks
<1>3. ASSUME UNCHANGED <<tx, req>>  PROVE LockInv'
  BY <1>3 DEF LockInv, Held
<1>4. ASSUME NEW u \in MutableUsers, ChangeMembership(u)  PROVE LockInv'
  BY <1>3, <1>4 DEF ChangeMembership
<1>5. CASE UNCHANGED vars
  BY <1>3, <1>5 DEF vars
<1> QED BY <1>1, <1>2, <1>4, <1>5 DEF Next

\* The rows a transaction holds are its task's or its sub-task's, and no two
\* hold one task or one sub-task.
THEOREM LockInvariant == Spec => []LockInv
<1>1. Init => LockInv
  BY LockInit
<1>2. TypeInv /\ WorkInv /\ LockInv /\ [Next]_vars => LockInv'
  BY LockNext
<1> QED BY <1>1, <1>2, WorkInvariant, PTL DEF Spec

-----------------------------------------------------------------------------
(* Who waits for whom                                                      *)

\* A request in no transaction waits for one in a transaction, and the
\* transaction of a task only for that of a sub-task.
LEMMA WaitsUpwards ==
  ASSUME TypeInv, LockInv, NEW p \in Procs, NEW q \in Procs, MayWaitFor(p, q)
  PROVE  /\ HoldsTask(req[q]) \/ HoldsSubTask(req[q])
         /\ ~HoldsSubTask(req[p])
         /\ HoldsTask(req[p]) => HoldsSubTask(req[q])
<1> DEFINE r == req[p]
<1>1. /\ p # q
      /\ \/ DOMAIN tx[q].task \cap Wanted(r).task # {}
         \/ DOMAIN tx[q].assignee \cap Wanted(r).assignee # {}
         \/ DOMAIN tx[q].subTask \cap Wanted(r).subTask # {}
         \/ DOMAIN tx[q].subAssignee \cap Wanted(r).subAssignee # {}
  BY DEF MayWaitFor, NoWrites
<1>2. Held(req[q], tx[q]) /\ Held(r, tx[p])
  BY DEF LockInv
<1>3. /\ DOMAIN tx[p].task \cap DOMAIN tx[q].task = {}
      /\ DOMAIN tx[p].subTask \cap DOMAIN tx[q].subTask = {}
  BY <1>1 DEF LockInv
<1>4. HoldsTask(req[q]) \/ HoldsSubTask(req[q])
  BY <1>1, <1>2, NothingHeld DEF Held
<1>5. ~HoldsSubTask(r)
  <2> SUFFICES ASSUME HoldsSubTask(r)  PROVE FALSE
    OBVIOUS
  <2>1. /\ Wanted(r).task = {} /\ Wanted(r).assignee = {}
        /\ Wanted(r).subTask = {}
        /\ Wanted(r).subAssignee \subseteq {r.sub} \X Users
    BY DEF HoldsSubTask, Wanted
  <2>2. r.sub \in DOMAIN tx[p].subTask
    BY <1>2 DEF Held
  <2>3. DOMAIN tx[q].subAssignee \cap ({r.sub} \X Users) # {}
    BY <1>1, <2>1
  <2>4. HoldsSubTask(req[q]) /\ req[q].sub = r.sub
    BY <1>2, <1>4, <2>3 DEF Held
  <2>5. r.sub \in DOMAIN tx[q].subTask
    BY <1>2, <2>4 DEF Held
  <2> QED BY <1>3, <2>2, <2>5
<1>6. HoldsTask(r) => HoldsSubTask(req[q])
  <2> SUFFICES ASSUME HoldsTask(r), HoldsTask(req[q])  PROVE FALSE
    BY <1>4
  <2>1. /\ Wanted(r).task = {}
        /\ Wanted(r).assignee \subseteq {r.task} \X Users
        /\ \A s \in Wanted(r).subTask : parentOf[s] = r.task
        /\ Wanted(r).subAssignee = {}
    BY DEF HoldsTask, Wanted
  <2>2. req[q].task # r.task
    BY <1>2, <1>3 DEF Held
  <2>3. /\ DOMAIN tx[q].assignee \subseteq {req[q].task} \X Users
        /\ \A s \in DOMAIN tx[q].subTask : parentOf[s] = req[q].task
    BY <1>2 DEF Held
  <2>4. DOMAIN tx[q].assignee \cap Wanted(r).assignee = {}
    BY <2>1, <2>2, <2>3
  <2>5. DOMAIN tx[q].subTask \cap Wanted(r).subTask = {}
    BY <2>1, <2>2, <2>3
  <2> QED BY <1>1, <2>1, <2>4, <2>5
<1> QED BY <1>4, <1>5, <1>6

\* No ring of requests waits on itself, however many there are, of whatever
\* operations and on whatever tasks.
THEOREM DeadlockFree == Spec => []NoDeadlock
<1>1. TypeInv /\ LockInv => NoDeadlock
  <2> SUFFICES ASSUME TypeInv, LockInv, NEW S \in (SUBSET Procs) \ {{}}
               PROVE  \E p \in S : \A q \in S : ~MayWaitFor(p, q)
    BY DEF NoDeadlock
  <2>1. CASE \E p \in S : HoldsSubTask(req[p])
    BY <2>1, WaitsUpwards
  <2>2. CASE /\ \A q \in S : ~HoldsSubTask(req[q])
             /\ \E p \in S : HoldsTask(req[p])
    BY <2>2, WaitsUpwards
  <2>3. CASE \A q \in S : ~HoldsTask(req[q]) /\ ~HoldsSubTask(req[q])
    BY <2>3, WaitsUpwards
  <2> QED BY <2>1, <2>2, <2>3
<1> QED BY <1>1, LockInvariant, Typed, PTL

-----------------------------------------------------------------------------
(* Every step of a request brings its answer nearer                        *)

LEMMA StagesLeft ==
  /\ StatementsLeft("idle") = 0
  /\ \A pc \in { "commit", "report_claim", "report_write", "assign_mail",
                 "decide_write", "createSub_insert", "reportSub_claim",
                 "reportSub_write" } : StatementsLeft(pc) = 1
  /\ \A pc \in { "close_subs", "archive_subs", "restore_cascade",
                 "report_read", "assign_upsert", "decide_read",
                 "closeSub_skip", "restoreSub_pend", "reportSub_own" } :
       StatementsLeft(pc) = 2
  /\ \A pc \in { "close_skip", "archive_update", "restore_update",
                 "assign_assignee", "closeSub_drop", "restoreSub_accept",
                 "reportSub_task" } : StatementsLeft(pc) = 3
  /\ \A pc \in { "close_drop", "archive_read", "restore_read",
                 "assign_assigner", "closeSub_upsert", "restoreSub_update" } :
       StatementsLeft(pc) = 4
  /\ \A pc \in { "close_update", "restore_peek", "assign_target",
                 "closeSub_own" } : StatementsLeft(pc) = 5
  /\ \A pc \in {"close_count", "closeSub_update"} : StatementsLeft(pc) = 6
  /\ StatementsLeft("guard") = 7
  /\ StatementsLeft("sub_guard") = 8
BY DEF StatementsLeft

LEMMA SomeLeft ==
  /\ \A pc \in PC \ {"idle"} : StatementsLeft(pc) \in 1 .. 8
  /\ \A op \in DOMAIN ServiceEntry :
       StatementsLeft(ServiceEntry[op]) \in 1 .. 6
<1>1. \A pc \in PC \ {"idle"} : StatementsLeft(pc) \in 1 .. 8
  BY StagesLeft DEF PC
<1>2. \A op \in DOMAIN ServiceEntry :
        StatementsLeft(ServiceEntry[op]) \in 1 .. 6
  BY StagesLeft DEF ServiceEntry
<1> QED BY <1>1, <1>2

Nearer(p) ==
  /\ StatementsLeft(req'[p].pc) < StatementsLeft(req[p].pc)
  /\ req'[p].pc = "idle" => req'[p] = NoRequest

\* The steps that answer the request or lead to a statement named in them.
LEMMA Advancing ==
  ASSUME TypeInv, NEW p \in Procs, req[p].pc # "idle",
         \/ Finish(p)
         \/ \E pc : /\ Goto(p, pc) /\ pc # "idle"
                    /\ StatementsLeft(pc) < StatementsLeft(req[p].pc)
  PROVE  Nearer(p)
<1>1. CASE Finish(p)
  <2>1. /\ req'[p] = NoRequest /\ NoRequest.pc = "idle"
        /\ req[p].pc \in PC \ {"idle"}
    BY <1>1 DEF Finish, NoRequest, TypeInv, RequestInv, GoodRequest, Request
  <2> QED BY <2>1, SomeLeft, StagesLeft DEF Nearer
<1>2. ASSUME NEW pc, Goto(p, pc), pc # "idle",
             StatementsLeft(pc) < StatementsLeft(req[p].pc)
      PROVE  Nearer(p)
  BY <1>2, GotoHolding DEF Nearer
<1> QED BY <1>1, <1>2

LEMMA GuardAdvances ==
  ASSUME TypeInv, NEW p \in Procs, TaskMemberGuard(p)
  PROVE  Nearer(p)
<1>1. /\ req \in [Procs -> Request] /\ req[p] \in Request
      /\ Handler(req[p]) /\ req[p].pc = "guard"
  BY DEF TypeInv, RequestInv, GoodRequest, TaskMemberGuard
<1>2. CASE Finish(p)
  BY <1>1, <1>2, Advancing
<1>3. CASE req'[p].pc = ServiceEntry[req[p].op]
  <2>1. req[p].op \in DOMAIN ServiceEntry
    BY <1>1 DEF Handler, ServiceEntry
  <2> QED BY <1>1, <1>3, <2>1, SomeLeft, StagesLeft DEF Nearer
<1> QED BY <1>1, <1>2, <1>3 DEF TaskMemberGuard, Request

LEMMA StepAdvances ==
  ASSUME TypeInv, NEW p \in Procs, Step(p)
  PROVE  Nearer(p)
<1>1. req \in [Procs -> Request] /\ req[p] \in Request
  BY DEF TypeInv, RequestInv
<1>2. CASE TaskMemberGuard(p)
  BY <1>2, GuardAdvances
<1>3. CASE CloseCount(p) \/ RestorePeek(p) \/ ReportSubTask(p)
  <2>1. \/ req[p].pc # "idle" /\ Finish(p)
        \/ req[p].pc = "close_count" /\ req'[p].pc = "close_update"
        \/ req[p].pc = "restore_peek" /\ req'[p].pc = "restore_read"
        \/ req[p].pc = "reportSub_task" /\ req'[p].pc = "reportSub_own"
    BY <1>1, <1>3 DEF CloseCount, RestorePeek, ReportSubTask, Request
  <2> QED BY <2>1, Advancing, StagesLeft DEF Nearer
<1>4. CASE SubTaskExistsGuard(p) \/ Commit(p)
  <2>1. \/ req[p].pc # "idle" /\ Finish(p)
        \/ req[p].pc = "sub_guard" /\ Goto(p, "guard")
    BY <1>4 DEF SubTaskExistsGuard, Commit
  <2> QED BY <2>1, Advancing, StagesLeft
<1>5. CASE TaskStep(p) /\ ~CloseCount(p) /\ ~RestorePeek(p)
  <2>1. \/ req[p].pc # "idle" /\ Finish(p)
        \/ req[p].pc = "close_update" /\ Goto(p, "close_drop")
        \/ req[p].pc = "close_drop" /\ Goto(p, "close_skip")
        \/ req[p].pc = "close_skip" /\ Goto(p, "close_subs")
        \/ req[p].pc = "close_skip" /\ Goto(p, "commit")
        \/ req[p].pc = "close_subs" /\ Goto(p, "commit")
        \/ req[p].pc = "archive_read" /\ Goto(p, "archive_update")
        \/ req[p].pc = "archive_update" /\ Goto(p, "archive_subs")
        \/ req[p].pc = "archive_subs" /\ Goto(p, "commit")
        \/ req[p].pc = "restore_read" /\ Goto(p, "restore_update")
        \/ req[p].pc = "restore_update" /\ Goto(p, "restore_cascade")
        \/ req[p].pc = "restore_update" /\ Goto(p, "commit")
        \/ req[p].pc = "restore_cascade" /\ Goto(p, "commit")
        \/ req[p].pc = "report_read" /\ Goto(p, "report_claim")
        \/ req[p].pc = "report_read" /\ Goto(p, "report_write")
    BY <1>5 DEF TaskStep, CloseUpdate, CloseDrop, CloseSkip, CloseSubs,
                ArchiveRead, ArchiveUpdate, ArchiveSubs, RestoreRead,
                RestoreUpdate, RestoreCascade, ReportRead, ReportClaim,
                ReportWrite
  <2> QED BY <2>1, Advancing, StagesLeft
<1>6. CASE AssignmentStep(p)
  <2>1. \/ req[p].pc # "idle" /\ Finish(p)
        \/ req[p].pc = "assign_target" /\ Goto(p, "assign_assigner")
        \/ req[p].pc = "assign_assigner" /\ Goto(p, "assign_assignee")
        \/ req[p].pc = "assign_assignee" /\ Goto(p, "assign_upsert")
        \/ req[p].pc = "assign_upsert" /\ Goto(p, "assign_mail")
        \/ req[p].pc = "decide_read" /\ Goto(p, "decide_write")
    BY <1>6 DEF AssignmentStep, AssignTarget, AssignAssigner, AssignAssignee,
                AssignUpsert, AssignMail, DecideRead, DecideWrite
  <2> QED BY <2>1, Advancing, StagesLeft
<1>7. CASE SubTaskStep(p) /\ ~ReportSubTask(p)
  <2>1. \/ req[p].pc # "idle" /\ Finish(p)
        \/ req[p].pc = "closeSub_update" /\ Goto(p, "closeSub_own")
        \/ req[p].pc = "closeSub_own" /\ Goto(p, "closeSub_upsert")
        \/ req[p].pc = "closeSub_own" /\ Goto(p, "closeSub_drop")
        \/ req[p].pc = "closeSub_upsert" /\ Goto(p, "closeSub_drop")
        \/ req[p].pc = "closeSub_drop" /\ Goto(p, "closeSub_skip")
        \/ req[p].pc = "closeSub_skip" /\ Goto(p, "commit")
        \/ req[p].pc = "restoreSub_update" /\ Goto(p, "restoreSub_accept")
        \/ req[p].pc = "restoreSub_accept" /\ Goto(p, "restoreSub_pend")
        \/ req[p].pc = "restoreSub_pend" /\ Goto(p, "commit")
        \/ req[p].pc = "reportSub_own" /\ Goto(p, "reportSub_claim")
        \/ req[p].pc = "reportSub_own" /\ Goto(p, "reportSub_write")
    BY <1>7 DEF SubTaskStep, CreateSubInsert, CloseSubUpdate, CloseSubOwn,
                CloseSubUpsert, CloseSubDrop, CloseSubSkip, RestoreSubUpdate,
                RestoreSubAccept, RestoreSubPend, ReportSubOwn, ReportSubClaim,
                ReportSubWrite
  <2> QED BY <2>1, Advancing, StagesLeft
<1> QED BY <1>2, <1>3, <1>4, <1>5, <1>6, <1>7 DEF Step

LEMMA StepMoves ==
  ASSUME TypeInv, NEW p \in Procs, Step(p)
  PROVE  req'[p] # req[p]
<1>1. StatementsLeft(req[p].pc) \in 0 .. 8
  <2>1. req[p].pc \in PC
    BY DEF TypeInv, RequestInv, Request
  <2> QED BY <2>1, SomeLeft, StagesLeft
<1>2. StatementsLeft(req'[p].pc) < StatementsLeft(req[p].pc)
  BY StepAdvances DEF Nearer
<1> QED BY <1>1, <1>2

LEMMA OthersHold ==
  ASSUME TypeInv, NEW p \in Procs, Step(p)
  PROVE  \A q \in Procs \ {p} : tx'[q] = tx[q]
<1>1. tx \in [Procs -> Transaction]
  BY DEF TypeInv, TypeOK
<1>2. ASSUME NEW table, NEW rows, Write(p, table, rows)
      PROVE  \A q \in Procs \ {p} : tx'[q] = tx[q]
  BY <1>1, <1>2 DEF Write
<1>3. ASSUME NEW from, NEW to,
             \/ MoveAssignees(p, from, to) \/ MoveSubTasks(p, from, to)
             \/ MoveSubAssignees(p, from, to)
      PROVE  \A q \in Procs \ {p} : tx'[q] = tx[q]
  BY <1>2, <1>3 DEF MoveAssignees, MoveSubTasks, MoveSubAssignees
<1>4. ASSUME NEW row, WriteTask(p, row)
      PROVE  \A q \in Procs \ {p} : tx'[q] = tx[q]
  BY <1>2, <1>4 DEF WriteTask
<1>5. CASE TaskMemberGuard(p) \/ SubTaskExistsGuard(p) \/ Commit(p)
  BY <1>1, <1>5 DEF TaskMemberGuard, SubTaskExistsGuard, Commit
<1>6. CASE TaskStep(p)
  BY <1>2, <1>3, <1>4, <1>6
     DEF TaskStep, CloseCount, CloseUpdate, CloseDrop, CloseSkip, CloseSubs,
         ArchiveRead, ArchiveUpdate, ArchiveSubs, RestorePeek, RestoreRead,
         RestoreUpdate, RestoreCascade, ReportRead, ReportClaim, ReportWrite
<1>7. CASE AssignmentStep(p)
  BY <1>7 DEF AssignmentStep, AssignTarget, AssignAssigner, AssignAssignee,
              AssignUpsert, AssignMail, DecideRead, DecideWrite
<1>8. CASE SubTaskStep(p)
  BY <1>2, <1>3, <1>8
     DEF SubTaskStep, CreateSubInsert, CloseSubUpdate, CloseSubOwn,
         CloseSubUpsert, CloseSubDrop, CloseSubSkip, RestoreSubUpdate,
         RestoreSubAccept, RestoreSubPend, ReportSubTask, ReportSubOwn,
         ReportSubClaim, ReportSubWrite
<1> QED BY <1>5, <1>6, <1>7, <1>8 DEF Step

\* The body of RequestsAdvance, which needs to know that a request that is
\* being served stands before some statement.
Advances ==
  \A p \in Procs :
    req[p] # NoRequest /\ <<tx[p], req[p]>>' # <<tx[p], req[p]>> =>
      StatementsLeft(req'[p].pc) < StatementsLeft(req[p].pc)

Served == \A p \in Procs : req[p].pc = "idle" => req[p] = NoRequest

LEMMA ServedAlone ==
  ASSUME Served, NEW p \in Procs, Nearer(p),
         \A q \in Procs \ {p} : req'[q] = req[q] /\ tx'[q] = tx[q]
  PROVE  Served' /\ Advances
BY DEF Served, Advances, Nearer

\* Failures end a request, and nothing else touches one that is served.
LEMMA NextAdvances ==
  ASSUME TypeInv, Served, [Next]_vars
  PROVE  Served' /\ Advances
<1>1. ASSUME NEW p \in Procs, Step(p)  PROVE Served' /\ Advances
  BY <1>1, OthersStay, OthersHold, StepAdvances, ServedAlone
<1>2. ASSUME NEW p \in Procs, Abort(p)  PROVE Served' /\ Advances
  <2>1. \A q \in Procs \ {p} : req'[q] = req[q] /\ tx'[q] = tx[q]
    BY <1>2 DEF Abort, Finish, TypeInv, TypeOK, RequestInv
  <2>2. Finish(p) /\ req[p].pc # "idle"
    BY <1>2 DEF Abort, Served
  <2> QED BY <2>1, <2>2, Advancing, ServedAlone
<1>3. ASSUME NEW p \in Procs, Call(p)  PROVE Served' /\ Advances
  <2>1. ASSUME NEW r, Receive(p, r),
               r.pc \in {"guard", "sub_guard", "assign_target", "decide_read"}
        PROVE  Served' /\ Advances
    BY <2>1 DEF Receive, Served, Advances, TypeInv, RequestInv
  <2>2. CASE TaskCall(p)
    BY <2>1, <2>2 DEF TaskCall, PostClose, PostArchive, PostRestore,
                      PostReport, NoRequest
  <2>3. CASE AssignmentCall(p)
    BY <2>1, <2>3 DEF AssignmentCall, PostAssign, PostAssignSub, GetDecision,
                      NoRequest
  <2>4. CASE SubTaskCall(p)
    BY <2>1, <2>4 DEF SubTaskCall, PostCreateSub, PostCloseSub,
                      PostRestoreSub, PostReportSub, PostSub, NoRequest
  <2> QED BY <1>3, <2>2, <2>3, <2>4 DEF Call
<1>4. ASSUME UNCHANGED <<tx, req>>  PROVE Served' /\ Advances
  BY <1>4 DEF Served, Advances
<1> QED BY <1>1, <1>2, <1>3, <1>4 DEF Next, ChangeMembership, vars

\* Every step of every request leaves it fewer statements to send.
THEOREM RequestsEnd == Spec => RequestsAdvance
<1>1. Init => Served
  BY DEF Init, Served
<1>2. TypeInv /\ Served /\ [Next]_vars => Served' /\ [Advances]_vars
  BY NextAdvances
<1> QED BY <1>1, <1>2, Typed, PTL DEF Spec, RequestsAdvance, Advances

-----------------------------------------------------------------------------
(* No request takes a row it was not seen to want                          *)

\* The body of WaitsAreForeseen.
Foreseen ==
  \A table \in DOMAIN NoWrites :
    /\ \A p \in Procs :
         DOMAIN tx'[p][table]
           \subseteq DOMAIN tx[p][table] \cup Wanted(req[p])[table]
    /\ \A k \in Changed[table] :
         \E p \in Procs :
           /\ req'[p] # req[p]
           /\ k \in DOMAIN tx[p][table] \cup Wanted(req[p])[table]

LEMMA TableNames ==
  DOMAIN NoWrites = {"task", "assignee", "subTask", "subAssignee"}
BY DEF NoWrites

LEMMA NothingChanged ==
  ASSUME UNCHANGED tables, NEW table \in DOMAIN NoWrites
  PROVE  Changed[table] = {}
BY TableNames DEF tables, Changed

LEMMA KeepsForeseen ==
  ASSUME UNCHANGED <<tables, tx>>
  PROVE  Foreseen
BY NothingChanged DEF Foreseen

\* A statement of a transaction.
LEMMA WriteForeseen ==
  ASSUME TypeInv, UNCHANGED tables, NEW p \in Procs,
         NEW table \in {"task", "assignee", "subTask", "subAssignee"},
         NEW rows, Write(p, table, rows),
         DOMAIN rows \subseteq Wanted(req[p])[table]
  PROVE  Foreseen
<1>1. /\ tx \in [Procs -> Transaction]
      /\ tx' = [tx EXCEPT ![p][table] = Over(rows, @)]
  BY DEF TypeInv, TypeOK, Write
<1>2. \A q \in Procs \ {p} : tx'[q] = tx[q]
  BY <1>1
<1>3. \A name \in {"task", "assignee", "subTask", "subAssignee"} :
        DOMAIN tx'[p][name]
          \subseteq DOMAIN tx[p][name] \cup Wanted(req[p])[name]
  <2>1. tx[p] \in Transaction
    BY <1>1
  <2>2. tx'[p] = [tx[p] EXCEPT ![table] = Over(rows, @)]
    BY <1>1
  <2>3. DOMAIN Over(rows, tx[p][table])
          = DOMAIN tx[p][table] \cup DOMAIN rows
    BY DEF Over
  <2> QED BY <2>1, <2>2, <2>3 DEF Transaction
<1> QED BY <1>2, <1>3, NothingChanged, TableNames DEF Foreseen

\* A statement outside a transaction, by which p changes the rows ks of one
\* table.
LEMMA SetForeseen ==
  ASSUME TypeInv, UNCHANGED <<task, tx>>, NEW p \in Procs, req'[p] # req[p],
         \/ UNCHANGED assignee
         \/ \E k \in Wanted(req[p]).assignee : \E st :
              assignee' = [assignee EXCEPT ![k] = st],
         \/ UNCHANGED subAssignee
         \/ \E k \in Wanted(req[p]).subAssignee : \E st :
              subAssignee' = [subAssignee EXCEPT ![k] = st],
         \A s \in SubTasks :
           subTask[s].status # NoRow => subTask'[s] = subTask[s]
  PROVE  Foreseen
<1>1. /\ Changed.task = {} /\ Changed.subTask = {}
      /\ Changed.assignee \subseteq Wanted(req[p]).assignee
      /\ Changed.subAssignee \subseteq Wanted(req[p]).subAssignee
  BY DEF Changed, TypeInv, TypeOK
<1>2. \A table \in DOMAIN NoWrites :
        Changed[table] \subseteq Wanted(req[p])[table]
  BY <1>1, TableNames
<1> QED BY <1>2 DEF Foreseen

LEMMA EndForeseen ==
  ASSUME TypeInv, NEW p \in Procs, Commit(p) \/ Abort(p)
  PROVE  Foreseen
<1>1. /\ tx \in [Procs -> Transaction]
      /\ tx' = [tx EXCEPT ![p] = NoWrites]
  BY DEF TypeInv, TypeOK, Commit, Abort
<1>2. \A q \in Procs, table \in DOMAIN NoWrites :
        DOMAIN tx'[q][table] \subseteq DOMAIN tx[q][table]
  BY <1>1, NothingHeld, TableNames
<1>3. CASE Abort(p)
  <2>1. UNCHANGED tables
    BY <1>3 DEF Abort, tables
  <2> QED BY <1>2, <2>1, NothingChanged DEF Foreseen
<1>4. CASE Commit(p)
  <2>1. req'[p] # req[p]
    BY <1>4 DEF Commit, Finish, NoRequest, TypeInv, RequestInv
  <2>2. /\ Changed.task \subseteq DOMAIN tx[p].task
        /\ Changed.assignee \subseteq DOMAIN tx[p].assignee
        /\ Changed.subTask \subseteq DOMAIN tx[p].subTask
        /\ Changed.subAssignee \subseteq DOMAIN tx[p].subAssignee
    BY <1>4 DEF Commit, TaskView, AssigneeView, SubTaskView, SubAssigneeView,
                Over, Changed, TypeInv, TypeOK
  <2>3. \A table \in DOMAIN NoWrites :
          Changed[table] \subseteq DOMAIN tx[p][table]
    BY <2>2, TableNames
  <2> QED BY <1>2, <2>1, <2>3 DEF Foreseen
<1> QED BY <1>3, <1>4

LEMMA TaskStepForeseen ==
  ASSUME TypeInv, NEW p \in Procs, TaskStep(p)
  PROVE  Foreseen
<1>1. CASE \/ CloseCount(p) \/ ArchiveRead(p) \/ RestorePeek(p)
           \/ RestoreRead(p) \/ ReportRead(p)
  BY <1>1, KeepsForeseen
     DEF CloseCount, ArchiveRead, RestorePeek, RestoreRead, ReportRead
<1>2. CASE CloseUpdate(p) \/ ArchiveUpdate(p) \/ RestoreUpdate(p)
  <2>1. /\ UNCHANGED tables /\ \E row : WriteTask(p, row)
        /\ Wanted(req[p]).task = {req[p].task}
    BY <1>2 DEF CloseUpdate, ArchiveUpdate, RestoreUpdate, InTransaction,
                Wanted
  <2>2. PICK rows : Write(p, "task", rows) /\ DOMAIN rows = {req[p].task}
    BY <2>1 DEF WriteTask
  <2> QED BY <2>1, <2>2, WriteForeseen
<1>3. ASSUME NEW from, NEW to, MoveAssignees(p, from, to), UNCHANGED tables,
             req[p].pc \in {"close_drop", "close_skip", "restore_cascade"}
      PROVE  Foreseen
  <2>1. PICK rows : /\ Write(p, "assignee", rows)
                    /\ DOMAIN rows \subseteq {req[p].task} \X Users
    BY <1>3 DEF MoveAssignees, AssigneesIn
  <2>2. Wanted(req[p]).assignee = {req[p].task} \X Users
    BY <1>3 DEF Wanted
  <2> QED BY <1>3, <2>1, <2>2, WriteForeseen
<1>4. ASSUME NEW rows, Write(p, "subTask", rows), UNCHANGED tables,
             DOMAIN rows \subseteq {s \in SubTasks : parentOf[s] = req[p].task},
             req[p].pc \in {"close_subs", "archive_subs", "restore_cascade"}
      PROVE  Foreseen
  <2>1. {s \in SubTasks : parentOf[s] = req[p].task}
          \subseteq Wanted(req[p]).subTask
    BY <1>4 DEF Wanted
  <2> QED BY <1>4, <2>1, WriteForeseen
<1>5. ASSUME NEW from, NEW to, MoveSubTasks(p, from, to), UNCHANGED tables,
             req[p].pc \in {"close_subs", "archive_subs", "restore_cascade"}
      PROVE  Foreseen
  <2>1. PICK rows :
          /\ Write(p, "subTask", rows)
          /\ DOMAIN rows \subseteq {s \in SubTasks : parentOf[s] = req[p].task}
    BY <1>5 DEF MoveSubTasks, SubTasksIn
  <2> QED BY <1>4, <1>5, <2>1
<1>6. CASE CloseSubs(p)
  <2> DEFINE v == SubTaskView(p)
             rows == [s \in SubTasksIn(v, req[p], TaskStatus \ {"CLOSED"}) |->
                        [v[s] EXCEPT !.status = "CLOSED",
                                     !.closedById = req[p].actor]]
  <2>1. Write(p, "subTask", rows)
    BY <1>6 DEF CloseSubs
  <2>2. DOMAIN rows \subseteq {s \in SubTasks : parentOf[s] = req[p].task}
    BY DEF SubTasksIn
  <2>3. UNCHANGED tables /\ req[p].pc = "close_subs"
    BY <1>6 DEF CloseSubs, InTransaction
  <2> HIDE DEF rows
  <2> QED BY <1>4, <2>1, <2>2, <2>3
<1>7. CASE \/ CloseDrop(p) \/ CloseSkip(p) \/ ArchiveSubs(p)
           \/ RestoreCascade(p)
  BY <1>3, <1>5, <1>7
     DEF CloseDrop, CloseSkip, ArchiveSubs, RestoreCascade, InTransaction
<1>8. CASE ReportClaim(p) \/ ReportWrite(p)
  <2> DEFINE k == <<req[p].task, req[p].actor>>
  <2>1. /\ UNCHANGED <<task, subTask, subAssignee, tx>> /\ Finish(p)
        /\ \/ UNCHANGED assignee
           \/ \E st : assignee' = [assignee EXCEPT ![k] = st]
        /\ req[p].pc \in {"report_claim", "report_write"}
    BY <1>8 DEF ReportClaim, ReportWrite
  <2>2. req'[p] # req[p]
    BY <2>1 DEF Finish, NoRequest, TypeInv, RequestInv
  <2>3. req[p].actor \in Users
    BY <2>1 DEF TypeInv, RequestInv, GoodRequest, Parameters, Handler
  <2>4. k \in Wanted(req[p]).assignee
    BY <2>1, <2>3 DEF Wanted
  <2> QED BY <2>1, <2>2, <2>4, SetForeseen
<1> QED BY <1>1, <1>2, <1>6, <1>7, <1>8 DEF TaskStep

LEMMA AssignmentStepForeseen ==
  ASSUME TypeInv, NEW p \in Procs, AssignmentStep(p)
  PROVE  Foreseen
<1>1. CASE \/ AssignTarget(p) \/ AssignAssigner(p) \/ AssignAssignee(p)
           \/ AssignMail(p) \/ DecideRead(p)
  BY <1>1, KeepsForeseen DEF AssignTarget, AssignAssigner, AssignAssignee,
                             AssignMail, DecideRead
<1>2. ASSUME NEW u \in Users, NEW st, SetRow(p, req[p], u, st),
             UNCHANGED <<task, subTask, tx>>, req'[p] # req[p],
             req[p].pc \in {"assign_upsert", "decide_write"}
      PROVE  Foreseen
  <2>1. /\ <<req[p].task, u>> \in Wanted(req[p]).assignee
        /\ <<req[p].sub, u>> \in Wanted(req[p]).subAssignee
    BY <1>2 DEF Wanted
  <2>2. /\ \/ UNCHANGED assignee
           \/ assignee' = [assignee EXCEPT ![<<req[p].task, u>>] = st]
        /\ \/ UNCHANGED subAssignee
           \/ subAssignee' = [subAssignee EXCEPT ![<<req[p].sub, u>>] = st]
    BY <1>2 DEF SetRow
  <2> QED BY <1>2, <2>1, <2>2, SetForeseen
<1>3. CASE AssignUpsert(p) \/ DecideWrite(p)
  <2>1. req[p].op # "none" /\ req[p].actor \in Users
    BY <1>3 DEF AssignUpsert, DecideWrite, TypeInv, RequestInv, GoodRequest,
                Parameters, Handler
  <2>2. req'[p] # req[p]
    BY StepMoves DEF Step
  <2>3. CASE AssignUpsert(p)
    <3>1. req[p].target \in Users
      BY <2>3 DEF AssignUpsert, TypeInv, RequestInv, GoodRequest, Parameters,
                  Handler
    <3> QED BY <1>2, <2>2, <2>3, <3>1 DEF AssignUpsert
  <2>4. CASE DecideWrite(p)
    BY <1>2, <2>1, <2>2, <2>4 DEF DecideWrite
  <2> QED BY <1>3, <2>3, <2>4
<1> QED BY <1>1, <1>3 DEF AssignmentStep

LEMMA SubTaskStepForeseen ==
  ASSUME TypeInv, NEW p \in Procs, SubTaskStep(p)
  PROVE  Foreseen
<1>1. CASE CloseSubOwn(p) \/ ReportSubTask(p) \/ ReportSubOwn(p)
  BY <1>1, KeepsForeseen DEF CloseSubOwn, ReportSubTask, ReportSubOwn
<1>2. CASE CloseSubUpdate(p) \/ RestoreSubUpdate(p)
  <2>1. PICK rows : Write(p, "subTask", rows) /\ DOMAIN rows = {req[p].sub}
    BY <1>2 DEF CloseSubUpdate, RestoreSubUpdate
  <2>2. UNCHANGED tables /\ req[p].sub \in Wanted(req[p]).subTask
    BY <1>2 DEF CloseSubUpdate, RestoreSubUpdate, InSubTransaction, Wanted
  <2> QED BY <2>1, <2>2, WriteForeseen
<1>3. CASE \/ CloseSubUpsert(p) \/ CloseSubDrop(p) \/ CloseSubSkip(p)
           \/ RestoreSubAccept(p) \/ RestoreSubPend(p)
  <2>1. /\ UNCHANGED tables
        /\ Wanted(req[p]).subAssignee = {req[p].sub} \X Users
    BY <1>3 DEF CloseSubUpsert, CloseSubDrop, CloseSubSkip, RestoreSubAccept,
                RestoreSubPend, InSubTransaction, Wanted
  <2>2. CASE CloseSubUpsert(p)
    <3> DEFINE own == [k \in {<<req[p].sub, req[p].actor>>} |-> "COMPLETED"]
    <3>1. Write(p, "subAssignee", own)
      BY <2>2 DEF CloseSubUpsert
    <3>2. req[p].actor \in Users
      BY <2>2 DEF CloseSubUpsert, TypeInv, RequestInv, GoodRequest,
                  Parameters, Handler
    <3>3. DOMAIN own \subseteq {req[p].sub} \X Users
      BY <3>2
    <3> HIDE DEF own
    <3> QED BY <2>1, <3>1, <3>3, WriteForeseen
  <2>3. ASSUME NEW from, NEW to, MoveSubAssignees(p, from, to)
        PROVE  Foreseen
    <3>1. PICK rows : /\ Write(p, "subAssignee", rows)
                      /\ DOMAIN rows \subseteq {req[p].sub} \X Users
      BY <2>3 DEF MoveSubAssignees, SubAssigneesIn
    <3> QED BY <2>1, <3>1, WriteForeseen
  <2> QED BY <1>3, <2>2, <2>3 DEF CloseSubDrop, CloseSubSkip,
                                  RestoreSubAccept, RestoreSubPend
<1>4. req'[p] # req[p]
  BY StepMoves DEF Step
<1>5. CASE CreateSubInsert(p)
  <2>1. \A s \in SubTasks :
          subTask[s].status # NoRow => subTask'[s] = subTask[s]
    BY <1>5 DEF CreateSubInsert, TypeInv, TypeOK
  <2> QED BY <1>4, <1>5, <2>1, SetForeseen DEF CreateSubInsert
<1>6. CASE ReportSubClaim(p) \/ ReportSubWrite(p)
  <2> DEFINE k == <<req[p].sub, req[p].actor>>
  <2>1. /\ UNCHANGED <<task, assignee, subTask, tx>>
        /\ \/ UNCHANGED subAssignee
           \/ \E st : subAssignee' = [subAssignee EXCEPT ![k] = st]
        /\ req[p].pc \in {"reportSub_claim", "reportSub_write"}
    BY <1>6 DEF ReportSubClaim, ReportSubWrite
  <2>2. req[p].actor \in Users
    BY <2>1 DEF TypeInv, RequestInv, GoodRequest, Parameters, Handler
  <2>3. k \in Wanted(req[p]).subAssignee
    BY <2>1, <2>2 DEF Wanted
  <2> QED BY <1>4, <2>1, <2>3, SetForeseen
<1> QED BY <1>1, <1>2, <1>3, <1>5, <1>6 DEF SubTaskStep

\* Whatever a request takes, MayWaitFor has seen it want: NoDeadlock is about
\* every wait there can be.
THEOREM EveryWaitForeseen == Spec => WaitsAreForeseen
<1>1. ASSUME TypeInv, NEW p \in Procs, Step(p)  PROVE Foreseen
  BY <1>1, KeepsForeseen, EndForeseen, TaskStepForeseen,
     AssignmentStepForeseen, SubTaskStepForeseen
     DEF Step, TaskMemberGuard, SubTaskExistsGuard
<1>2. ASSUME TypeInv, NEW p \in Procs, Call(p) \/ Abort(p)  PROVE Foreseen
  <2>1. ASSUME NEW r, Receive(p, r)  PROVE Foreseen
    BY <2>1, KeepsForeseen DEF Receive
  <2>2. CASE TaskCall(p)
    BY <2>1, <2>2
       DEF TaskCall, PostClose, PostArchive, PostRestore, PostReport
  <2>3. CASE AssignmentCall(p)
    BY <2>1, <2>3 DEF AssignmentCall, PostAssign, PostAssignSub, GetDecision
  <2>4. CASE SubTaskCall(p)
    BY <2>1, <2>4 DEF SubTaskCall, PostCreateSub, PostCloseSub,
                      PostRestoreSub, PostReportSub, PostSub
  <2> QED BY <1>2, <2>2, <2>3, <2>4, EndForeseen DEF Call
<1>3. ASSUME UNCHANGED <<tables, tx>>  PROVE Foreseen
  BY <1>3, KeepsForeseen
<1>4. TypeInv /\ [Next]_vars => [Foreseen]_vars
  BY <1>1, <1>2, <1>3 DEF Next, ChangeMembership
<1> QED BY <1>4, Typed, PTL DEF Spec, WaitsAreForeseen, Foreseen

-----------------------------------------------------------------------------
(***************************************************************************)
(* Who has work on a sub-task.  A row of SubTaskAssignee that was not      *)
(* there is of a member to whom an admin gave the sub-task, or of somebody *)
(* who took it.  A transaction holds such a row until it commits, so the   *)
(* invariant is about the rows it holds: they were there before, or it is  *)
(* a closer's and the row is the closer's own.                             *)
(***************************************************************************)

OwnRow(r, k) ==
  r.op = "closeSub" /\ k = <<r.sub, r.actor>> /\ WasLetIn(r.actor, r.task)

TakenInv ==
  \A p \in Procs : \A k \in DOMAIN tx[p].subAssignee :
    subAssignee[k] # NoRow \/ OwnRow(req[p], k)

\* The body of SubTaskWorkIsGivenOrTaken, and what it says of one row.
GivenOrTaken(s, u) ==
  \/ parentOf[s] \in groupTasks /\ u \in wasMember
  \/ \E p \in Procs :
       /\ req[p].op \in {"reportSub", "closeSub"} /\ req'[p] # req[p]
       /\ req[p].sub = s /\ req[p].actor = u
       /\ WasLetIn(u, req[p].task)

NewRowsOwned ==
  \A s \in SubTasks, u \in Users :
    subAssignee[<<s, u>>] = NoRow /\ subAssignee'[<<s, u>>] # NoRow =>
      GivenOrTaken(s, u)

\* Request q goes on, and adds no row that is not its own.
AddsOwn(q) ==
  /\ req'[q].op = req[q].op /\ req'[q].sub = req[q].sub
  /\ req'[q].actor = req[q].actor /\ req'[q].task = req[q].task
  /\ \A k \in DOMAIN tx'[q].subAssignee :
       \/ k \in DOMAIN tx[q].subAssignee
       \/ subAssignee[k] # NoRow
       \/ OwnRow(req[q], k)

LEMMA TakenInit == Init => TakenInv
<1> SUFFICES ASSUME Init  PROVE TakenInv
  OBVIOUS
<1>1. \A p \in Procs : DOMAIN tx[p].subAssignee = {}
  BY NothingHeld DEF Init
<1> QED BY <1>1 DEF TakenInv

\* Only transactions of sub-tasks hold such rows; rows do not disappear, and
\* who has been let in has been for ever.
LEMMA TakenKept ==
  ASSUME TypeInv', LockInv', Sound, TakenInv,
         \A q \in Procs : HoldsSubTask(req'[q]) => AddsOwn(q)
  PROVE  TakenInv'
<1> SUFFICES ASSUME NEW q \in Procs, NEW k \in DOMAIN tx'[q].subAssignee
             PROVE  subAssignee'[k] # NoRow \/ OwnRow(req[q], k)'
  BY DEF TakenInv
<1>1. HoldsSubTask(req'[q])
  BY NothingHeld DEF LockInv, Held
<1>2. subAssignee[k] # NoRow \/ OwnRow(req[q], k)
  BY <1>1 DEF AddsOwn, TakenInv
<1>3. k \in SubTasks \X Users
  BY DEF TypeInv, TypeOK, Transaction, Writes
<1>4. subAssignee[k] # NoRow => subAssignee'[k] # NoRow
  BY <1>3 DEF Sound
<1>5. OwnRow(req[q], k) => OwnRow(req[q], k)'
  BY <1>1 DEF AddsOwn, OwnRow, WasLetIn, Sound
<1> QED BY <1>2, <1>4, <1>5

LEMMA SubTransactionAdds ==
  ASSUME TypeInv, MemberInv, NEW p \in Procs,
         \/ CloseSubUpdate(p) \/ CloseSubOwn(p) \/ CloseSubUpsert(p)
         \/ CloseSubDrop(p) \/ CloseSubSkip(p)
         \/ RestoreSubUpdate(p) \/ RestoreSubAccept(p) \/ RestoreSubPend(p)
  PROVE  AddsOwn(p)
<1>1. /\ req \in [Procs -> Request] /\ req[p] \in Request
      /\ tx \in [Procs -> Transaction] /\ tx[p] \in Transaction
      /\ Handler(req[p]) /\ Parameters(req[p]) /\ RequestOK(req[p])
  BY DEF TypeInv, TypeOK, RequestInv, GoodRequest, MemberInv
<1>2. \E pc : Goto(p, pc)
  BY DEF CloseSubUpdate, CloseSubOwn, CloseSubUpsert, CloseSubDrop,
         CloseSubSkip, RestoreSubUpdate, RestoreSubAccept, RestoreSubPend
<1>3. /\ req'[p].op = req[p].op /\ req'[p].sub = req[p].sub
      /\ req'[p].actor = req[p].actor /\ req'[p].task = req[p].task
  BY <1>1, <1>2 DEF Goto, Request
<1>4. ASSUME NEW table \in {"subTask", "subAssignee"}, NEW rows,
             Write(p, table, rows),
             table = "subAssignee" =>
               \A k \in DOMAIN rows :
                 \/ k \in DOMAIN tx[p].subAssignee \/ subAssignee[k] # NoRow
                 \/ OwnRow(req[p], k)
      PROVE  AddsOwn(p)
  <2>1. tx'[p] = [tx[p] EXCEPT ![table] = Over(rows, @)]
    BY <1>1, <1>4 DEF Write
  <2>2. DOMAIN tx'[p].subAssignee
          \subseteq DOMAIN tx[p].subAssignee
                    \cup (IF table = "subAssignee" THEN DOMAIN rows ELSE {})
    BY <1>1, <2>1 DEF Transaction, Over
  <2> QED BY <1>3, <1>4, <2>2 DEF AddsOwn
<1>5. CASE CloseSubUpdate(p) \/ RestoreSubUpdate(p)
  <2>1. \E rows : Write(p, "subTask", rows)
    BY <1>5 DEF CloseSubUpdate, RestoreSubUpdate
  <2> QED BY <1>4, <2>1
<1>6. CASE CloseSubOwn(p)
  BY <1>3, <1>6 DEF CloseSubOwn, AddsOwn
<1>7. CASE CloseSubUpsert(p)
  <2> DEFINE own == [k \in {<<req[p].sub, req[p].actor>>} |-> "COMPLETED"]
  <2>1. req[p].op = "closeSub" /\ WasLetIn(req[p].actor, req[p].task)
    BY <1>1, <1>7 DEF CloseSubUpsert, Handler, RequestOK, PastGuard
  <2>2. Write(p, "subAssignee", own)
    BY <1>7 DEF CloseSubUpsert
  <2>3. \A k \in DOMAIN own : OwnRow(req[p], k)
    BY <2>1 DEF OwnRow
  <2> HIDE DEF own
  <2> QED BY <1>4, <2>2, <2>3
<1>8. ASSUME NEW from, from # NoRow, NEW to, MoveSubAssignees(p, from, to),
             req[p].op \in SubOps
      PROVE  AddsOwn(p)
  <2> DEFINE D == SubAssigneesIn(p, {from})
             rows == [k \in D |-> to]
  <2>1. D \subseteq SubTasks \X Users
    BY <1>1, <1>8 DEF SubAssigneesIn, Parameters
  <2>2. \A k \in D : k \in DOMAIN tx[p].subAssignee \/ subAssignee[k] # NoRow
    BY <1>8, <2>1
       DEF SubAssigneesIn, SubAssigneeView, Over, TypeInv, TypeOK
  <2>3. Write(p, "subAssignee", rows) /\ DOMAIN rows = D
    BY <1>8 DEF MoveSubAssignees
  <2> HIDE DEF rows, D
  <2> QED BY <1>4, <2>2, <2>3
<1>9. CASE \/ CloseSubDrop(p) \/ CloseSubSkip(p)
           \/ RestoreSubAccept(p) \/ RestoreSubPend(p)
  <2>1. req[p].op \in SubOps
    BY <1>1, <1>9 DEF CloseSubDrop, CloseSubSkip, RestoreSubAccept,
                      RestoreSubPend, Handler, SubOps
  <2> QED BY <1>8, <1>9, <2>1 DEF CloseSubDrop, CloseSubSkip,
                                  RestoreSubAccept, RestoreSubPend, NoRow
<1> QED BY <1>5, <1>6, <1>7, <1>9

LEMMA TakenNext ==
  ASSUME StoreAssumption, TypeInv, TypeInv', MemberInv, LockInv', TakenInv,
         [Next]_vars
  PROVE  TakenInv'
<1>1. Sound
  BY NextSound
<1>2. \A q \in Procs : req'[q] = req[q] /\ tx'[q] = tx[q] => AddsOwn(q)
  BY DEF AddsOwn
<1>3. ASSUME NEW p \in Procs, Step(p)  PROVE TakenInv'
  <2>1. \A q \in Procs \ {p} : AddsOwn(q)
    BY <1>2, <1>3, OthersStay, OthersHold
  <2>2. ASSUME req'[p].pc \notin Writing  PROVE TakenInv'
    BY <1>1, <2>1, <2>2, HoldersWrite, TakenKept
  <2>3. CASE Commit(p)
    BY <2>2, <2>3, FinishOut DEF Commit
  <2>4. CASE TaskStep(p)
    <3>1. CASE \/ CloseCount(p) \/ ArchiveRead(p) \/ RestorePeek(p)
               \/ RestoreRead(p)
               \/ ReportRead(p) \/ ReportClaim(p) \/ ReportWrite(p)
      BY <1>3, <2>2, <3>1, OutsideStays
    <3>2. CASE \/ CloseUpdate(p) \/ CloseDrop(p) \/ CloseSkip(p) \/ CloseSubs(p)
               \/ ArchiveUpdate(p) \/ ArchiveSubs(p)
               \/ RestoreUpdate(p) \/ RestoreCascade(p)
      <4>1. \E pc \in TaskPC : Goto(p, pc)
        BY <3>2 DEF CloseUpdate, CloseDrop, CloseSkip, CloseSubs,
                    ArchiveUpdate, ArchiveSubs, RestoreUpdate, RestoreCascade,
                    TaskPC
      <4>2. req'[p].pc \in TaskPC /\ req'[p].op = req[p].op
        BY <4>1, GotoHolding
      <4>3. req[p].op \in {"close", "archive", "restore"}
        BY <3>2 DEF CloseUpdate, CloseDrop, CloseSkip, CloseSubs,
                    ArchiveUpdate, ArchiveSubs, RestoreUpdate, RestoreCascade,
                    TypeInv, RequestInv, GoodRequest, Handler
      <4>4. ~HoldsSubTask(req'[p])
        BY <4>2, <4>3 DEF HoldsSubTask, TaskPC
      <4> QED BY <1>1, <2>1, <4>4, TakenKept
    <3> QED BY <2>4, <3>1, <3>2 DEF TaskStep
  <2>5. CASE SubTaskStep(p)
    <3>1. CASE \/ CreateSubInsert(p) \/ ReportSubTask(p) \/ ReportSubOwn(p)
               \/ ReportSubClaim(p) \/ ReportSubWrite(p)
      BY <1>3, <2>2, <3>1, OutsideStays
    <3>2. CASE \/ CloseSubUpdate(p) \/ CloseSubOwn(p) \/ CloseSubUpsert(p)
               \/ CloseSubDrop(p) \/ CloseSubSkip(p) \/ RestoreSubUpdate(p)
               \/ RestoreSubAccept(p) \/ RestoreSubPend(p)
      BY <1>1, <2>1, <3>2, SubTransactionAdds, TakenKept
    <3> QED BY <2>5, <3>1, <3>2 DEF SubTaskStep
  <2>6. CASE TaskMemberGuard(p) \/ SubTaskExistsGuard(p) \/ AssignmentStep(p)
    BY <1>3, <2>2, <2>6, OutsideStays
  <2> QED BY <1>3, <2>3, <2>4, <2>5, <2>6 DEF Step
<1>4. ASSUME NEW p \in Procs, Call(p) \/ Abort(p)  PROVE TakenInv'
  <2>1. \A q \in Procs \ {p} : req'[q] = req[q] /\ tx'[q] = tx[q]
    BY <1>4, CallOut DEF StartsOut, Abort, Finish, TypeInv, TypeOK, RequestInv
  <2>2. ~HoldsSubTask(req'[p])
    BY <1>4, CallOut, FinishOut, HoldersWrite DEF StartsOut, Abort
  <2> QED BY <1>1, <1>2, <2>1, <2>2, TakenKept
<1>5. ASSUME UNCHANGED <<tx, req>>  PROVE TakenInv'
  BY <1>1, <1>2, <1>5, TakenKept
<1> QED BY <1>3, <1>4, <1>5 DEF Next, ChangeMembership, vars

LEMMA NewRowGivenOrTaken ==
  ASSUME StoreAssumption, TypeInv, MemberInv, TakenInv, [Next]_vars,
         NEW s \in SubTasks, NEW u \in Users,
         subAssignee[<<s, u>>] = NoRow, subAssignee'[<<s, u>>] # NoRow
  PROVE  GivenOrTaken(s, u)
<1>1. subAssignee' # subAssignee
  OBVIOUS
<1>2. subAssignee \in [SubTasks \X Users -> AssigneeRow]
  BY DEF TypeInv, TypeOK
<1>3. PICK p \in Procs : Step(p)
  BY <1>1, CallOut DEF StartsOut, Next, Abort, ChangeMembership, tables, vars
<1>4. req'[p] # req[p]
  BY <1>3, StepMoves
<1>5. /\ Handler(req[p]) /\ Parameters(req[p]) /\ RequestOK(req[p])
  BY DEF TypeInv, RequestInv, GoodRequest, MemberInv
<1>6. CASE Commit(p)
  <2> DEFINE k == <<s, u>>
  <2>1. k \in DOMAIN tx[p].subAssignee
    BY <1>1, <1>2, <1>6 DEF Commit, SubAssigneeView, Over
  <2>2. OwnRow(req[p], k)
    BY <2>1 DEF TakenInv
  <2> QED BY <1>4, <2>2 DEF OwnRow, GivenOrTaken
<1>7. CASE AssignUpsert(p) \/ DecideWrite(p)
  <2>1. PICK v \in wasMember : \E st : SetRow(p, req[p], v, st)
    BY <1>5, <1>7 DEF AssignUpsert, DecideWrite, RequestOK, Handler
  <2>2. /\ req[p].sub # Null
        /\ \E st : subAssignee' = [subAssignee EXCEPT ![<<req[p].sub, v>>] = st]
    BY <1>1, <2>1 DEF SetRow
  <2>3. <<s, u>> = <<req[p].sub, v>>
    BY <1>2, <2>2
  <2>4. TargetTask(req[p]) \in groupTasks
    BY <1>5, <1>7 DEF AssignUpsert, DecideWrite, RequestOK, GroupTaskSeen
  <2> QED BY <2>2, <2>3, <2>4 DEF TargetTask, GivenOrTaken
<1>8. CASE ReportSubClaim(p) \/ ReportSubWrite(p)
  <2> DEFINE k == <<req[p].sub, req[p].actor>>
  <2>1. req[p].op = "reportSub" /\ WasLetIn(req[p].actor, req[p].task)
    BY <1>5, <1>8 DEF Handler, RequestOK, PastGuard, ReportSubClaim,
                      ReportSubWrite
  <2>2. \E st : subAssignee' = [subAssignee EXCEPT ![k] = st]
    BY <1>1, <1>8 DEF ReportSubClaim, ReportSubWrite
  <2>3. <<s, u>> = k
    BY <1>2, <2>2
  <2> QED BY <1>4, <2>1, <2>3 DEF GivenOrTaken
<1>9. CASE TaskMemberGuard(p) \/ SubTaskExistsGuard(p) \/ TaskStep(p)
  BY <1>1, <1>9
     DEF TaskMemberGuard, SubTaskExistsGuard, TaskStep, CloseCount,
         CloseUpdate, CloseDrop, CloseSkip, CloseSubs, ArchiveRead,
         ArchiveUpdate, ArchiveSubs, RestorePeek, RestoreRead, RestoreUpdate,
         RestoreCascade, ReportRead, ReportClaim, ReportWrite, InTransaction,
         tables
<1>10. CASE AssignmentStep(p)
  BY <1>1, <1>7, <1>10
     DEF AssignmentStep, AssignTarget, AssignAssigner, AssignAssignee,
         AssignMail, DecideRead, tables
<1>11. CASE SubTaskStep(p)
  BY <1>1, <1>8, <1>11
     DEF SubTaskStep, CreateSubInsert, CloseSubUpdate, CloseSubOwn,
         CloseSubUpsert, CloseSubDrop, CloseSubSkip, RestoreSubUpdate,
         RestoreSubAccept, RestoreSubPend, ReportSubTask, ReportSubOwn,
         InSubTransaction, tables
<1> QED BY <1>3, <1>6, <1>9, <1>10, <1>11 DEF Step

\* Nobody is given a sub-task without having been a member of its group: whoever
\* has a new row and never was one took it himself, by a claim or by closing the
\* sub-task, and had passed the guard of the task in his URL.
THEOREM SubTaskWorkGivenOrTaken == Spec => SubTaskWorkIsGivenOrTaken
<1>1. Init => TakenInv
  BY TakenInit
<1>2. TypeInv /\ TypeInv' /\ MemberInv /\ LockInv' /\ TakenInv /\ [Next]_vars
        => TakenInv'
  BY TakenNext, StoreAssumption
<1>3. TypeInv /\ MemberInv /\ TakenInv /\ [Next]_vars => [NewRowsOwned]_vars
  BY NewRowGivenOrTaken, StoreAssumption DEF NewRowsOwned
<1> QED BY <1>1, <1>2, <1>3, WorkInvariant, LockInvariant, PTL
        DEF Spec, SubTaskWorkIsGivenOrTaken, NewRowsOwned, GivenOrTaken

-----------------------------------------------------------------------------
(***************************************************************************)
(* A sub-task and its assignees.  The transactions of closeSubTask and     *)
(* restoreSubTask implement SubTaskCascades.  They hold the row of their   *)
(* sub-task before they touch its assignees (LockInv), so what they have   *)
(* made of these so far is a function of what is committed.                *)
(***************************************************************************)

SubCascadeOps == {"createSub", "closeSub", "restoreSub"}

\* Where a request of these holds its sub-task's row.
Holding ==
  { "closeSub_own", "closeSub_upsert", "closeSub_drop", "closeSub_skip",
    "restoreSub_accept", "restoreSub_pend", "commit" }

\* What p sees of u's assignment to its sub-task.
Sees(p, u) == SubAssigneeView(p)[<<req[p].sub, u>>]

\* What a close has made so far of an assignment of u committed as st.
Closing(r, u, st) ==
  IF r.pc \in {"closeSub_own", "closeSub_upsert"} THEN st
  ELSE IF u = r.actor THEN "COMPLETED"
  ELSE IF r.pc = "closeSub_drop" THEN st
  ELSE IF r.pc = "closeSub_skip" THEN IF st = "ACCEPTED" THEN "DROPPED" ELSE st
  ELSE SubCascades!Released(st)

\* The same of a restore, for everybody.
Resuming(r, st) ==
  IF r.pc = "restoreSub_accept" THEN st
  ELSE IF r.pc = "restoreSub_pend"
       THEN IF st = "DROPPED" THEN "ACCEPTED" ELSE st
  ELSE SubCascades!Resumed(st)

SubClosing(p) ==
  LET r == req[p] IN
  /\ r.op = "closeSub"
  /\ tx[p].subTask[r.sub] = ClosedSubTask(r)
  /\ \A u \in Users : Sees(p, u) = Closing(r, u, subAssignee[<<r.sub, u>>])

SubResuming(p) ==
  LET r == req[p] IN
  /\ r.op = "restoreSub"
  /\ tx[p].subTask[r.sub] = ReopenedSubTask(subTask[r.sub])
  /\ \A u \in Users : Sees(p, u) = Resuming(r, subAssignee[<<r.sub, u>>])

SubProgress(p) == req[p].pc \in Holding => SubClosing(p) \/ SubResuming(p)

\* Past SubTaskExistsGuard the row is there.
Existing(p) ==
  req[p].op \in {"closeSub", "restoreSub"} /\ req[p].pc # "sub_guard" =>
    subTask[req[p].sub].status # NoRow

SubInv == \A p \in Procs : SubProgress(p) /\ Existing(p)

LEMMA SubInit == Init => SubInv
<1> SUFFICES ASSUME Init, NEW p \in Procs  PROVE SubProgress(p) /\ Existing(p)
  BY DEF SubInv
<1>1. req[p].pc = "idle" /\ req[p].op = "none"
  BY DEF Init, NoRequest
<1> QED BY <1>1 DEF SubProgress, Existing, Holding

-----------------------------------------------------------------------------
(* Only three kinds of request                                             *)

LEMMA OnlySubCascades ==
  ASSUME Ops \subseteq SubCascadeOps, TypeInv, NEW p \in Procs
  PROVE  /\ req[p] \in Request /\ Parameters(req[p]) /\ Handler(req[p])
         /\ req[p].op \in {"none"} \cup SubCascadeOps
         /\ req[p].op # "none" =>
              /\ req[p].sub \in SubTasks /\ req[p].actor \in Users
              /\ req[p].reason \in Reasons \cup {Null}
         /\ req[p].pc \in Holding \cup
              { "idle", "sub_guard", "guard", "createSub_insert",
                "closeSub_update", "restoreSub_update" }
<1>1. req[p] \in Request /\ Parameters(req[p]) /\ Handler(req[p])
  BY DEF TypeInv, RequestInv, GoodRequest
<1>2. /\ req[p].op \in {"none"} \cup SubCascadeOps /\ req[p].pc \in PC
      /\ req[p].reason \in Reasons \cup {Null}
  BY <1>1 DEF Request
<1>3. req[p].op # "none" => req[p].sub \in SubTasks /\ req[p].actor \in Users
  BY <1>1, <1>2 DEF Parameters, SubCascadeOps, SubOps
<1>4. req[p].op \notin { "close", "archive", "restore", "report", "assign",
                         "assignSub", "decide", "reportSub" }
  BY <1>2 DEF SubCascadeOps
<1>5. req[p].pc \in Holding \cup
        { "idle", "sub_guard", "guard", "createSub_insert",
          "closeSub_update", "restoreSub_update" }
  BY <1>1, <1>2, <1>4 DEF Handler, PC, Holding
<1> QED BY <1>1, <1>2, <1>3, <1>5

LEMMA OnlySubCascadeSteps ==
  ASSUME Ops \subseteq SubCascadeOps, TypeInv, NEW p \in Procs, Step(p)
  PROVE  \/ TaskMemberGuard(p) \/ SubTaskExistsGuard(p) \/ Commit(p)
         \/ CreateSubInsert(p)
         \/ CloseSubUpdate(p) \/ CloseSubOwn(p) \/ CloseSubUpsert(p)
         \/ CloseSubDrop(p) \/ CloseSubSkip(p)
         \/ RestoreSubUpdate(p) \/ RestoreSubAccept(p) \/ RestoreSubPend(p)
<1>1. req[p].pc \in Holding \cup
        { "idle", "sub_guard", "guard", "createSub_insert",
          "closeSub_update", "restoreSub_update" }
  BY OnlySubCascades
<1>2. ~ TaskStep(p)
  BY <1>1 DEF TaskStep, CloseCount, CloseUpdate, CloseDrop, CloseSkip,
              CloseSubs, ArchiveRead, ArchiveUpdate, ArchiveSubs, RestorePeek,
              RestoreRead, RestoreUpdate, RestoreCascade, ReportRead,
              ReportClaim, ReportWrite, Holding
<1>3. ~ AssignmentStep(p)
  BY <1>1 DEF AssignmentStep, AssignTarget, AssignAssigner, AssignAssignee,
              AssignUpsert, AssignMail, DecideRead, DecideWrite, Holding
<1>4. ~ (ReportSubTask(p) \/ ReportSubOwn(p) \/ ReportSubClaim(p)
         \/ ReportSubWrite(p))
  BY <1>1 DEF ReportSubTask, ReportSubOwn, ReportSubClaim, ReportSubWrite,
              Holding
<1> QED BY <1>2, <1>3, <1>4 DEF Step, SubTaskStep

\* What a transaction of a sub-task may rely on.
LEMMA SubHolds ==
  ASSUME Ops \subseteq SubCascadeOps, TypeInv, LockInv, SubInv,
         NEW p \in Procs, req[p].pc \in Holding
  PROVE  /\ req[p].sub \in SubTasks /\ req[p].actor \in Users
         /\ subTask[req[p].sub].status # NoRow
         /\ DOMAIN tx[p].subTask = {req[p].sub}
         /\ DOMAIN tx[p].subAssignee \subseteq {req[p].sub} \X Users
         /\ \A q \in Procs \ {p} :
              req[q].pc \in Holding => req[q].sub # req[p].sub
<1>1. ASSUME NEW q \in Procs, req[q].pc \in Holding
      PROVE  /\ req[q].op \in {"closeSub", "restoreSub"}
             /\ DOMAIN tx[q].subTask = {req[q].sub}
             /\ DOMAIN tx[q].subAssignee \subseteq {req[q].sub} \X Users
  <2>1. req[q].op \in {"closeSub", "restoreSub"}
    BY <1>1 DEF SubInv, SubProgress, SubClosing, SubResuming
  <2>2. HoldsSubTask(req[q])
    BY <1>1, <2>1 DEF Holding, HoldsSubTask
  <2> QED BY <2>1, <2>2 DEF LockInv, Held
<1>2. req[p].sub \in SubTasks /\ req[p].actor \in Users
  BY <1>1, OnlySubCascades
<1>3. subTask[req[p].sub].status # NoRow
  BY <1>1 DEF SubInv, Existing, Holding
<1>4. \A q \in Procs \ {p} : req[q].pc \in Holding => req[q].sub # req[p].sub
  BY <1>1 DEF LockInv
<1> QED BY <1>1, <1>2, <1>3, <1>4

-----------------------------------------------------------------------------
(* The shapes a step can have                                              *)

\* Of a request that does not move, nobody else changes the rows it holds.
LEMMA SubUntouched ==
  ASSUME Ops \subseteq SubCascadeOps, TypeInv, TypeInv', LockInv, SubInv,
         NEW q \in Procs, req'[q] = req[q], tx'[q] = tx[q],
         req[q].pc \in Holding =>
           /\ subTask'[req[q].sub] = subTask[req[q].sub]
           /\ \A u \in Users : subAssignee'[<<req[q].sub, u>>]
                                 = subAssignee[<<req[q].sub, u>>],
         \A s \in SubTasks :
           subTask[s].status # NoRow => subTask'[s].status # NoRow
  PROVE  SubProgress(q)' /\ Existing(q)'
<1>1. Existing(q)'
  BY OnlySubCascades DEF SubInv, Existing
<1>2. ASSUME req[q].pc \in Holding  PROVE SubProgress(q)'
  <2>1. req[q].sub \in SubTasks
    BY <1>2, SubHolds
  <2>2. \A u \in Users : Sees(q, u)' = Sees(q, u)
    <3> TAKE u \in Users
    <3>1. /\ <<req[q].sub, u>> \in DOMAIN subAssignee
          /\ <<req[q].sub, u>> \in DOMAIN subAssignee'
      BY <2>1 DEF TypeInv, TypeOK
    <3> QED BY <1>2, <3>1 DEF Sees, SubAssigneeView, Over
  <2>3. CASE SubClosing(q)
    <3>1. SubClosing(q)'
      BY <1>2, <2>2, <2>3 DEF SubClosing, ClosedSubTask, Closing
    <3> QED BY <3>1 DEF SubProgress
  <2>4. CASE SubResuming(q)
    <3>1. SubResuming(q)'
      BY <1>2, <2>2, <2>4 DEF SubResuming, Resuming
    <3> QED BY <3>1 DEF SubProgress
  <2> QED BY <1>2, <2>3, <2>4 DEF SubInv, SubProgress
<1>3. ASSUME req[q].pc \notin Holding  PROVE SubProgress(q)'
  BY <1>3 DEF SubProgress
<1> QED BY <1>1, <1>2, <1>3

\* A step of p that commits nothing.
LEMMA SubQuiet ==
  ASSUME Ops \subseteq SubCascadeOps, TypeInv, TypeInv', LockInv, SubInv,
         NEW p \in Procs, UNCHANGED tables,
         \A q \in Procs \ {p} : req'[q] = req[q] /\ tx'[q] = tx[q],
         SubProgress(p)', Existing(p)'
  PROVE  SubInv'
<1>1. ASSUME NEW q \in Procs \ {p}  PROVE SubProgress(q)' /\ Existing(q)'
  BY SubUntouched DEF tables
<1> QED BY <1>1 DEF SubInv

LEMMA SubGotoAt ==
  ASSUME TypeInv, NEW p \in Procs, NEW pc, Goto(p, pc)
  PROVE  /\ req'[p].pc = pc /\ req'[p].op = req[p].op
         /\ req'[p].sub = req[p].sub /\ req'[p].actor = req[p].actor
         /\ ClosedSubTask(req'[p]) = ClosedSubTask(req[p])
         /\ \A q \in Procs \ {p} : req'[q] = req[q]
<1>1. req \in [Procs -> Request] /\ req[p] \in Request
  BY DEF TypeInv, RequestInv
<1>2. req'[p] = [req[p] EXCEPT !.pc = pc]
  BY <1>1 DEF Goto
<1>3. \A q \in Procs \ {p} : req'[q] = req[q]
  BY <1>1 DEF Goto
<1> QED BY <1>1, <1>2, <1>3 DEF Request, ClosedSubTask

\* Outside a transaction afterwards, with nothing more to rely on than before.
LEMMA SubOutside ==
  ASSUME Ops \subseteq SubCascadeOps, TypeInv, TypeInv', LockInv, SubInv,
         NEW p \in Procs, UNCHANGED tables,
         \A q \in Procs \ {p} : req'[q] = req[q] /\ tx'[q] = tx[q],
         req'[p].pc \notin Holding, Existing(p)'
  PROVE  SubInv'
<1>1. SubProgress(p)'
  BY DEF SubProgress
<1> QED BY <1>1, SubQuiet

LEMMA SubReceiveStep ==
  ASSUME Ops \subseteq SubCascadeOps, TypeInv, TypeInv', LockInv, SubInv,
         NEW p \in Procs, NEW r, Receive(p, r),
         r.pc \in {"guard", "sub_guard"},
         r.op \in {"closeSub", "restoreSub"} => r.pc = "sub_guard"
  PROVE  SubInv' /\ UNCHANGED tables
<1>1. /\ req'[p] = r /\ UNCHANGED <<tables, tx>>
      /\ \A q \in Procs \ {p} : req'[q] = req[q]
  BY DEF Receive, TypeInv, RequestInv
<1>2. req'[p].pc \notin Holding
  BY <1>1 DEF Holding
<1>3. Existing(p)'
  BY <1>1 DEF Existing
<1> QED BY <1>1, <1>2, <1>3, SubOutside

LEMMA SubCallStep ==
  ASSUME Ops \subseteq SubCascadeOps, TypeInv, TypeInv', LockInv, SubInv,
         NEW p \in Procs, Call(p)
  PROVE  SubInv' /\ UNCHANGED tables
<1>1. ~ (TaskCall(p) \/ AssignmentCall(p) \/ PostReportSub(p))
  BY DEF TaskCall, AssignmentCall, PostReportSub, PostClose, PostArchive,
         PostRestore, PostReport, PostAssign, PostAssignSub, GetDecision,
         PostSub, Receive, SubCascadeOps, NoRequest
<1>2. CASE PostCreateSub(p)
  BY <1>2, SubReceiveStep DEF PostCreateSub, PostSub, NoRequest
<1>3. CASE PostCloseSub(p)
  BY <1>3, SubReceiveStep DEF PostCloseSub, PostSub, NoRequest
<1>4. CASE PostRestoreSub(p)
  BY <1>4, SubReceiveStep DEF PostRestoreSub, PostSub, NoRequest
<1> QED BY <1>1, <1>2, <1>3, <1>4 DEF Call, SubTaskCall

LEMMA SubAbortStep ==
  ASSUME Ops \subseteq SubCascadeOps, TypeInv, TypeInv', LockInv, SubInv,
         NEW p \in Procs, Abort(p)
  PROVE  SubInv' /\ UNCHANGED tables
<1>1. /\ UNCHANGED tables /\ req'[p] = NoRequest
      /\ \A q \in Procs \ {p} : req'[q] = req[q] /\ tx'[q] = tx[q]
  BY DEF Abort, Finish, TypeInv, TypeOK, RequestInv
<1>2. req'[p].pc \notin Holding /\ Existing(p)'
  BY <1>1 DEF NoRequest, Holding, Existing
<1> QED BY <1>1, <1>2, SubOutside

LEMMA SubGuardStep ==
  ASSUME Ops \subseteq SubCascadeOps, TypeInv, TypeInv', LockInv, SubInv,
         NEW p \in Procs, TaskMemberGuard(p) \/ SubTaskExistsGuard(p)
  PROVE  SubInv' /\ UNCHANGED tables
<1>1. /\ req \in [Procs -> Request] /\ req[p] \in Request /\ Handler(req[p])
      /\ req[p].op \in {"none"} \cup SubCascadeOps
  BY OnlySubCascades DEF TypeInv, RequestInv
<1>2. req[p].pc \in {"guard", "sub_guard"} /\ UNCHANGED <<tables, tx>>
  BY DEF TaskMemberGuard, SubTaskExistsGuard
<1>3. CASE Finish(p)
  <2>1. req'[p] = NoRequest /\ \A q \in Procs \ {p} : req'[q] = req[q]
    BY <1>1, <1>3 DEF Finish
  <2>2. req'[p].pc \notin Holding /\ Existing(p)'
    BY <2>1 DEF NoRequest, Holding, Existing
  <2> QED BY <1>2, <2>1, <2>2, SubOutside
<1>4. CASE req[p].pc = "sub_guard" /\ ~ Finish(p)
  <2>1. Goto(p, "guard") /\ subTask[req[p].sub].status # NoRow
    BY <1>4 DEF TaskMemberGuard, SubTaskExistsGuard
  <2>2. /\ req'[p].pc = "guard" /\ req'[p].sub = req[p].sub
        /\ \A q \in Procs \ {p} : req'[q] = req[q]
    BY <2>1, SubGotoAt
  <2>3. Existing(p)' /\ req'[p].pc \notin Holding
    BY <1>2, <2>1, <2>2 DEF Existing, Holding, tables
  <2> QED BY <1>2, <2>2, <2>3, SubOutside
<1>5. CASE req[p].pc = "guard" /\ ~ Finish(p)
  <2>1. req' = [req EXCEPT
                  ![p].pc = ServiceEntry[req[p].op],
                  ![p].isAdminish = IsAdminOf(req[p].actor, req[p].task),
                  ![p].isOwner = (ownerOf[req[p].task] = req[p].actor)]
    BY <1>5 DEF TaskMemberGuard, SubTaskExistsGuard
  <2>2. /\ req'[p].pc = ServiceEntry[req[p].op]
        /\ req'[p].op = req[p].op /\ req'[p].sub = req[p].sub
        /\ \A q \in Procs \ {p} : req'[q] = req[q]
    BY <1>1, <2>1 DEF Request
  <2>3. req[p].op \in SubCascadeOps
    BY <1>1, <1>5 DEF Handler
  <2>4. ServiceEntry[req[p].op] \in
          {"createSub_insert", "closeSub_update", "restoreSub_update"}
    BY <2>3 DEF ServiceEntry, SubCascadeOps
  <2>5. Existing(p)'
    BY <1>2, <1>5, <2>2 DEF SubInv, Existing, tables
  <2>6. req'[p].pc \notin Holding
    BY <2>2, <2>4 DEF Holding
  <2> QED BY <1>2, <2>2, <2>5, <2>6, SubOutside
<1> QED BY <1>2, <1>3, <1>4, <1>5

-----------------------------------------------------------------------------
(* The transactions                                                        *)

\* A statement of a transaction that keeps its promise.
LEMMA SubInside ==
  ASSUME Ops \subseteq SubCascadeOps, TypeInv, TypeInv', LockInv, SubInv,
         NEW p \in Procs, UNCHANGED tables, NEW pc, Goto(p, pc),
         req[p].op \in {"closeSub", "restoreSub"}, req[p].pc # "sub_guard",
         \A q \in Procs \ {p} : tx'[q] = tx[q],
         SubClosing(p)' \/ SubResuming(p)'
  PROVE  SubInv'
<1>1. /\ req'[p].sub = req[p].sub /\ req'[p].op = req[p].op
      /\ \A q \in Procs \ {p} : req'[q] = req[q]
  BY SubGotoAt
<1>2. SubProgress(p)' /\ Existing(p)'
  BY <1>1 DEF SubInv, SubProgress, Existing, tables
<1> QED BY <1>1, <1>2, SubQuiet

\* The first statement: the sub-task's row.
LEMMA SubTaskTaken ==
  ASSUME TypeInv, WorkInv, NEW p \in Procs, req[p].pc \notin Writing,
         req[p].sub \in SubTasks, NEW row,
         Write(p, "subTask", [s \in {req[p].sub} |-> row]),
         UNCHANGED tables, req'[p].sub = req[p].sub
  PROVE  /\ tx'[p].subTask[req[p].sub] = row
         /\ \A q \in Procs \ {p} : tx'[q] = tx[q]
         /\ \A u \in Users : Sees(p, u)' = subAssignee[<<req[p].sub, u>>]
<1> DEFINE w == [s \in {req[p].sub} |-> row]
<1>1. /\ tx \in [Procs -> Transaction] /\ tx[p] = NoWrites
      /\ tx' = [tx EXCEPT ![p].subTask = Over(w, @)]
  BY DEF WorkInv, TypeInv, TypeOK, Write
<1>2. /\ tx'[p].subTask = Over(w, Clean) /\ tx'[p].subAssignee = Clean
      /\ \A q \in Procs \ {p} : tx'[q] = tx[q]
  BY <1>1 DEF NoWrites
<1>3. tx'[p].subTask[req[p].sub] = row
  BY <1>2 DEF Over, Clean
<1>4. ASSUME NEW u \in Users
      PROVE  Sees(p, u)' = subAssignee[<<req[p].sub, u>>]
  <2>1. <<req[p].sub, u>> \in DOMAIN subAssignee
    BY DEF TypeInv, TypeOK
  <2> QED BY <1>2, <2>1 DEF Sees, SubAssigneeView, Over, Clean, tables
<1> QED BY <1>2, <1>3, <1>4

\* A later one: assignees of the sub-task.
LEMMA SubAssigneesTaken ==
  ASSUME TypeInv, NEW p \in Procs, req[p].sub \in SubTasks,
         UNCHANGED tables, req'[p].sub = req[p].sub,
         NEW w, Write(p, "subAssignee", w)
  PROVE  /\ tx'[p].subTask = tx[p].subTask
         /\ \A q \in Procs \ {p} : tx'[q] = tx[q]
         /\ \A u \in Users :
              Sees(p, u)' = IF <<req[p].sub, u>> \in DOMAIN w
                            THEN w[<<req[p].sub, u>>] ELSE Sees(p, u)
<1> DEFINE old == tx[p].subAssignee
<1>1. tx \in [Procs -> Transaction]
  BY DEF TypeInv, TypeOK
<1>2. tx' = [tx EXCEPT ![p].subAssignee = Over(w, @)]
  BY DEF Write
<1>3. /\ tx'[p].subTask = tx[p].subTask
      /\ tx'[p].subAssignee = Over(w, old)
      /\ \A q \in Procs \ {p} : tx'[q] = tx[q]
  BY <1>1, <1>2 DEF Transaction
<1>4. ASSUME NEW u \in Users
      PROVE  Sees(p, u)' = IF <<req[p].sub, u>> \in DOMAIN w
                           THEN w[<<req[p].sub, u>>] ELSE Sees(p, u)
  <2> DEFINE k == <<req[p].sub, u>>
  <2>1. k \in DOMAIN subAssignee
    BY DEF TypeInv, TypeOK
  <2>2. Sees(p, u) = IF k \in DOMAIN old THEN old[k] ELSE subAssignee[k]
    BY <2>1 DEF Sees, SubAssigneeView, Over
  <2>3. Sees(p, u)' = IF k \in DOMAIN tx'[p].subAssignee
                      THEN tx'[p].subAssignee[k] ELSE subAssignee[k]
    BY <2>1 DEF Sees, SubAssigneeView, Over, tables
  <2>4. /\ DOMAIN tx'[p].subAssignee = DOMAIN old \cup DOMAIN w
        /\ k \in DOMAIN tx'[p].subAssignee =>
             tx'[p].subAssignee[k] = IF k \in DOMAIN w THEN w[k] ELSE old[k]
    BY <1>3 DEF Over
  <2> QED BY <2>2, <2>3, <2>4
<1> QED BY <1>3, <1>4

LEMMA SubAssigneesMoved ==
  ASSUME TypeInv, NEW p \in Procs, req[p].sub \in SubTasks,
         UNCHANGED tables, req'[p].sub = req[p].sub,
         NEW from, NEW to, MoveSubAssignees(p, from, to)
  PROVE  /\ tx'[p].subTask = tx[p].subTask
         /\ \A q \in Procs \ {p} : tx'[q] = tx[q]
         /\ \A u \in Users :
              Sees(p, u)' = IF Sees(p, u) = from THEN to ELSE Sees(p, u)
<1> DEFINE w == [k \in SubAssigneesIn(p, {from}) |-> to]
<1>1. Write(p, "subAssignee", w)
  BY DEF MoveSubAssignees
<1>2. \A u \in Users :
        /\ <<req[p].sub, u>> \in DOMAIN w <=> Sees(p, u) = from
        /\ Sees(p, u) = from => w[<<req[p].sub, u>>] = to
  BY DEF SubAssigneesIn, Sees
<1> HIDE DEF w
<1>3. /\ tx'[p].subTask = tx[p].subTask
      /\ \A q \in Procs \ {p} : tx'[q] = tx[q]
  BY <1>1, SubAssigneesTaken
<1>4. \A u \in Users :
        Sees(p, u)' = IF <<req[p].sub, u>> \in DOMAIN w
                      THEN w[<<req[p].sub, u>>] ELSE Sees(p, u)
  BY <1>1, SubAssigneesTaken
<1> QED BY <1>2, <1>3, <1>4

\* The statement that takes the sub-task's row.
LEMMA SubUpdateStep ==
  ASSUME Ops \subseteq SubCascadeOps, TypeInv, TypeInv', WorkInv, LockInv,
         SubInv, NEW p \in Procs, CloseSubUpdate(p) \/ RestoreSubUpdate(p)
  PROVE  SubInv'
<1> DEFINE x == req[p].sub
<1>1. /\ Handler(req[p]) /\ UNCHANGED tables
      /\ req[p].pc \in {"closeSub_update", "restoreSub_update"}
      /\ req[p].pc \notin Writing
  BY OnlySubCascades
     DEF CloseSubUpdate, RestoreSubUpdate, InSubTransaction, Writing
<1>2. /\ req[p].op \in {"closeSub", "restoreSub"} /\ req[p].pc # "sub_guard"
      /\ x \in SubTasks
  BY <1>1, OnlySubCascades DEF Handler
<1>3. CASE CloseSubUpdate(p)
  <2>1. /\ req[p].op = "closeSub" /\ Goto(p, "closeSub_own")
        /\ Write(p, "subTask", [s \in {x} |-> ClosedSubTask(req[p])])
    BY <1>1, <1>3 DEF CloseSubUpdate, Handler
  <2>2. /\ req'[p].pc = "closeSub_own" /\ req'[p].op = "closeSub"
        /\ req'[p].sub = x
        /\ ClosedSubTask(req'[p]) = ClosedSubTask(req[p])
    BY <2>1, SubGotoAt
  <2>3. /\ tx'[p].subTask[x] = ClosedSubTask(req[p])
        /\ \A q \in Procs \ {p} : tx'[q] = tx[q]
        /\ \A u \in Users : Sees(p, u)' = subAssignee[<<x, u>>]
    BY <1>1, <1>2, <2>1, <2>2, SubTaskTaken
  <2>4. SubClosing(p)'
    BY <1>1, <2>2, <2>3 DEF SubClosing, Closing, tables
  <2> QED BY <1>1, <1>2, <2>1, <2>3, <2>4, SubInside
<1>4. CASE RestoreSubUpdate(p)
  <2> DEFINE row == ReopenedSubTask(subTask[x])
  <2>1. /\ req[p].op = "restoreSub" /\ Goto(p, "restoreSub_accept")
        /\ Write(p, "subTask", [s \in {x} |->
                                  ReopenedSubTask(SubTaskView(p)[s])])
    BY <1>1, <1>4 DEF RestoreSubUpdate, Handler
  <2>2. SubTaskView(p)[x] = subTask[x]
    BY <1>1, <1>2
       DEF WorkInv, NoWrites, Clean, SubTaskView, Over, TypeInv, TypeOK
  <2>3. [s \in {x} |-> ReopenedSubTask(SubTaskView(p)[s])]
          = [s \in {x} |-> row]
    BY <2>2
  <2> HIDE DEF row
  <2>4. Write(p, "subTask", [s \in {x} |-> row])
    BY <2>1, <2>3
  <2>5. /\ req'[p].pc = "restoreSub_accept" /\ req'[p].op = "restoreSub"
        /\ req'[p].sub = x
    BY <2>1, SubGotoAt
  <2>6. /\ tx'[p].subTask[x] = row
        /\ \A q \in Procs \ {p} : tx'[q] = tx[q]
        /\ \A u \in Users : Sees(p, u)' = subAssignee[<<x, u>>]
    BY <1>1, <1>2, <2>4, <2>5, SubTaskTaken
  <2>7. SubResuming(p)'
    BY <1>1, <2>5, <2>6 DEF SubResuming, Resuming, row, tables
  <2> QED BY <1>1, <1>2, <2>1, <2>6, <2>7, SubInside
<1> QED BY <1>3, <1>4

\* Past it, a close keeps to what it sees its own statements do.
LEMMA SubClosesOn ==
  ASSUME Ops \subseteq SubCascadeOps, TypeInv, TypeInv', LockInv, SubInv,
         NEW p \in Procs,
         req[p].pc \in { "closeSub_own", "closeSub_upsert", "closeSub_drop",
                         "closeSub_skip" },
         UNCHANGED tables, NEW pc, Goto(p, pc),
         tx'[p].subTask = tx[p].subTask,
         \A q \in Procs \ {p} : tx'[q] = tx[q],
         \A u \in Users : \A st :
           Sees(p, u) = Closing(req[p], u, st) =>
             Sees(p, u)' = Closing(req'[p], u, st)
  PROVE  SubInv'
<1>1. req[p].pc \in Holding /\ Handler(req[p]) /\ req[p].pc # "sub_guard"
  BY OnlySubCascades DEF Holding
<1>2. req[p].op = "closeSub"
  BY <1>1 DEF Handler
<1>3. SubClosing(p)
  BY <1>1, <1>2 DEF SubInv, SubProgress, SubResuming
<1>4. /\ req'[p].op = req[p].op /\ req'[p].sub = req[p].sub
      /\ ClosedSubTask(req'[p]) = ClosedSubTask(req[p])
  BY SubGotoAt
<1>5. SubClosing(p)'
  BY <1>3, <1>4 DEF SubClosing, tables
<1> QED BY <1>1, <1>2, <1>5, SubInside

\* So does a restore.
LEMMA SubRestoresOn ==
  ASSUME Ops \subseteq SubCascadeOps, TypeInv, TypeInv', LockInv, SubInv,
         NEW p \in Procs,
         req[p].pc \in {"restoreSub_accept", "restoreSub_pend"},
         UNCHANGED tables, NEW pc, Goto(p, pc),
         tx'[p].subTask = tx[p].subTask,
         \A q \in Procs \ {p} : tx'[q] = tx[q],
         \A u \in Users : \A st :
           Sees(p, u) = Resuming(req[p], st) =>
             Sees(p, u)' = Resuming(req'[p], st)
  PROVE  SubInv'
<1>1. req[p].pc \in Holding /\ Handler(req[p]) /\ req[p].pc # "sub_guard"
  BY OnlySubCascades DEF Holding
<1>2. req[p].op = "restoreSub"
  BY <1>1 DEF Handler
<1>3. SubResuming(p)
  BY <1>1, <1>2 DEF SubInv, SubProgress, SubClosing
<1>4. req'[p].op = req[p].op /\ req'[p].sub = req[p].sub
  BY SubGotoAt
<1>5. SubResuming(p)'
  BY <1>3, <1>4 DEF SubResuming, tables
<1> QED BY <1>1, <1>2, <1>5, SubInside

LEMMA CloserStep ==
  ASSUME Ops \subseteq SubCascadeOps, TypeInv, TypeInv', LockInv, SubInv,
         NEW p \in Procs, CloseSubOwn(p) \/ CloseSubUpsert(p)
  PROVE  SubInv'
<1> DEFINE r == req[p]
<1>1. /\ r.pc \in {"closeSub_own", "closeSub_upsert"} /\ UNCHANGED tables
      /\ r.pc \in Holding
  BY DEF CloseSubOwn, CloseSubUpsert, InSubTransaction, Holding
<1>2. r.sub \in SubTasks /\ r.actor \in Users
  BY <1>1, SubHolds
<1>3. CASE CloseSubOwn(p)
  <2> DEFINE pc == IF Sees(p, r.actor) = "COMPLETED"
                   THEN "closeSub_drop" ELSE "closeSub_upsert"
  <2>1. Goto(p, pc) /\ UNCHANGED tx /\ r.pc = "closeSub_own"
    BY <1>3 DEF CloseSubOwn, Sees
  <2>2. /\ req'[p].pc = pc /\ req'[p].sub = r.sub /\ req'[p].actor = r.actor
    BY <2>1, SubGotoAt
  <2>3. \A u \in Users : Sees(p, u)' = Sees(p, u)
    BY <1>1, <2>1, <2>2 DEF Sees, SubAssigneeView, tables
  <2>4. ASSUME NEW u \in Users, NEW st, Sees(p, u) = Closing(r, u, st)
        PROVE  Sees(p, u)' = Closing(req'[p], u, st)
    BY <2>1, <2>2, <2>3, <2>4 DEF Closing
  <2> QED BY <1>1, <2>1, <2>4, SubClosesOn
<1>4. CASE CloseSubUpsert(p)
  <2> DEFINE k == <<r.sub, r.actor>>
             rows == [x \in {k} |-> "COMPLETED"]
  <2>1. /\ Goto(p, "closeSub_drop") /\ r.pc = "closeSub_upsert"
        /\ Write(p, "subAssignee", rows)
    BY <1>4 DEF CloseSubUpsert
  <2>2. /\ req'[p].pc = "closeSub_drop" /\ req'[p].sub = r.sub
        /\ req'[p].actor = r.actor
    BY <2>1, SubGotoAt
  <2>3. \A u \in Users :
          /\ <<r.sub, u>> \in DOMAIN rows <=> u = r.actor
          /\ u = r.actor => rows[<<r.sub, u>>] = "COMPLETED"
    BY <1>2
  <2> HIDE DEF rows
  <2>4. /\ tx'[p].subTask = tx[p].subTask
        /\ \A q \in Procs \ {p} : tx'[q] = tx[q]
        /\ \A u \in Users :
             Sees(p, u)' = IF <<r.sub, u>> \in DOMAIN rows
                           THEN rows[<<r.sub, u>>] ELSE Sees(p, u)
    BY <1>1, <1>2, <2>1, <2>2, SubAssigneesTaken
  <2>5. ASSUME NEW u \in Users, NEW st, Sees(p, u) = Closing(r, u, st)
        PROVE  Sees(p, u)' = Closing(req'[p], u, st)
    BY <2>1, <2>2, <2>3, <2>4, <2>5 DEF Closing
  <2> QED BY <1>1, <2>1, <2>4, <2>5, SubClosesOn
<1> QED BY <1>3, <1>4

LEMMA SubMoveStep ==
  ASSUME Ops \subseteq SubCascadeOps, TypeInv, TypeInv', LockInv, SubInv,
         NEW p \in Procs,
         \/ CloseSubDrop(p) \/ CloseSubSkip(p)
         \/ RestoreSubAccept(p) \/ RestoreSubPend(p)
  PROVE  SubInv'
<1> DEFINE r == req[p]
<1>1. /\ r.pc \in { "closeSub_drop", "closeSub_skip",
                    "restoreSub_accept", "restoreSub_pend" }
      /\ UNCHANGED tables /\ r.pc \in Holding
  BY DEF CloseSubDrop, CloseSubSkip, RestoreSubAccept, RestoreSubPend,
         InSubTransaction, Holding
<1>2. r.sub \in SubTasks /\ r.actor \in Users
  BY <1>1, SubHolds
<1>3. ASSUME NEW from, NEW to, MoveSubAssignees(p, from, to), NEW pc,
             Goto(p, pc)
      PROVE  /\ tx'[p].subTask = tx[p].subTask
             /\ \A q \in Procs \ {p} : tx'[q] = tx[q]
             /\ \A u \in Users :
                  Sees(p, u)' = IF Sees(p, u) = from THEN to ELSE Sees(p, u)
             /\ req'[p].pc = pc /\ req'[p].actor = r.actor
  <2>1. req'[p].pc = pc /\ req'[p].sub = r.sub /\ req'[p].actor = r.actor
    BY <1>3, SubGotoAt
  <2> QED BY <1>1, <1>2, <1>3, <2>1, SubAssigneesMoved
<1>4. CASE CloseSubDrop(p)
  <2>1. /\ r.pc = "closeSub_drop" /\ Goto(p, "closeSub_skip")
        /\ MoveSubAssignees(p, "ACCEPTED", "DROPPED")
    BY <1>4 DEF CloseSubDrop
  <2>2. ASSUME NEW u \in Users, NEW st, Sees(p, u) = Closing(r, u, st)
        PROVE  Sees(p, u)' = Closing(req'[p], u, st)
    BY <1>3, <2>1, <2>2 DEF Closing
  <2> QED BY <1>1, <1>3, <2>1, <2>2, SubClosesOn
<1>5. CASE CloseSubSkip(p)
  <2>1. /\ r.pc = "closeSub_skip" /\ Goto(p, "commit")
        /\ MoveSubAssignees(p, "PENDING", "SKIPPED")
    BY <1>5 DEF CloseSubSkip
  <2>2. ASSUME NEW u \in Users, NEW st, Sees(p, u) = Closing(r, u, st)
        PROVE  Sees(p, u)' = Closing(req'[p], u, st)
    BY <1>3, <2>1, <2>2 DEF Closing, SubCascades!Released
  <2> QED BY <1>1, <1>3, <2>1, <2>2, SubClosesOn
<1>6. CASE RestoreSubAccept(p)
  <2>1. /\ r.pc = "restoreSub_accept" /\ Goto(p, "restoreSub_pend")
        /\ MoveSubAssignees(p, "DROPPED", "ACCEPTED")
    BY <1>6 DEF RestoreSubAccept
  <2>2. ASSUME NEW u \in Users, NEW st, Sees(p, u) = Resuming(r, st)
        PROVE  Sees(p, u)' = Resuming(req'[p], st)
    BY <1>3, <2>1, <2>2 DEF Resuming
  <2> QED BY <1>1, <1>3, <2>1, <2>2, SubRestoresOn
<1>7. CASE RestoreSubPend(p)
  <2>1. /\ r.pc = "restoreSub_pend" /\ Goto(p, "commit")
        /\ MoveSubAssignees(p, "SKIPPED", "PENDING")
    BY <1>7 DEF RestoreSubPend
  <2>2. ASSUME NEW u \in Users, NEW st, Sees(p, u) = Resuming(r, st)
        PROVE  Sees(p, u)' = Resuming(req'[p], st)
    BY <1>3, <2>1, <2>2 DEF Resuming, SubCascades!Resumed
  <2> QED BY <1>1, <1>3, <2>1, <2>2, SubRestoresOn
<1> QED BY <1>4, <1>5, <1>6, <1>7

-----------------------------------------------------------------------------
(* What is committed                                                       *)

\* A sub-task is created at once, and nobody holds one yet to be created.
LEMMA CreateSubStep ==
  ASSUME Ops \subseteq SubCascadeOps, TypeInv, TypeInv', LockInv, SubInv,
         NEW p \in Procs, CreateSubInsert(p)
  PROVE  SubInv' /\ (SubCascades!Next \/ UNCHANGED SubCascades!rows)
<1> DEFINE x == req[p].sub
<1>1. /\ Finish(p) /\ UNCHANGED <<subAssignee, tx>>
      /\ req[p].pc = "createSub_insert"
      /\ \/ UNCHANGED subTask
         \/ /\ subTask' = [subTask EXCEPT ![x] = NewSubTask(req[p].status)]
            /\ subTask[x].status = NoRow
  BY DEF CreateSubInsert
<1>2. /\ req'[p] = NoRequest /\ \A q \in Procs \ {p} : req'[q] = req[q]
      /\ subTask \in [SubTasks -> SubTaskRow]
  BY <1>1 DEF Finish, TypeInv, TypeOK, RequestInv
<1>3. x \in SubTasks /\ req[p].status \in TaskStatus
  BY <1>1, OnlySubCascades DEF Handler, Parameters
<1>4. \A s \in SubTasks : subTask[s].status # NoRow => subTask'[s] = subTask[s]
  BY <1>1, <1>2
<1>5. SubProgress(p)' /\ Existing(p)'
  BY <1>2 DEF NoRequest, Holding, SubProgress, Existing
<1>6. ASSUME NEW q \in Procs \ {p}  PROVE SubProgress(q)' /\ Existing(q)'
  BY <1>1, <1>2, <1>4, SubHolds, SubUntouched
<1>7. SubInv'
  BY <1>5, <1>6 DEF SubInv
<1>8. CASE UNCHANGED subTask
  BY <1>1, <1>7, <1>8 DEF SubCascades!rows
<1>9. CASE /\ subTask' = [subTask EXCEPT ![x] = NewSubTask(req[p].status)]
           /\ subTask[x].status = NoRow
  <2>1. SubCascades!Create(x, req[p].status)
    BY <1>1, <1>9
       DEF SubCascades!Create, SubCascades!Exists, SubCascades!New,
           SubCascades!NoRow, NoRow, NewSubTask
  <2>2. SubCascades!Next
    BY <1>3, <2>1
       DEF SubCascades!Next, SubCascades!TaskStatus, TaskStatus
  <2> QED BY <1>7, <2>2
<1> QED BY <1>1, <1>8, <1>9

\* A commit replaces the row of its sub-task and of that sub-task's assignees
\* by what the transaction saw of them, and leaves the others alone.
LEMMA SubCommitRows ==
  ASSUME Ops \subseteq SubCascadeOps, TypeInv, LockInv, SubInv,
         NEW p \in Procs, Commit(p)
  PROVE  LET x == req[p].sub IN
         /\ x \in SubTasks
         /\ subTask' = [subTask EXCEPT ![x] = tx[p].subTask[x]]
         /\ subAssignee' = [k \in SubTasks \X Users |->
              IF k[1] # x THEN subAssignee[k] ELSE Sees(p, k[2])]
<1> DEFINE x == req[p].sub
<1>1. /\ req[p].pc \in Holding
      /\ subTask' = SubTaskView(p) /\ subAssignee' = SubAssigneeView(p)
  BY DEF Commit, Holding
<1>2. /\ x \in SubTasks /\ DOMAIN tx[p].subTask = {x}
      /\ DOMAIN tx[p].subAssignee \subseteq {x} \X Users
  BY <1>1, SubHolds
<1>3. /\ subTask \in [SubTasks -> SubTaskRow]
      /\ subAssignee \in [SubTasks \X Users -> AssigneeRow]
      /\ SubAssigneeView(p) \in [SubTasks \X Users -> AssigneeRow]
  BY ViewsTyped DEF TypeInv, TypeOK
<1>4. subTask' = [subTask EXCEPT ![x] = tx[p].subTask[x]]
  BY <1>1, <1>2, <1>3 DEF SubTaskView, Over
<1>5. ASSUME NEW k \in SubTasks \X Users
      PROVE  SubAssigneeView(p)[k] = IF k[1] # x THEN subAssignee[k]
                                                 ELSE Sees(p, k[2])
  <2>1. k = <<k[1], k[2]>>
    OBVIOUS
  <2>2. k[1] # x => k \notin DOMAIN tx[p].subAssignee
    BY <1>2, <2>1
  <2>3. k[1] # x => SubAssigneeView(p)[k] = subAssignee[k]
    BY <1>3, <2>2 DEF SubAssigneeView, Over
  <2>4. k[1] = x => SubAssigneeView(p)[k] = Sees(p, k[2])
    BY <2>1 DEF Sees
  <2> QED BY <2>3, <2>4
<1>6. subAssignee' = [k \in SubTasks \X Users |->
                       IF k[1] # x THEN subAssignee[k] ELSE Sees(p, k[2])]
  BY <1>1, <1>3, <1>5
<1> QED BY <1>2, <1>4, <1>6

LEMMA SubCommitStep ==
  ASSUME Ops \subseteq SubCascadeOps, TypeInv, TypeInv', LockInv, SubInv,
         NEW p \in Procs, Commit(p)
  PROVE  SubInv'
<1> DEFINE x == req[p].sub
<1>1. /\ req[p].pc \in Holding /\ x \in SubTasks
      /\ \A q \in Procs \ {p} : req[q].pc \in Holding => req[q].sub # x
  BY SubHolds DEF Commit, Holding
<1>2. /\ req'[p] = NoRequest
      /\ \A q \in Procs \ {p} : req'[q] = req[q] /\ tx'[q] = tx[q]
      /\ subTask \in [SubTasks -> SubTaskRow]
  BY DEF Commit, Finish, TypeInv, TypeOK, RequestInv
<1>3. /\ subTask' = [subTask EXCEPT ![x] = tx[p].subTask[x]]
      /\ subAssignee' = [k \in SubTasks \X Users |->
           IF k[1] # x THEN subAssignee[k] ELSE Sees(p, k[2])]
  BY SubCommitRows
<1>4. tx[p].subTask[x].status # NoRow
  <2>1. ReopenedSubTask(subTask[x]).status = "OPEN"
    BY <1>1, <1>2 DEF ReopenedSubTask, SubTaskRow
  <2>2. ClosedSubTask(req[p]).status = "CLOSED"
    BY DEF ClosedSubTask
  <2>3. \/ tx[p].subTask[x] = ClosedSubTask(req[p])
        \/ tx[p].subTask[x] = ReopenedSubTask(subTask[x])
    BY <1>1 DEF SubInv, SubProgress, SubClosing, SubResuming
  <2> QED BY <2>1, <2>2, <2>3 DEF NoRow
<1>5. \A s \in SubTasks :
        subTask[s].status # NoRow => subTask'[s].status # NoRow
  BY <1>2, <1>3, <1>4
<1>6. ASSUME NEW q \in Procs \ {p}  PROVE SubProgress(q)' /\ Existing(q)'
  <2>1. ASSUME req[q].pc \in Holding
        PROVE  /\ subTask'[req[q].sub] = subTask[req[q].sub]
               /\ \A u \in Users : subAssignee'[<<req[q].sub, u>>]
                                     = subAssignee[<<req[q].sub, u>>]
    <3>1. req[q].sub \in SubTasks /\ req[q].sub # x
      BY <1>1, <2>1, SubHolds
    <3>2. subTask'[req[q].sub] = subTask[req[q].sub]
      BY <1>2, <1>3, <3>1
    <3>3. ASSUME NEW u \in Users, NEW k, k = <<req[q].sub, u>>
          PROVE  subAssignee'[k] = subAssignee[k]
      <4>1. k \in SubTasks \X Users /\ k[1] # x
        BY <3>1, <3>3
      <4> QED BY <1>3, <4>1
    <3> QED BY <3>2, <3>3
  <2> QED BY <1>2, <1>5, <2>1, SubUntouched
<1>7. SubProgress(p)' /\ Existing(p)'
  BY <1>2 DEF NoRequest, Holding, SubProgress, Existing
<1> QED BY <1>6, <1>7 DEF SubInv

\* The commit is the one step of SubTaskCascades.
LEMMA SubCommitMaps ==
  ASSUME Ops \subseteq SubCascadeOps, TypeInv, LockInv, SubInv,
         NEW p \in Procs, Commit(p)
  PROVE  SubCascades!Next
<1> DEFINE r == req[p]
           x == r.sub
<1>1. /\ r.pc = "commit" /\ r.pc \in Holding
      /\ SubClosing(p) \/ SubResuming(p)
  BY DEF Commit, Holding, SubInv, SubProgress
<1>2. /\ x \in SubTasks /\ r.actor \in Users
      /\ r.reason \in Reasons \cup {Null}
      /\ SubCascades!Exists(x)
  <2>1. r.op # "none"
    BY <1>1 DEF SubClosing, SubResuming
  <2>2. subTask[x].status # NoRow
    BY <1>1, SubHolds
  <2> QED BY <2>1, <2>2, OnlySubCascades
          DEF SubCascades!Exists, SubCascades!NoRow, NoRow
<1>3. /\ subTask' = [subTask EXCEPT ![x] = tx[p].subTask[x]]
      /\ subAssignee' = [k \in SubTasks \X Users |->
           IF k[1] # x THEN subAssignee[k] ELSE Sees(p, k[2])]
  BY SubCommitRows
<1>4. CASE SubClosing(p)
  <2>1. subTask' = [subTask EXCEPT ![x] =
          [ status |-> "CLOSED", closedById |-> r.actor,
            closedReason |-> r.reason ]]
    BY <1>3, <1>4 DEF SubClosing, ClosedSubTask
  <2>2. ASSUME NEW k \in SubTasks \X Users, k[1] = x
        PROVE  Sees(p, k[2]) = IF k[2] = r.actor THEN "COMPLETED"
                               ELSE SubCascades!Released(subAssignee[k])
    <3>1. k = <<x, k[2]>> /\ k[2] \in Users
      BY <2>2
    <3>2. Sees(p, k[2]) = Closing(r, k[2], subAssignee[<<x, k[2]>>])
      BY <1>4, <3>1 DEF SubClosing
    <3> QED BY <1>1, <3>1, <3>2 DEF Closing
  <2>3. subAssignee' = [k \in SubTasks \X Users |->
          IF k[1] # x THEN subAssignee[k]
          ELSE IF k[2] = r.actor THEN "COMPLETED"
               ELSE SubCascades!Released(subAssignee[k])]
    BY <1>3, <2>2
  <2>4. SubCascades!Close(x, r.actor, r.reason)
    BY <1>2, <2>1, <2>3 DEF SubCascades!Close
  <2> QED BY <1>2, <2>4 DEF SubCascades!Next
<1>5. CASE SubResuming(p)
  <2>1. subTask' = [subTask EXCEPT ![x].status = "OPEN", ![x].closedById = Null]
    BY <1>2, <1>3, <1>5 DEF SubResuming, ReopenedSubTask, TypeInv, TypeOK
  <2>2. ASSUME NEW k \in SubTasks \X Users, k[1] = x
        PROVE  Sees(p, k[2]) = SubCascades!Resumed(subAssignee[k])
    <3>1. k = <<x, k[2]>> /\ k[2] \in Users
      BY <2>2
    <3>2. Sees(p, k[2]) = Resuming(r, subAssignee[<<x, k[2]>>])
      BY <1>5, <3>1 DEF SubResuming
    <3> QED BY <1>1, <3>1, <3>2 DEF Resuming
  <2>3. subAssignee' = [k \in SubTasks \X Users |->
          IF k[1] # x THEN subAssignee[k]
          ELSE SubCascades!Resumed(subAssignee[k])]
    BY <1>3, <2>2
  <2>4. SubCascades!Restore(x)
    BY <1>2, <2>1, <2>3 DEF SubCascades!Restore
  <2> QED BY <1>2, <2>4 DEF SubCascades!Next
<1> QED BY <1>1, <1>4, <1>5

-----------------------------------------------------------------------------

LEMMA SubInitMaps ==
  ASSUME FirstSubTasks \subseteq {"OPEN", NoRow},
         FirstSubAssignments \cap {"SKIPPED", "DROPPED"} = {}, Init
  PROVE  SubCascades!Init
<1>1. subTask \in [SubTasks -> {SubCascades!New("OPEN"),
                                SubCascades!New(NoRow)}]
  <2>1. PICK st \in [SubTasks -> FirstSubTasks] :
          subTask = [s \in SubTasks |-> NewSubTask(st[s])]
    BY DEF Init
  <2>2. \A s \in SubTasks : st[s] \in {"OPEN", NoRow}
    OBVIOUS
  <2> QED BY <2>1, <2>2 DEF NewSubTask, SubCascades!New
<1>2. subAssignee \in [ SubTasks \X Users ->
        ({NoRow} \cup AssignmentStatus) \ {"SKIPPED", "DROPPED"} ]
  <2>1. FirstSubAssignments \subseteq
          ({NoRow} \cup AssignmentStatus) \ {"SKIPPED", "DROPPED"}
    BY SystemAssumption DEF SystemAssumption, AssigneeRow
  <2> QED BY <2>1 DEF Init
<1>3. \A s \in SubTasks, u \in Users :
        subTask[s].status = NoRow => subAssignee[<<s, u>>] = NoRow
  BY DEF Init
<1> QED BY <1>1, <1>2, <1>3
        DEF SubCascades!Init, SubCascades!NoRow, NoRow,
            SubCascades!AssignmentStatus, AssignmentStatus

\* Every step keeps the invariant, and is a step of SubTaskCascades or none.
LEMMA SubNextMaps ==
  ASSUME Ops \subseteq SubCascadeOps, TypeInv, TypeInv', WorkInv, LockInv,
         SubInv, [Next]_vars
  PROVE  SubInv' /\ (SubCascades!Next \/ UNCHANGED SubCascades!rows)
<1>1. UNCHANGED tables => UNCHANGED SubCascades!rows
  BY DEF tables, SubCascades!rows
<1>2. ASSUME NEW p \in Procs, Call(p) \/ Abort(p)
      PROVE  SubInv' /\ UNCHANGED tables
  BY <1>2, SubCallStep, SubAbortStep
<1>3. ASSUME NEW p \in Procs, Step(p)
      PROVE  SubInv' /\ (SubCascades!Next \/ UNCHANGED SubCascades!rows)
  <2>1. CASE TaskMemberGuard(p) \/ SubTaskExistsGuard(p)
    BY <1>1, <2>1, SubGuardStep
  <2>2. CASE CreateSubInsert(p)
    BY <2>2, CreateSubStep
  <2>3. CASE CloseSubUpdate(p) \/ RestoreSubUpdate(p)
    BY <1>1, <2>3, SubUpdateStep
       DEF CloseSubUpdate, RestoreSubUpdate, InSubTransaction
  <2>4. CASE CloseSubOwn(p) \/ CloseSubUpsert(p)
    BY <1>1, <2>4, CloserStep DEF CloseSubOwn, CloseSubUpsert, InSubTransaction
  <2>5. CASE \/ CloseSubDrop(p) \/ CloseSubSkip(p)
             \/ RestoreSubAccept(p) \/ RestoreSubPend(p)
    BY <1>1, <2>5, SubMoveStep
       DEF CloseSubDrop, CloseSubSkip, RestoreSubAccept, RestoreSubPend,
           InSubTransaction
  <2>6. CASE Commit(p)
    BY <2>6, SubCommitStep, SubCommitMaps
  <2> QED BY <1>3, <2>1, <2>2, <2>3, <2>4, <2>5, <2>6, OnlySubCascadeSteps
<1>4. ASSUME UNCHANGED <<tables, tx, req>>  PROVE SubInv'
  BY <1>4, SubUntouched DEF SubInv, tables
<1>5. ASSUME NEW u \in MutableUsers, ChangeMembership(u)
      PROVE  SubInv' /\ UNCHANGED tables
  BY <1>4, <1>5 DEF ChangeMembership
<1>6. CASE UNCHANGED vars
  BY <1>1, <1>4, <1>6 DEF vars
<1> QED BY <1>1, <1>2, <1>3, <1>5, <1>6 DEF Next

\* What a transaction of a sub-task has made of its rows so far, while it
\* holds them: the inductive invariant of the refinement.
THEOREM SubTaskInvariant ==
  ASSUME Ops \subseteq SubCascadeOps
  PROVE  Spec => []SubInv
<1>1. Init => SubInv
  BY SubInit
<1>2. TypeInv /\ TypeInv' /\ WorkInv /\ LockInv /\ SubInv /\ [Next]_vars
        => SubInv'
  BY SubNextMaps
<1> QED BY <1>1, <1>2, WorkInvariant, LockInvariant, PTL DEF Spec

\* Closing a sub-task, in up to five statements, and restoring it, in three, are
\* atomic to one another and to its creation: they implement SubTaskCascades.
THEOREM SubCascadesImplemented ==
  ASSUME Ops \subseteq SubCascadeOps, FirstSubTasks \subseteq {"OPEN", NoRow},
         FirstSubAssignments \cap {"SKIPPED", "DROPPED"} = {}
  PROVE  Spec => SubCascadesAreAtomic
<1>1. Init => SubCascades!Init
  BY SubInitMaps
<1>2. TypeInv /\ TypeInv' /\ WorkInv /\ LockInv /\ SubInv /\ [Next]_vars
        => [SubCascades!Next]_(SubCascades!rows)
  BY SubNextMaps
<1> QED BY <1>1, <1>2, WorkInvariant, LockInvariant, SubTaskInvariant, PTL
        DEF Spec, SubCascadesAreAtomic, SubCascades!Spec

-----------------------------------------------------------------------------
(* What the atomic operations keep true                                    *)

\* The two promises, and that a sub-task yet to be created has no assignees.
SubPromises ==
  /\ SubTaskAssigneesFollow /\ CloserHasCompleted
  /\ \A s \in SubTasks, u \in Users :
       subTask[s].status = NoRow => subAssignee[<<s, u>>] = NoRow

\* The same of one sub-task with that row and those assignments.
InOrder(row, A) ==
  /\ \A u \in Users :
       /\ row.status = NoRow => A[u] = NoRow
       /\ row.status = "CLOSED" => A[u] \notin {"PENDING", "ACCEPTED"}
       /\ row.status = "OPEN" => A[u] \notin {"SKIPPED", "DROPPED"}
  /\ row.status = "CLOSED" /\ row.closedById # Null =>
       A[row.closedById] = "COMPLETED"

AssigneesOf(s) == [u \in Users |-> subAssignee[<<s, u>>]]

LEMMA SubStepSettles ==
  ASSUME StoreAssumption, TypeOK, TypeOK', SubPromises, SubCascades!Next
  PROVE  SubPromises'
<1>1. PICK x \in SubTasks :
        \/ \E st \in TaskStatus : SubCascades!Create(x, st)
        \/ \E u \in Users, why \in Reasons \cup {Null} :
             SubCascades!Close(x, u, why)
        \/ SubCascades!Restore(x)
  BY DEF SubCascades!Next, SubCascades!TaskStatus, TaskStatus
<1>2. /\ subTask \in [SubTasks -> SubTaskRow]
      /\ subAssignee \in [SubTasks \X Users -> AssigneeRow]
      /\ \A s \in SubTasks : subTask'[s].closedById \in Users \cup {Null}
  BY DEF TypeOK, SubTaskRow
<1> DEFINE Before(s) == InOrder(subTask[s], AssigneesOf(s))
           After(s) == InOrder(subTask'[s], AssigneesOf(s)')
<1>3. \A s \in SubTasks : Before(s)
  <2>1. \A s \in SubTasks : subTask[s].closedById \in Users \cup {Null}
    BY <1>2 DEF SubTaskRow
  <2> QED BY <2>1 DEF SubPromises, SubTaskAssigneesFollow, CloserHasCompleted,
                      InOrder, AssigneesOf
<1>4. ASSUME NEW s \in SubTasks \ {x}
      PROVE  After(s)
  <2>1. subTask'[s] = subTask[s]
    BY <1>1, <1>2
       DEF SubCascades!Create, SubCascades!Close, SubCascades!Restore
  <2>2. ASSUME NEW u \in Users, NEW k, k = <<s, u>>
        PROVE  subAssignee'[k] = subAssignee[k]
    <3>1. k \in SubTasks \X Users /\ k[1] # x
      BY <2>2
    <3> QED BY <1>1, <3>1
            DEF SubCascades!Create, SubCascades!Close, SubCascades!Restore
  <2>3. AssigneesOf(s)' = AssigneesOf(s)
    BY <2>2 DEF AssigneesOf
  <2> QED BY <1>3, <2>1, <2>3
<1>5. ASSUME NEW st \in TaskStatus, SubCascades!Create(x, st)
      PROVE  After(x)
  <2>1. subTask'[x].status \in TaskStatus /\ subTask'[x].closedById = Null
    BY <1>2, <1>5 DEF SubCascades!Create, SubCascades!New
  <2>2. \A u \in Users : AssigneesOf(x)'[u] = NoRow
    BY <1>2, <1>3, <1>5
       DEF SubCascades!Create, SubCascades!Exists, SubCascades!NoRow, NoRow,
           InOrder, AssigneesOf
  <2> QED BY <2>1, <2>2 DEF InOrder, NoRow, TaskStatus
<1>6. ASSUME NEW v \in Users, NEW why \in Reasons \cup {Null},
             SubCascades!Close(x, v, why)
      PROVE  After(x)
  <2>1. subTask'[x].status = "CLOSED" /\ subTask'[x].closedById = v
    BY <1>2, <1>6 DEF SubCascades!Close
  <2>2. ASSUME NEW u \in Users, NEW k, k = <<x, u>>
        PROVE  subAssignee'[k] = IF u = v THEN "COMPLETED"
                                 ELSE SubCascades!Released(subAssignee[k])
    <3>1. k \in SubTasks \X Users /\ k[1] = x /\ k[2] = u
      BY <2>2
    <3> QED BY <1>6, <3>1 DEF SubCascades!Close
  <2>3. \A u \in Users :
          /\ AssigneesOf(x)'[u] \notin {"PENDING", "ACCEPTED"}
          /\ u = v => AssigneesOf(x)'[u] = "COMPLETED"
    BY <2>2 DEF AssigneesOf, SubCascades!Released
  <2> QED BY <2>1, <2>3 DEF InOrder, NoRow
<1>7. ASSUME SubCascades!Restore(x)
      PROVE  After(x)
  <2>1. subTask'[x].status = "OPEN"
    BY <1>2, <1>7 DEF SubCascades!Restore, SubTaskRow
  <2>2. ASSUME NEW u \in Users, NEW k, k = <<x, u>>
        PROVE  subAssignee'[k] = SubCascades!Resumed(subAssignee[k])
    <3>1. k \in SubTasks \X Users /\ k[1] = x
      BY <2>2
    <3> QED BY <1>7, <3>1 DEF SubCascades!Restore
  <2>3. \A u \in Users : AssigneesOf(x)'[u] \notin {"SKIPPED", "DROPPED"}
    BY <2>2 DEF AssigneesOf, SubCascades!Resumed
  <2> QED BY <2>1, <2>3 DEF InOrder, NoRow
<1>8. \A s \in SubTasks : After(s)
  BY <1>1, <1>4, <1>5, <1>6, <1>7
<1> QED BY <1>2, <1>8 DEF SubPromises, SubTaskAssigneesFollow,
                          CloserHasCompleted, InOrder, AssigneesOf

LEMMA SubPromisesKept ==
  ASSUME Ops \subseteq SubCascadeOps, FirstSubTasks \subseteq {"OPEN", NoRow},
         FirstSubAssignments \cap {"SKIPPED", "DROPPED"} = {}
  PROVE  Spec => []SubPromises
<1>1. Init => SubPromises
  <2> SUFFICES ASSUME Init  PROVE SubPromises
    OBVIOUS
  <2>1. \A s \in SubTasks : subTask[s].status \in {"OPEN", NoRow}
    BY SubInitMaps
       DEF SubCascades!Init, SubCascades!New, SubCascades!NoRow, NoRow
  <2>2. \A s \in SubTasks, u \in Users :
          /\ subAssignee[<<s, u>>] \notin {"SKIPPED", "DROPPED"}
          /\ subTask[s].status = NoRow => subAssignee[<<s, u>>] = NoRow
    BY DEF Init
  <2> QED BY <2>1, <2>2 DEF SubPromises, SubTaskAssigneesFollow,
                            CloserHasCompleted, NoRow
<1>2. /\ TypeInv /\ TypeInv' /\ WorkInv /\ LockInv /\ SubInv /\ SubPromises
      /\ [Next]_vars
      => SubPromises'
  <2> SUFFICES ASSUME TypeInv, TypeInv', WorkInv, LockInv, SubInv,
                      SubPromises, [Next]_vars
               PROVE  SubPromises'
    OBVIOUS
  <2>1. CASE SubCascades!Next
    BY <2>1, SubStepSettles, StoreAssumption DEF TypeInv
  <2>2. CASE UNCHANGED SubCascades!rows
    BY <2>2 DEF SubCascades!rows, SubPromises, SubTaskAssigneesFollow,
                CloserHasCompleted
  <2> QED BY <2>1, <2>2, SubNextMaps
<1> QED BY <1>1, <1>2, WorkInvariant, LockInvariant, SubTaskInvariant, PTL
        DEF Spec

\* closeSubTask and restoreSubTask move the assignees with the status, however
\* many of them overlap and wherever they fail.
THEOREM AssigneesFollow ==
  ASSUME Ops \subseteq SubCascadeOps, FirstSubTasks \subseteq {"OPEN", NoRow},
         FirstSubAssignments \cap {"SKIPPED", "DROPPED"} = {}
  PROVE  Spec => []SubTaskAssigneesFollow
<1>1. SubPromises => SubTaskAssigneesFollow
  BY DEF SubPromises
<1> QED BY <1>1, SubPromisesKept, PTL

\* Closing a sub-task counts as completing it.
THEOREM ClosersComplete ==
  ASSUME Ops \subseteq SubCascadeOps, FirstSubTasks \subseteq {"OPEN", NoRow},
         FirstSubAssignments \cap {"SKIPPED", "DROPPED"} = {}
  PROVE  Spec => []CloserHasCompleted
<1>1. SubPromises => CloserHasCompleted
  BY DEF SubPromises
<1> QED BY <1>1, SubPromisesKept, PTL

=============================================================================
