------------------------ MODULE LiveUpdates_proofs -------------------------
(***************************************************************************)
(* Proofs about LiveUpdates, for any number of users, pages, requests,     *)
(* tasks and sub-tasks.                                                    *)
(***************************************************************************)
EXTENDS LiveUpdates, TLAPS

(* Before and After say nothing of "claim" and "updateSub", and of         *)
(* "assignSub" and "decideSub" they tell the room of another task: the     *)
(* handlers that remain are those StaleIsTold holds of.                    *)
Announcing ==
  (SubOps \cup TaskOps) \ {"claim", "updateSub", "assignSub", "decideSub"}

ReqOK(r) ==
  r.pc # "idle" =>
    /\ r.op \in Ops /\ r.actor \in Users /\ r.task \in Tasks
    /\ r.sub # 0 => r.sub \in SubTasks
    /\ r.op = "reportSub" => r.sub # 0
    /\ r.pc = "tell" => r.op \in DOMAIN Before
    /\ r.pc = "tell_after" => r.op \in DOMAIN After

(* The page will be read again, or is excused.                             *)
Safe(b) == tab[b].missed \/ Told(b)

(* Who heard the announcement that comes before the commit is safe until   *)
(* the commit.                                                             *)
HeardOK(p, b) ==
  /\ req[p].pc = "commit" /\ req[p].op \in DOMAIN Before
  /\ b \in req[p].heard /\ Concerns(req[p], tab[b])
  => Safe(b)

(* The excuse of a pending announcement is only needed for what is not     *)
(* announced before the commit.                                            *)
StaleOK(b) ==
  tab[b].stale =>
    /\ tab[b].phase = "shown"
    /\ \/ Safe(b)
       \/ \E p \in Procs :
            /\ req[p].pc = "tell_after" /\ req[p].op \notin DOMAIN Before
            /\ Concerns(req[p], tab[b])

LiveInv ==
  /\ TypeOK
  /\ \A p \in Procs : ReqOK(req[p])
  /\ \A p \in Procs, b \in Tabs : HeardOK(p, b)
  /\ \A b \in Tabs : StaleOK(b)

-----------------------------------------------------------------------------
(* The plans.                                                              *)

LEMMA BeforeDomain ==
  DOMAIN Before =
    {"report", "archive", "restore", "decide", "claimSub", "decideSub"}
BY DEF Before

LEMMA AfterDomain ==
  DOMAIN After =
    { "update", "assign", "close", "createSub", "assignSub", "closeSub",
      "restoreSub", "claimSub", "reportSub" }
BY DEF After

LEMMA AnnouncingOps ==
  Announcing =
    { "createSub", "claimSub", "reportSub", "closeSub", "restoreSub",
      "update", "report", "assign", "decide", "close", "archive", "restore" }
BY DEF Announcing, SubOps, TaskOps

(* Told before the commit: the room of the task, always.                   *)
LEMMA BeforeTellsTask ==
  ASSUME NEW op \in Announcing, op \in DOMAIN Before
  PROVE  "task" \in Before[op]
BY BeforeDomain, AnnouncingOps DEF Before

(* Told after it alone: the room of the task, but for a sub-task's report. *)
LEMMA AfterTells ==
  ASSUME NEW op \in Announcing, op \in DOMAIN After, op \notin DOMAIN Before
  PROVE  \/ op # "reportSub" /\ "task" \in After[op]
         \/ op = "reportSub" /\ "sub" \in After[op]
BY BeforeDomain, AfterDomain, AnnouncingOps DEF After, Before

LEMMA CommitAnnounces ==
  ASSUME NEW op \in Announcing
  PROVE  op \in DOMAIN Before \/ op \in DOMAIN After
BY BeforeDomain, AfterDomain, AnnouncingOps

LEMMA TaskOfType ==
  ASSUME NEW r, r.task \in Tasks, r.sub \in {0} \cup SubTasks
  PROVE  TaskOf(r) \in Tasks
BY LiveAssumption DEF TaskOf

LEMMA PageType ==
  ASSUME NEW page \in Page
  PROVE  /\ page.task \in Tasks /\ page.sub \in {0} \cup SubTasks
         /\ page = [task |-> page.task, sub |-> page.sub]
         /\ page.sub # 0 => page.task = Parent[page.sub]
         /\ Joins(page) \subseteq Page /\ page \in Joins(page)
         /\ TaskRoom(page.task) \in Joins(page)
BY LiveAssumption DEF Page, Joins, TaskRoom

(* Whoever listens and is concerned is told, if the room of the task is,   *)
(* or that of the sub-task of a report.                                    *)
LEMMA TaskRoomReaches ==
  ASSUME NEW r, NEW t \in Tab, NEW plan, Concerns(r, t), Listening(t),
         r.op \in DOMAIN plan, "task" \in plan[r.op]
  PROVE  \E room \in Rooms(plan, r) \cap t.rooms : Heeds(t, Event(r, room))
<1>1. t.page \in Page /\ t.page.task = r.task /\ r.actor # t.user
  BY DEF Tab, Concerns, Changes
<1>2. TaskRoom(r.task) \in t.rooms
  BY <1>1, PageType DEF Listening
<1>3. RoomOf("task", r) = TaskRoom(r.task)
  BY DEF RoomOf, TaskRoom
<1>4. TaskRoom(r.task) \in Rooms(plan, r)
  BY <1>3 DEF Rooms
<1>5. Heeds(t, Event(r, TaskRoom(r.task)))
  BY <1>1 DEF Heeds, Event, TaskRoom
<1> QED
  BY <1>2, <1>4, <1>5

LEMMA SubRoomReaches ==
  ASSUME NEW r, NEW t \in Tab, NEW plan, Concerns(r, t), Listening(t),
         r.op \in DOMAIN plan, "sub" \in plan[r.op], r.op = "reportSub"
  PROVE  \E room \in Rooms(plan, r) \cap t.rooms : Heeds(t, Event(r, room))
<1>1. t.page \in Page /\ t.page.task = r.task /\ r.actor # t.user
  BY DEF Tab, Concerns, Changes
<1>2. t.page.sub = r.sub
  BY DEF Concerns, Changes
<1>3. RoomOf("sub", r) = [task |-> r.task, sub |-> r.sub]
  BY DEF RoomOf
<1>4. RoomOf("sub", r) = t.page
  BY <1>1, <1>2, <1>3, PageType
<1>5. t.page \in t.rooms /\ t.page \in Rooms(plan, r)
  BY <1>1, <1>4, PageType DEF Listening, Rooms
<1>6. Heeds(t, Event(r, t.page))
  BY <1>1 DEF Heeds, Event
<1> QED
  BY <1>5, <1>6

-----------------------------------------------------------------------------
(* Types.                                                                  *)

LEMMA LoadingType ==
  ASSUME NEW u \in Users, NEW page \in Page
  PROVE  Loading(u, page) \in Tab
BY DEF Loading, Tab

LEMMA EventType ==
  ASSUME NEW r, NEW room \in Page, r.actor \in Users, r.task \in Tasks,
         r.sub \in {0} \cup SubTasks
  PROVE  Event(r, room) \in Payload
BY PageType, TaskOfType DEF Event, Payload

LEMMA BroadcastType ==
  ASSUME TypeOK, NEW r, r.actor \in Users, r.task \in Tasks,
         r.sub \in {0} \cup SubTasks, NEW rooms, Broadcast(r, rooms)
  PROVE  inbox' \in [Tabs -> SUBSET Payload]
<1>1. ASSUME NEW b \in Tabs, NEW room \in rooms \cap tab[b].rooms
      PROVE  Event(r, room) \in Payload
  BY <1>1, EventType DEF TypeOK, Tab
<1> QED
  BY <1>1 DEF Broadcast, TypeOK

LEMMA NoRequestType == NoRequest \in Request
BY DEF NoRequest, Request

LEMMA LiveInit == Init => LiveInv
<1> SUFFICES ASSUME Init PROVE LiveInv
  OBVIOUS
<1>1. ASSUME NEW b \in Tabs
      PROVE  tab[b] \in Tab /\ ~tab[b].stale
  BY LoadingType DEF Init, Loading
<1>2. TypeOK
  <2>1. tab \in [Tabs -> Tab]
    BY <1>1 DEF Init
  <2>2. inbox \in [Tabs -> SUBSET Payload]
    BY DEF Init
  <2>3. req \in [Procs -> Request]
    BY NoRequestType DEF Init
  <2>4. calls \in 0 .. MaxCalls
    BY LiveAssumption DEF Init
  <2> QED
    BY <2>1, <2>2, <2>3, <2>4 DEF TypeOK
<1>3. \A p \in Procs : req[p].pc = "idle"
  BY DEF Init, NoRequest
<1>4. \A p \in Procs : ReqOK(req[p])
  BY <1>3 DEF ReqOK
<1>5. \A p \in Procs, b \in Tabs : HeardOK(p, b)
  BY <1>3 DEF HeardOK
<1>6. \A b \in Tabs : StaleOK(b)
  BY <1>1 DEF StaleOK
<1> QED
  BY <1>2, <1>4, <1>5, <1>6 DEF LiveInv

-----------------------------------------------------------------------------
(* Steps that leave the requests alone: each page is left, or shows what   *)
(* it did and is no less safe.                                             *)

Left(b) == tab'[b].phase = "loading" /\ ~tab'[b].stale

Kept(b) ==
  /\ tab'[b].user = tab[b].user /\ tab'[b].page = tab[b].page
  /\ tab'[b].phase = tab[b].phase /\ tab'[b].stale = tab[b].stale
  /\ Safe(b) => Safe(b)'

LEMMA ConcernsKept ==
  ASSUME NEW r, NEW b, Kept(b)
  PROVE  Concerns(r, tab'[b]) <=> Concerns(r, tab[b])
BY DEF Concerns, Kept

LEMMA LeftConcerns ==
  ASSUME NEW r, NEW b, Left(b)
  PROVE  ~Concerns(r, tab'[b])
BY DEF Concerns, Left

LEMMA PagesStep ==
  ASSUME LiveInv, TypeOK', UNCHANGED req,
         \A b \in Tabs : Left(b) \/ Kept(b)
  PROVE  LiveInv'
<1>1. \A p \in Procs : ReqOK(req[p])'
  BY DEF LiveInv, ReqOK
<1>2. ASSUME NEW p \in Procs, NEW b \in Tabs
      PROVE  HeardOK(p, b)'
  <2>1. CASE Left(b)
    BY <2>1, LeftConcerns DEF HeardOK
  <2>2. CASE Kept(b)
    <3>1. Concerns(req[p], tab'[b]) <=> Concerns(req[p], tab[b])
      BY <2>2, ConcernsKept
    <3> QED
      BY <2>2, <3>1 DEF HeardOK, LiveInv, Kept
  <2> QED
    BY <2>1, <2>2
<1>3. ASSUME NEW b \in Tabs
      PROVE  StaleOK(b)'
  <2>1. CASE Left(b)
    BY <2>1 DEF StaleOK, Left
  <2>2. CASE Kept(b)
    <3>1. \A p \in Procs :
            Concerns(req[p], tab'[b]) <=> Concerns(req[p], tab[b])
      BY <2>2, ConcernsKept
    <3> QED
      BY <2>2, <3>1 DEF StaleOK, LiveInv, Kept
  <2> QED
    BY <2>1, <2>2
<1> QED
  BY <1>1, <1>2, <1>3 DEF LiveInv

(* Unlike the page that is left or read, the others do not change.         *)
LEMMA OtherKept ==
  ASSUME NEW b, tab'[b] = tab[b], inbox'[b] = inbox[b]
  PROVE  Kept(b)
BY DEF Kept, Safe, Told, Heeds

LEMMA LeaveStep ==
  ASSUME LiveInv, NEW b \in Tabs, NEW u \in Users, NEW page \in Page,
         Leave(b, u, page), UNCHANGED <<req, calls>>
  PROVE  LiveInv'
<1>1. tab \in [Tabs -> Tab] /\ inbox \in [Tabs -> SUBSET Payload]
  BY DEF LiveInv, TypeOK
<1>2. /\ tab' \in [Tabs -> Tab] /\ tab'[b] = Loading(u, page)
      /\ \A c \in Tabs \ {b} : tab'[c] = tab[c]
  BY <1>1, LoadingType DEF Leave
<1>3. /\ inbox' \in [Tabs -> SUBSET Payload]
      /\ \A c \in Tabs \ {b} : inbox'[c] = inbox[c]
  BY <1>1 DEF Leave
<1>4. TypeOK'
  BY <1>2, <1>3 DEF LiveInv, TypeOK
<1>5. Left(b)
  BY <1>2 DEF Left, Loading
<1>6. \A c \in Tabs \ {b} : Kept(c)
  BY <1>2, <1>3, OtherKept
<1> QED
  BY <1>4, <1>5, <1>6, PagesStep

LEMMA JoinStep ==
  ASSUME LiveInv, NEW b \in Tabs, Join(b)
  PROVE  LiveInv'
<1>1. tab \in [Tabs -> Tab] /\ tab[b] \in Tab /\ tab[b].page \in Page
  BY DEF LiveInv, TypeOK, Tab
<1>2. PICK rooms \in SUBSET Page : tab' = [tab EXCEPT ![b].rooms = rooms]
  <2>1. TaskRoom(tab[b].page.task) \in Page /\ Joins(tab[b].page) \subseteq Page
    BY <1>1, PageType
  <2> QED
    BY <2>1 DEF Join
<1>3. /\ tab'[b] = [tab[b] EXCEPT !.rooms = rooms]
      /\ \A c \in Tabs \ {b} : tab'[c] = tab[c]
  BY <1>1, <1>2
<1>4. tab'[b] \in Tab
  BY <1>1, <1>3 DEF Tab
<1>5. TypeOK'
  BY <1>1, <1>2, <1>3, <1>4 DEF LiveInv, TypeOK, Join
<1>6. inbox' = inbox /\ req' = req
  BY DEF Join
<1>7. Kept(b)
  BY <1>1, <1>3, <1>6 DEF Kept, Safe, Told, Heeds, Tab
<1>8. \A c \in Tabs \ {b} : Kept(c)
  BY <1>3, <1>6, OtherKept
<1> QED
  BY <1>5, <1>6, <1>7, <1>8, PagesStep

LEMMA DeliverStep ==
  ASSUME LiveInv, NEW b \in Tabs, Deliver(b)
  PROVE  LiveInv'
<1>1. /\ tab \in [Tabs -> Tab] /\ tab[b] \in Tab
      /\ inbox \in [Tabs -> SUBSET Payload]
  BY DEF LiveInv, TypeOK
<1>2. PICK e \in inbox[b] :
        /\ inbox' = [inbox EXCEPT ![b] = @ \ {e}]
        /\ tab' = [tab EXCEPT ![b].timer = @ \/ Heeds(tab[b], e)]
        /\ UNCHANGED <<req, calls>>
  BY DEF Deliver
<1>3. /\ tab'[b] = [tab[b] EXCEPT !.timer = tab[b].timer \/ Heeds(tab[b], e)]
      /\ inbox'[b] = inbox[b] \ {e}
      /\ \A c \in Tabs \ {b} : tab'[c] = tab[c] /\ inbox'[c] = inbox[c]
  BY <1>1, <1>2
<1>4. (tab[b].timer \/ Heeds(tab[b], e)) \in BOOLEAN
  BY <1>1 DEF Tab, Heeds
<1>5. tab'[b] \in Tab
  BY <1>1, <1>3, <1>4 DEF Tab
<1>6. tab' \in [Tabs -> Tab]
  BY <1>1, <1>2, <1>3, <1>5
<1>7. inbox' \in [Tabs -> SUBSET Payload]
  BY <1>1, <1>2
<1>8. TypeOK'
  BY <1>2, <1>6, <1>7 DEF LiveInv, TypeOK
<1>9. Kept(b)
  <2>1. /\ tab'[b].user = tab[b].user /\ tab'[b].page = tab[b].page
        /\ tab'[b].phase = tab[b].phase /\ tab'[b].stale = tab[b].stale
        /\ tab'[b].missed = tab[b].missed
        /\ tab'[b].timer <=> (tab[b].timer \/ Heeds(tab[b], e))
    BY <1>1, <1>3, <1>4 DEF Tab
  <2>2. \A f \in inbox[b] : Heeds(tab[b], f) <=> Heeds(tab'[b], f)
    BY <2>1 DEF Heeds
  <2> QED
    BY <1>3, <2>1, <2>2 DEF Kept, Safe, Told
<1>10. \A c \in Tabs \ {b} : Kept(c)
  BY <1>3, OtherKept
<1> QED
  BY <1>2, <1>8, <1>9, <1>10, PagesStep

LEMMA DisconnectStep ==
  ASSUME LiveInv, NEW b \in Tabs, Disconnect(b)
  PROVE  LiveInv'
<1> DEFINE lost == \E e \in inbox[b] : Heeds(tab[b], e)
<1>1. /\ tab \in [Tabs -> Tab] /\ tab[b] \in Tab
      /\ inbox \in [Tabs -> SUBSET Payload]
  BY DEF LiveInv, TypeOK
<1>2. lost \in BOOLEAN
  OBVIOUS
<1> HIDE DEF lost
<1>3. /\ tab'[b] = [tab[b] EXCEPT !.rooms = {}, !.missed = tab[b].missed \/ lost]
      /\ inbox'[b] = {}
      /\ \A c \in Tabs \ {b} : tab'[c] = tab[c] /\ inbox'[c] = inbox[c]
  BY <1>1 DEF Disconnect, lost
<1>4. tab'[b] \in Tab
  BY <1>1, <1>2, <1>3 DEF Tab
<1>5. tab' \in [Tabs -> Tab]
  BY <1>1, <1>3, <1>4 DEF Disconnect
<1>6. inbox' \in [Tabs -> SUBSET Payload]
  BY <1>1 DEF Disconnect
<1>7. TypeOK'
  BY <1>5, <1>6 DEF LiveInv, TypeOK, Disconnect
<1>8. Kept(b)
  <2>1. /\ tab'[b].user = tab[b].user /\ tab'[b].page = tab[b].page
        /\ tab'[b].phase = tab[b].phase /\ tab'[b].stale = tab[b].stale
        /\ tab'[b].timer = tab[b].timer
        /\ tab'[b].missed <=> (tab[b].missed \/ lost)
    BY <1>1, <1>2, <1>3 DEF Tab
  <2> QED
    BY <1>3, <2>1 DEF Kept, Safe, Told, lost
<1>9. \A c \in Tabs \ {b} : Kept(c)
  BY <1>3, OtherKept
<1>10. req' = req
  BY DEF Disconnect
<1> QED
  BY <1>7, <1>8, <1>9, <1>10, PagesStep

-----------------------------------------------------------------------------
(* The page that is read: nothing is stale, and nobody remembers that it   *)
(* was told.                                                               *)

LEMMA RenderStep ==
  ASSUME LiveInv, NEW b \in Tabs, Render(b)
  PROVE  LiveInv'
<1>1. /\ tab \in [Tabs -> Tab] /\ tab[b] \in Tab
      /\ inbox \in [Tabs -> SUBSET Payload] /\ req \in [Procs -> Request]
  BY DEF LiveInv, TypeOK
<1>2. ~tab[b].stale
  BY DEF Render, LiveInv, StaleOK
<1>3. /\ tab'[b] = [tab[b] EXCEPT !.phase = "shown"]
      /\ \A c \in Tabs \ {b} : tab'[c] = tab[c]
  BY <1>1 DEF Render
<1>4. tab'[b] \in Tab /\ ~tab'[b].stale
  BY <1>1, <1>2, <1>3 DEF Tab
<1>5. ASSUME NEW p \in Procs
      PROVE  /\ req'[p] = [req[p] EXCEPT !.heard = req[p].heard \ {b}]
             /\ req'[p] \in Request
             /\ req'[p].op = req[p].op /\ req'[p].pc = req[p].pc
             /\ req'[p].actor = req[p].actor /\ req'[p].task = req[p].task
             /\ req'[p].sub = req[p].sub
             /\ req'[p].heard = req[p].heard \ {b}
  BY <1>1 DEF Render, Request
<1>6. TypeOK'
  <2>1. tab' \in [Tabs -> Tab]
    BY <1>1, <1>3, <1>4 DEF Render
  <2>2. req' \in [Procs -> Request]
    BY <1>5 DEF Render
  <2> QED
    BY <2>1, <2>2 DEF LiveInv, TypeOK, Render
<1>7. \A p \in Procs : ReqOK(req[p])'
  BY <1>5 DEF LiveInv, ReqOK
<1>8. ASSUME NEW c \in Tabs \ {b}, NEW p \in Procs
      PROVE  Concerns(req'[p], tab'[c]) <=> Concerns(req[p], tab[c])
  BY <1>3, <1>5 DEF Concerns, Changes, TaskOf
<1>9. ASSUME NEW c \in Tabs \ {b}
      PROVE  Kept(c)
  BY <1>3, OtherKept DEF Render
<1>10. ASSUME NEW p \in Procs, NEW c \in Tabs
       PROVE  HeardOK(p, c)'
  <2>1. CASE c = b
    BY <2>1, <1>5 DEF HeardOK
  <2>2. CASE c # b
    BY <2>2, <1>5, <1>8, <1>9 DEF HeardOK, LiveInv, Kept
  <2> QED
    BY <2>1, <2>2
<1>11. ASSUME NEW c \in Tabs
       PROVE  StaleOK(c)'
  <2>1. CASE c = b
    BY <2>1, <1>4 DEF StaleOK
  <2>2. CASE c # b
    <3>1. StaleOK(c) /\ Kept(c) /\ tab'[c] = tab[c]
      BY <2>2, <1>3, <1>9 DEF LiveInv
    <3>2. \A p \in Procs :
            /\ req'[p].pc = req[p].pc /\ req'[p].op = req[p].op
            /\ Concerns(req'[p], tab'[c]) <=> Concerns(req[p], tab[c])
      BY <2>2, <1>5, <1>8
    <3> QED
      BY <3>1, <3>2 DEF StaleOK, Kept
  <2> QED
    BY <2>1, <2>2
<1> QED
  BY <1>6, <1>7, <1>10, <1>11 DEF LiveInv

-----------------------------------------------------------------------------
(* Steps of a request: no page is left or read, and none less safe.        *)

Steady(b) ==
  /\ tab'[b].user = tab[b].user /\ tab'[b].page = tab[b].page
  /\ tab'[b].phase = tab[b].phase
  /\ Safe(b) => Safe(b)'

LEMMA ConcernsSteady ==
  ASSUME NEW r, NEW b, Steady(b)
  PROVE  Concerns(r, tab'[b]) <=> Concerns(r, tab[b])
BY DEF Concerns, Steady

LEMMA RequestStep ==
  ASSUME LiveInv, TypeOK', NEW p \in Procs,
         \A q \in Procs \ {p} : req'[q] = req[q],
         ReqOK(req[p])',
         \A b \in Tabs : Steady(b) /\ HeardOK(p, b)' /\ StaleOK(b)'
  PROVE  LiveInv'
<1>1. \A q \in Procs : ReqOK(req[q])'
  BY DEF LiveInv, ReqOK
<1>2. ASSUME NEW q \in Procs \ {p}, NEW b \in Tabs
      PROVE  HeardOK(q, b)'
  <2>1. Concerns(req[q], tab'[b]) <=> Concerns(req[q], tab[b])
    BY ConcernsSteady
  <2> QED
    BY <2>1 DEF HeardOK, LiveInv, Steady
<1> QED
  BY <1>1, <1>2 DEF LiveInv

(* Where the request was nobody's excuse.                                  *)
LEMMA NoExcuse ==
  ASSUME LiveInv, NEW p \in Procs, req[p].pc # "tell_after",
         \A q \in Procs \ {p} : req'[q] = req[q],
         NEW b \in Tabs, Steady(b), tab'[b].stale = tab[b].stale
  PROVE  StaleOK(b)'
<1>1. \A q \in Procs : Concerns(req[q], tab'[b]) <=> Concerns(req[q], tab[b])
  BY ConcernsSteady
<1> QED
  BY <1>1 DEF StaleOK, LiveInv, Steady

LEMMA ReceiveStep ==
  ASSUME LiveInv, NEW p \in Procs, Receive(p)
  PROVE  LiveInv'
<1>1. req \in [Procs -> Request] /\ calls \in 0 .. MaxCalls
  BY DEF LiveInv, TypeOK
<1>2. PICK op \in Ops, u \in Users, t \in Tasks, s \in {0} \cup SubTasks :
        /\ s # 0 <=> op \in SubOps \ {"createSub"}
        /\ req' = [req EXCEPT ![p] =
             [ op |-> op, actor |-> u, task |-> t, sub |-> s,
               pc |-> IF op \in DOMAIN Before THEN "tell" ELSE "commit",
               heard |-> {} ]]
  BY DEF Receive
<1>4. /\ req'[p].op = op /\ req'[p].actor = u /\ req'[p].task = t
      /\ req'[p].sub = s /\ req'[p].heard = {}
      /\ req'[p].pc = IF op \in DOMAIN Before THEN "tell" ELSE "commit"
      /\ req'[p] \in Request
  BY <1>1, <1>2 DEF Request
<1>5. \A q \in Procs \ {p} : req'[q] = req[q]
  BY <1>1, <1>2
<1>6. TypeOK'
  <2>1. req' \in [Procs -> Request]
    BY <1>1, <1>2, <1>4
  <2>2. calls' \in 0 .. MaxCalls
    BY <1>1, LiveAssumption DEF Receive
  <2> QED
    BY <2>1, <2>2 DEF LiveInv, TypeOK, Receive
<1>7. ReqOK(req[p])'
  <2>1. op = "reportSub" => s # 0
    BY <1>2 DEF SubOps
  <2> QED
    BY <1>4, <2>1 DEF ReqOK
<1>8. req[p].pc # "tell_after"
  BY DEF Receive, NoRequest
<1>9. ASSUME NEW b \in Tabs
      PROVE  Steady(b) /\ HeardOK(p, b)' /\ StaleOK(b)'
  <2>1. Steady(b)
    BY DEF Receive, Steady, Safe, Told, Heeds
  <2>2. HeardOK(p, b)'
    BY <1>4 DEF HeardOK
  <2>3. StaleOK(b)'
    BY <1>5, <1>8, <2>1, NoExcuse DEF Receive
  <2> QED
    BY <2>1, <2>2, <2>3
<1> QED
  BY <1>5, <1>6, <1>7, <1>9, RequestStep

(* What is broadcast is only added.                                        *)
LEMMA BroadcastSteady ==
  ASSUME TypeOK, NEW r, NEW rooms, Broadcast(r, rooms), NEW b \in Tabs,
         tab'[b].user = tab[b].user, tab'[b].page = tab[b].page,
         tab'[b].phase = tab[b].phase, tab'[b].timer = tab[b].timer,
         tab[b].missed => tab'[b].missed
  PROVE  Steady(b)
<1>1. inbox[b] \subseteq inbox'[b]
  BY DEF Broadcast
<1>2. \A e : Heeds(tab'[b], e) <=> Heeds(tab[b], e)
  BY DEF Heeds
<1> QED
  BY <1>1, <1>2 DEF Steady, Safe, Told

LEMMA BroadcastTells ==
  ASSUME NEW r, NEW rooms, Broadcast(r, rooms), NEW b \in Tabs,
         tab'[b].user = tab[b].user, tab'[b].page = tab[b].page,
         \E room \in rooms \cap tab[b].rooms : Heeds(tab[b], Event(r, room))
  PROVE  Safe(b)'
<1>1. PICK room \in rooms \cap tab[b].rooms : Heeds(tab[b], Event(r, room))
  OBVIOUS
<1>2. Event(r, room) \in inbox'[b]
  BY <1>1 DEF Broadcast
<1>3. Heeds(tab'[b], Event(r, room))
  BY <1>1 DEF Heeds
<1> QED
  BY <1>2, <1>3 DEF Safe, Told

LEMMA TellBeforeStep ==
  ASSUME LiveInv, Ops \subseteq Announcing, NEW p \in Procs, TellBefore(p)
  PROVE  LiveInv'
<1>1. /\ req \in [Procs -> Request] /\ tab \in [Tabs -> Tab] /\ TypeOK
      /\ ReqOK(req[p])
  BY DEF LiveInv, TypeOK
<1>2. /\ req[p].op \in Ops /\ req[p].actor \in Users /\ req[p].task \in Tasks
      /\ req[p].op \in DOMAIN Before
  BY <1>1 DEF ReqOK, TellBefore
<1>3. /\ req'[p].op = req[p].op /\ req'[p].actor = req[p].actor
      /\ req'[p].task = req[p].task /\ req'[p].sub = req[p].sub
      /\ req'[p].pc = "commit"
      /\ req'[p].heard = {b \in Tabs : Listening(tab[b])}
      /\ req'[p] \in Request
  BY <1>1 DEF TellBefore, Request
<1>4. \A q \in Procs \ {p} : req'[q] = req[q]
  BY <1>1 DEF TellBefore
<1>5. TypeOK'
  <2>1. req' \in [Procs -> Request]
    BY <1>1, <1>3 DEF TellBefore
  <2>2. inbox' \in [Tabs -> SUBSET Payload]
    BY <1>1, <1>2, BroadcastType DEF TellBefore, Request
  <2> QED
    BY <1>1, <2>1, <2>2 DEF TypeOK, TellBefore
<1>6. ReqOK(req[p])'
  BY <1>1, <1>2, <1>3 DEF ReqOK, TellBefore
<1>7. ASSUME NEW b \in Tabs
      PROVE  Steady(b) /\ HeardOK(p, b)' /\ StaleOK(b)'
  <2>1. tab' = tab /\ Broadcast(req[p], Rooms(Before, req[p]))
    BY DEF TellBefore
  <2>2. Steady(b)
    BY <1>1, <2>1, BroadcastSteady
  <2>3. HeardOK(p, b)'
    <3> SUFFICES ASSUME b \in req'[p].heard, Concerns(req'[p], tab'[b])
                 PROVE  Safe(b)'
      BY DEF HeardOK
    <3>1. Listening(tab[b]) /\ tab[b] \in Tab
      BY <1>1, <1>3
    <3>2. Concerns(req[p], tab[b])
      BY <1>3, <2>1 DEF Concerns, Changes, TaskOf
    <3>3. "task" \in Before[req[p].op]
      BY <1>2, BeforeTellsTask
    <3>4. \E room \in Rooms(Before, req[p]) \cap tab[b].rooms :
            Heeds(tab[b], Event(req[p], room))
      BY <1>2, <3>1, <3>2, <3>3, TaskRoomReaches
    <3> QED
      BY <2>1, <3>4, BroadcastTells
  <2>4. StaleOK(b)'
    BY <1>4, <2>1, <2>2, NoExcuse DEF TellBefore
  <2> QED
    BY <2>2, <2>3, <2>4
<1> QED
  BY <1>4, <1>5, <1>6, <1>7, RequestStep

LEMMA CommitStep ==
  ASSUME LiveInv, Ops \subseteq Announcing, NEW p \in Procs, Commit(p)
  PROVE  LiveInv'
<1> DEFINE seen(b) == tab[b].phase = "shown" /\ Changes(req[p], tab[b].page)
           m(b) == \/ tab[b].missed
                   \/ req[p].actor = tab[b].user
                   \/ req[p].task # TaskOf(req[p])
                   \/ req[p].op \in DOMAIN Before /\ b \notin req[p].heard
<1>1. /\ req \in [Procs -> Request] /\ tab \in [Tabs -> Tab] /\ TypeOK
      /\ ReqOK(req[p]) /\ req[p].pc = "commit" /\ UNCHANGED <<inbox, calls>>
  BY DEF LiveInv, TypeOK, Commit
<1>2. req[p].op \in Announcing
  BY <1>1 DEF ReqOK
<1>3. \A b \in Tabs : m(b) \in BOOLEAN
  BY <1>1 DEF Tab
<1>4. ASSUME NEW b \in Tabs, seen(b)
      PROVE  tab'[b] = [tab[b] EXCEPT !.stale = TRUE, !.missed = m(b)]
  BY <1>4 DEF Commit
<1>5. ASSUME NEW b \in Tabs, ~seen(b)
      PROVE  tab'[b] = tab[b]
  BY <1>5 DEF Commit
<1> HIDE DEF m
<1>6. ASSUME NEW b \in Tabs, seen(b)
      PROVE  /\ tab'[b].user = tab[b].user /\ tab'[b].page = tab[b].page
             /\ tab'[b].phase = tab[b].phase /\ tab'[b].stale
             /\ tab'[b].timer = tab[b].timer /\ tab'[b].missed = m(b)
             /\ tab'[b] \in Tab
  BY <1>1, <1>3, <1>4, <1>6 DEF Tab
<1>7. \A q \in Procs \ {p} : req'[q] = req[q]
  BY <1>1 DEF Commit
<1>8. /\ req'[p] \in Request /\ req'[p].pc # "commit" /\ ReqOK(req[p])'
      /\ req[p].op \in DOMAIN After =>
           /\ req'[p].op = req[p].op /\ req'[p].actor = req[p].actor
           /\ req'[p].task = req[p].task /\ req'[p].sub = req[p].sub
           /\ req'[p].pc = "tell_after"
  <2>1. CASE req[p].op \in DOMAIN After
    <3>1. req'[p] = [req[p] EXCEPT !.pc = "tell_after"]
      BY <1>1, <2>1 DEF Commit
    <3>2. /\ req'[p].op = req[p].op /\ req'[p].actor = req[p].actor
          /\ req'[p].task = req[p].task /\ req'[p].sub = req[p].sub
          /\ req'[p].pc = "tell_after" /\ req'[p] \in Request
      BY <1>1, <3>1 DEF Request
    <3> QED
      BY <1>1, <2>1, <3>2 DEF ReqOK
  <2>2. CASE req[p].op \notin DOMAIN After
    <3>1. req'[p] = NoRequest
      BY <1>1, <2>2 DEF Commit
    <3> QED
      BY <2>2, <3>1, NoRequestType DEF NoRequest, ReqOK
  <2> QED
    BY <2>1, <2>2
<1>9. TypeOK'
  <2>1. tab' \in [Tabs -> Tab]
    <3>1. \A b \in Tabs : tab'[b] \in Tab
      BY <1>1, <1>5, <1>6
    <3> QED
      BY <3>1 DEF Commit
  <2>2. req' \in [Procs -> Request]
    BY <1>1, <1>8 DEF Commit
  <2> QED
    BY <1>1, <2>1, <2>2 DEF TypeOK
<1>10. ASSUME NEW b \in Tabs
       PROVE  Steady(b) /\ HeardOK(p, b)' /\ StaleOK(b)'
  <2>1. Steady(b)
    <3>1. CASE seen(b)
      <4>1. tab[b].missed => m(b)
        BY DEF m
      <4>2. inbox'[b] = inbox[b] /\ \A e : Heeds(tab'[b], e) <=> Heeds(tab[b], e)
        BY <1>1, <1>6, <3>1 DEF Heeds
      <4> QED
        BY <1>6, <3>1, <4>1, <4>2 DEF Steady, Safe, Told
    <3>2. CASE ~seen(b)
      BY <1>1, <1>5, <3>2 DEF Steady, Safe, Told, Heeds
    <3> QED
      BY <3>1, <3>2
  <2>2. HeardOK(p, b)'
    BY <1>8 DEF HeardOK
  <2>3. StaleOK(b)'
    <3>1. CASE ~seen(b)
      BY <1>1, <1>5, <1>7, <2>1, <3>1, NoExcuse
    <3>2. CASE seen(b) /\ m(b)
      BY <1>6, <3>2 DEF StaleOK, Safe
    <3>3. CASE seen(b) /\ ~m(b)
      <4>1. Concerns(req[p], tab[b])
        BY <3>3 DEF Concerns, Changes, m
      <4>2. CASE req[p].op \in DOMAIN Before
        <5>1. b \in req[p].heard
          BY <3>3, <4>2 DEF m
        <5>2. Safe(b)
          BY <1>1, <4>1, <4>2, <5>1 DEF LiveInv, HeardOK
        <5> QED
          BY <1>6, <2>1, <3>3, <5>2 DEF StaleOK, Steady
      <4>3. CASE req[p].op \notin DOMAIN Before
        <5>1. req[p].op \in DOMAIN After
          BY <1>2, <4>3, CommitAnnounces
        <5>2. Concerns(req'[p], tab'[b])
          BY <1>6, <1>8, <3>3, <4>1, <5>1 DEF Concerns, Changes, TaskOf
        <5> QED
          BY <1>6, <1>8, <3>3, <4>3, <5>1, <5>2 DEF StaleOK
      <4> QED
        BY <4>2, <4>3
    <3> QED
      BY <3>1, <3>2, <3>3
  <2> QED
    BY <2>1, <2>2, <2>3
<1> QED
  BY <1>7, <1>8, <1>9, <1>10, RequestStep

(* Only the missed flag of the pages changes, and it is never taken back.  *)
MissedOnly(b) ==
  /\ tab'[b] \in Tab
  /\ tab'[b].user = tab[b].user /\ tab'[b].page = tab[b].page
  /\ tab'[b].phase = tab[b].phase /\ tab'[b].stale = tab[b].stale
  /\ tab'[b].timer = tab[b].timer
  /\ tab[b].missed => tab'[b].missed

LEMMA TellAfterStep ==
  ASSUME LiveInv, Ops \subseteq Announcing, NEW p \in Procs, TellAfter(p)
  PROVE  LiveInv'
<1> DEFINE m(b) == \/ tab[b].missed
                   \/ Missed(b, {req[p]}) /\ ~Listening(tab[b])
<1>1. /\ req \in [Procs -> Request] /\ tab \in [Tabs -> Tab] /\ TypeOK
      /\ ReqOK(req[p]) /\ req[p].pc = "tell_after" /\ calls' = calls
      /\ Broadcast(req[p], Rooms(After, req[p]))
  BY DEF LiveInv, TypeOK, TellAfter
<1>2. /\ req[p].op \in Announcing /\ req[p].op \in DOMAIN After
      /\ req[p].actor \in Users /\ req[p].task \in Tasks
  BY <1>1 DEF ReqOK
<1>3. \A b \in Tabs : m(b) \in BOOLEAN
  BY <1>1 DEF Tab
<1>4. \A b \in Tabs : tab'[b] = [tab[b] EXCEPT !.missed = m(b)]
  BY DEF TellAfter
<1> HIDE DEF m
<1>5. ASSUME NEW b \in Tabs
      PROVE  MissedOnly(b) /\ tab'[b].missed = m(b)
  <2>1. tab[b].missed => m(b)
    BY DEF m
  <2> QED
    BY <1>1, <1>3, <1>4, <2>1 DEF MissedOnly, Tab
<1>6. /\ \A q \in Procs \ {p} : req'[q] = req[q]
      /\ req'[p] \in Request /\ req'[p].pc = "idle" /\ ReqOK(req[p])'
  <2>1. \A q \in Procs \ {p} : req'[q] = req[q]
    BY <1>1 DEF TellAfter
  <2>2. req'[p] = NoRequest
    BY <1>1 DEF TellAfter
  <2> QED
    BY <2>1, <2>2, NoRequestType DEF NoRequest, ReqOK
<1>7. TypeOK'
  <2>1. tab' \in [Tabs -> Tab]
    <3>1. \A b \in Tabs : tab'[b] \in Tab
      BY <1>5 DEF MissedOnly
    <3> QED
      BY <3>1 DEF TellAfter
  <2>2. req' \in [Procs -> Request]
    BY <1>1, <1>6 DEF TellAfter
  <2>3. inbox' \in [Tabs -> SUBSET Payload]
    BY <1>1, <1>2, BroadcastType DEF Request
  <2> QED
    BY <1>1, <2>1, <2>2, <2>3 DEF TypeOK
<1>8. ASSUME NEW b \in Tabs
      PROVE  Steady(b) /\ HeardOK(p, b)' /\ StaleOK(b)'
  <2>1. Steady(b)
    BY <1>1, <1>5, BroadcastSteady DEF MissedOnly
  <2>2. HeardOK(p, b)'
    BY <1>6 DEF HeardOK
  <2>3. \A q \in Procs : Concerns(req[q], tab'[b]) <=> Concerns(req[q], tab[b])
    BY <2>1, ConcernsSteady
  <2>4. ASSUME tab[b].stale, req[p].op \notin DOMAIN Before,
               Concerns(req[p], tab[b])
        PROVE  StaleOK(b)'
    <3>1. CASE ~Listening(tab[b])
      <4>1. m(b)
        BY <2>4, <3>1 DEF m, Missed
      <4>2. tab[b].phase = "shown"
        BY <2>4 DEF LiveInv, StaleOK
      <4> QED
        BY <1>5, <4>1, <4>2 DEF StaleOK, Safe, MissedOnly
    <3>2. CASE Listening(tab[b])
      <4>1. tab[b] \in Tab
        BY <1>1
      <4>2. \E room \in Rooms(After, req[p]) \cap tab[b].rooms :
              Heeds(tab[b], Event(req[p], room))
        BY <1>2, <2>4, <3>2, <4>1, AfterTells, TaskRoomReaches, SubRoomReaches
      <4>3. Safe(b)'
        BY <1>1, <1>5, <4>2, BroadcastTells DEF MissedOnly
      <4>4. tab[b].phase = "shown"
        BY <2>4 DEF LiveInv, StaleOK
      <4> QED
        BY <1>5, <4>3, <4>4 DEF StaleOK, MissedOnly
    <3> QED
      BY <3>1, <3>2
  <2>5. ASSUME ~(/\ tab[b].stale /\ req[p].op \notin DOMAIN Before
                 /\ Concerns(req[p], tab[b]))
        PROVE  StaleOK(b)'
    <3>1. StaleOK(b) /\ tab'[b].stale = tab[b].stale
      BY <1>5 DEF LiveInv, MissedOnly
    <3> QED
      BY <1>6, <2>1, <2>3, <2>5, <3>1 DEF StaleOK, Steady
  <2> QED
    BY <2>1, <2>2, <2>4, <2>5
<1> QED
  BY <1>6, <1>7, <1>8, RequestStep

LEMMA AbortStep ==
  ASSUME LiveInv, NEW p \in Procs, Abort(p)
  PROVE  LiveInv'
<1> DEFINE m(b) == \/ tab[b].missed
                   \/ req[p].pc = "tell_after" /\ Missed(b, {req[p]})
<1>1. /\ req \in [Procs -> Request] /\ tab \in [Tabs -> Tab] /\ TypeOK
      /\ UNCHANGED <<inbox, calls>>
  BY DEF LiveInv, TypeOK, Abort
<1>2. \A b \in Tabs : m(b) \in BOOLEAN
  BY <1>1 DEF Tab
<1>3. \A b \in Tabs : tab'[b] = [tab[b] EXCEPT !.missed = m(b)]
  BY DEF Abort
<1> HIDE DEF m
<1>4. ASSUME NEW b \in Tabs
      PROVE  MissedOnly(b) /\ tab'[b].missed = m(b)
  <2>1. tab[b].missed => m(b)
    BY DEF m
  <2> QED
    BY <1>1, <1>2, <1>3, <2>1 DEF MissedOnly, Tab
<1>5. /\ \A q \in Procs \ {p} : req'[q] = req[q]
      /\ req'[p] \in Request /\ req'[p].pc = "idle" /\ ReqOK(req[p])'
  <2>1. \A q \in Procs \ {p} : req'[q] = req[q]
    BY <1>1 DEF Abort
  <2>2. req'[p] = NoRequest
    BY <1>1 DEF Abort
  <2> QED
    BY <2>1, <2>2, NoRequestType DEF NoRequest, ReqOK
<1>6. TypeOK'
  <2>1. tab' \in [Tabs -> Tab]
    <3>1. \A b \in Tabs : tab'[b] \in Tab
      BY <1>4 DEF MissedOnly
    <3> QED
      BY <3>1 DEF Abort
  <2>2. req' \in [Procs -> Request]
    BY <1>1, <1>5 DEF Abort
  <2> QED
    BY <1>1, <2>1, <2>2 DEF TypeOK
<1>7. ASSUME NEW b \in Tabs
      PROVE  Steady(b) /\ HeardOK(p, b)' /\ StaleOK(b)'
  <2>1. Steady(b)
    BY <1>1, <1>4 DEF Steady, Safe, Told, Heeds, MissedOnly
  <2>2. HeardOK(p, b)'
    BY <1>5 DEF HeardOK
  <2>3. \A q \in Procs : Concerns(req[q], tab'[b]) <=> Concerns(req[q], tab[b])
    BY <2>1, ConcernsSteady
  <2>4. StaleOK(b) /\ tab'[b].stale = tab[b].stale
    BY <1>4 DEF LiveInv, MissedOnly
  <2>5. ASSUME tab[b].stale, req[p].pc = "tell_after",
               Concerns(req[p], tab[b])
        PROVE  StaleOK(b)'
    <3>1. m(b)
      BY <2>5 DEF m, Missed
    <3> QED
      BY <1>4, <2>1, <2>4, <2>5, <3>1 DEF StaleOK, Safe, Steady
  <2>6. ASSUME ~(/\ tab[b].stale /\ req[p].pc = "tell_after"
                 /\ Concerns(req[p], tab[b]))
        PROVE  StaleOK(b)'
    BY <1>5, <2>1, <2>3, <2>4, <2>6 DEF StaleOK, Steady
  <2> QED
    BY <2>1, <2>2, <2>5, <2>6
<1> QED
  BY <1>5, <1>6, <1>7, RequestStep

LEMMA RestartStep ==
  ASSUME LiveInv, Restart
  PROVE  LiveInv'
<1> DEFINE untold == {req[p] : p \in {q \in Procs : req[q].pc = "tell_after"}}
           m(b) == \/ tab[b].missed
                   \/ Missed(b, untold)
                   \/ \E e \in inbox[b] : Heeds(tab[b], e)
<1>1. /\ req \in [Procs -> Request] /\ tab \in [Tabs -> Tab] /\ TypeOK
  BY DEF LiveInv, TypeOK
<1>2. \A b \in Tabs : m(b) \in BOOLEAN
  BY <1>1 DEF Tab
<1>3. \A b \in Tabs : tab'[b] = [tab[b] EXCEPT !.rooms = {}, !.missed = m(b)]
  BY DEF Restart
<1> HIDE DEF m
<1>4. ASSUME NEW b \in Tabs
      PROVE  MissedOnly(b) /\ tab'[b].missed = m(b)
  <2>1. tab[b].missed => m(b)
    BY DEF m
  <2> QED
    BY <1>1, <1>2, <1>3, <2>1 DEF MissedOnly, Tab
<1>5. \A p \in Procs : req'[p] = NoRequest /\ req'[p].pc = "idle"
  BY DEF Restart, NoRequest
<1>6. TypeOK'
  <2>1. tab' \in [Tabs -> Tab]
    <3>1. \A b \in Tabs : tab'[b] \in Tab
      BY <1>4 DEF MissedOnly
    <3> QED
      BY <3>1 DEF Restart
  <2>2. req' \in [Procs -> Request]
    BY NoRequestType DEF Restart
  <2>3. inbox' \in [Tabs -> SUBSET Payload]
    BY DEF Restart
  <2> QED
    BY <1>1, <2>1, <2>2, <2>3 DEF TypeOK, Restart
<1>7. ASSUME NEW b \in Tabs
      PROVE  StaleOK(b)'
  <2> SUFFICES ASSUME tab[b].stale
               PROVE  tab'[b].phase = "shown" /\ Safe(b)'
    BY <1>4 DEF StaleOK, MissedOnly
  <2>1. StaleOK(b) /\ tab[b].phase = "shown"
    BY DEF LiveInv, StaleOK
  <2>2. CASE Safe(b)
    BY <1>4, <2>1, <2>2 DEF MissedOnly, Safe, Told, m
  <2>3. CASE \E p \in Procs :
               req[p].pc = "tell_after" /\ Concerns(req[p], tab[b])
    <3>1. Missed(b, untold)
      BY <2>3 DEF Missed
    <3> QED
      BY <1>4, <2>1, <3>1 DEF MissedOnly, Safe, m
  <2> QED
    BY <2>1, <2>2, <2>3 DEF StaleOK
<1>8. /\ \A p \in Procs : ReqOK(req[p])'
      /\ \A p \in Procs, b \in Tabs : HeardOK(p, b)'
  BY <1>5 DEF ReqOK, HeardOK
<1> QED
  BY <1>6, <1>7, <1>8 DEF LiveInv

-----------------------------------------------------------------------------

LEMMA LiveStep ==
  ASSUME Ops \subseteq Announcing, LiveInv, [Next]_vars
  PROVE  LiveInv'
<1>1. CASE UNCHANGED vars
  <2>1. \A b \in Tabs : Kept(b)
    BY <1>1, OtherKept DEF vars
  <2>2. TypeOK'
    BY <1>1 DEF vars, LiveInv, TypeOK
  <2> QED
    BY <1>1, <2>1, <2>2, PagesStep DEF vars
<1>2. ASSUME NEW b \in Tabs, Browse(b)
      PROVE  LiveInv'
  <2>1. CASE Open(b)
    BY <2>1, LeaveStep DEF Open
  <2>2. CASE Fire(b)
    <3>1. tab[b].user \in Users /\ tab[b].page \in Page
      BY DEF LiveInv, TypeOK, Tab
    <3> QED
      BY <2>2, <3>1, LeaveStep DEF Fire
  <2> QED
    BY <1>2, <2>1, <2>2, RenderStep, JoinStep, DeliverStep, DisconnectStep
    DEF Browse
<1>3. ASSUME NEW p \in Procs, Serve(p)
      PROVE  LiveInv'
  BY <1>3, ReceiveStep, TellBeforeStep, CommitStep, TellAfterStep, AbortStep
  DEF Serve
<1> QED
  BY <1>1, <1>2, <1>3, RestartStep DEF Next

(* The inductive invariant: of the handlers that announce what they change *)
(* to the rooms of what they change, every request that has told before    *)
(* its commit has told all who listened, and every stale page is safe or   *)
(* waits for an announcement that comes after the commit.                  *)
THEOREM LiveInvariant ==
  ASSUME Ops \subseteq Announcing
  PROVE  Spec => []LiveInv
<1>1. Init => LiveInv
  BY LiveInit
<1>2. LiveInv /\ [Next]_vars => LiveInv'
  BY LiveStep
<1> QED
  BY <1>1, <1>2, PTL DEF Spec

(* The pages, sockets and requests keep their types.                       *)
THEOREM LiveTypes ==
  ASSUME Ops \subseteq Announcing
  PROVE  Spec => []TypeOK
<1>1. LiveInv => TypeOK
  BY DEF LiveInv
<1> QED
  BY <1>1, LiveInvariant, PTL

(* A page that shows what somebody else has since changed is about to      *)
(* learn of it, for any pages, viewers, requests, disconnections and       *)
(* restarts: no plan of TasksHelperService's callers leaves out a page     *)
(* that shows what it changes, but those of the four handlers that are not *)
(* in Announcing.                                                          *)
THEOREM StalePagesAreTold ==
  ASSUME Ops \subseteq Announcing
  PROVE  Spec => []StaleIsTold
<1>1. LiveInv => StaleIsTold
  BY DEF LiveInv, StaleOK, StaleIsTold, Safe
<1> QED
  BY <1>1, LiveInvariant, PTL

=============================================================================
