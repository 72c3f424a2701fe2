---------------------------- MODULE LiveUpdates ----------------------------
(***************************************************************************)
(* TasksGateWay, TasksHelperService and public/js/task-socket.js: a        *)
(* request changes a task or a sub-task, tells a room of it, and the pages *)
(* in the room that are not the actor's own reload after a moment.         *)
(*                                                                         *)
(* Of a request only its transaction and its announcements are left: which *)
(* rooms are told before the commit, and which after it.  Of a page, only  *)
(* whether it still shows what is committed.                               *)
(***************************************************************************)
EXTENDS Naturals

CONSTANTS
  Users,
  Tabs,     \* the pages that are open in browsers
  Procs,    \* requests in progress at once
  Tasks,    \* Task.id
  SubTasks, \* SubTask.id, a sequence of its own: both begin at 1
  Parent,   \* SubTask.taskId
  Ops,      \* the operations that are asked for
  MaxCalls  \* bound: requests received in one behaviour

\* The handlers that change a row which a page shows.
SubOps ==
  { "createSub", "updateSub", "assignSub", "decideSub", "claimSub",
    "reportSub", "closeSub", "restoreSub" }

TaskOps ==
  {"update", "claim", "report", "assign", "decide", "close", "archive",
   "restore"}

ASSUME LiveAssumption ==
  /\ 0 \notin Users
  /\ Tasks \subseteq Nat \ {0} /\ SubTasks \subseteq Nat \ {0}
  /\ Parent \in [SubTasks -> Tasks]
  /\ Ops \subseteq SubOps \cup TaskOps
  /\ MaxCalls \in Nat

VARIABLES
  tab,   \* what each browser shows, and the socket of that page
  inbox, \* what has been sent to that socket and not yet handled
  req,   \* the requests in progress
  calls  \* requests received so far

vars == <<tab, inbox, req, calls>>

\* A page, and also a room: of a task if sub is 0, else of a sub-task.
Page ==
  {[task |-> t, sub |-> 0] : t \in Tasks} \cup
  {[task |-> Parent[s], sub |-> s] : s \in SubTasks}

TaskRoom(t) == [task |-> t, sub |-> 0]

\* task-socket.js joins the room of the task, sub-task-details.pug its own too.
Joins(page) == {TaskRoom(page.task), page}

-----------------------------------------------------------------------------
(* What the handlers change, and whom they tell.                           *)

\* The task whose pages a request is about.  That of a sub-task is in its row;
\* r.task is the one in the URL, and nobody compares the two.
TaskOf(r) == IF r.sub = 0 THEN r.task ELSE Parent[r.sub]

\* The page of a task lists its sub-tasks, with their assignees but without the
\* status of these; the page of a sub-task shows nothing of its task.
Changes(r, page) ==
  /\ page.task = TaskOf(r)
  /\ \/ r.op \in {"close", "archive", "restore"}
     \/ page.sub = 0 /\ r.op # "reportSub"
     \/ page.sub # 0 /\ page.sub = r.sub

\* Told within the callback of $transaction; "id" is the room of a task with
\* the id that updateGenericStatus was given, the sub-task's.
Before ==
  [ report   |-> {"task"}, archive |-> {"task"}, restore |-> {"task"},
    decide   |-> {"task"},
    claimSub |-> {"task", "sub"}, decideSub |-> {"id"} ]

\* Mutant of After: closeSubTask tells the pages of the sub-task alone.
AfterSubOnly ==
  [ update    |-> {"task"}, assign |-> {"task"}, close |-> {"task"},
    createSub |-> {"task"}, assignSub |-> {"id"},
    closeSub  |-> {"sub"}, restoreSub |-> {"task", "sub"},
    claimSub  |-> {"sub"}, reportSub |-> {"sub"} ]

\* Told when the write is committed; "id" is again the room of a task with the
\* id of the sub-task that execute was given.
After ==
  [ update    |-> {"task"}, assign |-> {"task"}, close |-> {"task"},
    createSub |-> {"task"}, assignSub |-> {"id"},
    closeSub  |-> {"task", "sub"}, restoreSub |-> {"task", "sub"},
    claimSub  |-> {"sub"}, reportSub |-> {"sub"} ]

RoomOf(kind, r) ==
  [ task |-> IF kind = "id" THEN r.sub ELSE r.task,
    sub  |-> IF kind = "sub" THEN r.sub ELSE 0 ]

Rooms(plan, r) == {RoomOf(kind, r) : kind \in plan[r.op]}

\* The payload: sub is 0 in taskUpdated.  about is history: what was changed.
Event(r, room) == [actor |-> r.actor, sub |-> room.sub, about |-> TaskOf(r)]

\* The two listeners of the page t.
Heeds(t, e) == e.actor # t.user /\ e.sub \in {0, t.page.sub}

\* What a socket has been sent is a set: whatever the order, and however often,
\* all that comes of it is a timer.
Broadcast(r, rooms) ==
  inbox' = [b \in Tabs |->
              inbox[b] \cup {Event(r, room) : room \in rooms \cap tab[b].rooms}]

-----------------------------------------------------------------------------
(* The pages.                                                              *)

\* stale and missed are history: whether something it shows has been committed
\* since it was read, and whether news for it have gone past its socket.
Loading(u, page) ==
  [ user |-> u, page |-> page, phase |-> "loading", stale |-> FALSE,
    rooms |-> {}, timer |-> FALSE, missed |-> FALSE ]

Listening(t) == t.phase = "shown" /\ t.rooms = Joins(t.page)

Told(b) == tab[b].timer \/ \E e \in inbox[b] : Heeds(tab[b], e)

NoRequest ==
  [op |-> "none", pc |-> "idle", actor |-> 0, task |-> 0, sub |-> 0, heard |-> {}]

\* The page changed under its viewer by somebody else, who named its task.
Concerns(r, t) ==
  /\ t.phase = "shown" /\ r.actor # t.user
  /\ Changes(r, t.page) /\ r.task = t.page.task

\* The socket goes with the page.
Leave(b, u, page) ==
  /\ tab' = [tab EXCEPT ![b] = Loading(u, page)]
  /\ inbox' = [inbox EXCEPT ![b] = {}]

Open(b) ==
  /\ tab[b].phase = "shown"
  /\ \E u \in Users, page \in Page : Leave(b, u, page)
  /\ UNCHANGED <<req, calls>>

\* The handler of the page reads what is committed; nothing it was told before
\* counts any more.
Render(b) ==
  /\ tab[b].phase = "loading"
  /\ tab' = [tab EXCEPT ![b].phase = "shown"]
  /\ req' = [p \in Procs |-> [req[p] EXCEPT !.heard = @ \ {b}]]
  /\ UNCHANGED <<inbox, calls>>

\* The socket connects, or connects again, and asks for one room, then for the
\* other.
Join(b) ==
  /\ tab[b].phase = "shown"
  /\ \/ /\ tab[b].rooms = {}
        /\ tab' = [tab EXCEPT ![b].rooms = {TaskRoom(tab[b].page.task)}]
     \/ /\ tab[b].rooms # {} /\ tab[b].rooms # Joins(tab[b].page)
        /\ tab' = [tab EXCEPT ![b].rooms = Joins(tab[b].page)]
  /\ UNCHANGED <<inbox, req, calls>>

Deliver(b) ==
  \E e \in inbox[b] :
    /\ inbox' = [inbox EXCEPT ![b] = @ \ {e}]
    /\ tab' = [tab EXCEPT ![b].timer = @ \/ Heeds(tab[b], e)]
    /\ UNCHANGED <<req, calls>>

\* Mutant of Fire: the timer is cleared when the socket disconnects.
FireConnected(b) ==
  /\ tab[b].timer /\ tab[b].rooms # {}
  /\ Leave(b, tab[b].user, tab[b].page)
  /\ UNCHANGED <<req, calls>>

\* Two seconds later, or two and a half: window.location.reload().
Fire(b) ==
  /\ tab[b].timer
  /\ Leave(b, tab[b].user, tab[b].page)
  /\ UNCHANGED <<req, calls>>

\* What is on its way is lost, and rejoining does not ask for it.
Disconnect(b) ==
  /\ tab[b].rooms # {}
  /\ tab' = [tab EXCEPT ![b].rooms = {},
                        ![b].missed = @ \/ \E e \in inbox[b] : Heeds(tab[b], e)]
  /\ inbox' = [inbox EXCEPT ![b] = {}]
  /\ UNCHANGED <<req, calls>>

-----------------------------------------------------------------------------
(* The requests.                                                           *)

Receive(p) ==
  /\ req[p] = NoRequest /\ calls < MaxCalls
  /\ \E op \in Ops, u \in Users, t \in Tasks, s \in {0} \cup SubTasks :
       /\ s # 0 <=> op \in SubOps \ {"createSub"}
       /\ req' = [req EXCEPT ![p] =
            [ op |-> op, actor |-> u, task |-> t, sub |-> s,
              pc |-> IF op \in DOMAIN Before THEN "tell" ELSE "commit",
              heard |-> {} ]]
  /\ calls' = calls + 1
  /\ UNCHANGED <<tab, inbox>>

\* Announced from within the transaction.
TellBefore(p) ==
  /\ req[p].pc = "tell"
  /\ Broadcast(req[p], Rooms(Before, req[p]))
  /\ req' = [req EXCEPT ![p].pc = "commit",
                        ![p].heard = {b \in Tabs : Listening(tab[b])}]
  /\ UNCHANGED <<tab, calls>>

\* The actor's own pages are told of nothing, nor is one that was told before
\* the commit and has been read again since, nor any when the URL names a task
\* that is not the sub-task's.
Commit(p) ==
  LET r == req[p] IN
  /\ r.pc = "commit"
  /\ tab' = [b \in Tabs |->
       IF tab[b].phase = "shown" /\ Changes(r, tab[b].page)
       THEN [tab[b] EXCEPT
               !.stale = TRUE,
               !.missed = \/ @
                          \/ r.actor = tab[b].user
                          \/ r.task # TaskOf(r)
                          \/ r.op \in DOMAIN Before /\ b \notin r.heard]
       ELSE tab[b]]
  /\ req' = [req EXCEPT ![p] = IF r.op \in DOMAIN After
                               THEN [r EXCEPT !.pc = "tell_after"]
                               ELSE NoRequest]
  /\ UNCHANGED <<inbox, calls>>

\* Who is to be told, and is not listening.
Missed(b, rs) ==
  tab[b].stale /\ \E r \in rs : Concerns(r, tab[b])

TellAfter(p) ==
  LET r == req[p] IN
  /\ r.pc = "tell_after"
  /\ Broadcast(r, Rooms(After, r))
  /\ tab' = [b \in Tabs |->
       [tab[b] EXCEPT !.missed = @ \/ (Missed(b, {r}) /\ ~Listening(tab[b]))]]
  /\ req' = [req EXCEPT ![p] = NoRequest]
  /\ UNCHANGED calls

\* The transaction rolls back; or a statement between the upsert of execute and
\* its announcement throws, those of the mail.
Abort(p) ==
  LET r == req[p] IN
  /\ \/ r.pc \in {"tell", "commit"}
     \/ r.pc = "tell_after" /\ r.op \in {"assign", "assignSub"}
  /\ tab' = [b \in Tabs |->
       [tab[b] EXCEPT !.missed = @ \/ (r.pc = "tell_after" /\ Missed(b, {r}))]]
  /\ req' = [req EXCEPT ![p] = NoRequest]
  /\ UNCHANGED <<inbox, calls>>

\* The server stops and starts: transactions roll back, sockets break.
Restart ==
  LET untold == {req[p] : p \in {q \in Procs : req[q].pc = "tell_after"}} IN
  /\ req' = [p \in Procs |-> NoRequest]
  /\ tab' = [b \in Tabs |->
       [tab[b] EXCEPT !.rooms = {},
                      !.missed = \/ @
                                 \/ Missed(b, untold)
                                 \/ \E e \in inbox[b] : Heeds(tab[b], e)]]
  /\ inbox' = [b \in Tabs |-> {}]
  /\ UNCHANGED calls

-----------------------------------------------------------------------------

Init ==
  /\ tab \in [Tabs -> {Loading(u, page) : u \in Users, page \in Page}]
  /\ inbox = [b \in Tabs |-> {}]
  /\ req = [p \in Procs |-> NoRequest]
  /\ calls = 0

Browse(b) ==
  Open(b) \/ Render(b) \/ Join(b) \/ Deliver(b) \/ Fire(b) \/ Disconnect(b)

Serve(p) ==
  Receive(p) \/ TellBefore(p) \/ Commit(p) \/ TellAfter(p) \/ Abort(p)

Next ==
  \/ \E b \in Tabs : Browse(b)
  \/ \E p \in Procs : Serve(p)
  \/ Restart

Spec == Init /\ [][Next]_vars

\* A page that is asked for comes, an event that was sent is handled while the
\* socket lasts, a timer fires, and a handler that has committed goes on: its
\* announcement waits for nothing.  Nobody has to open a page, to join, or to
\* finish a transaction.
Fairness ==
  /\ \A b \in Tabs : WF_vars(Render(b)) /\ WF_vars(Deliver(b)) /\ WF_vars(Fire(b))
  /\ \A p \in Procs : WF_vars(TellAfter(p))

FairSpec == Spec /\ Fairness

-----------------------------------------------------------------------------

Tab ==
  [ user : Users, page : Page, phase : {"loading", "shown"}, stale : BOOLEAN,
    rooms : SUBSET Page, timer : BOOLEAN, missed : BOOLEAN ]

Payload == [actor : Users, sub : {0} \cup SubTasks, about : Tasks]

Request ==
  [ op : Ops \cup {"none"}, pc : {"idle", "tell", "commit", "tell_after"},
    actor : Users \cup {0}, task : Tasks \cup {0}, sub : SubTasks \cup {0},
    heard : SUBSET Tabs ]

TypeOK ==
  /\ tab \in [Tabs -> Tab]
  /\ inbox \in [Tabs -> SUBSET Payload]
  /\ req \in [Procs -> Request]
  /\ calls \in 0 .. MaxCalls

\* A page that shows what somebody else has since changed is about to learn of
\* it: its reload is set, or an event it heeds is on its way, or the request
\* has yet to announce its commit.  Unless it was not listening when the news
\* went out, or was read again between news and commit, or the URL sent them to
\* the pages of another task: of the plans Before and After, no handler leaves
\* out a page that shows what it changes.
StaleIsTold ==
  \A b \in Tabs :
    tab[b].phase = "shown" /\ tab[b].stale =>
      \/ tab[b].missed
      \/ Told(b)
      \/ \E p \in Procs :
           req[p].pc = "tell_after" /\ Concerns(req[p], tab[b])

\* And such a page is read again: it shows what is committed, unless further
\* news go past it before it does.
StalePagesCatchUp ==
  \A b \in Tabs :
    tab[b].phase = "shown" /\ tab[b].stale /\ ~tab[b].missed ~>
      tab[b].phase = "shown" /\ (~tab[b].stale \/ tab[b].missed)

-----------------------------------------------------------------------------
(* What the banner says and the code does not do.                          *)

\* task-socket.js:60: "just updated this task. Reloading to get latest data...":
\* a page is only sent word of its own task.
BannerIsTrue ==
  \A b \in Tabs : \A e \in inbox[b] : e.about = tab[b].page.task

=============================================================================
