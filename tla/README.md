# Group Todos in TLA+

TLA+ modules, TLC configurations and TLAPS proofs about the server in `src/src`
(NestJS, Prisma, PostgreSQL). Five parts of the server are modelled: its core,
the tasks, assignees and sub-tasks changed by requests that the Node process
interleaves at every `await` and that share rows, transactions and each other's
results; the groups, with their members, roles and invitations; the accounts,
with their passwords and the link that resets a forgotten one; the live updates
that make open pages reload; and what people are shown, the lists by due date
and the notifications.

1. [The system](#1-the-system): components, state, operations, hard behaviours
2. [The modules](#2-the-modules) and how they correspond to the code
3. [The runs](#3-the-runs), bounds and fairness
4. [The proofs](#4-the-proofs)
5. [Where comments and code disagree](#5-where-comments-and-code-disagree)
6. [What is left out](#6-abstractions-and-limits)
7. [Plan](#7-plan)

## 1. The system

| component | state | operations | what must be right |
|---|---|---|---|
| **Task lifecycle** `tasks.service.ts`, `tasks.controller.ts` | `Task` rows: `status`, `closedAt/ById`, `closedReason`, `closedWithOpenAssignees` | create, update, close (plain or forced), archive, restore, an assignee's own report | an open task has no closing audit; a forced close has a reason and an admin; cascades leave nothing behind and undo no completed work |
| **Assignment and decision links** `task-assignment.service.ts`, `helper.service.ts`, `mail.service.ts` | `TaskAssignee`, `SubTaskAssignee` rows; mailed links | `execute` (an admin assigns), `executeDecision` (an answer by mail) | work is given to members only; a link always has a row to answer; transitions follow `ASSIGNMENT_RULES`, whatever the link says and however late it is followed |
| **Sub-tasks** `sub-tasks.service.ts`, `sub-tasks.controller.ts` | `SubTask`, `SubTaskAssignee` rows | create, update, close, restore, report, assign | assignees follow the sub-task's status; the recorded closer has completed it; others' completed work is kept |
| **Task guards** `task-member.guard.ts`, `sub-task-exists.guard.ts` | flags stored in the request | one read each, before the handler | what the flags authorise is still justified when they are used |
| **Status rules** `tasks.util.ts` | none | two state machines, `isAdminish`, date and list helpers | |
| **Groups** `groups.service.ts` | `Group`, `GroupMember` rows | create, invite, join, leave, kick, change role, disband | the founder stays owner; no owner is lost by leaving; nobody outranks their role through a race |
| **Invitation and reset tokens** `groups.service.ts`, `auth.service.ts` | `ActionToken` rows (hash, `consumedAt`, `expiresAt`) | issue or rotate, verify, consume | a token works once, and never after a newer one replaced it |
| **Accounts and sessions** `auth.service.ts`, `users.service.ts` | `User` rows, the session cookie | sign up, log in, reset the password, verify | one account per e-mail; the reset flow can be completed |
| **Live updates** `tasks.gateway.ts`, `helper.service.ts`, `public/js/task-socket.js` | socket rooms, pages' copies | join, broadcast, reload | a page that got every event shows what is committed |
| **Notifications** `tasks.service.ts`, `public/js/notifications.js` | none (a query) | the merged top twenty | nothing is left out for something less urgent |
| **Lists, dashboards, dates** `tasks.service.ts`, `util.ts` | none (queries) | buckets by the user's day, pages, order keys | every open task is in exactly one list, everywhere and at any hour |
| **Mail** `mail.service.ts` | none | fire-and-forget sends | |
| **Pages, DTOs, filters, errors, Prisma** | none of their own | | |

How they interact. A browser calls a controller; the guards read the database
and leave their flags in the request; the handler calls one service method; the
service reads, decides, and writes either with single autocommitted statements
or inside `prisma.$transaction`. There are no locks and no version columns:
READ COMMITTED row locks, unique keys and the `where` clauses of updates are all
that coordinates two requests. Services call each other for assignments
(`TaskAssignmentManager` serves tasks and sub-tasks), for broadcasts
(`TasksHelperService`, `TasksGateway`) and for mail.

What makes it hard:

- every `await` is a point where another request may run, so what a guard or a
  read established may be stale when the write it justified takes place;
- closing, archiving and restoring are three different cascades over the same
  three tables, in transactions that overlap, may wait for each other's rows,
  and may die half-way;
- several routes create or change the same assignee row (claim, report, assign,
  answer by mail, close, restore), each with its own checks;
- mailed links live as long as their token and may be followed late or twice.

`PROJECT.json` lists each of these hazards at its line, with the property that
would catch it going wrong. Ten have none, and a note saying why. Three of them
happen, against a comment or a test: an archive forgets which sub-tasks were
closed by hand, an admin can remove an admin, and one moment of tomorrow is in no
list (section 5). Six happen and break no promise anybody has made: what is
written under a closed or archived task, by a sub-task's route or by a claim; two
changes of a password that both succeed; two owners who change one member's role;
a page that is read between an announcement and its commit; an assignment whose
mail fails before the pages are told (section 3 says what they lead to). And rows
that disappear with a disbanded group are outside the task modules.

## 2. The modules

| module | models |
|---|---|
| `TaskRules` | the enumerations of the Prisma schema, `ASSIGNMENT_RULES`, `TASK_STATUS_MAP`, `isAdminish`, `isValidAssignmentTransition`, `taskStatusCanTransition` |
| `TaskStore` | the four tables, group roles, requests in flight, transactions with row locks, both guards, changes of membership |
| `TaskRequests` | `closeTask`, `archiveTask`, `restoreTask`, `updateAssigneeStatus` |
| `AssignmentRequests` | `TaskAssignmentManager.execute` and `executeDecision`, and the links of the assignment mail |
| `SubTaskRequests` | `createSubTask`, `closeSubTask`, `restoreSubTask`, `updateSubTaskAssigneeStatus` |
| `TaskSystem` | their composition: `Init`, `Next`, fairness, and all properties |
| `MCTaskSystem` | the small instances TLC checks |
| `TaskCascades` | what closing, archiving and restoring promise: one step each |
| `SubTaskCascades` | the same of creating, closing and restoring a sub-task |
| `TaskSystem_proofs` | the type invariant and the invariants of the closing audit, proved |
| `TaskMembers_proofs` | who is given work, and that mailed links have a row, proved |
| `TaskWork_proofs` | that completed work stays, that requests neither deadlock nor run in circles, and that the transactions of a sub-task implement `SubTaskCascades`, with what follows, proved |
| `TaskCascades_proofs` | that the transactions implement `TaskCascades`, and what follows, proved |
| `OneTimeToken` | what an invitation and a reset link promise: it is issued, used at most once each time it is issued, deleted |
| `Groups` | `inviteGroupMember`, `verifyInvitation`, `updateMemberRole`, `kickOutMember`, `leaveGroup`, `disbandGroupById`; implements `OneTimeToken` |
| `MCGroups` | its small instances |
| `Groups_proofs` | the founder, the owners and the refinement, proved |
| `Accounts` | `signup`, `signin`, `changePassword`, `resetPassword`, `verifyResetToken`, `confirmResetPassword`, and the cookies between them; implements `OneTimeToken` |
| `MCAccounts` | its small instances |
| `Accounts_proofs` | what a password changes for, and the refinement, proved |
| `LiveUpdates` | the rooms of `TasksGateWay`, the announcements of every handler of tasks and sub-tasks, `task-socket.js` |
| `MCLiveUpdates` | its small instances |
| `LiveUpdates_proofs` | that listening pages are told, proved |
| `TaskLists` | `createTask`, `createSubTask`, `updateTask`, `updateSubTask` as far as dates and priority go; the filters of `listTaskCore` and `getTasks`; `getPendingNotifications` |
| `MCTaskLists` | its small instances |
| `TaskLists_proofs` | one list each, due today before expired, the notifications, proved |

The modules of tasks, of groups and of accounts share one idea of a request.
`LiveUpdates` keeps of one only its transaction and whom it tells; `TaskLists`
has none, for its operations write one row in one statement.

**A request is a process.** `req[p]` is what the handler holds between two
awaits: operation, parameters, the guards' flags, what it has read, and a
program counter `pc` naming the next statement. A client's call is a `Post...`
or `GetDecision` action; each guard, read and write is an action of its own, in
the order of the code; `Finish` is the answer, a result or a thrown error alike
(a thrown error changes no table, which is what the properties see). A `p` that
is answered serves another call: two processes are two requests overlapping in
every possible way, not two clients.

**A transaction is a set of uncommitted rows.** `tx[p]` holds, per table, the
rows `p` has written in its `$transaction`. `Write` adds to it and is enabled
only if no other transaction has written one of those rows; `Commit` merges it
into the tables; a read of a transaction sees the committed tables with its own
writes laid over them (`TaskView` and its siblings). This is PostgreSQL's READ
COMMITTED, Prisma's default. A handler whose transaction writes a single row
writes and commits in one action. `Abort` may end a request at any point and
drops what it has not committed: the five-second limit of an interactive
transaction, a lost connection, a crash of the server, a mail that is not sent.

**Guards run in Nest's order**: the decorator nearest to the handler first, so
`SubTaskExistsGuard` before `TaskMemberGuard`. `assign-task` has no guard.
The first looks at the sub-task's `:id` and the second at the task's `:taskId`,
and nothing compares the two: a sub-task's request is posted with any task and any
sub-task, and `TargetTask` is the parent where the code reads it from the row
(`execute`, `updateGenericStatus`). The status in a decision link is any
`AssignmentStatus`, or a string that is none, for its query parameter is not
validated.

**Groups.** `token[u]` is the invitation row of the e-mail of `u`; a hash is the
number of the invitation that drew it, `0` standing for no row, and a link carries the
hash it was mailed with. `joins[u]` counts the uses of the present hash: it is
history, and the `uses` of `OneTimeToken`. `verifyInvitation` consumes the token
and adds the member in one transaction: between the two, `VerifyConsume` holds
the row, and whoever else wants it waits. The steps that refine are
`InviteUpsert` (Issue), `VerifyJoin` (Use) and `Disband` (Delete); every other
step leaves the tokens of `OneTimeToken` alone.

**Cascades.** `TaskCascades` has three actions, `Close`, `Archive` and
`Restore`; each changes a task, its assignees and its sub-tasks in one step. The
refinement is the identity on the three committed tables: the `Commit` of a
request's transaction is the step, everything else stutters. The detailed side
takes four to seven steps per operation, guards and counts included, any two of
them overlapping. `AssigneeCascades` and `StatusCascades` are the same module
seen through fewer tables, tasks with their assignees and tasks with their
sub-tasks: what is left of the promise beside requests that write the third.
`SubTaskCascades` is its counterpart for one sub-task, with `Create`, `Close` and
`Restore`; there the row that a close gives its actor, read, written and then
spared by three statements, is part of the one step.

**Accounts.** A process is a browser: its two cookies, `login` and `jwt`, and the
request it waits for. A hash is named by the password it verifies, a token by
the number of the request that drew it. As with invitations, `resets` counts the
uses of the present secret and is the `uses` of `OneTimeToken`; `had` is history
too, the passwords an account has had. `confirmResetPassword` consumes the row
and writes the hash in one transaction: the row is held from `ConfirmConsume` to
`ConfirmWrite`, which commits both. Its route lets nobody in (section 5), so
`CallConfirm` calls the service as `auth.service.spec.ts` does, with the ids
that `verifyResetToken` has signed; without it the code behind the guards could
not be checked at all. `ConfirmGuards` is the route as it is.

**Live updates.** A `tab` is a page and its socket: the rooms it is in, whether
its reload timer runs, and, as history, whether something it shows has been
committed since it was read (`stale`) and whether news for it have gone past it
(`missed`): it was not in its rooms, or its socket broke with the event on the
way, or it was read again between an announcement and its commit, or the URL of
the request named another task than the sub-task's, or the change is its viewer's
own. `Before` and `After` are read off the handlers: which rooms
each tells from inside its transaction, and which once its write is committed.
`inbox` is what a socket has been sent. A page's handler reads it in one moment
(`Render`).

**Lists.** Time is a number of ticks, several to a day, and a zone is the number
of ticks it is ahead of UTC. `calculateTaskDates` converts a date and a time in
the zone of whoever enters them, the filters compare the result with the day of
whoever looks. A filter is a predicate of a task and a zone; the notifications
are the set of lists the query may return, as rows of equal priority come in any
order.

**History.** `wasMember` and `wasAdmin` record who has ever been in the group
and who has ever been its owner or admin. A guard's flag may be stale by the
time a row is written, so "is an admin" is not true of the code and "has been
an admin" is the strongest claim a row can support.

**Correspondence.** `map` in `PROJECT.json` gives the lines behind each
definition. Names are the code's where TLA+ allows it. A definition introduced
by a comment "Mutant of X" is a plausible bug in `X`, used to confirm that the
property named beside it in `PROJECT.json` is able to fail.

## 3. The runs

Each run is an MC module with a configuration. In `MCTaskSystem` boss owns the
group, ann is a member and owns the group task `t1` (boss does where ann is left
out), bob is not a member at first and owns the personal task `t2` (ann does where
bob is left out); `s1` is a sub-task of `t1`. In `MCGroups`
boss founded the group, ann is an admin and bob has not been invited. In
`MCTaskLists` ann is ahead of UTC and bob behind it. In `MCAccounts` ann and bob
have an account or none, in `MCLiveUpdates` somebody looks at task 1 or at its
sub-task. Run one with

    tlc -config MCLifecycle.cfg MCTaskSystem.tla

| run | operations, bound | properties | shows |
|---|---|---|---|
| `MCAssignments` | report, assign, decide, assignSub, reportSub, closeSub, restoreSub, under the URL of either task; 2 calls, bob enters and leaves, boss has kept a mail | `TypeOK`, `AssigneesWereMembers`, `SubTaskWorkIsGivenOrTaken`, `MailedLinkHasRow`, `SubCompletionKept`, `StopsForRowsOnly`, `RequestsAdvance` | whatever the interleaving, work on a task goes to people who have been members, and nobody else gets a sub-task but by taking it past the guard of some task; no link is mailed before its row; nobody's completed sub-task work is undone by another; a handler stops for another's rows or not at all, and never goes back |
| `MCLifecycle` | close, archive, restore, report, decide; 3 calls; a group task and a personal one, open or closed, with assignees at work or none; ann has kept a mail | `OpenTaskHasNoAudit`, `ForcedCloseHasReason`, `CompletionKept`, `SettledStays`, `StatusCascadesAreAtomic` | the audit columns agree with the status and with each other; no cascade undoes completed work; what is settled on a closed task is moved by no cascade, no report and no link, however often it is followed; reports and answers in between leave the statuses to the cascades |
| `MCCascades` | close, archive, restore; 3 calls, ann's role changes | `ClosedTaskReleasesAssignees`, `ForcedCloseClosesSubTasks`, `ForcedCloseByAdmin`, `CascadesAreAtomic` | the three cascades are the single steps of `TaskCascades`, a close leaves no assignee and a forced one no sub-task behind; a forced close is on record only for someone who has had the authority, however stale the flag |
| `MCSubTasks` | createSub, closeSub, restoreSub; 4 calls | `SubTaskAssigneesFollow`, `CloserHasCompleted`, `SubCascadesAreAtomic` | the transactions of a sub-task are the single steps of `SubTaskCascades`; assignees follow the sub-task; its closer has completed it |
| `MCLiveness` | close, archive, restore, closeSub; 3 calls | `NoDeadlock`, `RequestsAreAnswered`, `WaitsAreForeseen`, `AssigneeCascadesAreAtomic` | no ring of requests waiting for each other's rows, whoever may wait being known beforehand, and no lost request; closing a sub-task in between leaves the assignees of the task to the cascades |
| `MCGroups` | every operation on a group; 3 people, 5 calls | `FounderIsOwner`, `OwnersDoNotLeave`, `InvitationIsOneTime` | nobody takes the group from its founder, no owner is lost by leaving, an invitation works once |
| `MCAccounts` | every operation on an account; 2 people, 2 browsers, 2 passwords, 6 calls | `PasswordsChangeForCause`, `ResetIsOneTime` | a password changes only for somebody who has known one of the account's or holds its unused reset row; a reset row sets one password each time it is issued |
| `MCLiveUpdates` | eight handlers, one of each kind; 1 tab, 2 requests, two tasks and a sub-task, 3 calls | `StaleIsTold`, `StalePagesCatchUp` | a page that listens is told of what others change under its task's URL, before the commit or after it, and is read again |
| `MCTaskLists` | creating and editing; 2 tasks, a sub-task, 2 days | `TypeOK`, `OneListEach`, `DueTodayBeforeExpired`, `NotificationsByPriority` | a personal task is in one list; no task expires unseen; nothing is left out of the notifications for something of a lower priority |

The runs of section 5 end in a counterexample on purpose.

**Why `Ops` differs from run to run.** `Ops` is what clients ask for. The
cascade properties are promises of operations that lock the task's row before
they cascade; the others write under that task without looking at it, so the
promises are false beside them. That is a fact about the code, and it is worth
knowing:

- a report may claim a closed or archived task (`updateAssigneeStatus` does not
  look at the status in its claim branch), so a closed task can have an
  `ACCEPTED` assignee;
- a sub-task can be created, closed or restored under a closed or archived task;
- the owner of any task, a personal one included, may put its number into the URL
  of another group's sub-task and claim, close, restore or report it; the pages
  that are told are those of the task in the URL. `SubTaskWorkIsGivenOrTaken` says
  how far that goes: nobody can be *given* a sub-task that way, for `execute` reads
  the roles in the group of the sub-task's own task (see also section 5);
- on a closed task a `DECLINED` row may still become `ACCEPTED` or `PENDING`, by a
  report or by a link with that status, for only `COMPLETED`, `SKIPPED` and
  `DROPPED` are the end of a row (`SettledStays`);
- a report judged before a close and written after it lays its status over
  `DROPPED` or `SKIPPED`, and a sub-task's closer who also reports at that
  moment may be left with something else than `COMPLETED`;
- a task closed, then archived, then restored, is open with its assignees still
  `SKIPPED` or `DROPPED`, which no transition leaves: only an admin assigning
  the task anew helps;
- two closes that both read `OPEN` both write, the later audit replacing the
  earlier.

No comment, test or document says otherwise of these seven, so they are not
among the findings (what comes nearest to one is in section 5). The other modules have their own, which the properties are
worded around:

- two overlapping changes of a password both succeed, both having verified the
  hash that the first replaced: a password the account *has had* is what a
  change can be held to;
- the JWT of a superseded reset link confirms with the row that superseded it,
  for it names the row and not the secret;
- one's own pages, and pages that reconnect, are told of nothing, so they stay as
  they are until somebody reloads them or the next change comes;
- claiming a task and editing a sub-task announce nothing.

**Bounds.** `MaxCalls` bounds the requests of a behaviour, `Procs` those in
flight (two), `Reasons` has one reason next to none. Two requests in flight are
what the races of this code need: each is a read-then-write of one request
around the write of another; three or four calls let a race begin in a state
that an earlier call prepared (closed, then archived, then restored). `Init`
chooses statuses of tasks, sub-tasks and assignees freely within a
configuration's `First...` sets instead of spending calls on reaching them; the
sets hold what `createTask`, `createSubTask`, `execute` and a report make of new
rows, and what earlier requests leave: a task closed, archived and restored is
`OPEN` with `DROPPED` assignees. `FirstLinks` are mails that somebody has kept: of
those the ones whose row is there are in `mailed` from the start, so that a link is
followed, and followed again, without spending the calls that sent it. One task and one sub-task suffice because every
statement addresses the rows of a single task; `MCLifecycle` has two, since
group tasks and personal tasks are authorised differently, and so has
`MCAssignments`, where the second is bob's own and gets him through the guard. Two users are enough
where the actor and the other assignee differ; a third, bob, is there when
membership changes. Requests are interchangeable, hence the symmetry set; the
liveness run does without it.

In `MCGroups` five calls are what it takes to invite, follow the link, promote
the new member to owner, and have the two owners act on each other; the five
also bound the hashes, one per invitation. In `MCTaskLists` a day has four
ticks, the last standing for 23:59:59.999, so that a time of day, midnight and
the end of the day differ; ann is one tick ahead of UTC and bob two behind, so
that midnight of either falls inside the other's day; the clock stops after two
days and a half, when every task entered for the first two days has been due and
has expired for both. `Take` is one instead of 20: three rows are enough to be
cut by a query and by the merge.

In `MCAccounts` six calls are two rounds of asking for a link, following it and
confirming, in either browser, the second round rotating the row under the
first; or a sign-up, a sign-in and two changes that overlap a reset. Two
passwords suffice, as the code only compares one with another. In
`MCLiveUpdates` there is one tab, for pages do not interact and the proof covers
any number; two requests, so that an announcement of one falls between another's
announcement and its commit; a third call for what happens after the reload; and a
second task for the URL to name. `Ops` has one handler of each kind, as `Changes`,
`Before` and `After` tell them apart: `update` is an `assign` that cannot fail
half-way, `decide` tells what `report` tells, `restore` what `archive` does and
`restoreSub` what `closeSub` does (the proof has them all). It leaves out
`updateSub`, `claim`, `assignSub` and `decideSub`: the first two announce nothing
and the last two announce the wrong id (section 5).

The largest runs, `MCLifecycle` with 2.1 million states and `MCLiveUpdates` with
1.6 million, take about two minutes each; `MCAssignments` has 800 thousand,
`MCCascades` 670 thousand, the others fewer.

**Deadlock.** `CHECK_DEADLOCK FALSE`, in all runs but those of `MCTaskLists` and
`MCLiveUpdates`, because a behaviour may end: once `MaxCalls` requests are answered no client asks
for more. That requests do not wait for each other is the property
`NoDeadlock`, not the absence of a state without successors: `MayWaitFor(p, q)`
says that `q` holds a row among which are those the next statement of `p` needs,
and no set of requests may have each of its members wait for another. Four
properties are the safety half of `RequestsAreAnswered`, and fairness is the other:
`WaitsAreForeseen` (no row is taken that `Wanted` did not name, so `MayWaitFor`
misses no wait), `NoDeadlock` (somebody waits for nobody), `StopsForRowsOnly` (and
then has a next step) and `RequestsAdvance` (a step leaves fewer statements to
send, eight at most to begin with).

**Fairness.** `FairSpec` assumes strong fairness of `Step(p)` for every request:
the event loop resumes every await and PostgreSQL grants a row lock to waiters
in order, so a step that keeps becoming possible is taken. Weak fairness would
not do, for a step waiting for a row is enabled and disabled as others come and
go. Nothing is assumed of clients, of membership changes or of failures: `Abort`
may happen or not. `LiveUpdates` needs weak fairness only, and of four actions: a
page that was asked for arrives, an event that was sent is handled as long as
the socket lasts, a timer fires, and a handler that has committed announces it,
since it awaits nothing on the way but mail that may fail, which is `Abort`.
Nobody has to open a page, to join a room or to finish a transaction.

## 4. The proofs

For every set of users, tasks, sub-tasks, reasons and concurrent requests, any
choice of operations and any bound on calls, from the assumptions on
constants that the modules state (where a theorem asks more, it says so):

| theorem | statement |
|---|---|
| `TypeCorrect` | `Spec => []TypeOK` |
| `OpenIsClean` | `Spec => []OpenTaskHasNoAudit` |
| `ForcedCloseExplained` | `Spec => []ForcedCloseHasReason` |
| `ForcedCloseAuthorised` | `Spec => []ForcedCloseByAdmin` |
| `OnlyMembersAssigned` | `Spec => []AssigneesWereMembers` |
| `LinksAnswerRows` | `Spec => []MailedLinkHasRow` |
| `CompletionStays` | `Spec => CompletionKept` |
| `SubCompletionStays` | `Spec => SubCompletionKept` |
| `SubTaskWorkGivenOrTaken` | `Spec => SubTaskWorkIsGivenOrTaken` |
| `DeadlockFree` | `Spec => []NoDeadlock` |
| `EveryWaitForeseen` | `Spec => WaitsAreForeseen` |
| `RequestsEnd` | `Spec => RequestsAdvance` |
| `SubCascadesImplemented` | `Spec => SubCascadesAreAtomic`: `TaskSystem` implements `SubTaskCascades`, if clients only create, close and restore sub-tasks, which are open at first with nobody parked on them |
| `AssigneesFollow` | under the same assumptions, `Spec => []SubTaskAssigneesFollow` |
| `ClosersComplete` | under the same assumptions, `Spec => []CloserHasCompleted` |
| `CascadesImplemented` | `Spec => CascadesAreAtomic`: `TaskSystem` implements `TaskCascades`, if clients neither assign, answer or report work on a task (`AssigneesAlone`) nor create, close or restore sub-tasks (`SubTasksAlone`) |
| `AssigneeCascadesImplemented` | `Spec => AssigneeCascadesAreAtomic`: of tasks and their assignees, under `AssigneesAlone` |
| `StatusCascadesImplemented` | `Spec => StatusCascadesAreAtomic`: of tasks and their sub-tasks, under `SubTasksAlone` |
| `CloseReleases` | under `AssigneesAlone`, and with no task closed at first, `Spec => []ClosedTaskReleasesAssignees` |
| `ForcedCloseTakesSubTasks` | under `SubTasksAlone`, `Spec => []ForcedCloseClosesSubTasks` |
| `FounderStays` | `Spec => []FounderIsOwner` (of `Groups`) |
| `OwnersStay` | `Spec => OwnersDoNotLeave` |
| `InvitationsAreOneTime` | `Spec => InvitationIsOneTime`: `Groups` implements `OneTimeToken` |
| `PasswordsChangeOnlyForCause` | `Spec => PasswordsChangeForCause` (of `Accounts`) |
| `ResetsAreOneTime` | `Spec => ResetIsOneTime`: `Accounts` implements `OneTimeToken` |
| `StalePagesAreTold` | `Spec => []StaleIsTold` (of `LiveUpdates`), for the operations that announce what they write: all but the four named above |
| `OneList` | `Spec => []OneListEach` (of `TaskLists`) |
| `DueTodayFirst` | `Spec => DueTodayBeforeExpired` |
| `NotifiedByPriority` | `Spec => []NotificationsByPriority` |

*The type invariant* (`TaskSystem_proofs`). `TypeOK` is not inductive: a handler
indexes tables by `req[p].task`, `.sub` and `.target`, which are `Null` for some
operations, and writes `req[p].status`, which the decision link may set to a
string that is no status. `TypeInv` adds `RequestInv`: a request's parameters
are those its route parses, every program counter belongs to one operation, and
whoever is about to write a decision holds a valid status. One lemma per kind
of step (`ReadStepTyped`, `WriteStepTyped`, `AnswerTyped`) is applied to each
action.

*The audit* (`TaskSystem_proofs`). The three audit properties speak of committed
rows; between a request's decision and its commit nothing committed supports
them. `AuditInv` extends them to (a) the uncommitted rows of every transaction,
(b) the guard's flag, which means the actor has had the authority (`wasAdmin`,
or ownership of a personal task), and (c) `close_update`: a count that found
open items got there only with a reason and an admin. With those it is
inductive. Most steps are `Quiet` (no task row, no flag, no entry into a close),
which one lemma dispatches; what remains is proved action by action: the three
updates of a task row, the guard, the count, commit, abort, and changes of
membership. A restore is where the shape of the row matters: it rewrites exactly
the columns of the audit, so an `OPEN` row equals `NewTask("OPEN")`.

*The members* (`TaskMembers_proofs`). A guard's answer is stale by the time it is
used, so the invariant keeps what lasts of it. Having been a member lasts, and a
row may change but does not go away. `MemberInv` says of each request that what
it is about to write to `TaskAssignee`, or has written and not committed, is
for somebody who has been a member; that a request about to mail a link, or to
answer one, has a row to point at; and of the tables what the properties say. Of
sub-tasks it says less (`SubBacked`): whoever has a row was let in by the guard of
*some* task, as a member or as its owner, which need not be the sub-task's.
`Sound` is what each step may do to the shared state: rows are only added or
changed, and new ones go to people who qualify. Every step is `Sound`, and
`Sound` steps keep what the *other* requests rely on, so each action is left with
its own request.

*The work* (`TaskWork_proofs`). The `where` that spares completed rows is evaluated
when its statement runs, some awaits before the commit; what protects the row from
then on is its lock. `WorkInv` says that only requests inside a transaction have
uncommitted rows, that no assignee row is uncommitted in two transactions, and that
an uncommitted row over a `COMPLETED` one is `COMPLETED` (`Spares`). The last is
what a report committed meanwhile could break, and it cannot: it waits for the row,
or finds it in nobody's transaction. So a commit undoes no completed work, and the
steps that do (a report, a decision, an assignment) write one row at once, at the
request of the person the properties name. Each step is shown `Careful`: it keeps
`WorkInv` and answers for what it undoes.

*The locks* (`TaskWork_proofs`). `LockInv` says which rows a transaction holds: that
of a task (`HoldsTask`) its task's row from the first statement on, and besides it
only assignees and sub-tasks of that task; that of a sub-task (`HoldsSubTask`) its
sub-task's row and that row's assignees; everybody else nothing. No two hold the
same task or the same sub-task. So a request outside any transaction is waited for
by nobody, a transaction of a sub-task waits for nobody (whoever held its assignees
would hold the sub-task), and one of a task can only wait for one of a sub-task: the
waiting goes up three ranks and cannot come back. The argument does not count
requests or look at the order of the statements after the first, and it is why an
archive that wrote its sub-tasks before its task would deadlock with a close. Rows
of one `UPDATE` taken one by one make no difference to it. What the argument says
of `MayWaitFor` it says of the code because `MayWaitFor` misses nothing
(`EveryWaitForeseen`): each statement is shown to take rows that `Wanted` names at
its program counter, and a commit changes rows its transaction holds.

*Given or taken* (`TaskWork_proofs`). `SubTaskWorkIsGivenOrTaken` is about the step
that commits a new row, and of the requests that write one only a close holds it
uncommitted for some statements. `TakenInv` says of the rows a transaction holds
that they were there before, or that the transaction is a close and the row the
closer's own (`OwnRow`), past the guard of the task in the URL. With `LockInv`, by
which only transactions of sub-tasks hold such rows, each step keeps it. The rows
written at once are an assignee's, who is a member or becomes one of those who have
been (`MemberInv`), or a claimer's own.

*The answers* (`TaskWork_proofs`). `RequestsEnd` is the variant of the liveness
argument: `StatementsLeft` goes down with every step of a request. It needs one
invariant, `Served`, that a request being served stands before some statement, for
otherwise a failure could end one that had none left. With it and the theorems on
waiting all of `RequestsAreAnswered` but `StopsForRowsOnly` and the fairness itself
is proved: a state with requests in flight has one that waits for nobody, and no
request takes more than eight steps.

*The sub-tasks* (`TaskWork_proofs`). The refinement of `SubTaskCascades` stands on
`LockInv`: who has taken the row of a sub-task has it and its assignees to itself.
`SubInv` adds what the transaction has made of them by then. After each statement of
a close, what it sees of an assignment is a function `Closing` of the statement and
of what is committed; at the commit that function is the abstract `Released`, but for
the closer, who has completed. `Resuming` is the same of a restore. `Existing` is
needed for the sub-tasks that clients create meanwhile: a request past
`SubTaskExistsGuard` never holds one that is about to be created. `SubInv` needs
nothing of the state in which the system starts; the refinement and the two promises
do, and the promises are proved of `SubTaskCascades`, together with the fact that a
sub-task yet to be created has no assignees, and carried over. The assumption on the
operations is the one the run makes and for its reason: a report may be judged by a
status that a close is about to replace.

*The cascades* (`TaskCascades_proofs`, on top of *the work* and *the locks*). Each of
the three transactions holds its task's row before it writes any other, and two
never hold one task (`LockInv`). `Progress` adds what the holder has made so far:
of the task's row (`TaskMade`), of its assignees (`AssigneeMade`) and of its
sub-tasks (`SubTaskMade`), each a function of the statement reached and of what is
committed now. It is inductive for requests of every operation, because it claims
no more than the locks protect: the task's row always; the assignees if nobody
else writes assignees of tasks (`AssigneesAlone`), which reports and assignments do
without taking the task's row; the sub-tasks if nobody else writes sub-tasks
(`SubTasksAlone`). So the commit of a cascade is a step of `TaskCascades` on
whichever of the tables are its own, every other step stutters there, and the
refinement holds in three forms: of all three tables, of tasks and assignees beside
any request about sub-tasks, and of tasks and sub-tasks beside any assignment or
report. The last two are instances of the same module with the third table emptied.
The invariants on closed tasks are proved of these, where they are
short, and carried over; one about assignees thus holds beside sub-task requests
and one about sub-tasks beside reports. Without the two assumptions they are false,
as section 3 says, and so is the first on a task closed at first with somebody at
work on it, which is what the hypothesis on `FirstTasks` excludes.

*The groups* (`Groups_proofs`). A request of `Groups` has checked something and
writes it later, so `GroupInv` says of every program counter what its request
may still rely on: `Handler` its parameters, `Backed` that the target of a role
or a removal is not the founder, that whoever leaves is not the founder, and
that a consumed row is this request's to use, and `Exclusive` that two
transactions do not hold the same row. `TokenInv` ties the row to its history:
the present hash has been used once if the row is consumed and never if it is
not. The founder stays because nothing that writes `member[ownerId]` gets past
its check: owners are refused as targets, and the founder is one by the
invariant itself. The refinement is a step simulation over `GroupInv`: `Backed`
makes `VerifyJoin` a `Use`, since the row it finishes was unused.

*The accounts* (`Accounts_proofs`) have the same shape: of each program counter
what its request may still rely on (a password about to be changed was verified
against one the account has had; a consumed row is this request's), one
transaction per token row, and the row tied to the count of its uses.

*The live updates* (`LiveUpdates_proofs`). `StaleIsTold` is about committed
changes, and some announcements come before the commit. The invariant adds, for
every request between its `Before` announcement and its commit, that whoever
heard it is already safe: told, or marked as having missed it. Then the commit
may make the page stale. That the plans `Before` and `After` reach
every listening page an operation `Changes`, if its URL names the page's task, is
proved once (`BeforeTellsTask`,
`AfterTells`, `CommitAnnounces`), the only place where the operations differ.

*The lists* (`TaskLists_proofs`). All of it is arithmetic over a day of any length,
any zones and any clock. `ListInv` needs two facts besides the types: that an
all-day task of a person is due at the end of its day in the zone of its owner, the
only one who edits it (`OwnersDay`), so that its date and its moment tell the same
day to the filters of that zone; and that only finitely many rows are pending, for
the cardinalities of the notifications. `OneListEach` is then a case for each place
the due moment may have around the viewer's day, `DueTodayBeforeExpired` that one
tick of the clock cannot carry a moment over a whole day, and
`NotificationsByPriority` a counting argument: a row its query did not fetch has
`Take` rows before it that were, all of a higher priority than whatever it should
have gone before, and they and that one do not fit into `Take` places.

Check with `tlapm` on each of `TaskSystem_proofs.tla`, `TaskMembers_proofs.tla`,
`TaskWork_proofs.tla`, `TaskCascades_proofs.tla`, `Groups_proofs.tla`,
`Accounts_proofs.tla`, `LiveUpdates_proofs.tla` and `TaskLists_proofs.tla`.

Model-checked only: `SettledStays`; the two liveness properties, `RequestsAreAnswered` and
`StalePagesCatchUp`, whose fairness the prover cannot reason about, and
`StopsForRowsOnly`, which is about ENABLED.

## 5. Where comments and code disagree

| run | the comment | the code |
|---|---|---|
| `MCTwoInvites` | `groups.service.ts:214-215`: "at most one active invite per (group, email)" | the hash is compared with a row read before the transaction and not by the `updateMany` (`:378`); the link a new invitation has just replaced admits, and uses up the new one |
| `MCResetFlow` | `auth.service.ts:169`: `verifyResetToken` "issues a short-lived JWT for password updates" | the JWT carries no audience and `reset-password-token.strategy.ts:21` demands one, so the guard of the confirming route refuses it; that route is not `Public` either (`auth.controller.ts:151-152`) |
| `MCWrongRoom` | `task-socket.js:60`: "just updated this task" | `execute` and `updateGenericStatus` announce the id they were given to the room of the task with that id (`task-assignment.service.ts:210`, `:290`); for a sub-task that is some other task, or none |

Read and not run, for the code plainly does not do it and no property claims it:

- `tasks.service.ts:1194` and `:1201-1205` promise the 20 most urgent rows, by
  priority and then by due date; each of the two queries takes 20 rows by priority
  alone (`:1210-1211`, `:1226-1227`), in no order among equals, and what it cuts is
  not sorted any more: with 21 pending tasks of one priority the one that is due
  first may be missing. `NotificationsByPriority` claims the half that holds;
- `getTasks` starts the future strictly after the first moment of tomorrow (`:165`)
  and TODAY ends strictly before it (`:1080`), so a task of tomorrow entered without
  a time is in none of the four lists today. `OneListEach` names that moment;
- `task-member.guard.ts:47` says that whoever is not even a member gets a 404; the
  guard reads the task of the URL (`:17-21`) and nobody compares it with
  `subTask.taskId`, so on the routes of a sub-task it is a member of *some* task
  who is let in. `SubTaskWorkIsGivenOrTaken` claims what holds;

- `tasks.service.ts:828-829` says that sub-tasks closed by hand stay closed
  through archive and restore; `archiveTask` turns them into `ARCHIVED` (`:745`)
  and the restore opens every `ARCHIVED` one;
- `:589-590` says that only an admin closes over open items; the count is taken
  before the transaction, and a claim in between is dropped by the owner's plain
  close (`:656`);
- `:1136-1137` says that a smooth close needs no modal; it counts `PENDING` and
  `ACCEPTED` assignees, and `closeTask` counts `DECLINED` ones too (`:624`) and
  then demands a reason;
- `:69` says that an all-day task is a calendar date, "ignoring time zone
  shifts"; it has a `dueAtUtc` as well, the end of the day in the editor's zone,
  which the filters compare with the viewer's day (`:1080`, `:1086`), so a viewer
  further east finds yesterday's task expired and due today;
- `tasks.controller.ts:304` answers "You have rejected this task."; the link of
  `mail.service.ts:88` says `REJECTED`, which is no assignment status, and the
  transition is refused;
- `sub-tasks.service.ts:516` says that the socket is told after the transaction;
  the claim branch tells it from within (`:477`), before the commit;
- `task-assignment.service.ts:32-33` says that assigning oneself sets `ACCEPTED`,
  and `:144` writes `PENDING` for every task;
- `restoreTask` picks its cascade by a status read before its transaction
  (`tasks.service.ts:784`): after a close in between, the assignees its comment
  (`:774`) says it revives stay `SKIPPED` or `DROPPED`;
- `groups.service.spec.ts:946-951` tests that an admin cannot remove an admin, and
  `kickOutMember` deletes by key after its check (`:533`): a member promoted in
  between is removed as an admin.

## 6. Abstractions and limits

- One group owns all group tasks. `ChangeMembership` lets any change of role
  happen to a `MutableUsers` member at any time, more than `GroupsService`
  allows.
- In the task modules rows never disappear: disbanding a group, which deletes its
  tasks by cascade, is in `Groups` without the tasks.
- `Disband` is one step that waits until no transaction holds a token of the
  group. PostgreSQL deletes row by row and may abort one of two transactions
  that wait for each other; the aborted one is an `Abort`.
- An invitation's expiry is judged when it is first read (the code compares with
  the `now` it took there); e-mails are users, for the code
  refuses to invite one who has no account.
- `TaskLists`: no daylight saving; the session of the database is in UTC; lists
  as their filters define them, before they are cut to 5, 10, 15 or a page; all
  tasks `OPEN` and pending for everyone; in the group anyone may be an admin.
- In the task modules `createTask` is in `Init` only; `updateTask` and
  `updateSubTask` write none of their columns and are in `TaskLists`.
- `closedById` stands for `closedAt` too: every statement that writes one writes
  the other. An empty reason is no reason.
- A handler's reads that follow each other without deciding anything in between
  are one step (the `_count` of `closeTask` is one query in the code as well).
- A multi-row `UPDATE` that has waited for a row takes effect on a fresh view;
  PostgreSQL re-evaluates only the rows its first snapshot selected. The
  difference needs a third transaction that adds a matching row during the wait.
- Locks are those of written rows. Foreign-key share locks are left out: none
  conflicts with an update that leaves the key alone.
- Mail is sent without waiting; a mail that is never sent is an `Abort` at
  `assign_mail`. The expiry of a link's token is left out, so links live longer
  than in the code.
- The task in the URL of a sub-task's request is any task, but in `createSub`, where
  it becomes the parent. Pages, in `LiveUpdates`, are opened under the address the
  views render.
- `updateSubTaskStatus` is not wired to a route, and `executeUpdateLogic` is
  modelled for the two statuses its callers pass.
- DTO validation is the set each `Post...` action draws its parameters from.
- `Accounts`: hashing, signing and the lifetimes of cookies are what they mean (a
  password verifies, a token is someone's, time runs out at any moment);
  `consumed` tells no purpose apart, for invitations and resets have subject keys
  of their own. A browser waits for one request at a time; two requests of one
  person are two browsers. Updating a name or a time zone is left out.
- `LiveUpdates`: a request's transaction commits in one step, whatever is behind
  it; requests do not lock each other's rows there, nor check what they change,
  so more changes happen than in the code. The typing indicator is left out, as
  is the bell, which polls.
- Pages of a list and the dashboards' cuts are left out: the count and the rows
  are two queries, so a page may disagree with its count, and nothing says it
  must not.
- Rendering, logging, and the contents of mail and notifications; DTOs, error
  filters and start-up, which keep no state.
- The Prisma client under `src/src/generated` is some 20000 lines of generated
  types, more than two thirds of the TypeScript of the server. It has no logic of
  its own: what the services do through it is modelled where they do it.

## 7. Plan

Done so far: tasks with their cascades, groups with invitations, accounts with
resets, live updates, and task lists. What is left, in order:

1. **Disbanded groups**: `Groups` as the implementation of `ChangeMembership` of
   `TaskStore`, with the tasks a disbanded group takes with it under requests
   that have passed their guards.
2. **Pages**: the count and the rows of a page read by two queries, rows inserted
   and moved between two pages.
