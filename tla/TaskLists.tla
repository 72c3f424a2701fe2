----------------------------- MODULE TaskLists -----------------------------
(***************************************************************************)
(* What people are shown of their tasks: the lists of the dashboards and   *)
(* of the task page, which sort tasks by the viewer's day, and the pending *)
(* notifications.  The days are those of the viewer's time zone, while a   *)
(* due date was converted in the zone of whoever entered it.               *)
(*                                                                         *)
(* Time is counted in ticks.  A day has DayLength of them, the last one    *)
(* standing for 23:59:59.999; a zone is the number of ticks it is ahead of *)
(* UTC.  Tasks are OPEN, and each is pending for everyone.                 *)
(***************************************************************************)
EXTENDS Integers, FiniteSetsExt

CONSTANTS
  Users,
  Tasks,
  SubTasks,   \* of group tasks
  groupTasks, \* the tasks that belong to the group of all Users
  ownerOf,    \* Task.ownerId
  zone,       \* User.timeZone, which nothing changes
  Null,       \* SQL's NULL
  Undefined,  \* a field that a request does not have
  DayLength,
  Dates,      \* the calendar days people enter
  Times,      \* the times of day people enter
  Priorities, \* 1 is the most urgent
  Take,       \* 20 in the code
  LastTick    \* bound: where the clock stops

Items == Tasks \cup SubTasks

ASSUME ListsAssumption ==
  /\ Tasks \cap SubTasks = {} /\ groupTasks \subseteq Tasks
  /\ ownerOf \in [Tasks -> Users]
  /\ DayLength \in Nat \ {0} /\ LastTick \in Nat
  /\ zone \in [Users -> (1 - DayLength) .. (DayLength - 1)]
  /\ Dates \subseteq Int /\ Times \subseteq 0 .. (DayLength - 1)
  /\ Priorities \subseteq Nat /\ Take \in Nat
  /\ Null \notin Int /\ Undefined \notin Int \cup {Null}

VARIABLES
  clock, \* now, in UTC
  row    \* Task and SubTask: the columns the queries look at

vars == <<clock, row>>

NoRow == [priority |-> Null, dueAtUtc |-> Null, allDayLocalDate |-> Null]

Exists(i) == row[i] # NoRow

-----------------------------------------------------------------------------
(* Dates                                                                   *)

\* Mutant of calculateTaskDates: an all-day task has its date only.
calculateTaskDatesOfDay(allDay, dueDate, dueTime, tz) ==
  IF allDay \/ dueDate = Null
  THEN [dueAtUtc |-> Null, allDayLocalDate |-> dueDate]
  ELSE [ dueAtUtc |-> dueDate * DayLength
                        + (IF dueTime = Null THEN 0 ELSE dueTime) - tz,
         allDayLocalDate |-> Null ]

calculateTaskDates(allDay, dueDate, dueTime, tz) ==
  LET Utc(time) == dueDate * DayLength + time - tz IN
  IF dueDate = Null THEN [dueAtUtc |-> Null, allDayLocalDate |-> Null]
  ELSE IF allDay
  THEN [dueAtUtc |-> Utc(DayLength - 1), allDayLocalDate |-> dueDate]
  ELSE [ dueAtUtc |-> Utc(IF dueTime = Null THEN 0 ELSE dueTime),
         allDayLocalDate |-> Null ]

todayOf(tz) == (clock + tz) \div DayLength

startUtc(tz, day) == day * DayLength - tz

endUtc(tz, day) == startUtc(tz, day + 1) - 1

-----------------------------------------------------------------------------
(* Creating and editing                                                    *)

\* The dates are optional.
Payload == [ priority : Priorities, allDay : BOOLEAN,
             dueDate : Dates \cup {Null}, dueTime : Times \cup {Null} ]

\* TaskUpdatePayload.  The forms leave a date out, so that it is Undefined;
\* null is what the type allows besides.
UpdatePayload ==
  [ priority : Priorities, allDay : BOOLEAN,
    dueDate : Dates \cup {Null, Undefined}, dueTime : Times \cup {Null} ]

NewRow(p, tz) ==
  LET due == calculateTaskDates(p.allDay, p.dueDate, p.dueTime, tz) IN
  [ priority |-> p.priority, dueAtUtc |-> due.dueAtUtc,
    allDayLocalDate |-> due.allDayLocalDate ]

\* A date that is not in the request stays, one that is null is cleared.
getCommonUpdateData(i, p, tz) ==
  IF p.dueDate = Undefined THEN [row[i] EXCEPT !.priority = p.priority]
                           ELSE NewRow(p, tz)

createTask(t, p) ==
  /\ ~Exists(t)
  /\ row' = [row EXCEPT ![t] = NewRow(p, zone[ownerOf[t]])]
  /\ UNCHANGED clock

createSubTask(s, u, p) ==
  /\ ~Exists(s)
  /\ row' = [row EXCEPT ![s] = NewRow(p, zone[u])]
  /\ UNCHANGED clock

\* In the group anyone may be an admin.
updateTask(t, u, p) ==
  /\ Exists(t)
  /\ t \in groupTasks \/ u = ownerOf[t]
  /\ row' = [row EXCEPT ![t] = getCommonUpdateData(t, p, zone[u])]
  /\ UNCHANGED clock

updateSubTask(s, u, p) ==
  /\ Exists(s)
  /\ row' = [row EXCEPT ![s] = getCommonUpdateData(s, p, zone[u])]
  /\ UNCHANGED clock

Tick == clock < LastTick /\ clock' = clock + 1 /\ UNCHANGED row

Init == clock = 0 /\ row = [i \in Items |-> NoRow]

Next ==
  \/ \E t \in Tasks, p \in Payload : createTask(t, p)
  \/ \E t \in Tasks, u \in Users, p \in UpdatePayload : updateTask(t, u, p)
  \/ \E s \in SubTasks, u \in Users, p \in Payload : createSubTask(s, u, p)
  \/ \E s \in SubTasks, u \in Users, p \in UpdatePayload :
       updateSubTask(s, u, p)
  \/ Tick

Spec == Init /\ [][Next]_vars

-----------------------------------------------------------------------------
(* The lists: the where clauses, before a list is cut to its length        *)

\* Comparisons with NULL do not hold.
Before(a, b) == a # Null /\ a < b
After(a, b) == a # Null /\ a > b

NONE(t, tz) == row[t].dueAtUtc = Null

\* Mutant of TODAY: the end of the day is not part of it.
TODAYBeforeEnd(t, tz) ==
  \/ /\ ~Before(row[t].dueAtUtc, startUtc(tz, todayOf(tz)))
     /\ Before(row[t].dueAtUtc, endUtc(tz, todayOf(tz)))
  \/ row[t].allDayLocalDate = todayOf(tz)

TODAY(t, tz) ==
  \/ /\ ~Before(row[t].dueAtUtc, startUtc(tz, todayOf(tz)))
     /\ Before(row[t].dueAtUtc, endUtc(tz, todayOf(tz)) + 1)
  \/ row[t].allDayLocalDate = todayOf(tz)

\* Mutant of EXPIRED: what was due earlier today is expired.
EXPIREDByNow(t, tz) ==
  \/ Before(row[t].dueAtUtc, clock)
  \/ Before(row[t].allDayLocalDate, todayOf(tz))

EXPIRED(t, tz) ==
  \/ Before(row[t].dueAtUtc, startUtc(tz, todayOf(tz)))
  \/ Before(row[t].allDayLocalDate, todayOf(tz))

\* getTasks with the scope FUTURE, after the start of tomorrow; the date
\* column is compared as midnight UTC.
FUTURE(t, tz) ==
  LET tomorrow == startUtc(tz, todayOf(tz) + 1) IN
  \/ After(row[t].dueAtUtc, tomorrow)
  \/ /\ row[t].allDayLocalDate # Null
     /\ After(row[t].allDayLocalDate * DayLength, tomorrow)

-----------------------------------------------------------------------------
(* getPendingNotifications                                                 *)

\* The sets a query may return that takes n of the rows of S, those of least
\* rank: rows of equal rank come in any order.
First(S, n, Precedes(_, _)) ==
  { F \in kSubset(IF n < Cardinality(S) THEN n ELSE Cardinality(S), S) :
      \A x \in S \ F, y \in F : ~Precedes(x, y) }

ByPriority(x, y) == row[x].priority < row[y].priority

\* A missing date counts as infinity.
ByUrgency(x, y) ==
  \/ ByPriority(x, y)
  \/ /\ row[x].priority = row[y].priority
     /\ row[x].dueAtUtc # Null
     /\ row[y].dueAtUtc = Null \/ row[x].dueAtUtc < row[y].dueAtUtc

Pending(S) == {i \in S : Exists(i)}

\* Mutant of FetchedTasks: any of the rows are taken.
FetchedAnyTasks == First(Pending(Tasks), Take, LAMBDA x, y : FALSE)

FetchedTasks == First(Pending(Tasks), Take, ByPriority)

FetchedSubTasks == First(Pending(SubTasks), Take, ByPriority)

getPendingNotifications ==
  UNION { First(F \cup G, Take, ByUrgency) :
            F \in FetchedTasks, G \in FetchedSubTasks }

-----------------------------------------------------------------------------

\* Dates are whole: a task has a moment it is due at exactly if it was given a
\* date, the date of an all-day task included, so that NONE holds those without.
TypeOK ==
  /\ clock \in 0 .. LastTick
  /\ \A i \in Items :
       /\ row[i].priority \in Priorities \cup {Null}
       /\ row[i].dueAtUtc \in Int \cup {Null}
       /\ row[i].allDayLocalDate \in Int \cup {Null}
       /\ row[i].allDayLocalDate # Null => row[i].dueAtUtc # Null

\* The owner of a personal task finds it in exactly one of their lists, however
\* far their zone is from UTC and whatever the hour, but for one moment: a task
\* that is due when tomorrow starts (as any task of tomorrow entered without a
\* time is) is neither TODAY's nor FUTURE's until tomorrow.
OneListEach ==
  \A t \in Pending(Tasks \ groupTasks) :
    LET tz == zone[ownerOf[t]]
        listed == [ none |-> NONE(t, tz), today |-> TODAY(t, tz),
                    expired |-> EXPIRED(t, tz), future |-> FUTURE(t, tz) ]
    IN Cardinality({l \in DOMAIN listed : listed[l]}) =
         IF row[t].dueAtUtc = startUtc(tz, todayOf(tz) + 1) THEN 0 ELSE 1

\* No group member, in whatever zone, finds a task expired that they were not
\* shown as due today before, unless somebody has moved its date.
DueTodayBeforeExpired ==
  [][\A t \in Pending(groupTasks), u \in Users :
       row' = row /\ EXPIRED(t, zone[u])' =>
         EXPIRED(t, zone[u]) \/ TODAY(t, zone[u])]_vars

\* What is left out of the notifications is never of a higher priority than
\* what is shown, whichever rows of equal priority the two queries pick and
\* however many of either kind there are.  Of due dates it says nothing: the
\* queries cut their tables before anything is sorted by date.
NotificationsByPriority ==
  \A L \in getPendingNotifications :
    \A x \in Pending(Items) \ L, y \in L : ~ByPriority(x, y)

=============================================================================
