-------------------------- MODULE TaskLists_proofs --------------------------
(***************************************************************************)
(* For every set of users, tasks and sub-tasks, every time zone, every     *)
(* length of a day and every moment: the lists of a person sort their own  *)
(* tasks, a group task is due today for a member before it is expired for  *)
(* them, and the merge of the two queries behind the notifications never   *)
(* drops a row for one of lower priority. The first rests on what a        *)
(* personal row's two dates have to do with each other, which only its     *)
(* owner's zone decides; the last on there being finitely many rows to     *)
(* count.                                                                  *)
(***************************************************************************)
EXTENDS TaskLists, FiniteSetTheorems, TLAPS

Row == [ priority : Priorities \cup {Null},
         dueAtUtc : Int \cup {Null}, allDayLocalDate : Int \cup {Null} ]

TypeInv ==
  /\ clock \in 0 .. LastTick
  /\ row \in [Items -> Row]
  /\ \A i \in Items : Exists(i) => row[i].priority \in Priorities
  /\ \A i \in Items :
       row[i].allDayLocalDate # Null => row[i].dueAtUtc # Null

\* The last moment of day in the zone tz.
EndsAt(day, tz) == day * DayLength + (DayLength - 1) - tz

\* An all-day personal task is due when its day ends where its owner lives.
OwnersDay ==
  \A t \in Tasks \ groupTasks :
    row[t].allDayLocalDate # Null =>
      row[t].dueAtUtc = EndsAt(row[t].allDayLocalDate, zone[ownerOf[t]])

ListInv == TypeInv /\ OwnersDay /\ IsFiniteSet(Pending(Items))

-----------------------------------------------------------------------------
(* Rows                                                                    *)

\* What people enter are numbers.
LEMMA Whole ==
  ASSUME ListsAssumption
  PROVE  /\ \A n \in Priorities : n \in Nat /\ n # Null
         /\ \A d \in Dates : d \in Int
         /\ \A h \in Times : h \in Int
BY DEF ListsAssumption

\* What calculateTaskDates returns for a request's dates.
LEMMA Dated ==
  ASSUME ListsAssumption, NEW tz \in Int,
         NEW p \in Payload \cup UpdatePayload, p.dueDate # Undefined
  PROVE  LET new == NewRow(p, tz) IN
         /\ new \in Row /\ new # NoRow /\ new.priority \in Priorities
         /\ new.allDayLocalDate # Null =>
              new.dueAtUtc = EndsAt(new.allDayLocalDate, tz)
<1> DEFINE new == NewRow(p, tz)
<1>1. p.priority \in Priorities /\ p.priority # Null
  <2>1. p.priority \in Priorities
    BY DEF Payload, UpdatePayload
  <2> QED BY <2>1, Whole
<1>2. new.priority = p.priority
  BY DEF NewRow
<1>3. p.dueDate \in Int \cup {Null} /\ p.dueTime \in Int \cup {Null}
  <2>1. p.dueDate \in Dates \cup {Null} /\ p.dueTime \in Times \cup {Null}
    BY DEF Payload, UpdatePayload
  <2> QED BY <2>1, Whole
<1>4. CASE p.dueDate = Null
  BY <1>1, <1>4 DEF NewRow, calculateTaskDates, Row, NoRow
<1>5. CASE p.dueDate # Null /\ p.allDay
  <2>1. new = [ priority |-> p.priority,
                dueAtUtc |-> EndsAt(p.dueDate, tz),
                allDayLocalDate |-> p.dueDate ]
    BY <1>5 DEF NewRow, calculateTaskDates, EndsAt
  <2>2. EndsAt(p.dueDate, tz) \in Int
    BY <1>3, <1>5 DEF EndsAt, ListsAssumption
  <2> QED BY <1>1, <1>3, <1>5, <2>1, <2>2 DEF Row, NoRow
<1>6. CASE p.dueDate # Null /\ ~p.allDay
  <2>1. new = [ priority |-> p.priority,
                dueAtUtc |-> p.dueDate * DayLength
                  + (IF p.dueTime = Null THEN 0 ELSE p.dueTime) - tz,
                allDayLocalDate |-> Null ]
    BY <1>6 DEF NewRow, calculateTaskDates
  <2>2. new.dueAtUtc \in Int
    BY <1>3, <1>6, <2>1 DEF ListsAssumption
  <2> QED BY <1>1, <1>6, <2>1, <2>2 DEF Row, NoRow
<1> QED BY <1>4, <1>5, <1>6

\* One row is written, by someone who has its owner's zone if it is personal.
LEMMA RowWritten ==
  ASSUME ListsAssumption, ListInv, clock' = clock,
         NEW i \in Items, NEW new \in Row, row' = [row EXCEPT ![i] = new],
         new # NoRow => new.priority \in Priorities,
         new.allDayLocalDate # Null => new.dueAtUtc # Null,
         i \in Tasks \ groupTasks /\ new.allDayLocalDate # Null =>
           new.dueAtUtc = EndsAt(new.allDayLocalDate, zone[ownerOf[i]])
  PROVE  ListInv'
<1>1. TypeInv'
  BY DEF ListInv, TypeInv, Exists
<1>2. OwnersDay'
  BY DEF ListInv, TypeInv, OwnersDay, Items, EndsAt
<1>3. IsFiniteSet(Pending(Items)')
  <2>1. IsFiniteSet(Pending(Items) \cup {i})
    BY FS_AddElement DEF ListInv
  <2>2. Pending(Items)' \in SUBSET (Pending(Items) \cup {i})
    BY DEF Pending, Exists, ListInv, TypeInv
  <2> QED BY <2>1, <2>2, FS_Subset
<1> QED BY <1>1, <1>2, <1>3 DEF ListInv

LEMMA NewRowWritten ==
  ASSUME ListsAssumption, ListInv, clock' = clock,
         NEW i \in Items, NEW tz \in Int,
         NEW p \in Payload \cup UpdatePayload, p.dueDate # Undefined,
         i \in Tasks \ groupTasks => tz = zone[ownerOf[i]],
         row' = [row EXCEPT ![i] = NewRow(p, tz)]
  PROVE  ListInv'
<1> DEFINE new == NewRow(p, tz)
<1>1. /\ new \in Row /\ new.priority \in Priorities
      /\ new.allDayLocalDate # Null =>
           new.dueAtUtc = EndsAt(new.allDayLocalDate, tz)
  BY Dated
<1>2. new.allDayLocalDate # Null => new.dueAtUtc # Null
  <2> SUFFICES ASSUME new.allDayLocalDate # Null  PROVE new.dueAtUtc # Null
    OBVIOUS
  <2>1. new.allDayLocalDate \in Int
    BY <1>1 DEF Row
  <2> HIDE DEF new
  <2>2. new.dueAtUtc \in Int
    BY <1>1, <2>1 DEF EndsAt, ListsAssumption
  <2> QED BY <2>2 DEF ListsAssumption
<1> HIDE DEF new
<1> QED BY <1>1, <1>2, RowWritten DEF new

\* An edit without a date writes the priority only.
LEMMA Updated ==
  ASSUME ListsAssumption, ListInv, clock' = clock,
         NEW i \in Items, NEW p \in UpdatePayload, NEW tz \in Int, Exists(i),
         i \in Tasks \ groupTasks => tz = zone[ownerOf[i]],
         row' = [row EXCEPT ![i] = getCommonUpdateData(i, p, tz)]
  PROVE  ListInv'
<1>1. CASE p.dueDate # Undefined
  BY <1>1, NewRowWritten DEF getCommonUpdateData
<1>2. CASE p.dueDate = Undefined
  <2> DEFINE new == [row[i] EXCEPT !.priority = p.priority]
  <2>1. p.priority \in Priorities
    BY DEF UpdatePayload
  <2>2. row[i] \in Row
    BY DEF ListInv, TypeInv
  <2>3. /\ new \in Row /\ new.priority \in Priorities
        /\ new.dueAtUtc = row[i].dueAtUtc
        /\ new.allDayLocalDate = row[i].allDayLocalDate
    BY <2>1, <2>2 DEF Row
  <2>4. row' = [row EXCEPT ![i] = new]
    BY <1>2 DEF getCommonUpdateData
  <2>5. new.allDayLocalDate # Null => new.dueAtUtc # Null
    BY <2>3 DEF ListInv, TypeInv
  <2>6. i \in Tasks \ groupTasks /\ new.allDayLocalDate # Null =>
          new.dueAtUtc = EndsAt(new.allDayLocalDate, zone[ownerOf[i]])
    BY <2>3 DEF ListInv, OwnersDay
  <2> HIDE DEF new
  <2> QED BY <2>3, <2>4, <2>5, <2>6, RowWritten
<1> QED BY <1>1, <1>2

LEMMA ListInit == ListsAssumption /\ Init => ListInv
<1> SUFFICES ASSUME ListsAssumption, Init  PROVE ListInv
  OBVIOUS
<1>1. NoRow \in Row
  BY DEF NoRow, Row
<1>2. \A i \in Items : row[i] = NoRow
  BY DEF Init
<1>3. TypeInv
  BY <1>1, <1>2 DEF Init, TypeInv, Exists, ListsAssumption, NoRow
<1>4. OwnersDay
  BY <1>2 DEF OwnersDay, Items, NoRow
<1>5. Pending(Items) = {}
  BY <1>2 DEF Pending, Exists
<1> QED BY <1>3, <1>4, <1>5, FS_EmptySet DEF ListInv

LEMMA ListNext == ListsAssumption /\ ListInv /\ [Next]_vars => ListInv'
<1> SUFFICES ASSUME ListsAssumption, ListInv, [Next]_vars  PROVE ListInv'
  OBVIOUS
<1> USE DEF Items
<1>1. \A u \in Users : zone[u] \in Int
  BY DEF ListsAssumption
<1>2. \A t \in Tasks : ownerOf[t] \in Users
  BY DEF ListsAssumption
<1>8. \A p \in Payload : p.dueDate # Undefined
  BY Whole DEF Payload, ListsAssumption
<1>3. ASSUME NEW t \in Tasks, NEW p \in Payload, createTask(t, p)
      PROVE  ListInv'
  BY <1>1, <1>2, <1>3, <1>8, NewRowWritten DEF createTask
<1>4. ASSUME NEW t \in Tasks, NEW u \in Users, NEW p \in UpdatePayload,
             updateTask(t, u, p)
      PROVE  ListInv'
  BY <1>1, <1>4, Updated DEF updateTask
<1>5. ASSUME NEW s \in SubTasks, NEW u \in Users, NEW p \in Payload,
             createSubTask(s, u, p)
      PROVE  ListInv'
  <2>1. s \notin Tasks
    BY DEF ListsAssumption
  <2> QED BY <1>1, <1>5, <1>8, <2>1, NewRowWritten DEF createSubTask
<1>6. ASSUME NEW s \in SubTasks, NEW u \in Users, NEW p \in UpdatePayload,
             updateSubTask(s, u, p)
      PROVE  ListInv'
  <2>1. s \notin Tasks
    BY DEF ListsAssumption
  <2> QED BY <1>1, <1>6, <2>1, Updated DEF updateSubTask
<1>7. CASE Tick \/ UNCHANGED vars
  <2>1. row' = row /\ clock' \in 0 .. LastTick
    BY <1>7 DEF Tick, vars, ListInv, TypeInv, ListsAssumption
  <2> QED BY <2>1 DEF ListInv, TypeInv, OwnersDay, Pending, Exists
<1> QED BY <1>3, <1>4, <1>5, <1>6, <1>7 DEF Next

\* The inductive invariant: types, the two dates of a personal task, and only
\* so many rows.
THEOREM RowsSound == Spec => []ListInv
<1>1. Init => ListInv
  BY ListInit, ListsAssumption
<1>2. ListInv /\ [Next]_vars => ListInv'
  BY ListNext, ListsAssumption
<1> QED BY <1>1, <1>2, PTL DEF Spec

\* Type correctness: dates are whole.
THEOREM TypeCorrect == Spec => []TypeOK
<1>1. ListInv => TypeOK
  BY DEF ListInv, TypeInv, TypeOK, Row
<1> QED BY <1>1, RowsSound, PTL

-----------------------------------------------------------------------------
(* Days                                                                    *)

LEMMA Multiples ==
  ASSUME NEW D \in Nat \ {0}, NEW a \in Int, NEW b \in Int, a < b
  PROVE  (a + 1) * D <= b * D
<1> DEFINE k == b - (a + 1)
<1>1. k \in Nat /\ b = (a + 1) + k
  OBVIOUS
<1>2. b * D = (a + 1) * D + k * D
  BY <1>1
<1>3. k * D >= 0 /\ k * D \in Int /\ (a + 1) * D \in Int
  BY <1>1
<1> QED BY <1>2, <1>3

LEMMA Successor ==
  ASSUME NEW D \in Int, NEW a \in Int
  PROVE  /\ a * D \in Int
         /\ (a + 1) * D = a * D + D
OBVIOUS

\* A moment lies within its day.
LEMMA Today ==
  ASSUME ListsAssumption, NEW tz \in Int, clock \in Int
  PROVE  /\ todayOf(tz) \in Int
         /\ todayOf(tz) * DayLength <= clock + tz
         /\ clock + tz < todayOf(tz) * DayLength + DayLength
<1> DEFINE n == clock + tz
<1>1. n \in Int /\ DayLength \in Nat \ {0}
  BY DEF ListsAssumption
<1> HIDE DEF n
<1>2. /\ n \div DayLength \in Int
      /\ DayLength * (n \div DayLength) <= n
      /\ n < DayLength * (n \div DayLength) + DayLength
  BY <1>1
<1> QED BY <1>1, <1>2 DEF todayOf, n

\* An all-day task against the day T of its owner: past, today or ahead.
LEMMA DayAgainstDay ==
  ASSUME NEW D \in Nat \ {0}, NEW tz \in (1 - D) .. (D - 1),
         NEW date \in Int, NEW T \in Int
  PROVE  LET due == date * D + (D - 1) - tz
             start == T * D - tz
         IN
         /\ due < start <=> date < T
         /\ ~(due < start) /\ due < start + D <=> date = T
         /\ due > start + D \/ date * D > start + D <=>
              date > T /\ due # start + D
         /\ due = start + D => date > T
<1> DEFINE m == date * D
           n == T * D
<1>1. m \in Int /\ n \in Int
  OBVIOUS
<1>2. date < T => m + D <= n
  BY Multiples, Successor
<1>3. T < date => n + D <= m
  BY Multiples, Successor
<1>4. date = T => m = n
  OBVIOUS
<1> HIDE DEF m, n
<1>5. date < T \/ date = T \/ T < date
  OBVIOUS
<1>6. LET due == m + (D - 1) - tz
          start == n - tz
      IN
      /\ due < start <=> date < T
      /\ ~(due < start) /\ due < start + D <=> date = T
      /\ due > start + D \/ m > start + D <=> date > T /\ due # start + D
      /\ due = start + D => date > T
  <2>1. CASE date < T
    BY <1>1, <1>2, <2>1
  <2>2. CASE date = T
    BY <1>1, <1>4, <2>2
  <2>3. CASE T < date
    BY <1>1, <1>3, <2>3
  <2> QED BY <1>5, <2>1, <2>2, <2>3
<1> QED BY <1>6 DEF m, n

\* Exactly one of four, or none of them.
LEMMA OneOfFour ==
  ASSUME NEW a \in BOOLEAN, NEW b \in BOOLEAN,
         NEW c \in BOOLEAN, NEW d \in BOOLEAN
  PROVE  LET listed == [none |-> a, today |-> b, expired |-> c, future |-> d]
             in == {l \in DOMAIN listed : listed[l]}
         IN
         /\ ~a /\ ~b /\ ~c /\ ~d => Cardinality(in) = 0
         /\ ( \/ a /\ ~b /\ ~c /\ ~d
              \/ ~a /\ b /\ ~c /\ ~d
              \/ ~a /\ ~b /\ c /\ ~d
              \/ ~a /\ ~b /\ ~c /\ d ) => Cardinality(in) = 1
<1> DEFINE listed == [none |-> a, today |-> b, expired |-> c, future |-> d]
           in == {l \in DOMAIN listed : listed[l]}
<1>1. ~a /\ ~b /\ ~c /\ ~d => in = {}
  OBVIOUS
<1>2. a /\ ~b /\ ~c /\ ~d => in = {"none"}
  OBVIOUS
<1>3. ~a /\ b /\ ~c /\ ~d => in = {"today"}
  OBVIOUS
<1>4. ~a /\ ~b /\ c /\ ~d => in = {"expired"}
  OBVIOUS
<1>5. ~a /\ ~b /\ ~c /\ d => in = {"future"}
  OBVIOUS
<1> HIDE DEF in
<1>6. Cardinality({}) = 0 /\ \A x : Cardinality({x}) = 1
  BY FS_EmptySet, FS_Singleton
<1> QED BY <1>1, <1>2, <1>3, <1>4, <1>5, <1>6 DEF in

LEMMA Sorted ==
  ASSUME ListsAssumption, ListInv, NEW t \in Tasks \ groupTasks
  PROVE  LET tz == zone[ownerOf[t]]
             none == NONE(t, tz)
             today == TODAY(t, tz)
             expired == EXPIRED(t, tz)
             future == FUTURE(t, tz)
         IN
         IF row[t].dueAtUtc = startUtc(tz, todayOf(tz) + 1)
         THEN ~none /\ ~today /\ ~expired /\ ~future
         ELSE \/ none /\ ~today /\ ~expired /\ ~future
              \/ ~none /\ today /\ ~expired /\ ~future
              \/ ~none /\ ~today /\ expired /\ ~future
              \/ ~none /\ ~today /\ ~expired /\ future
<1> DEFINE tz == zone[ownerOf[t]]
           D == DayLength
           T == todayOf(tz)
           due == row[t].dueAtUtc
           date == row[t].allDayLocalDate
           start == T * D - tz
<1>1. D \in Nat \ {0} /\ tz \in (1 - D) .. (D - 1) /\ Null \notin Int
  BY DEF ListsAssumption
<1>2. clock \in Int
  BY DEF ListInv, TypeInv
<1>3. T \in Int
  BY <1>1, <1>2, Today
<1>4. due \in Int \cup {Null} /\ date \in Int \cup {Null}
  BY DEF ListInv, TypeInv, Row, Items
<1>5. date # Null => due # Null /\ due = date * D + (D - 1) - tz
  BY DEF ListInv, TypeInv, OwnersDay, EndsAt, Items
<1>6. /\ start \in Int
      /\ startUtc(tz, T) = start
      /\ startUtc(tz, T + 1) = start + D
      /\ endUtc(tz, T) + 1 = start + D
  BY <1>1, <1>3, Successor DEF startUtc, endUtc
<1>7. /\ NONE(t, tz) <=> due = Null
      /\ TODAY(t, tz) <=>
           \/ ~(due # Null /\ due < start) /\ due # Null /\ due < start + D
           \/ date = T
      /\ EXPIRED(t, tz) <=>
           (due # Null /\ due < start) \/ (date # Null /\ date < T)
      /\ FUTURE(t, tz) <=>
           \/ due # Null /\ due > start + D
           \/ date # Null /\ date * D > start + D
  <2>1. FUTURE(t, tz) <=>
           \/ due # Null /\ due > start + D
           \/ date # Null /\ date * D # Null /\ date * D > start + D
    BY <1>6 DEF FUTURE, After
  <2>2. date # Null => date * D \in Int
    BY <1>1, <1>4
  <2>3. date # Null => date * D # Null
    BY <1>1, <2>2
  <2> HIDE DEF start
  <2>4. TODAY(t, tz) <=>
           \/ ~(due # Null /\ due < start) /\ due # Null /\ due < start + D
           \/ date = T
    BY <1>6 DEF TODAY, Before
  <2> QED BY <1>6, <2>1, <2>3, <2>4 DEF NONE, EXPIRED, Before
<1> HIDE DEF tz, T, due, date, start
<1>8. CASE due = Null
  BY <1>1, <1>3, <1>4, <1>5, <1>6, <1>7, <1>8 DEF T, tz, due
<1>9. CASE due # Null /\ date = Null
  BY <1>1, <1>3, <1>4, <1>6, <1>7, <1>9 DEF T, tz, due
<1>10. CASE date # Null
  <2>1. /\ due < start <=> date < T
        /\ ~(due < start) /\ due < start + D <=> date = T
        /\ due > start + D \/ date * D > start + D <=>
             date > T /\ due # start + D
        /\ due = start + D => date > T
    BY <1>1, <1>3, <1>4, <1>5, <1>10, DayAgainstDay DEF start
  <2>2. due # Null /\ date \in Int
    BY <1>4, <1>5, <1>10
  <2> QED BY <1>3, <1>6, <1>7, <1>10, <2>1, <2>2 DEF T, tz, due
<1> QED BY <1>4, <1>8, <1>9, <1>10

\* Every personal task is in one list of its owner's, but for those due when
\* tomorrow starts, whatever the zones, the hour and the length of a day.
THEOREM OneList == Spec => []OneListEach
<1>1. ListsAssumption /\ ListInv => OneListEach
  <2> SUFFICES ASSUME ListsAssumption, ListInv,
                      NEW t \in Pending(Tasks \ groupTasks)
      PROVE LET tz == zone[ownerOf[t]]
                listed == [ none |-> NONE(t, tz), today |-> TODAY(t, tz),
                            expired |-> EXPIRED(t, tz),
                            future |-> FUTURE(t, tz) ]
            IN Cardinality({l \in DOMAIN listed : listed[l]}) =
                 IF row[t].dueAtUtc = startUtc(tz, todayOf(tz) + 1)
                 THEN 0 ELSE 1
    BY DEF OneListEach
  <2> DEFINE tz == zone[ownerOf[t]]
             none == NONE(t, tz)
             today == TODAY(t, tz)
             expired == EXPIRED(t, tz)
             future == FUTURE(t, tz)
  <2>1. t \in Tasks \ groupTasks
    BY DEF Pending
  <2>2. /\ none \in BOOLEAN /\ today \in BOOLEAN
        /\ expired \in BOOLEAN /\ future \in BOOLEAN
    BY DEF NONE, TODAY, EXPIRED, FUTURE
  <2>3. IF row[t].dueAtUtc = startUtc(tz, todayOf(tz) + 1)
        THEN ~none /\ ~today /\ ~expired /\ ~future
        ELSE \/ none /\ ~today /\ ~expired /\ ~future
             \/ ~none /\ today /\ ~expired /\ ~future
             \/ ~none /\ ~today /\ expired /\ ~future
             \/ ~none /\ ~today /\ ~expired /\ future
    BY <2>1, Sorted
  <2> HIDE DEF none, today, expired, future
  <2> DEFINE listed == [ none |-> none, today |-> today,
                         expired |-> expired, future |-> future ]
             in == {l \in DOMAIN listed : listed[l]}
  <2>4. /\ ~none /\ ~today /\ ~expired /\ ~future => Cardinality(in) = 0
        /\ ( \/ none /\ ~today /\ ~expired /\ ~future
             \/ ~none /\ today /\ ~expired /\ ~future
             \/ ~none /\ ~today /\ expired /\ ~future
             \/ ~none /\ ~today /\ ~expired /\ future )
             => Cardinality(in) = 1
    BY <2>2, OneOfFour
  <2> HIDE DEF in
  <2>5. Cardinality(in) =
          IF row[t].dueAtUtc = startUtc(tz, todayOf(tz) + 1) THEN 0 ELSE 1
    BY <2>3, <2>4
  <2> QED BY <2>5 DEF in, none, today, expired, future
<1> QED BY <1>1, ListsAssumption, RowsSound, PTL

-----------------------------------------------------------------------------
(* The clock                                                               *)

\* No tick skips a day, whatever the zone.
LEMMA DayByDay ==
  ASSUME ListsAssumption, NEW tz \in Int, clock \in Int, clock' = clock + 1
  PROVE  todayOf(tz)' \in {todayOf(tz), todayOf(tz) + 1}
<1> DEFINE D == DayLength
           T == todayOf(tz)
           U == todayOf(tz)'
<1>1. D \in Nat \ {0}
  BY DEF ListsAssumption
<1>2. T \in Int /\ T * D <= clock + tz /\ clock + tz < T * D + D
  BY Today
<1>3. U \in Int /\ U * D <= clock + 1 + tz /\ clock + 1 + tz < U * D + D
  <2> DEFINE n == clock + 1 + tz
  <2>1. n \in Int
    OBVIOUS
  <2> HIDE DEF n
  <2>2. /\ n \div D \in Int
        /\ D * (n \div D) <= n /\ n < D * (n \div D) + D
    BY <1>1, <2>1
  <2>3. U = n \div D
    BY DEF todayOf, n
  <2> HIDE DEF U
  <2> QED BY <1>1, <2>1, <2>2, <2>3 DEF n
<1> HIDE DEF T, U, D
<1>4. T * D \in Int /\ U * D \in Int
  BY <1>1, <1>2, <1>3
<1>5. ~(U < T)
  <2>1. U < T => U * D + D <= T * D
    BY <1>1, <1>2, <1>3, Multiples, Successor
  <2> QED BY <1>1, <1>2, <1>3, <1>4, <2>1
<1>6. ~(T + 1 < U)
  <2>1. T + 1 \in Int /\ (T + 1) * D = T * D + D
    BY <1>1, <1>2, Successor
  <2>2. T + 1 < U => (T + 1 + 1) * D <= U * D
    BY <1>1, <1>3, <2>1, Multiples
  <2>3. (T + 1 + 1) * D = (T + 1) * D + D
    BY <1>1, <2>1, Successor
  <2>4. T + 1 < U => T * D + D + D <= U * D
    BY <2>1, <2>2, <2>3
  <2> QED BY <1>1, <1>2, <1>3, <1>4, <2>4
<1>7. U \in {T, T + 1}
  BY <1>2, <1>3, <1>5, <1>6
<1> QED BY <1>7 DEF T, U

\* A task that expires for somebody with a tick was due on their day before.
LEMMA ExpiresByTheDay ==
  ASSUME ListsAssumption, ListInv, row' = row,
         clock' \in {clock, clock + 1},
         NEW t \in Tasks, NEW tz \in Int, EXPIRED(t, tz)'
  PROVE  EXPIRED(t, tz) \/ TODAY(t, tz)
<1> DEFINE T == todayOf(tz)
           U == todayOf(tz)'
           due == row[t].dueAtUtc
           date == row[t].allDayLocalDate
<1>1. DayLength \in Nat \ {0} /\ Null \notin Int
  BY DEF ListsAssumption
<1>2. due \in Int \cup {Null} /\ date \in Int \cup {Null} /\ clock \in Int
  BY DEF ListInv, TypeInv, Row, Items
<1>3. T \in Int
  BY <1>2, Today
<1>4. U \in {T, T + 1}
  <2>1. CASE clock' = clock
    BY <2>1 DEF todayOf
  <2>2. CASE clock' = clock + 1
    BY <1>2, <2>2, DayByDay
  <2> QED BY <2>1, <2>2
<1>5. Before(due, U * DayLength - tz) \/ Before(date, U)
  BY DEF EXPIRED, startUtc, Before
<1>6. /\ endUtc(tz, T) + 1 = T * DayLength - tz + DayLength
      /\ startUtc(tz, T) = T * DayLength - tz
  BY <1>1, <1>3, Successor DEF startUtc, endUtc
<1>7. /\ EXPIRED(t, tz) <=>
           Before(due, T * DayLength - tz) \/ Before(date, T)
      /\ TODAY(t, tz) <=>
           \/ /\ ~Before(due, T * DayLength - tz)
              /\ Before(due, T * DayLength - tz + DayLength)
           \/ date = T
  BY <1>6 DEF EXPIRED, TODAY
<1> HIDE DEF T, U, due, date
<1>8. CASE U = T
  BY <1>5, <1>7, <1>8
<1>9. CASE U = T + 1
  <2>1. U * DayLength = T * DayLength + DayLength /\ T * DayLength \in Int
    BY <1>1, <1>3, <1>9, Successor
  <2>2. CASE Before(due, U * DayLength - tz)
    <3>1. Before(due, T * DayLength - tz + DayLength)
      <4>1. U * DayLength - tz = T * DayLength - tz + DayLength
        BY <1>1, <2>1
      <4> QED BY <2>2, <4>1
    <3> QED BY <1>7, <3>1
  <2>3. CASE Before(date, U)
    <3>1. date \in Int /\ date < T + 1
      BY <1>2, <1>9, <2>3 DEF Before
    <3>2. Before(date, T) \/ date = T
      BY <1>1, <1>3, <3>1 DEF Before
    <3> QED BY <1>7, <3>2
  <2> QED BY <1>5, <2>2, <2>3
<1> QED BY <1>4, <1>8, <1>9

\* Nobody misses the day a task of their group is due, in whatever zone.
THEOREM DueTodayFirst == Spec => DueTodayBeforeExpired
<1>1. ListsAssumption /\ ListInv /\ [Next]_vars =>
        [\A t \in Pending(groupTasks), u \in Users :
           row' = row /\ EXPIRED(t, zone[u])' =>
             EXPIRED(t, zone[u]) \/ TODAY(t, zone[u])]_vars
  <2> SUFFICES ASSUME ListsAssumption, ListInv, Next,
                      NEW t \in Pending(groupTasks), NEW u \in Users,
                      row' = row, EXPIRED(t, zone[u])'
               PROVE  EXPIRED(t, zone[u]) \/ TODAY(t, zone[u])
    OBVIOUS
  <2>1. t \in Tasks /\ zone[u] \in Int
    BY DEF Pending, ListsAssumption
  <2>2. clock' \in {clock, clock + 1}
    BY DEF Next, createTask, updateTask, createSubTask, updateSubTask, Tick
  <2> QED BY <2>1, <2>2, ExpiresByTheDay
<1> QED BY <1>1, ListsAssumption, RowsSound, PTL
        DEF Spec, DueTodayBeforeExpired

-----------------------------------------------------------------------------
(* The notifications                                                       *)

\* H is what the first query of getPendingNotifications may fetch of S.
Fetched(H, S) ==
  /\ H \in SUBSET S
  /\ Cardinality(H) = IF Take < Cardinality(S) THEN Take ELSE Cardinality(S)
  /\ \A a \in S \ H, b \in H : ~ByPriority(a, b)

\* L is what its merge may keep of M.
Shown(L, M) ==
  /\ L \in SUBSET M
  /\ Cardinality(L) = IF Take < Cardinality(M) THEN Take ELSE Cardinality(M)
  /\ \A a \in M \ L, b \in L : ~ByUrgency(a, b)

LEMMA Merged ==
  ASSUME NEW L \in getPendingNotifications
  PROVE  \E F, G : /\ Fetched(F, Pending(Tasks))
                   /\ Fetched(G, Pending(SubTasks))
                   /\ Shown(L, F \cup G)
<1>1. \E F \in FetchedTasks, G \in FetchedSubTasks :
        L \in First(F \cup G, Take, ByUrgency)
  BY DEF getPendingNotifications, First
<1> PICK F \in FetchedTasks, G \in FetchedSubTasks :
      L \in First(F \cup G, Take, ByUrgency)
  BY Zenon, <1>1
<1>2. Fetched(F, Pending(Tasks))
  BY DEF FetchedTasks, First, kSubset, Fetched
<1>3. Fetched(G, Pending(SubTasks))
  BY DEF FetchedSubTasks, First, kSubset, Fetched
<1>4. Shown(L, F \cup G)
  BY DEF First, kSubset, Shown
<1> QED BY <1>2, <1>3, <1>4, Zenon

\* Priorities order the rows that exist.
LEMMA PriorityOrder ==
  ASSUME ListsAssumption, ListInv
  PROVE  /\ \A a \in Pending(Items) : ~ByPriority(a, a)
         /\ \A a, b, c \in Pending(Items) :
              ~ByPriority(a, b) /\ ByPriority(a, c) => ByPriority(b, c)
<1>1. \A a \in Pending(Items) : row[a].priority \in Nat
  BY DEF Pending, ListInv, TypeInv, ListsAssumption
<1> QED BY <1>1 DEF ByPriority

\* What was fetched of a table H and what is shown of it, against a row x of
\* the table that is not shown.
LEMMA LeftOut ==
  ASSUME ListsAssumption, ListInv,
         NEW own \in SUBSET Items, NEW M \in SUBSET Pending(Items),
         NEW H, Fetched(H, Pending(own)), H \subseteq M,
         NEW L, Shown(L, M),
         NEW x \in Pending(own) \ L, NEW y \in L
  PROVE  ~ByPriority(x, y)
<1> DEFINE P == Pending(own)
<1>1. Take \in Nat /\ P \subseteq Pending(Items)
  BY DEF ListsAssumption, Pending
<1>2. IsFiniteSet(P) /\ IsFiniteSet(M)
  BY <1>1, FS_Subset DEF ListInv
<1>3. Cardinality(P) \in Nat /\ Cardinality(M) \in Nat
  BY <1>2, FS_CardinalityType
<1>4. /\ H \in SUBSET P
      /\ Cardinality(H) = IF Take < Cardinality(P) THEN Take ELSE Cardinality(P)
      /\ \A a \in P \ H, b \in H : ~ByPriority(a, b)
  BY DEF Fetched
<1>5. /\ L \in SUBSET M
      /\ Cardinality(L) = IF Take < Cardinality(M) THEN Take ELSE Cardinality(M)
      /\ \A a \in M \ L, b \in L : ~ByUrgency(a, b)
  BY DEF Shown
<1>6. /\ \A a \in Pending(Items) : ~ByPriority(a, a)
      /\ \A a, b, c \in Pending(Items) :
           ~ByPriority(a, b) /\ ByPriority(a, c) => ByPriority(b, c)
  BY PriorityOrder
<1>7. x \in P /\ x \notin L /\ y \in M
  BY <1>5
<1> HIDE DEF P
<1>8. CASE x \in H
  <2>1. ~ByUrgency(x, y)
    BY <1>5, <1>7, <1>8
  <2> QED BY <2>1 DEF ByUrgency
<1>9. CASE x \notin H
  <2> SUFFICES ASSUME ByPriority(x, y)  PROVE FALSE
    OBVIOUS
  <2>1. \A b \in H : ~ByPriority(x, b)
    BY <1>4, <1>7, <1>9
  <2>2. Cardinality(H) = Take
    <3>1. Cardinality(H) # Cardinality(P)
      BY <1>2, <1>4, <1>7, <1>9, FS_Subset
    <3> QED BY <1>4, <3>1
  <2>3. IsFiniteSet(H)
    BY <1>2, <1>4, FS_Subset
  <2>4. \A b \in H : ByUrgency(b, y)
    <3> SUFFICES ASSUME NEW b \in H  PROVE ByPriority(b, y)
      BY DEF ByUrgency
    <3>1. b \in Pending(Items) /\ x \in Pending(Items) /\ y \in Pending(Items)
      BY <1>1, <1>4, <1>7
    <3> QED BY <1>6, <2>1, <3>1
  <2>5. H \subseteq L
    BY <1>5, <2>4
  <2>6. y \notin H
    BY <2>1
  <2>7. Cardinality(H \cup {y}) = Take + 1
    BY <2>2, <2>3, <2>6, FS_AddElement
  <2>8. IsFiniteSet(L)
    BY <1>2, <1>5, FS_Subset
  <2>9. Cardinality(H \cup {y}) <= Cardinality(L)
    BY <2>5, <2>8, FS_Subset
  <2>10. Cardinality(L) <= Take
    BY <1>1, <1>3, <1>5
  <2> QED BY <1>1, <1>3, <1>5, <2>7, <2>9, <2>10
<1> QED BY <1>8, <1>9

\* Whatever Take is and whatever rows of equal priority the database picks, the
\* two queries and their merge never drop a row for one of a lower priority.
THEOREM NotifiedByPriority == Spec => []NotificationsByPriority
<1>1. ListsAssumption /\ ListInv => NotificationsByPriority
  <2> SUFFICES ASSUME ListsAssumption, ListInv
               PROVE  NotificationsByPriority
    OBVIOUS
  <2> SUFFICES ASSUME NEW L \in getPendingNotifications,
                      NEW x \in Pending(Items) \ L, NEW y \in L
               PROVE  ~ByPriority(x, y)
    BY Zenon DEF NotificationsByPriority
  <2> PICK F, G : /\ Fetched(F, Pending(Tasks))
                  /\ Fetched(G, Pending(SubTasks))
                  /\ Shown(L, F \cup G)
    BY Merged
  <2>1. /\ F \cup G \in SUBSET Pending(Items)
        /\ Tasks \in SUBSET Items /\ SubTasks \in SUBSET Items
    BY DEF Fetched, Pending, Items
  <2>2. CASE x \in Tasks
    <3>1. x \in Pending(Tasks) \ L
      BY <2>2 DEF Pending
    <3> QED BY <2>1, <2>2, <3>1, LeftOut
  <2>3. CASE x \notin Tasks
    <3>1. x \in Pending(SubTasks) \ L
      BY <2>3 DEF Pending, Items
    <3> QED BY <2>1, <2>3, <3>1, LeftOut
  <2> QED BY <2>2, <2>3
<1> QED BY <1>1, ListsAssumption, RowsSound, PTL

=============================================================================
