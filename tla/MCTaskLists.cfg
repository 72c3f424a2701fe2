CONSTANTS
  ann = ann bob = bob t1 = t1 t2 = t2 s1 = s1
  Users = {ann, bob}
  Tasks = {t1, t2}
  SubTasks = {s1}
  groupTasks = {t2}
  ownerOf <- MC_ownerOf
  zone <- MC_zone
  Null = Null
  Undefined = Undefined
  DayLength = 4
  Dates <- MC_Dates
  Times = {2}
  Priorities = {1, 2}
  Take = 1
  LastTick = 10
SPECIFICATION Spec
INVARIANTS
  TypeOK
  OneListEach
  NotificationsByPriority
PROPERTIES
  DueTodayBeforeExpired
