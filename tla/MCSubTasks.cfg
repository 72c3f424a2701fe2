CONSTANTS
  boss = boss ann = ann bob = bob
  t1 = t1 t2 = t2 s1 = s1 p1 = p1 p2 = p2 why = why
  Tasks = {t1}
  SubTasks = {s1}
  Procs = {p1, p2}
  Users = {boss, ann}
  Reasons = {why}
  Null = Null
  ownerOf <- MC_ownerOf
  groupTasks <- MC_groupTasks
  parentOf <- MC_parentOf
  firstRole <- MC_firstRole
  MutableUsers = {}
  Ops = {"createSub", "closeSub", "restoreSub"}
  MaxCalls = 4
  FirstTasks = {"OPEN"}
  FirstAssignments = {"NONE"}
  FirstSubAssignments = {"NONE", "PENDING", "ACCEPTED", "COMPLETED"}
  FirstSubTasks = {"NONE", "OPEN"}
  FirstLinks = {}
SPECIFICATION Spec
INVARIANTS
  SubTaskAssigneesFollow
  CloserHasCompleted
PROPERTIES
  SubCascadesAreAtomic
SYMMETRY ProcSymmetry
CHECK_DEADLOCK FALSE
