CONSTANTS
  boss = boss ann = ann bob = bob
  t1 = t1 t2 = t2 s1 = s1 p1 = p1 p2 = p2 why = why
  Tasks = {t1, t2}
  SubTasks = {s1}
  Procs = {p1, p2}
  Users = {boss, ann}
  Reasons = {why}
  Null = Null
  ownerOf <- MC_ownerOf
  groupTasks <- MC_groupTasks
  parentOf <- MC_parentOf
  firstRole <- MC_firstRole
  MutableUsers = {}
  Ops = {"close", "archive", "restore", "report", "decide"}
  MaxCalls = 3
  FirstTasks = {"OPEN", "CLOSED"}
  FirstAssignments = {"NONE", "ACCEPTED"}
  FirstSubAssignments = {"NONE"}
  FirstSubTasks = {"NONE", "OPEN"}
  FirstLinks <- MC_taskLinks
SPECIFICATION Spec
INVARIANTS
  OpenTaskHasNoAudit
  ForcedCloseHasReason
PROPERTIES
  CompletionKept
  SettledStays
  StatusCascadesAreAtomic
SYMMETRY ProcSymmetry
CHECK_DEADLOCK FALSE
