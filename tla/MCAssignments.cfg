CONSTANTS
  boss = boss ann = ann bob = bob
  t1 = t1 t2 = t2 s1 = s1 p1 = p1 p2 = p2 why = why
  Tasks = {t1, t2}
  SubTasks = {s1}
  Procs = {p1, p2}
  Users = {boss, bob}
  Reasons = {}
  Null = Null
  ownerOf <- MC_ownerOf
  groupTasks <- MC_groupTasks
  parentOf <- MC_parentOf
  firstRole <- MC_firstRole
  MutableUsers = {bob}
  Ops = {"report", "assign", "assignSub", "decide", "reportSub", "closeSub", "restoreSub"}
  MaxCalls = 2
  FirstTasks = {"OPEN"}
  FirstAssignments = {"NONE"}
  FirstSubAssignments = {"NONE", "COMPLETED"}
  FirstSubTasks = {"OPEN"}
  FirstLinks <- MC_subLinks
SPECIFICATION Spec
INVARIANTS
  TypeOK
  AssigneesWereMembers
  MailedLinkHasRow
  StopsForRowsOnly
PROPERTIES
  SubTaskWorkIsGivenOrTaken
  SubCompletionKept
  RequestsAdvance
SYMMETRY ProcSymmetry
CHECK_DEADLOCK FALSE
