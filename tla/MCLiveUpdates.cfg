CONSTANTS
  Users = {1, 2}
  Tabs = {1}
  Procs = {1, 2}
  Tasks = {1, 2}
  SubTasks = {1}
  Parent <- FirstTask
  Ops = {"assign", "report", "close", "archive", "createSub", "closeSub", "claimSub", "reportSub"}
  MaxCalls = 3
SPECIFICATION FairSpec
INVARIANTS
  StaleIsTold
PROPERTIES
  StalePagesCatchUp
