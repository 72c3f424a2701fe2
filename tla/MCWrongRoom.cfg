CONSTANTS
  Users = {1, 2}
  Tabs = {1}
  Procs = {1}
  Tasks = {1, 2}
  SubTasks = {2}
  Parent <- FirstTask
  Ops = {"assignSub", "decideSub"}
  MaxCalls = 1
SPECIFICATION Spec
INVARIANTS
  BannerIsTrue
