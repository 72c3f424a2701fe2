CONSTANTS
  boss = boss ann = ann bob = bob p1 = p1 p2 = p2
  Users = {boss, ann, bob}
  Procs = {p1, p2}
  Null = Null
  ownerId = boss
  firstRole <- MC_firstRole
  Ops = {"invite", "verify"}
  MaxCalls = 3
SPECIFICATION Spec
PROPERTIES
  OneActiveInvite
SYMMETRY ProcSymmetry
CHECK_DEADLOCK FALSE
