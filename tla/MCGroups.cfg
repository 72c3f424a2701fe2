CONSTANTS
  boss = boss ann = ann bob = bob p1 = p1 p2 = p2
  Users = {boss, ann, bob}
  Procs = {p1, p2}
  Null = Null
  ownerId = boss
  firstRole <- MC_firstRole
  Ops = {"invite", "verify", "role", "kick", "leave", "disband"}
  MaxCalls = 5
SPECIFICATION Spec
INVARIANTS
  FounderIsOwner
PROPERTIES
  OwnersDoNotLeave
  InvitationIsOneTime
SYMMETRY ProcSymmetry
CHECK_DEADLOCK FALSE
