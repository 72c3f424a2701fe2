CONSTANTS
  ann = ann bob = bob c1 = c1 c2 = c2 pw1 = pw1 pw2 = pw2
  Users = {ann}
  Clients = {c1}
  Passwords = {pw1, pw2}
  Null = Null
  Ops = {"signin", "reset", "verify", "confirm"}
  MaxCalls = 4
SPECIFICATION Spec
PROPERTIES
  ResetTokenOpensItsRoute
CHECK_DEADLOCK FALSE
