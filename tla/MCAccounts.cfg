CONSTANTS
  ann = ann bob = bob c1 = c1 c2 = c2 pw1 = pw1 pw2 = pw2
  Users = {ann, bob}
  Clients = {c1, c2}
  Passwords = {pw1, pw2}
  Null = Null
  Ops = {"signup", "signin", "change", "reset", "verify", "confirm"}
  MaxCalls = 6
SPECIFICATION Spec
PROPERTIES
  PasswordsChangeForCause
  ResetIsOneTime
SYMMETRY Symmetry
CHECK_DEADLOCK FALSE
