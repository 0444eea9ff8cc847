SPECIFICATION Spec
CONSTANTS
  u1 = u1
  b1 = b1
  b2 = b2
  c1 = c1
  c2 = c2
  Users = {u1}
  Browsers = {b1, b2}
  Requests = {c1, c2}
  AccessTtl = 1
  RefreshTtl = 2
  MaxSpent = 1
  MaxTime = 4
  MaxLogins = 2
  Faults = {"redis", "answer"}
INVARIANTS TypeOK LogoutEndsSession SessionEnds SessionsAreSeparate
CHECK_DEADLOCK FALSE
SYMMETRY Symmetry
