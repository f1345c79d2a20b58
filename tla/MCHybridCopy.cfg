SPECIFICATION AdminSpec
CONSTANTS
  Admins = {p, q}
  KeyIds = {k}
  Limits = {1, 2}
  Creds = {w}
  MaxMints = 2
  MaxSaves = 0
  Clients = {d1, d2, d3}
  Passwords = {w1, w2}
  MaxFailures = 2
  LockTime = 2
  SessionTime = 2
  MaxTracked = 2
  MaxClock = 5
  MaxLogins = 0
  default = default
  t1 = t1
  t2 = t2
  f1 = f1
  f2 = f2
  f3 = f3
  r1 = r1
  n1 = n1
  n2 = n2
  x1 = x1
  k1 = k1
  TypeIds = {default, t1, t2, t3}
  Default = default
  FieldIds = {f1, f2, f3, f4}
  RuleIds = {r1, r2}
  Names = {n1, n2}
  Keys = {k1}
  Projects = {p1}
  FileIds = {x1}
  Editors = {e1, e2}
  Start <- MCHybridStart
  Contents <- MCContents
  MaxSteps = 1
  MaxNow = 2
INVARIANTS
  NothingSwallowed
CHECK_DEADLOCK FALSE
