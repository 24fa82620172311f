SPECIFICATION Spec
CONSTANTS
  r1 = r1
  d1 = d1
  d2 = d2
  u1 = u1
  u2 = u2
  j1 = j1
  None = None
  Requests = {r1}
  Receivers = {d1, d2}
  Subjects = {u1, u2}
  Jtis = {j1}
  MaxEvents = 1
  MaxTime = 2
INVARIANTS
  AckedEnforced
PROPERTIES
  NeverRevived
  ImplementsDeadTokens
