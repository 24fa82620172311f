SPECIFICATION FairSpec
CONSTANTS
  r1 = r1
  r2 = r2
  p1 = p1
  p2 = p2
  c1 = c1
  c2 = c2
  None = None
  Requests = {r1, r2}
  Principals = {p1, p2}
  Conns = {c1, c2}
  MaxIdle = 1
  IdleTimeout = 1
  Skew = 1
  Lifetimes = {2}
  MaxTime = 3
INVARIANTS
  ExclusiveLease
  RightPrincipal
  IdleBound
  NoneLost
  QuietShutdown
  CheckoutFresh
PROPERTIES
  ReapedEventually
\* The process exits after closeAll.
CHECK_DEADLOCK FALSE
