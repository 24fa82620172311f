SPECIFICATION Spec
CONSTANTS
  r1 = r1
  r2 = r2
  p1 = p1
  p2 = p2
  t1 = t1
  t2 = t2
  mail = mail
  calendar = calendar
  None = None
  Requests = {r1, r2}
  Principals = {p1, p2}
  RawTokens = {t1, t2}
  Owner <- OwnerOf
  Asks <- AsksOf
  Audiences = {mail, calendar}
  Cached = {calendar}
  Skew = 1
  Lifetimes = {0, 2}
  MaxTime = 3
SYMMETRY Symmetry
INVARIANTS
  RightIdentity
  Conservative
  ReusedAlive
