SPECIFICATION Spec
CONSTANTS
  r1 = r1
  r2 = r2
  r3 = r3
  g1 = g1
  g2 = g2
  Me = Me
  None = None
  Requests = {r1, r2}
  Guests = {g1, g2}
  Whens = {1, 2}
  Answers = {"accepted"}
  Rosters <- Lists
  Deployments <- Tiers
  MaxVer = 2
SYMMETRY Symmetry
CHECK_DEADLOCK FALSE
INVARIANTS
  Honest
  Withdrawn
PROPERTIES
  NoLostUpdate
