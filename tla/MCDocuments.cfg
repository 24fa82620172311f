SPECIFICATION DocumentsSpec
CONSTANTS
  r1 = r1
  r2 = r2
  r3 = r3
  c1 = c1
  c2 = c2
  p1 = p1
  p2 = p2
  i1 = i1
  i2 = i2
  all = all
  subject = subject
  exact = exact
  move = move
  drop = drop
  reply = reply
  None = None
  Requests = {r1, r2, r3}
  Tests = {all, subject}
  OddTests = {exact}
  NoEffect = NoEffect
  Effects = {move, drop, NoEffect}
  OddEffects = {reply}
  Edits <- Bodies
  Foreign <- Found
  Ids = {1, 2}
  AllMail = all
  NoGrant = NoGrant
  Changes = {c1, c2}
  Grantees = {p1, p2}
  Roles = {"limitedRead", "read", "write", "delegateWithPrivateEventAccess", "custom", "owner"}
  OwnShares <- Grants
  Items = {i1, i2}
  MaxState = 5
SYMMETRY Symmetry
CHECK_DEADLOCK FALSE
INVARIANTS
  RunsWhatItLists
  WriteAsked
  Mirrored
PROPERTIES
  CleanWrite
  InForce
  NoComeback
  OneGrant
