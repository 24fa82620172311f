SPECIFICATION FairSpec
CONSTANTS
  s1 = s1
  s2 = s2
  Subs = {s1, s2}
  MaxItems = 2
  MaxChanges = 2
  MaxDrops = 2
INVARIANTS
  NoneSkipped
  AtMostOnce
PROPERTIES
  PushedSeen
\* The loop ends with its context.
CHECK_DEADLOCK FALSE
