SPECIFICATION FairSpec
CONSTANTS
  MaxMail = 2
  MaxMod = 3
  MaxValidity = 1
  MaxSeq = 1
  Edits = {u}
  Seqs <- SomeSeqs
  u = u
  Other = Other
  None = None
CHECK_DEADLOCK FALSE
INVARIANTS
  TypeOK
  NoneMissed
  SeriesLatest
PROPERTIES
  ArrivalSeen
