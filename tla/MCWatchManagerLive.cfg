SPECIFICATION FairWSpec
CONSTANTS
  h1 = h1
  h2 = h2
  o1 = o1
  o2 = o2
  s1 = s1
  s2 = s2
  messages = messages
  events = events
  Messages = Messages
  None = None
  Handlers = {h1}
  Owners = {o1}
  Resources = {messages}
  Names = {messages}
  Fold <- CaseFold
  SubIds = {s1}
  Watches = {1, 2}
  MaxTTL = 1
  Lifetimes = {1}
  ReauthLead = 1
  Faults = FALSE
  MaxTime = 2
PROPERTIES
  SupersededStops
  GapSignalled
  ShutdownStopsAll
  LapsedReaped
