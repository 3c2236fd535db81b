SPECIFICATION FairSpec
CONSTANTS
  Requests = {r1, r2, r3}
  Clients = {c1, c2}
  NoToken = NoToken
  MaxInflight = 1
  BasePriority = 10
  PriorityIncrement = 2
  MaxPriority = 1
  FallbackPriority = 10
  MaxTries = 2
  MaxFaults = 1
INVARIANTS
  TypeOK
  PenaltyIsEarned
  SlotsEndWithHandlers
PROPERTIES
  PenaltyFades
