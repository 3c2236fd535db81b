SPECIFICATION Spec
CONSTANTS
  Requests = {r1, r2}
  Clients = {c1}
  NoToken = NoToken
  MaxInflight = 1
  BasePriority = 10
  PriorityIncrement = 2
  MaxPriority = 1
  FallbackPriority = 10
  MaxTries = 1
  MaxFaults = 0
INVARIANTS
  TimeoutIsCounted
