SPECIFICATION FairSpec
CONSTANTS
  Requests = {r1, r2, r3}
  MaxInflight = 1
  Priorities <- MCPriorities
  AgingRate = 2
  AcquireTimeout = 1
  MaxAge = 2
  NoWaiter = NoWaiter
INVARIANTS
  SlotConservation
  ReleaseNeverBlocks
  NoStaleWaiter
  NoForgottenWaiter
PROPERTIES
  PriorityBeatsAgeing
  ImplementsRequestQueue
  AcquireReturns
  QueueComesToRest
