SPECIFICATION Spec
CONSTANTS
  Requests = {r1, r2}
  MaxInflight = 1
  Priorities = {20}
  AgingRate = 2
  AcquireTimeout = 1
  MaxAge = 2
  NoWaiter = NoWaiter
INVARIANTS
  NoIdleSlotWhileWaiting
