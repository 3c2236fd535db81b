SPECIFICATION Spec
CONSTANTS
  Requests = {r1, r2, r3, r4, r5}
  MaxInflight = 2
  NoWaiter = NoWaiter
SYMMETRY Symmetry
INVARIANTS
  SlotConservation
  NobodyLost
PROPERTIES
  ServedInLine
  ImplementsRequestQueue
