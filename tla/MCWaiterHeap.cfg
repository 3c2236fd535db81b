SPECIFICATION Spec
CONSTANTS
  Waiters = {w1, w2, w3, w4, w5, w6}
  Keys <- MCKeys
  Slacks = {0, 1}
  Best = Best
  Nobody = Nobody
SYMMETRY Symmetry
INVARIANTS
  IndexAgrees
  HeapOrdered
PROPERTIES
  ImplementsWaiterPool
