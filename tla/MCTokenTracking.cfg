SPECIFICATION FairSpec
CONSTANTS
  Requests = {r1, r2}
  ThresholdMultiplier = 0
  MaxMinute = 1
  Faulty = TRUE
  MayExpire = TRUE
INVARIANTS
  UndercountIsRepaired
  NoImmortalKey
  TwoEscalationsBeforeBlock
PROPERTIES
  CounterComesToRest
