SPECIFICATION Spec
CONSTANTS
  Requests = {r1, r2, r3}
  ThresholdMultiplier = 1
  MaxMinute = 0
  Faulty = FALSE
  MayExpire = FALSE
SYMMETRY Symmetry
PROPERTIES
  StateNeverRegresses
