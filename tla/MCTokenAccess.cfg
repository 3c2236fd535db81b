SPECIFICATION AccessSpec
CONSTANTS
  Readers = {r1, r2}
  LocalTTL = 1
  RedisTTL = 2
  MaxVersion = 2
  Secrets = {"s1", "s2"}
  Origins = {"o"}
  Usages <- MCUsages
  Requests <- MCRequests
  NoRow = NoRow
  Nothing = Nothing
  Param = Param
SYMMETRY Symmetry
PROPERTIES
  BoundedStaleness
  AccessFollowsRow
