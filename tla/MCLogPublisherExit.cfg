SPECIFICATION Spec
CONSTANTS
  Logs = {l1, l2}
  Workers = {w1}
  BufferSize = 2
  NoLog = NoLog
  NoExchange = 0
  Exchanges = {1}
  Content <- MCContent
  MaxBodyBytes = 4
  MaxBodySize = 6
  FilteredHeaders = {"bssm-dev-token", "bssm-dev-secret", "host"}
  SensitiveNames = {"authorization", "bssm-dev-token", "bssm-dev-secret"}
  RemovedHeaders = {"vary", "connection"}
  AllowedTypes <- MCAllowedTypes
  OctetStream = OctetStream
  JSON = JSON
  Binary = Binary
  Stars = Stars
INVARIANTS
  NothingLeftBehind
