SPECIFICATION FairSpec
CONSTANTS
  Logs = {l1, l2, l3}
  Workers = {w1, w2}
  BufferSize = 1
  NoLog = NoLog
  NoExchange = 0
  Exchanges = {1, 2, 3, 4, 5, 6, 7, 8}
  Content <- MCContent
  MaxBodyBytes = 4
  MaxBodySize = 6
  FilteredHeaders = {"bssm-dev-token", "bssm-dev-secret", "host"}
  SensitiveNames = {"authorization", "bssm-dev-token", "bssm-dev-secret"}
  RemovedHeaders = {"vary", "connection"}
  AllowedTypes <- MCAllowedTypes
  OctetStream = OctetStream
  JSON = JSON
  Binary = Binary
  Stars = Stars
INVARIANTS
  EveryLogInOnePlace
  DrainedWhenStopped
  LogTellsTruth
  CredentialsAreMasked
PROPERTIES
  ImplementsLogSink
  BufferedIsSettled
  SignalEndsProcess
