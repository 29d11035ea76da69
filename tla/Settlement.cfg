SPECIFICATION LiveSpec
CONSTANTS
  a = a
  b = b
  s = s
  bad = bad
  NoMsg = NoMsg
  Replicas <- One
  Messages <- Mixed
  Poison <- Bad
  Prefetch = 2
  MaxPublishRetries = 3
  RewriterEnabled = TRUE
  FailureCap = 1
  MaxFaults = 2
PROPERTIES
  ShutdownCompletes
  SettlesEverySignal
