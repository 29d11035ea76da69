SPECIFICATION Spec
CONSTANTS
  a = a
  b = b
  s = s
  bad = bad
  NoMsg = NoMsg
  Replicas <- One
  Messages <- Mixed
  Poison <- Bad
  Prefetch = 1
  MaxPublishRetries = 3
  RewriterEnabled = FALSE
  FailureCap = 1
  MaxFaults = 0
PROPERTIES
  NoPostAfterAck
