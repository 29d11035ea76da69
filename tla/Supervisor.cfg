SPECIFICATION Spec
CONSTANTS
  a = a
  b = b
  s = s
  bad = bad
  NoMsg = NoMsg
  Replicas <- One
  Messages <- Mixed
  Poison <- Bad
  Prefetch = 2
  MaxPublishRetries = 3
  RewriterEnabled = TRUE
  FailureCap = 6
  MaxFaults = 2
INVARIANTS
  TypeOK
  DeliveriesAreHeld
  SessionsAreReleased
  AckedMeansCompleted
  DuplicatesAreExplained
PROPERTIES
  SettlesTruthfully
  NoRequestAfterAck
  BackoffFollowsSchedule
