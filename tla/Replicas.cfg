SPECIFICATION LiveSpec
CONSTANTS
  a = a
  b = b
  s = s
  bad = bad
  NoMsg = NoMsg
  Replicas <- Pair
  Messages <- Single
  Poison <- None
  Prefetch = 1
  MaxPublishRetries = 1
  RewriterEnabled = FALSE
  FailureCap = 1
  MaxFaults = 2
INVARIANTS
  ExclusiveHandling
  AckedMeansCompleted
  DuplicatesAreExplained
PROPERTIES
  SettlesEverySignal
