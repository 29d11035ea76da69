SPECIFICATION HeartbeatSpec
CONSTANTS
  k1 = k1
  Attempts <- OneAttempt
  MaxOutages = 0
PROPERTIES
  ConnectReturns
