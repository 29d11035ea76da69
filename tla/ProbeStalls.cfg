SPECIFICATION StalledSpec
CONSTANTS
  k1 = k1
  k2 = k2
  Attempts <- TwoAttempts
  MaxOutages = 0
PROPERTIES
  CheckReturns
