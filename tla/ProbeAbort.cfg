SPECIFICATION Spec
CONSTANTS
  k1 = k1
  k2 = k2
  Attempts <- TwoAttempts
  MaxOutages = 1
INVARIANTS
  AbortLeavesNothingOpen
