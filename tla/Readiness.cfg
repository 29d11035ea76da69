SPECIFICATION ServedSpec
CONSTANTS
  k1 = k1
  Attempts <- OneAttempt
  MaxOutages = 1
INVARIANTS
  TypeOK
  HealthIsTrue
  SignalsAreRouted
PROPERTIES
  RefinesProbe
  ShutdownExits
  EventuallyServes
