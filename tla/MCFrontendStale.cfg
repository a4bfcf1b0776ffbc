SPECIFICATION Spec
CONSTANTS
  m1 = m1
  m2 = m2
  Markets = {m1}
  MaxSockets = 2
  MaxClientId = 0
  MaxVersion = 0
  MaxMarkets = 1
  MaxSilent = 0
  Scenarios <- StaleScenarios
INVARIANTS
  EntitiesNotRegisteredTwice
CHECK_DEADLOCK FALSE
