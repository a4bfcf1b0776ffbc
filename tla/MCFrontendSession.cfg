SPECIFICATION Spec
CONSTANTS
  m1 = m1
  m2 = m2
  Markets = {m1, m2}
  MaxSockets = 3
  MaxClientId = 4
  MaxVersion = 2
  MaxMarkets = 2
  MaxSilent = 1
  Scenarios <- SafetyScenarios
CHECK_DEADLOCK FALSE
INVARIANTS
  SessionsInStep
  DeltasContinue
  QuietClientCurrent
  ShownFromOneSession
