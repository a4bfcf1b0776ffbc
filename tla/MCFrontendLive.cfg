SPECIFICATION FairTimersSpec
CONSTANTS
  m1 = m1
  m2 = m2
  Markets = {m1}
  MaxSockets = 2
  MaxClientId = 3
  MaxVersion = 1
  MaxMarkets = 1
  MaxSilent = 0
  Scenarios <- LiveScenarios
CHECK_DEADLOCK FALSE
PROPERTIES
  PagesShown
  MountedGetsStorage
  DeadConnectionsForgotten
