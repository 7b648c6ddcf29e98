SPECIFICATION FairSpec
CONSTANTS
  Containers = {"c1", "c2"}
  Intents <- MCIntents
  MaxTurns = 2
  MaxCalls = 1
  Attempts = 3
  MaxUpdates = 3
  MaxCrashes = 1
INVARIANTS OperatorsDecide ChangesAreRecorded DeadlineEndsIt
PROPERTIES EveryUpdateEnds
CHECK_DEADLOCK FALSE
