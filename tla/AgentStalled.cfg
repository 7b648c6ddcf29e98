SPECIFICATION FairSpec
CONSTANTS
  Containers = {"c1", "c2"}
  Intents <- MCIntents
  MaxTurns = 2
  MaxCalls = 1
  Attempts = 3
  MaxUpdates = 2
  MaxCrashes = 0
PROPERTIES StallsDoNotFreeze
CHECK_DEADLOCK FALSE
