SPECIFICATION FairSpecC
CONSTANTS
  Threads = {loop, monitor}
  MaxFailures = 2
  Window = 1
  Loop = loop
  MaxAttempts = 2
  MaxTurns = 1
  MaxClears = 1
INVARIANTS ClearIsFinal SessionIsInOrder LocalIsInOrder
PROPERTIES OfflineAnswersAreRecent AgentIsTriedAgain
