SPECIFICATION FairSpec
CONSTANTS
  Containers = {web, db}
  Loads = {50, 100}
  Threshold = 80
  Duration = 2
  MaxSize = 3
  MaxQuestions = 5
INVARIANTS VerdictIsOfAllPoints StaleOnlyIfUnreached
PROPERTIES ReadersAreServed
