SPECIFICATION SpecParts
CONSTANTS
  Senders = {ana, budi, stranger}
  Operators = {ana, budi}
  Minute = 4
  Cost = 4
  Rate = 3
  Keys = {k1, k2}
  Durations = {1, 2}
  Chats = 2
  BufSize = 2
  Alerts = 4
INVARIANTS MinuteIsBounded GrantedIsInForce GrantedIsOnDisk ShownInOrder NothingVanishes
PROPERTIES RestIsEnough IsATokenBucket AnswersAreHonest MonitorNeverWaits AcceptedIsTried
CHECK_DEADLOCK FALSE
