SPECIFICATION SpecD
CONSTANTS
  c1 = c1
  c2 = c2
  disk1 = disk1
  mem1 = mem1
  cpu1 = cpu1
  Containers <- OneContainer
  ResourceKeys <- NoResources
  KindOf <- NoKinds
  Cooldown = 1
  LoopWindow = 5
  RcaFresh = 1
  SnoozeDurations = {1}
  DiskFails = FALSE
PROPERTIES CrashLoopsAreDetected
