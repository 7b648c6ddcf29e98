SPECIFICATION SpecH
CONSTANTS
  c1 = c1
  c2 = c2
  disk1 = disk1
  mem1 = mem1
  cpu1 = cpu1
  Containers <- NoResources
  ResourceKeys <- Resources
  KindOf <- KindOfResources
  Cooldown = 1
  LoopWindow = 1
  RcaFresh = 1
  SnoozeDurations = {1}
  DiskFails = TRUE
PROPERTIES CooldownHolds
