SPECIFICATION Spec
CONSTANTS
  MaxSize = 2
  MaxFiles = 3
  MaxEntries = 9
INVARIANTS RetainedInOrder ChainIsUnbroken UnrotatedLogVerifies LastEventIsFound
PROPERTIES OnlyTheOldestIsDropped
