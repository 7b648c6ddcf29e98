SPECIFICATION Spec
CONSTANTS
  MaxSize = 2
  MaxFiles = 2
  MaxEntries = 6
INVARIANTS OwnLogVerifies
