SPECIFICATION FairSpec
CONSTANTS
  Bits = 5
  Timeout = 2
  PauseBits = 2
  MaxFaults = 3
  MaxKeys = 2
  InitSequence <- MCInit
  MaxHaste = 1
  MaxChanges = 1
  MouseFaults = 1
INVARIANTS Inv
PROPERTIES ArgumentExpected CommandEnds InStep MouseReady LineFreed
