SPECIFICATION FairSpec
CONSTANTS
  Phys <- MCKeys
  Codes <- MCCodes
  FifoSize = 4
  ShiftPause = 1
  MaxErrors = 1
  MaxResets = 1
INVARIANTS Inv
PROPERTIES ShiftShownFirst HeldKeySeen
