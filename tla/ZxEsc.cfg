SPECIFICATION Spec
CONSTANTS
  Phys <- MCKeys
  Codes <- MCCodes
  FifoSize = 4
  ShiftPause = 1
  MaxErrors = 0
  MaxResets = 0
INVARIANTS OnceWithEsc
