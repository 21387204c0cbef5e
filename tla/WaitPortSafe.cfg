SPECIFICATION Spec
CONSTANTS
  GluAddrs <- MCGluAddrs
  ComAddrs <- MCComAddrs
  NValues = 1
  DmaDevs <- MCDmaAnyDev
  MaxWords = 2
  MaxResets = 1
  Shared = FALSE
  AccessAt <- MCNotInService
INVARIANTS Inv AnsweredByOwnService DmaBytesOwn
CHECK_DEADLOCK FALSE
