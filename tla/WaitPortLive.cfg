SPECIFICATION FairSpec
CONSTANTS
  GluAddrs <- MCOneGlu
  ComAddrs <- MCOneCom
  NValues = 2
  DmaDevs <- MCDmaDevs
  MaxWords = 2
  MaxResets = 1
  Shared = FALSE
  AccessAt <- MCNotInService
PROPERTIES ImplementsPortService Z80Released DmaEnds
CHECK_DEADLOCK FALSE
