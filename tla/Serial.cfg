SPECIFICATION SerialSpec
CONSTANTS
  Half = 3
  TxSize = 4
  Bytes <- MCBytes
  NoByte = 255
  IfrLim = 3
  Capacity = 3
  TmoMax = 3
  Ibtr = 2
  Itor = 2
INVARIANTS Inv KickKept ZifiTypeOK
PROPERTIES ImplementsQueue SendQueue RoomIsSeen OncePerEnable TimeoutReported ReportInterrupts
