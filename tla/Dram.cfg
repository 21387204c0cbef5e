SPECIFICATION DramSpec
CONSTANTS
  AddrSpan = 16
  Row = 2
  Addrs <- MCAddrs
  Lens = {0, 2}
  Nums = {0, 1}
  NumSpan = 2
  Controls <- MCControls
  MaxLaunches = 2
  Bandwidths <- MCBandwidths
  CpuBound = 7
INVARIANTS Inv WordsInPlace ArbiterInv CpuWaitBounded
PROPERTIES TransferEnds CpuNextKept DevicesInOrder ImplementsVideoShare
CHECK_DEADLOCK FALSE
