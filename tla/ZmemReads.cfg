SPECIFICATION Spec
CONSTANTS
  Addrs <- MCAddrs
  Written <- MCWritten
  Turbos <- MCTurbos
  MaxBusy = 3
INVARIANTS ReadWaitTable
