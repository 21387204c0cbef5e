SPECIFICATION FairSpec
CONSTANTS
  Addrs <- MCAddrs
  Written <- MCWritten
  Turbos <- MCTurbos
  MaxBusy = 3
INVARIANTS Inv WaitTable
PROPERTIES ClockRuns
