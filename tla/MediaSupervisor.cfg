SPECIFICATION FairSpec
CONSTANTS
  Req = {r1, r2}
  MaxPending = 1
  MaxRestarts = 2
  MaxHosts = 4
INVARIANTS TypeOK RestartBudget NothingLeftBehind NothingStuck
PROPERTIES OneHost CallsSettle HostSettles ShutdownEnds
CHECK_DEADLOCK FALSE
