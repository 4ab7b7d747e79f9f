SPECIFICATION FairSpec
CONSTANTS
  o1 = o1
  o2 = o2
  c1 = c1
  None = None
  ClientOp = {o1}
  ServerOp = {}
  Channel = {c1}
  ChannelOf <- OneChannel
  Job = {j1, j2}
  MaxConnects = 2
  LateRequests = FALSE
  Lapses = {"reservation", "session"}
  Failures = TRUE
PROPERTIES GhostLeaves CleanupsSettle
CHECK_DEADLOCK FALSE
