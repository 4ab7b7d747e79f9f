SPECIFICATION Spec
CONSTANTS
  o1 = o1
  o2 = o2
  c1 = c1
  None = None
  ClientOp = {o1, o2}
  ServerOp = {}
  Channel = {c1}
  ChannelOf <- OneChannel
  Job = {j1, j2}
  MaxConnects = 1
  LateRequests = FALSE
  Lapses = {}
  Failures = FALSE
PROPERTY OwnResourcesOnly
CHECK_DEADLOCK FALSE
