SPECIFICATION Spec
CONSTANTS
  o1 = o1
  o2 = o2
  c1 = c1
  None = None
  ClientOp = {o1}
  ServerOp = {o2}
  Channel = {c1}
  ChannelOf <- OneChannel
  Job = {j1, j2}
  MaxConnects = 1
  LateRequests = TRUE
  Lapses = {"reservation", "session"}
  Failures = FALSE
SYMMETRY JobSymmetry
INVARIANTS TypeOK Anchored RetiredTracked CleanupSparesMember MemberTold
PROPERTIES Succession OneAuthority
CHECK_DEADLOCK FALSE
