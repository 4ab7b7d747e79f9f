SPECIFICATION FairSpec
CONSTANTS
  User = {u1, u2}
  Pair = {u1, u2}
  NoCall = NoCall
  Nobody = Nobody
  MaxJoins = 3
  MaxTasks = 2
  MaxDeadline = 2
INVARIANTS TypeOK
PROPERTIES OnlyOverdue CallSettles
CHECK_DEADLOCK FALSE
