SPECIFICATION FairSpec
CONSTANTS
  Op = {o1}
  MaxSocket = 3
  MaxAsked = 2
INVARIANTS TypeOK NothingLost
PROPERTY Answered
CHECK_DEADLOCK FALSE
