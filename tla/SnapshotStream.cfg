SPECIFICATION FairSpec
CONSTANTS
  none = none
  o1 = o1
  o2 = o2
  NoMembership = none
  Membership = {none, o1, o2}
  Publisher = {p1, p2}
  MaxChanges = 2
  MaxVersion = 3
INVARIANT LatestIsCurrent
PROPERTY Converges
CHECK_DEADLOCK FALSE
