SPECIFICATION Spec
CONSTANTS
  Channel = {c1, c2}
  None = None
  MaxAttempts = 2
  MaxEvents = 3
SYMMETRY ChannelSymmetry
INVARIANTS TypeOK NoStrayClaim RestIsAgreed
PROPERTIES BreakBeforeMake ConnectsToIntent ShareSurvives ModeratorEnds BackendIsAccount
CHECK_DEADLOCK FALSE
