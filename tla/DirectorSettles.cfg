SPECIFICATION FairSpec
CONSTANTS
  Channel = {c1}
  None = None
  MaxAttempts = 2
  MaxEvents = 3
PROPERTIES IntentSettles
CHECK_DEADLOCK FALSE
