SPECIFICATION Spec
CONSTANTS
  Channel = {c1}
  None = None
  MaxAttempts = 1
  MaxEvents = 2
INVARIANT LossNoticed
CHECK_DEADLOCK FALSE
