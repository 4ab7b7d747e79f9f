SPECIFICATION FairSpec
CONSTANTS
  Key = {k1, k2}
  SlotOf <- OneSlot
  Cap = 1
  MaxEpoch = 2
  MaxRenderer = 1
  MaxInbox = 2
INVARIANTS TypeOK NoReuseWhileRead TextureTracked BridgeHasRoom ReleaseKept
PROPERTY ReleaseArrives
CHECK_DEADLOCK FALSE
