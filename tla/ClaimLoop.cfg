\* All calls with up to three indices over two slots.
CONSTANTS
  MaxFarmedAssets = 2
  MaxRequests = 3
  MaxReward = 2
  MaxLimit = 2
SPECIFICATION LoopSpec
INVARIANTS PaysEachOnce StoredIffPayable
CHECK_DEADLOCK FALSE
