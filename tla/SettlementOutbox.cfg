SPECIFICATION FairSpec
CONSTANTS
  Workers = {w1, w2}
  Settlements = {1, 2, 3}
  Refusable = {2}
  BatchSize = 2
  MaxFaults = 2
CHECK_DEADLOCK FALSE
INVARIANTS AppliedOnce OneOwner
PROPERTIES SettledIsFinal EventuallySettled
