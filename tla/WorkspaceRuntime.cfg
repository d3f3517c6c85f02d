SPECIFICATION WorkspaceLiveSpec
CONSTANTS
  s1 = s1
  s2 = s2
  s3 = s3
  Sessions = {s1, s2, s3}
  Allowances <- MCAllowances
CHECK_DEADLOCK FALSE
INVARIANTS BridgeIsAccountedFor
PROPERTIES EverySessionIsServed DeadBridgeIsNoticedOrPending
