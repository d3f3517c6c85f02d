SPECIFICATION FairSpec
CONSTANTS
  m1 = m1
  m2 = m2
  a1 = a1
  u1 = u1
  u2 = u2
  k1 = k1
  k2 = k2
  g1 = g1
  g2 = g2
  b1 = b1
  Media = {m1, m2}
  Artifacts = {a1}
  Users = {u1, u2}
  Cleaners = {k1, k2}
  Good = {g1, g2}
  Bad = {b1}
  Budgets <- MCBudgets
CHECK_DEADLOCK FALSE
INVARIANTS UploadsAreBacked
PROPERTIES ClaimsAreRespected SessionEndsOrIsStuck
