SPECIFICATION FairSpec
CONSTANTS
  t1 = t1
  t2 = t2
  Tasks = {t1, t2}
  Planned = {t2}
  Procs = {p1, p2}
  Max = 1
  MaxTries = 1
  Budgets <- MCBudgets
CHECK_DEADLOCK FALSE
INVARIANTS TasksAreSound
PROPERTIES LateStartsAreRefused SlotsComeBack
