SPECIFICATION FairSpec
CONSTANTS
  p1 = p1
  p2 = p2
  e1 = e1
  e2 = e2
  s1 = s1
  s2 = s2
  Plans = {p1, p2}
  Entries = {e1, e2}
  Checkers = {s1, s2}
  Callers = {u1}
  Crons = {1, 2}
  MaxTime = 2
  Budgets <- MCBudgets
CHECK_DEADLOCK FALSE
INVARIANTS StatusIsMeant OnceEach
PROPERTIES TriggersMoveForward DueIsTriggered
