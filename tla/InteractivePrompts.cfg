SPECIFICATION LiveSpec
CONSTANTS
  m1 = m1
  m2 = m2
  m3 = m3
  a1 = a1
  a2 = a2
  Messages = {m1, m2, m3}
  Answers = {a1, a2}
  Budgets <- MCBudgets
CHECK_DEADLOCK FALSE
INVARIANTS AgentIsSeen
PROPERTIES MessagesAreKept BusyEnds
