SPECIFICATION FairSpec
CONSTANTS
  c1 = c1
  c2 = c2
  Callers = {c1, c2}
  LastExec = 2
  Contents = {a, b}
  Budgets <- MCBudgets
CHECK_DEADLOCK FALSE
INVARIANTS RecordMatchesWechat OneDraft
PROPERTIES DraftIsKept AcceptedIsFound
