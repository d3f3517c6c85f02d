SPECIFICATION FairSpec
CONSTANTS
  c1 = c1
  c2 = c2
  Callers = {c1, c2}
  MaxPolls = 2
  Budgets <- MCBudgets
CHECK_DEADLOCK FALSE
INVARIANTS SubmissionsAreSound
PROPERTIES PublishedStays SubmissionIsSettled
