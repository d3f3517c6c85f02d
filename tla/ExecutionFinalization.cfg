SPECIFICATION FinalizationFairSpec
CONSTANTS
  MaxAttempts = 2
  Finalizers = {f1, f2}
  Inputs = {i1}
  Failures = {"platform_error"}
  Budgets <- MCBudgets
CHECK_DEADLOCK FALSE
INVARIANTS  StagesHaveEffects
PROPERTIES  FinalizationEnds
