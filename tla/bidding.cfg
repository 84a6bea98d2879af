SPECIFICATION FairSpec
CONSTANTS
  Registrations <- MCRegistrations
  Requested <- MCRequested
  Days <- ForwardDays
  Budgets <- MCBudgets
  Criteria <- MCCriteria
  MAX_RE_EVALS = 2
INVARIANTS
  TypeOK
  WithinBudget
  WinnerUndominated
  WinnerUnitFree
PROPERTIES
  Decided
