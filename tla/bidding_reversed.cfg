SPECIFICATION FairSpec
CONSTANTS
  Registrations <- MCRegistrations
  Requested <- MCRequested
  Days <- ReversedDays
  Budgets <- MCBudgets
  Criteria <- MCCriteria
  MAX_RE_EVALS = 2
INVARIANT
  WithinBudget
