SPECIFICATION LedgerSpec
CONSTANTS
  MinBackup = 1
  MaxSingle = 3
  MaxBudget = 6
  ForwardReset = 3
  MaxStep = 2
  MaxReplans = 1
  Cooldown = 2
INVARIANTS BudgetHolds OneSpin
PROPERTIES RenewalIsEarned
