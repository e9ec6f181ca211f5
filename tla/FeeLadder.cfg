CONSTANTS
  BaseFees = {0, 5, 30}
  Tips = {0, 1, 7, 40, 100}
  GasLimits = {1, 7, 21}
  Budgets = {1, 20, 100, 735, 1500, 9000}
  BumpPercent = 15
  MaxAttempts = 5
SPECIFICATION Spec
INVARIANT TypeOK
INVARIANT BudgetCeilingAboveGas
INVARIANT SignedIsValid
INVARIANT RefusedForCause
PROPERTY NeverStepsDown
PROPERTY LadderClimbs
