SPECIFICATION Spec
CONSTANTS
  MaxRounds = 5
  Agents = 2
  InitialBudget = 3
  Costs <- MCCosts
  Cooldown = 1
  FaultKinds = {"provider", "control", "stale", "log"}
  MaxFaults = 2
INVARIANTS
  BudgetBacked
  CooldownKept
  EveryPlanEnds
  FinishedRunReplays
PROPERTIES
  KeepsContract
CHECK_DEADLOCK FALSE
