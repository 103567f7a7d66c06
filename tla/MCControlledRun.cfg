SPECIFICATION Spec
CONSTANTS
  MaxRounds = 3
  AgentCount = 2
  Cards = {"early", "late"}
  Introduced <- MCIntroduced
  Audience <- MCAudience
  Plans <- MCPlans
  NoPlan = NoPlan
  FaultKinds = {"provider", "log", "record", "schedule"}
  MaxFaults = 2
INVARIANTS ViewsAsPlanned TurnsAnswered RecordedReplays
CHECK_DEADLOCK FALSE
