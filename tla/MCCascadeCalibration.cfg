SPECIFICATION FairCalibrationSpec
CONSTANTS
  r1 = r1
  r2 = r2
  a1 = a1
  a2 = a2
  Runs <- MCRuns
  RunOrder <- MCRunOrder
  AgentOrder <- MCAgents
  Rounds = 3
  Targets <- MCTargets
  Policy <- MCPolicy
  FaultKinds = {"timeout", "cut", "invalid", "crash"}
  MaxFaults = 2
INVARIANTS
  SeenFromEarlierRounds
  LogsInStep
  RetriedOnce
PROPERTIES
  CalibratedUnlessStuck
CHECK_DEADLOCK FALSE
