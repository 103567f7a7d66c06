SPECIFICATION BatchSpec
CONSTANTS
  r1 = r1
  r2 = r2
  RunOrder <- MCRunOrder
  NoRun = NoRun
  Runs <- MCRuns
  LedgerOf <- MCLedgerOf
  ProbeCount = 1
  TurnCount = 1
  RequestCap <- MCCap
  ReservationCap <- MCCap
  MaxRecovery = 1
  FaultKinds = {"probe", "invalid"}
  MaxFaults = 2
INVARIANTS
  OrdinaryResumeNeverReplays
CHECK_DEADLOCK FALSE
