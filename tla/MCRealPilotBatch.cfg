SPECIFICATION FairPilotSpec
CONSTANTS
  r1 = r1
  r2 = r2
  RunOrder <- MCRunOrder
  NoRun = NoRun
  Runs <- MCRuns
  LedgerOf <- MCLedgerOf
  ProbeCount = 2
  TurnCount = 1
  RequestCap <- MCCap
  ReservationCap <- MCCap
  MaxRecovery = 1
  FaultKinds = {"probe", "turn", "receipt", "invalid", "save", "crash"}
  MaxFaults = 2
INVARIANTS
  GroupStopsAtFailure
  SummaryMeansComplete
PROPERTIES
  GroupUnlessStuck
CHECK_DEADLOCK FALSE
