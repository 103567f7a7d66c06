SPECIFICATION FairSpec
CONSTANTS
  r1 = r1
  NoRun = NoRun
  Runs <- MCRuns
  LedgerOf <- MCLedgerOf
  ProbeCount = 3
  TurnCount = 2
  RequestCap <- MCCap
  ReservationCap <- MCCap
  MaxRecovery = 1
  FaultKinds = {"probe", "turn", "receipt", "invalid", "save", "crash"}
  MaxFaults = 3
INVARIANTS
  FrontierHolds
  TurnsNeverReplayed
  CompletedIsWhole
PROPERTIES
  FinishedUnlessWedged
  ImplementsProtocol
