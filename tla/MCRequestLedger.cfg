SPECIFICATION FairRetrySpec
CONSTANTS
  turn = turn
  probe = probe
  probeEdited = probeEdited
  otherProbe = otherProbe
  Requests <- MCRequests
  Key <- MCKey
  Phase <- MCPhase
  MaxTokens <- MCMaxTokens
  RequestCap = 2
  ReservationCap = 4
  MaxRecovery = 1
  Allowlists <- MCAllowlists
  MaxReceipts = 6
  MaxRetries = 2
INVARIANTS
  CapsRespected
  AttemptsLinear
  WriteAhead
  RecoveryBounded
  ReplayBeginsWithRecovery
PROPERTY
  CallEnds
