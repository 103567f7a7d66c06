SPECIFICATION GateSpec
CONSTANTS
  a = a
  b = b
  Launchers <- MCLaunchers
  Cases = 2
  MaxLaunches = 3
  MaxEdits = 1
  MaxFaults = 1
SYMMETRY MCSymmetry
INVARIANTS
  EvidenceKept
  NoSilentRerun
  ClaimExplained
  QualifiedIsWhole
  LadderClimbed
CHECK_DEADLOCK FALSE
