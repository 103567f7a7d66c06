SPECIFICATION FairBatchSpec
CONSTANTS
  r1 = r1
  r2 = r2
  Runs = {r1, r2}
  RunOrder <- MCRunOrder
  Homes = {h1, h2}
  NoHome = NoHome
  Launches = {l1, l2}
  MishapKinds = {"provider", "write", "crash"}
  MaxMishaps = 2
INVARIANTS SpokenOnce RecordBacked
PROPERTY EveryBatchEnds
CHECK_DEADLOCK FALSE
