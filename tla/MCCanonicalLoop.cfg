SPECIFICATION FairSpec
CONSTANTS
  Routes = {r1}
  EveryN = 2
  MaxAnchorAge = 3
  Floors = {0, 1}
  MaxBlock = 7
  MaxReorgs = 1
INVARIANTS ApprovedGainedThrice
PROPERTIES ShutdownStops
