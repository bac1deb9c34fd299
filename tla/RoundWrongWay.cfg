SPECIFICATION RoundSpec
CONSTANTS
  Tokens = {1, 2, 3}
  Pools = {1, 2, 3, 4}
  Sides <- MCSides
  Protocol <- MCProtocol
  Out <- MCOut
  Input <- MCSameInput
  Cost = 3
  MaxRoutes = 4
  Concurrency = 2
  PairConcurrency = 2
  MaxBranches = 1
  MaxLost = 1
INVARIANT LegsAreQuotedTheirWay
