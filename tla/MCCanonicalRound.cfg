SPECIFICATION RoundSpec
CONSTANTS
  Tokens = {1, 2, 3}
  Pools = {1, 2, 3, 4}
  Sides <- MCSides
  Protocol <- MCProtocol
  Out <- MCOut
  Input <- MCInput
  Cost = 3
  MaxRoutes = 3
  Concurrency = 2
  PairConcurrency = 2
  MaxBranches = 1
  MaxLost = 2
INVARIANTS EvidenceIsGenuine PoolsStandAlone
