CONSTANTS
  MaxNonce = 3
  KillThreshold = 2
  MaxOps = 2
  TopN = 2
  MaxRetries = 3
  MaxReplace = 2
  Multiplier = 150
  Ceiling = 3
  BaseFees <- MCFees
  Configs <- MCOpenOrClosed
SPECIFICATION FairSpec
INVARIANTS
  ExecutedAtMostOnce
  AbortedMeansNothingSent
PROPERTIES CycleEnds ImplementsTrades
