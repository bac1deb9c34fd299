CONSTANTS
  S = S
  M = M
  H = H
  v1 = v1
  v2 = v2
  v3 = v3
  Tokens <- MCTokens
  Stables <- MCStables
  Midcaps <- MCMidcaps
  Anchors <- MCAnchors
  Venues <- MCAllVenues
  PriceMaps <- MCPriceMaps
  Untiered <- MCUntiered
  CrossDex = {TRUE, FALSE}
  Plausible = 80
  MinSpread = 5
  MinTriangleProfit = 6
  MaxSpread = 100
  MaxHops = 3
  GasPerHop = 4
  Premium = 5
  MinProfit = 2
  SlippageCap = 40
  HopIncrease = 12
  EdgeMargin = 3
  RouteLimit = 60
  PublicEdge = 6
  MinSlippage = 5
  Before <- MCBefore

  Adapters <- MCAdapters
  Kind <- MCKind
  Directions <- MCDirections
  PoolTokens <- MCPoolTokens
  Markets <- MCMarkets
  BatchSize = 2
  Threshold <- MCThreshold
  MinLiquidity = 4
  MinPerHop = 4
  Pegged <- MCStables
  Deviation = 60
  Extreme = 80
  Reciprocity <- MCReciprocity
  MaxScans = 2
  MaxFaults = 1

  Configs <- MCConfigs
  Supported <- MCSupported
  TopN = 2
  ObserveMax = 2
  Fees = {3, 30}
  LoanOverhead = 2
  Premiums = {4, 12}
  Adverse = 3
  Tick = 4
  MaxReloads = 1

SPECIFICATION PreparationSpec
INVARIANTS RoutesAreClosedChains NoTripIsLost PlanFitsItsAllowance  TierIsTheQuoted ThinPoolsAreCut NoPairIsHiddenByAnother SentCoversItsCosts SentWasRehearsed
