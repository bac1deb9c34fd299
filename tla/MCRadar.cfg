CONSTANTS
  v1 = v1
  v2 = v2
  p1 = p1
  Venues <- MCVenues
  Pairs <- MCPairs
  Levels <- MCLevels
  Threshold = 2
  FilterEnabled = TRUE
  ChannelSize = 1
  Checker = Checker
  NoOne = NoOne

SPECIFICATION RadarSpec
INVARIANTS NoPairIsSkippedTwice
