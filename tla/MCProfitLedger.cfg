CONSTANTS
  l1 = l1
  l2 = l2
  w = w
  e = e
  Hash <- MCHash
  Profits <- MCProfits
  LogsOf <- MCLogsOf
  Priced <- MCPriced
  Estimate <- MCEstimate
  GasPaid <- MCGasPaid
  NoGas = NoGas
  Blocks <- MCBlocks
  Confirmations = 2
  Threshold = 2
  MaxReverts = 1
  MaxLosses = 3
  MaxBlock = 5
  MaxReorg = 1

SPECIFICATION MCSpec
SYMMETRY MCSymmetry
INVARIANTS BooksBalance 
PROPERTIES BreakerCountsRealizedFinalLosses
