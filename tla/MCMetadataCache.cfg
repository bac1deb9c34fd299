SPECIFICATION FairSpec
CONSTANTS
  Keys = {k1}
  Workers = {w1, w2, w3}
  NoKey = NoKey
  Nobody = Nobody
  NoCell = NoCell
  TTL = 2
  MaxBlock = 3
  MaxReorgs = 1
  CellIds = {c1, c2, c3, c4}
  MaxLookups = 4
INVARIANTS AtMostOneCall
PROPERTIES LookupsEnd ImplementsOracle
