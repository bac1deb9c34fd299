CONSTANTS
  usdc = usdc
  wmatic = wmatic
  matic = matic
  owner = owner
  relayer = relayer
  wrapper = wrapper
  none = none
  Token <- MCToken
  Wmatic = wmatic
  Native = matic
  Account <- MCAccount
  Owner = owner
  Wrapper <- MCWrapper
  NoWrapper = none
  Amounts <- MCAmounts
  Premium <- MCPremium
  MinProfits <- MCMinProfits
  Routes <- MCRoutes
  Received <- MCReceived
  MinAmounts <- MCMinAmounts
  MaxBlock = 2
  MaxTxs = 2

SPECIFICATION Spec
INVARIANTS OwnHoldingsUntouched BooksAreTrue NobodyLoses
PROPERTIES ProfitGoesToOwner
