------------------------- MODULE MCFlashloanExecutor -------------------------
(* Two tokens, the owner and another sender, one wrapper; routes there and *)
(* back, and one that does not come back.                                  *)
EXTENDS FlashloanExecutor

CONSTANTS usdc, wmatic, matic, owner, relayer, wrapper, none

MCToken == {usdc, wmatic}
MCAccount == {owner, relayer}
MCWrapper == {wrapper}

Hop(from, to, min) == [tokenIn |-> from, tokenOut |-> to, amountOutMin |-> min]
MCRoutes == {<<Hop(usdc, wmatic, 1), Hop(wmatic, usdc, 1)>>,
             <<Hop(wmatic, usdc, 1), Hop(usdc, wmatic, 2)>>,
             <<Hop(usdc, wmatic, 1)>>}
MCAmounts == {2}
MCPremium == [a \in MCAmounts |-> 1]
MCMinProfits == {0, 1}
MCReceived == {1, 3, 4}
MCMinAmounts == {1, 3}
===============================================================================
