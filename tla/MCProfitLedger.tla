---------------------------- MODULE MCProfitLedger ----------------------------
(* Two histories of one ledger.  Either the executor drives it over a      *)
(* chain that reorganises, with two realized losses, a realized gain and   *)
(* an estimated loss; or its calls come in any order, as the interface     *)
(* allows, for two transactions that may be recorded again.                *)
EXTENDS ConfirmedTrades, TLC

CONSTANTS l1, l2, w, e

VARIABLE caller   \* whose history it is

MCHash == {l1, l2, w, e}
MCProfits == {-1, 1}
(* The losses earn less than their gas; w's receipt has a log of another   *)
(* contract and one cut short before its own, and a second one after it;   *)
(* e's opportunity has no price and its receipt no gas.                    *)
Log(topic, ours, whole, profit) == [topic |-> topic, ours |-> ours, whole |-> whole, profit |-> profit]
MCLogsOf ==
  [h \in Hash |->
     CASE h = w -> <<Log("FlashLoanSuccess", FALSE, TRUE, -1), Log("DirectExecution", TRUE, FALSE, -1),
                     Log("DirectExecution", TRUE, TRUE, 2), Log("FlashLoanSuccess", TRUE, TRUE, 0)>>
       [] h = e -> <<Log("FlashLoanSuccess", TRUE, TRUE, 2)>>
       [] OTHER -> <<Log("Transfer", FALSE, TRUE, 2), Log("FlashLoanSuccess", TRUE, TRUE, 0)>>]
MCPriced == [h \in Hash |-> h # e]
MCEstimate == [h \in Hash |-> IF h = e THEN -1 ELSE 2]
MCGasPaid == [h \in Hash |-> IF h = e THEN NoGas ELSE 1]
MCSymmetry == Permutations({l1, l2})
MCBlocks == 0 .. MaxBlock

(* Bounds of the other callers: transactions, blocks.                      *)
AnyCallsHashes == {l1, l2}
AnyCallsBlocks == 1 .. 3

AnyCall ==
  /\ LedgerNext
  /\ \A h \in Hash \ AnyCallsHashes : trades'[h] = trades[h]
  /\ \A h \in AnyCallsHashes : trades'[h].inclusionBlock \in AnyCallsBlocks \cup {0}
  /\ promoteBlock' \in AnyCallsBlocks \cup {0}
  /\ UNCHANGED <<chainVars, executorVars>>

MCInit == Init /\ caller \in {"executor", "any"} /\ (caller = "any" => current = w)
ExecutorStep == caller = "executor" /\ Next /\ UNCHANGED caller
OtherCall == caller = "any" /\ AnyCall /\ UNCHANGED caller
MCSpec == MCInit /\ [][ExecutorStep \/ OtherCall]_<<vars, caller>>

(* Driven by the executor over a chain that reorganises, no trade is final *)
(* before a head was seen that gave it its confirmations (promote).        *)
FinalIsDeepInChain == caller = "executor" => FinalIsDeep
===============================================================================
