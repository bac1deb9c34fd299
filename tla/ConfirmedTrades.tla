---------------------------- MODULE ConfirmedTrades ----------------------------
(***************************************************************************)
(* The profit ledger as its only caller drives it, over a chain that may   *)
(* reorganise: the success branch of send_and_confirm_transaction in       *)
(* src/core/flashloan.rs and update_execution_block, one attempt after the *)
(* other, around ProfitLedger.                                             *)
(*                                                                         *)
(* For each confirmed transaction, in this order: the head block is read   *)
(* (the read may fail), the ledger is promoted at that block, the new      *)
(* trade is recorded with the block of its receipt.  Nothing else calls    *)
(* the ledger: no timer promotes it, and neither `revert' nor              *)
(* `detect_reorg' has a caller outside the tests.                          *)
(***************************************************************************)
EXTENDS ProfitLedger

CONSTANTS
  LogsOf,     \* the logs of each transaction's receipt: topic, ours (the executor's),
              \* whole (long enough and decodable), profit
  Priced,     \* whether its opportunity has token_price_usd
  Estimate,   \* estimated_profit_usd of its opportunity
  GasPaid,    \* gas_used * effective_gas_price in dollars, or NoGas
  NoGas,
  MaxBlock,   \* the chain stops growing there (bound)
  MaxReorg    \* deepest reorganisation; 0 = none

-------------------------------------------------------------------------------
(* What is recorded of a trade                                             *)

(* The two events of the executor that carry a profit.                     *)
ProfitEvent(log) ==
  log.topic \in {"FlashLoanSuccess", "DirectExecution"} /\ log.ours /\ log.whole

(* extract_real_profit_from_receipt: the first such event, unless there is *)
(* no price to turn it into dollars.                                       *)
FirstProfit(logs) ==
  CHOOSE i \in DOMAIN logs : ProfitEvent(logs[i]) /\ \A j \in 1 .. i - 1 : ~ProfitEvent(logs[j])
Measured(h) == Priced[h] /\ \E i \in DOMAIN LogsOf[h] : ProfitEvent(LogsOf[h][i])
ContractProfit(h) == IF Measured(h) THEN LogsOf[h][FirstProfit(LogsOf[h])].profit ELSE Estimate[h]

(* realized_net_profit_after_gas_usd                                       *)
GasUsd(h) == IF GasPaid[h] = NoGas THEN 0 ELSE GasPaid[h]

ProfitOf == [h \in Hash |-> ContractProfit(h) - GasUsd(h)]
SourceOf == [h \in Hash |-> IF Measured(h) THEN "Realized" ELSE "Estimated"]

ASSUME ProfitOfAssumption == ProfitOf \in [Hash -> Profits]
ASSUME BlocksToMax == MaxBlock \in Nat \ {0} /\ 0 .. MaxBlock \subseteq Blocks
ASSUME MaxReorgAssumption == MaxReorg \in Nat

VARIABLES
  head,      \* number of the last block
  block,     \* where each transaction is in the chain; 0 = not in it
  sent,      \* transactions sent so far, the last one under way
  stage,     \* the await the executor is at
  current,   \* the attempt's transaction
  receipt    \* block number in its receipt

chainVars == <<head, block>>
executorVars == <<sent, stage, current, receipt>>
vars == <<ledgerVars, chainVars, executorVars>>

Stages == {"idle", "confirm", "readHead", "promote", "record"}

Init ==
  /\ LedgerInit
  /\ head = 1
  /\ block = [h \in Hash |-> 0]
  /\ sent = {}
  /\ stage = "idle"
  /\ current \in Hash
  /\ receipt = 0

-------------------------------------------------------------------------------
(* The chain                                                               *)

(* A block, with some of the transactions that wait for one.               *)
MineBlock ==
  /\ head < MaxBlock
  /\ head' = head + 1
  /\ \E included \in SUBSET {h \in sent : block[h] = 0} :
       block' = [h \in Hash |-> IF h \in included THEN head + 1 ELSE block[h]]
  /\ UNCHANGED <<ledgerVars, executorVars>>

(* The last blocks are replaced by as many and one more; a transaction of  *)
(* theirs is in another of them, or in none.                               *)
Reorg ==
  \E depth \in 1 .. MaxReorg :
    /\ head < MaxBlock /\ depth < head
    /\ head' = head + 1
    /\ block' \in [Hash -> 0 .. head + 1]
    /\ \A h \in Hash :
         IF block[h] > head - depth
         THEN block'[h] = 0 \/ block'[h] > head - depth
         ELSE block'[h] = block[h]
    /\ UNCHANGED <<ledgerVars, executorVars>>

-------------------------------------------------------------------------------
(* The executor                                                            *)

Trade(h) ==
  /\ stage = "idle" /\ h \notin sent
  /\ sent' = sent \cup {h} /\ current' = h
  /\ stage' = "confirm"
  /\ UNCHANGED <<ledgerVars, chainVars, receipt>>

(* The receipt with status 1.                                              *)
Confirm ==
  /\ stage = "confirm" /\ block[current] # 0
  /\ receipt' = block[current]
  /\ stage' = "readHead"
  /\ UNCHANGED <<ledgerVars, chainVars, sent, current>>

(* The attempt ends without a receipt; what was sent may be mined later.   *)
GiveUp ==
  /\ stage = "confirm"
  /\ stage' = "idle"
  /\ UNCHANGED <<ledgerVars, chainVars, sent, current, receipt>>

(* update_execution_block: get_block_number, then promote.                 *)
PromoteAtHead ==
  /\ stage = "readHead"
  /\ PromoteBegin(head)
  /\ stage' = "promote"
  /\ UNCHANGED <<chainVars, sent, current, receipt>>

HeadUnknown ==
  /\ stage = "readHead"
  /\ stage' = "record"
  /\ UNCHANGED <<ledgerVars, chainVars, sent, current, receipt>>

PromoteNext ==
  /\ stage = "promote"
  /\ \E h \in Hash : PromoteTrade(h)
  /\ UNCHANGED <<chainVars, executorVars>>

PromoteEnd ==
  /\ stage = "promote" /\ MutexFree
  /\ stage' = "record"
  /\ UNCHANGED <<ledgerVars, chainVars, sent, current, receipt>>

Record ==
  /\ stage = "record"
  /\ RecordIncluded(current, receipt, ProfitOf[current], SourceOf[current])
  /\ stage' = "idle"
  /\ UNCHANGED <<chainVars, sent, current, receipt>>

(* EXEC_TIMEOUT drops the attempt at an await; the promotion itself has    *)
(* none.                                                                   *)
Abandon ==
  /\ stage \in {"confirm", "readHead", "record"}
  /\ stage' = "idle"
  /\ UNCHANGED <<ledgerVars, chainVars, sent, current, receipt>>

Executor == Confirm \/ PromoteAtHead \/ HeadUnknown \/ PromoteNext \/ PromoteEnd \/ Record

(* Bound: all transactions are sent and the chain is at its last block.    *)
BoundReached == stage = "idle" /\ sent = Hash /\ head = MaxBlock /\ UNCHANGED vars

Next ==
  \/ MineBlock \/ Reorg
  \/ \E h \in Hash : Trade(h)
  \/ GiveUp \/ Abandon
  \/ Executor
  \/ BoundReached

Spec == Init /\ [][Next]_vars

-------------------------------------------------------------------------------
(* Properties                                                              *)

TypeOK ==
  /\ LedgerTypeOK
  /\ head \in 1 .. MaxBlock
  /\ block \in [Hash -> 0 .. MaxBlock]
  /\ sent \in SUBSET Hash
  /\ stage \in Stages
  /\ current \in Hash
  /\ receipt \in 0 .. MaxBlock

(* The ledger knows only sent transactions, with the profit that was       *)
(* realized for them, at most at the head; and no promotion runs but the   *)
(* executor's own.                                                         *)
LedgerFollowsExecutor ==
  /\ \A h \in Recorded :
       /\ h \in sent
       /\ trades[h].profit = ProfitOf[h] /\ trades[h].source = SourceOf[h]
       /\ trades[h].inclusionBlock \in 1 .. head
  /\ promoteBlock <= head
  /\ stage # "promote" => MutexFree
  /\ stage \in {"readHead", "record", "promote"} =>
       current \in sent /\ current \notin Recorded /\ receipt \in 1 .. head
  /\ stage = "confirm" => current \in sent /\ current \notin Recorded

TradesInv == TypeOK /\ LedgerFollowsExecutor

(* What is counted as final had its confirmations: the head is at least    *)
(* Confirmations blocks past the receipt's block, whatever the order of    *)
(* promotions, failed head reads and abandoned attempts.                   *)
FinalIsDeep ==
  \A h \in FinalTrades : head >= trades[h].inclusionBlock + Confirmations

RealizedLosses == {h \in FinalTrades : RealizedLoss(h)}

(* The run of losses is never longer than the final realized losses, so    *)
(* the breaker trips only with Threshold of them: none is counted twice,   *)
(* however often the ledger is promoted.                                   *)
StreakIsBackedByLosses ==
  /\ consecutiveFinalLosses <= Cardinality(RealizedLosses)
  /\ breakerTripped => Cardinality(RealizedLosses) >= Threshold

===============================================================================
