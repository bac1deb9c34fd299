----------------------------- MODULE ProfitLedger -----------------------------
(***************************************************************************)
(* The profit ledger of src/core/profit_ledger.rs.                         *)
(*                                                                         *)
(* Every execution whose receipt came back with status 1 is a trade.  Its  *)
(* profit is provisory until the chain is `Confirmations' blocks past the  *)
(* block that included it, and final from then on.  A run of `Threshold'   *)
(* realized final losses trips the loss breaker.                           *)
(*                                                                         *)
(* The ledger lives behind one mutex, so a call is one step, except        *)
(* `promote': it walks the keys of a HashMap, whose order is arbitrary and *)
(* decides what the breaker sees.  The walk is therefore one step per key  *)
(* (PromoteBegin, then PromoteTrade of any key not visited yet) with the   *)
(* mutex held, that is, with every other call disabled until it is done.   *)
(*                                                                         *)
(* TradeFinality::Pending is never constructed by the code and is left     *)
(* out; the block count carried by Confirmed(n) is display only.  Dollars  *)
(* are integers.                                                           *)
(***************************************************************************)
EXTENDS Integers, FiniteSets, FiniteSetsExt

CONSTANTS
  Hash,           \* transaction hashes
  Profits,        \* the signed profits a trade may have
  Confirmations,  \* profit_confirmations of the configuration
  Threshold,      \* loss_breaker_threshold of the configuration
  Blocks,         \* block numbers (bound)
  MaxReverts,     \* bound on reverted trades
  MaxLosses       \* bound on the run of losses

ASSUME HashAssumption == IsFiniteSet(Hash)
ASSUME ProfitsAssumption == Profits \subseteq Int
ASSUME ConfirmationsAssumption == Confirmations \in Nat
ASSUME ThresholdAssumption == Threshold \in Nat
ASSUME BlocksAssumption == Blocks \subseteq Nat

VARIABLES
  trades,                  \* the HashMap: hash -> entry, NoTrade where absent
  provisoryProfit,         \* provisory_profit_usd
  finalProfit,             \* final_profit_usd
  reorgReverted,           \* reorg_reverted_trades
  consecutiveFinalLosses,  \* consecutive_final_losses
  breakerTripped,          \* breaker_tripped
  toPromote,               \* keys `promote' has still to visit; {} = mutex free
  promoteBlock             \* the current_block argument of that call

ledgerVars == <<trades, provisoryProfit, finalProfit, reorgReverted,
                consecutiveFinalLosses, breakerTripped, toPromote, promoteBlock>>

Source == {"Realized", "Estimated"}

Entry == [inclusionBlock : Nat, state : {"Absent", "Included", "Confirmed", "Final"},
          profit : Int, source : Source]

NoTrade == [inclusionBlock |-> 0, state |-> "Absent", profit |-> 0,
            source |-> "Estimated"]

Recorded == {h \in Hash : trades[h].state # "Absent"}
FinalTrades == {h \in Hash : trades[h].state = "Final"}
ProvisoryTrades == {h \in Hash : trades[h].state \in {"Included", "Confirmed"}}

MutexFree == toPromote = {}

LedgerInit ==
  /\ trades = [h \in Hash |-> NoTrade]
  /\ provisoryProfit = 0
  /\ finalProfit = 0
  /\ reorgReverted = 0
  /\ consecutiveFinalLosses = 0
  /\ breakerTripped = FALSE
  /\ toPromote = {}
  /\ promoteBlock = 0

-------------------------------------------------------------------------------
(* What a hash contributes to the total of the trades of one side.         *)
BookedNothing(h, side) == 0   \* mutant: a second record takes nothing back
Booked(h, side) == IF h \in side THEN trades[h].profit ELSE 0

(* record_included: what the hash was booked for before, if anything, is   *)
(* taken back from the side it was booked on.                              *)
RecordIncluded(h, block, profit, source) ==
  /\ MutexFree
  /\ provisoryProfit' = provisoryProfit - Booked(h, ProvisoryTrades) + profit
  /\ finalProfit' = finalProfit - Booked(h, FinalTrades)
  /\ trades' = [trades EXCEPT ![h] =
                  [inclusionBlock |-> block, state |-> "Included",
                   profit |-> profit, source |-> source]]
  /\ UNCHANGED <<reorgReverted, consecutiveFinalLosses, breakerTripped,
                 toPromote, promoteBlock>>

(* promote, its first line: the keys to walk are collected.                *)
PromoteBegin(block) ==
  /\ MutexFree
  /\ toPromote' = Recorded
  /\ promoteBlock' = block
  /\ UNCHANGED <<trades, provisoryProfit, finalProfit, reorgReverted,
                 consecutiveFinalLosses, breakerTripped>>

(* current_block.saturating_sub(inclusion_block)                           *)
DepthWithOwnBlock(block, inclusionBlock) ==   \* mutant: the block itself counts
  IF block >= inclusionBlock THEN block - inclusionBlock + 1 ELSE 0
Depth(block, inclusionBlock) ==
  IF block >= inclusionBlock THEN block - inclusionBlock ELSE 0

PromotedState(entry, block) ==
  LET n == Depth(block, entry.inclusionBlock) IN
  IF entry.state = "Final" \/ n >= Confirmations THEN "Final"
  ELSE IF n > 0 THEN "Confirmed" ELSE "Included"

(* The breaker looks at a trade once, when it becomes final: a realized    *)
(* loss lengthens the run, a realized gain ends it, an estimate is ignored.*)
CountAnyFinal(entry) ==           \* mutant: estimates count like realized profits
  /\ consecutiveFinalLosses' = IF entry.profit < 0 THEN consecutiveFinalLosses + 1 ELSE 0
  /\ breakerTripped' = (breakerTripped \/ consecutiveFinalLosses' >= Threshold)
CountFinal(entry) ==
  IF entry.source = "Estimated"
  THEN UNCHANGED <<consecutiveFinalLosses, breakerTripped>>
  ELSE IF entry.profit < 0
  THEN /\ consecutiveFinalLosses' = consecutiveFinalLosses + 1
       /\ breakerTripped' = (breakerTripped \/ consecutiveFinalLosses' >= Threshold)
  ELSE /\ consecutiveFinalLosses' = 0
       /\ UNCHANGED breakerTripped

BecomesFinal(entry, state) == state = "Final" /\ entry.state # "Final"

(* promote, one turn of its loop: one key, chosen by the hash map.         *)
PromoteTrade(h) ==
  LET entry == trades[h]
      state == PromotedState(entry, promoteBlock)
  IN
  /\ h \in toPromote
  /\ toPromote' = toPromote \ {h}
  /\ trades' = [trades EXCEPT ![h].state = state]
  /\ IF BecomesFinal(entry, state)
     THEN /\ provisoryProfit' = provisoryProfit - entry.profit
          /\ finalProfit' = finalProfit + entry.profit
          /\ CountFinal(entry)
     ELSE UNCHANGED <<provisoryProfit, finalProfit, consecutiveFinalLosses,
                      breakerTripped>>
  /\ UNCHANGED <<reorgReverted, promoteBlock>>

(* revert: a provisory trade whose transaction left the chain is removed   *)
(* and the run of losses starts over; an unknown or final one is refused.  *)
Revert(h) ==
  /\ MutexFree
  /\ h \in ProvisoryTrades
  /\ provisoryProfit' = provisoryProfit - trades[h].profit
  /\ trades' = [trades EXCEPT ![h] = NoTrade]
  /\ reorgReverted' = reorgReverted + 1
  /\ consecutiveFinalLosses' = 0
  /\ UNCHANGED <<finalProfit, breakerTripped, toPromote, promoteBlock>>

(* Every call the ledger accepts, in any order, at any head block: the     *)
(* head read from an RPC node may be older than an earlier one.            *)
LedgerNext ==
  \/ \E h \in Hash, block \in Blocks, profit \in Profits, source \in Source :
       RecordIncluded(h, block, profit, source)
  \/ /\ consecutiveFinalLosses < MaxLosses
     /\ \E block \in Blocks : PromoteBegin(block)
  \/ \E h \in Hash : PromoteTrade(h)
  \/ /\ reorgReverted < MaxReverts
     /\ \E h \in Hash : Revert(h)

LedgerSpec == LedgerInit /\ [][LedgerNext]_ledgerVars

-------------------------------------------------------------------------------
(* The shape of the ledger.                                                *)
LedgerTypeOK ==
  /\ trades \in [Hash -> Entry]
  /\ provisoryProfit \in Int
  /\ finalProfit \in Int
  /\ reorgReverted \in Nat
  /\ consecutiveFinalLosses \in Nat
  /\ breakerTripped \in BOOLEAN
  /\ toPromote \in SUBSET Hash
  /\ promoteBlock \in Nat

(* A promotion only walks trades that are in the map.                      *)
WalkIsOfTrades == toPromote \subseteq Recorded

LedgerInv == LedgerTypeOK /\ WalkIsOfTrades

(* The two running totals of the ledger always equal what adding up the    *)
(* trades of each side would give, also half-way through a promotion and   *)
(* after a hash is recorded a second time: no profit is booked twice, none *)
(* is lost when it moves from provisory to final.                          *)
BooksBalance ==
  /\ provisoryProfit = MapThenSumSet(LAMBDA h : trades[h].profit, ProvisoryTrades)
  /\ finalProfit = MapThenSumSet(LAMBDA h : trades[h].profit, FinalTrades)

RealizedLoss(h) == trades[h].source = "Realized" /\ trades[h].profit < 0

(* The run of losses grows only in the step in which a provisory trade     *)
(* with a realized loss becomes final, by one; the breaker trips only in   *)
(* such a step, and only with the run at the threshold.  Estimates, and    *)
(* trades that are still provisory, never move either.                     *)
BreakerCountsRealizedFinalLosses ==
  [][/\ consecutiveFinalLosses' > consecutiveFinalLosses =>
          /\ consecutiveFinalLosses' = consecutiveFinalLosses + 1
          /\ \E h \in ProvisoryTrades : h \in FinalTrades' /\ RealizedLoss(h)
     /\ breakerTripped' # breakerTripped =>
          /\ breakerTripped'
          /\ consecutiveFinalLosses' >= Threshold
          /\ consecutiveFinalLosses' > consecutiveFinalLosses
    ]_ledgerVars

(* A trade that is final leaves that state only when its hash is recorded  *)
(* anew: neither a promotion at an older head block nor a reported reorg   *)
(* takes it back.                                                          *)
FinalIsIrrevocable ==
  [][\A h \in FinalTrades :
       \/ trades'[h] = trades[h]
       \/ MutexFree /\ trades'[h].state = "Included"
    ]_ledgerVars
===============================================================================
