---------------------------- MODULE SendAndConfirm ----------------------------
(***************************************************************************)
(* From a batch of selected opportunities to mined transactions: the       *)
(* executor task of src/main.rs with send_and_confirm_transaction and      *)
(* reap_stuck_nonces of src/core/flashloan.rs, one RPC node with its       *)
(* mempool, and the chain.                                                 *)
(*                                                                         *)
(* One logical attempt (an opportunity sent) is an `op'; with own capital  *)
(* it may first send an approval, which is a transaction of the wallet too.*)
(* The executor is one sequential task; `pc' is the await it is at, and a  *)
(* step is what it does from one await to the next.  The whole cycle runs  *)
(* under EXEC_TIMEOUT, which drops the future at any of those awaits       *)
(* (Abandon).                                                              *)
(*                                                                         *)
(* The node answers a send by its rules for nonces and replacement fees;   *)
(* an answer may be an RPC error or a timeout, whether or not the          *)
(* transaction got through.  The node may evict what it holds.  What was   *)
(* once broadcast stays with the other nodes, so a transaction that was    *)
(* replaced or evicted here may still be the one that is mined.            *)
(***************************************************************************)
EXTENDS NonceReaper, Sequences

CONSTANTS
  MaxOps,       \* logical attempts (bound)
  TopN,         \* top_n_opportunities
  MaxRetries,   \* execution.max_retries, clamped to 1 .. 4 by the code
  MaxReplace,   \* execution.max_replace_attempts
  Multiplier,   \* replace_multiplier in percent, at least 100
  Ceiling,      \* gas_ceiling_gwei; 0 = none
  BaseFees,     \* what the gas estimator may answer
  Configs       \* MEV and dry-run settings the process may be started with

ASSUME MaxOpsAssumption == MaxOps \in Nat
ASSUME TopNAssumption == TopN \in Nat \ {0}
ASSUME MaxRetriesAssumption == MaxRetries \in 1 .. 4
ASSUME MaxReplaceAssumption == MaxReplace \in Nat
ASSUME MultiplierAssumption == Multiplier \in Nat /\ Multiplier >= 100
ASSUME CeilingAssumption == Ceiling \in Nat
ASSUME BaseFeesAssumption == BaseFees \subseteq Nat \ {0}

(* direct: own capital instead of a flash loan, so that the executor       *)
(* contract needs an allowance.                                            *)
Config == [sendsForbidden : BOOLEAN, mevEnabled : BOOLEAN, defaultRelay : BOOLEAN,
           privateRelayRequired : BOOLEAN, allowPublicMempool : BOOLEAN, direct : BOOLEAN]
ASSUME ConfigsAssumption == Configs \subseteq Config

VARIABLES
  (* the chain and the node *)
  chain,       \* mined transactions of the wallet, in nonce order
  pool,        \* the node's mempool: nonce -> transaction
  broadcast,   \* every transaction that ever reached the network
  (* the executor *)
  config, pc,
  op,          \* the current, or else the last, logical attempt; 0 = none yet
  left,        \* opportunities of the batch still to try
  cycleStart,  \* first op of the current batch
  nonce, fee, replacements, attempt,
  latest,      \* latest_tx_hash
  seen,        \* on_chain_pending of the reaper
  outcome,     \* how each logical attempt ended
  booked       \* transactions handed to the profit ledger (record_included)

networkVars == <<chain, pool, broadcast>>
localVars == <<nonce, fee, replacements, attempt, latest, seen>>
cycleVars == <<config, op, left, cycleStart>>
resultVars == <<outcome, booked>>
vars == <<networkVars, reaperVars, localVars, cycleVars, resultVars, pc>>

Op == 1 .. MaxOps

(* A transaction: the trade of attempt op, the approval made for attempt   *)
(* -op, or, with op 0, a no-op of the reaper.  Equal fields make an equal  *)
(* hash.                                                                   *)
Tx == [nonce : Nonce, op : (-MaxOps) .. MaxOps, fee : Nat]
NoTx == [nonce |-> 0, op |-> 0, fee |-> 0]

Outcomes == {"None", "Confirmed", "Reverted", "SameBlockRejected", "TimeoutStuck",
             "Dropped", "Expired", "AbortedPreBroadcast", "Skipped", "Err"}

PCs == {"idle", "prepare", "approve", "simulate", "reap", "reapFresh", "cancel", "fetch",
        "populate", "send", "confirm", "recheck", "account"}

Init ==
  /\ chain = <<>>
  /\ pool = [n \in Nonce |-> NoTx]
  /\ broadcast = {}
  /\ ReaperInit
  /\ config \in Configs
  /\ pc = "idle"
  /\ op = 0 /\ left = 0 /\ cycleStart = 0
  /\ nonce = 0 /\ fee = 0 /\ replacements = 0 /\ attempt = 0
  /\ latest = NoTx /\ seen = 0
  /\ outcome = [o \in Op |-> "None"]
  /\ booked = {}

-------------------------------------------------------------------------------
(* The node                                                                *)

(* The next nonce to be mined.                                             *)
ChainNonce == Len(chain)

(* eth_getTransactionCount(pending): the mined count plus the transactions *)
(* of the mempool that follow on without a gap.                            *)
PendingCount ==
  CHOOSE n \in ChainNonce .. MaxNonce + 1 :
    /\ n \in Nonce => pool[n] = NoTx
    /\ \A m \in ChainNonce .. n - 1 : pool[m] # NoTx

(* A replacement must pay a tenth more than what it replaces.              *)
Reply(tx) ==
  IF tx.nonce < ChainNonce THEN "nonce too low"
  ELSE IF pool[tx.nonce] = tx THEN "already known"
  ELSE IF pool[tx.nonce] # NoTx /\ tx.fee * 100 < pool[tx.nonce].fee * 110
  THEN "underpriced"
  ELSE "accepted"

Accept(tx) ==
  /\ pool' = [pool EXCEPT ![tx.nonce] = tx]
  /\ broadcast' = broadcast \cup {tx}
  /\ UNCHANGED chain

(* A request that fails for its caller may have done its work all the same.*)
MaybeDelivered(tx) ==
  \/ UNCHANGED networkVars
  \/ Reply(tx) = "accepted" /\ Accept(tx)

(* The next transaction of the wallet is mined; an execution may fail      *)
(* (status 0).                                                             *)
Mine ==
  \E tx \in broadcast, ok \in BOOLEAN :
    /\ tx.nonce = ChainNonce
    /\ tx.op = 0 => ok
    /\ chain' = Append(chain, [tx |-> tx, ok |-> ok])
    /\ pool' = [pool EXCEPT ![tx.nonce] = NoTx]
    /\ UNCHANGED <<broadcast, reaperVars, localVars, cycleVars, resultVars, pc>>

(* The node forgets a pending transaction.                                 *)
Evict(n) ==
  /\ pool[n] # NoTx
  /\ pool' = [pool EXCEPT ![n] = NoTx]
  /\ UNCHANGED <<chain, broadcast, reaperVars, localVars, cycleVars, resultVars, pc>>

Mined(tx, ok) == \E i \in DOMAIN chain : chain[i] = [tx |-> tx, ok |-> ok]

Stall(n) ==
  /\ Age(n)
  /\ UNCHANGED <<networkVars, localVars, cycleVars, resultVars, pc>>

-------------------------------------------------------------------------------
(* The batch                                                               *)

ShouldTryNext(result) == result = "AbortedPreBroadcast"

ResetLocals ==
  /\ nonce' = 0 /\ fee' = 0 /\ replacements' = 0 /\ attempt' = 0
  /\ latest' = NoTx /\ seen' = 0

(* The attempt returns: the next opportunity of the batch, or its end.     *)
Finish(result) ==
  /\ outcome' = [outcome EXCEPT ![op] = result]
  /\ IF ShouldTryNext(result) /\ left > 0
     THEN op' = op + 1 /\ left' = left - 1 /\ pc' = "prepare"
     ELSE pc' = "idle" /\ left' = 0 /\ UNCHANGED op
  /\ ResetLocals
  /\ UNCHANGED <<config, cycleStart>>

(* A price batch yields up to TopN opportunities (select_opportunities).   *)
StartCycle ==
  /\ pc = "idle" /\ op < MaxOps
  /\ \E k \in 1 .. TopN :
       left' = IF op + k <= MaxOps THEN k - 1 ELSE MaxOps - op - 1
  /\ op' = op + 1
  /\ cycleStart' = op + 1
  /\ pc' = "prepare"
  /\ UNCHANGED <<networkVars, reaperVars, localVars, config, resultVars>>

(* EXEC_TIMEOUT drops the future wherever it is: no outcome, no booking.   *)
Abandon ==
  /\ pc # "idle"
  /\ pc' = "idle" /\ left' = 0
  /\ ResetLocals
  /\ UNCHANGED <<networkVars, reaperVars, config, op, cycleStart, resultVars>>

(* Bound: the system goes on for ever, the model stops here.               *)
BoundReached == pc = "idle" /\ op = MaxOps /\ UNCHANGED vars

-------------------------------------------------------------------------------
(* Before the broadcast                                                    *)

(* ArbitrageClient is built with execution_engine = None.                  *)
EngineWired == FALSE

(* The gates at the head of send_and_confirm_transaction.                  *)
Gate ==
  IF config.sendsForbidden THEN "blocked"
  ELSE IF \/ config.mevEnabled /\ config.defaultRelay
          \/ config.privateRelayRequired /\ ~(config.mevEnabled /\ EngineWired)
          \/ ~config.mevEnabled /\ ~config.allowPublicMempool
  THEN "aborted"
  ELSE "open"

(* execute_opportunity_standalone: not a route of the executor.            *)
RouteUnsupported ==
  /\ pc = "prepare"
  /\ Finish("AbortedPreBroadcast")
  /\ UNCHANGED <<networkVars, reaperVars, booked>>

(* execute_opportunity: premium, missing price, profit, risk, paper mode;  *)
(* all of them return without an outcome.                                  *)
EconomicsRefuse ==
  /\ pc = "prepare"
  /\ Finish("Skipped")
  /\ UNCHANGED <<networkVars, reaperVars, booked>>

(* execute_direct, execute_flashloan, execute_wrapper: the same-block      *)
(* debounce; complexity, price, recipient, simulation; an error of a call  *)
(* that is passed on with `?'.                                             *)
StrategyRefuses ==
  /\ pc = "prepare"
  /\ \E result \in {"SameBlockRejected", "AbortedPreBroadcast", "Err"} : Finish(result)
  /\ UNCHANGED <<networkVars, reaperVars, booked>>

Refuse == RouteUnsupported \/ EconomicsRefuse \/ StrategyRefuses

(* approve_token_for_execution, in the direct strategy: the approval is    *)
(* sent before any gate but the first, with the node's next nonce.         *)
(* What it pays decides nothing, since its nonce is free and nobody bumps  *)
(* it: one fee stands for all.                                             *)
ApprovalFees == {gas \in BaseFees : \A other \in BaseFees : gas <= other}
ApprovalTx(gas) == [nonce |-> PendingCount, op |-> -op, fee |-> gas]

WantsApproval == pc = "prepare" /\ config.direct /\ ~config.sendsForbidden

ApproveSent ==
  /\ WantsApproval /\ PendingCount \in Nonce
  /\ \E gas \in ApprovalFees : Accept(ApprovalTx(gas)) /\ latest' = ApprovalTx(gas)
  /\ pc' = "approve"
  /\ UNCHANGED <<reaperVars, nonce, fee, replacements, attempt, seen, cycleVars, resultVars>>

ApproveNotSent ==
  /\ WantsApproval /\ PendingCount \in Nonce
  /\ \E gas \in ApprovalFees : MaybeDelivered(ApprovalTx(gas))
  /\ Finish("AbortedPreBroadcast")
  /\ UNCHANGED <<reaperVars, booked>>

Approved ==
  /\ pc = "approve"
  /\ Mined(latest, TRUE)
  /\ pc' = "simulate" /\ latest' = NoTx
  /\ UNCHANGED <<networkVars, reaperVars, nonce, fee, replacements, attempt, seen,
                 cycleVars, resultVars>>

(* Reverted, missing or late; or, after it, a simulation that fails.       *)
RefuseApproved ==
  /\ pc \in {"approve", "simulate"}
  /\ Finish("AbortedPreBroadcast")
  /\ UNCHANGED <<networkVars, reaperVars, booked>>

PassGates ==
  /\ pc \in {"prepare", "simulate"}
  /\ \/ Gate = "blocked" /\ Finish("Skipped")
     \/ Gate = "aborted" /\ Finish("AbortedPreBroadcast")
     \/ Gate = "open" /\ pc' = "reap" /\ UNCHANGED <<localVars, cycleVars, outcome>>
  /\ UNCHANGED <<networkVars, reaperVars, booked>>

(* reap_stuck_nonces, first request failed.                                *)
ReapBlind ==
  /\ pc = "reap"
  /\ RecordFailure
  /\ pc' = "fetch"
  /\ UNCHANGED <<networkVars, inFlight, localVars, cycleVars, resultVars>>

(* reap_decide up to the second request.                                   *)
ReapLook ==
  /\ pc = "reap"
  /\ \/ /\ Verdict(PendingCount) = "NoGap"
        /\ RecordSuccess /\ pc' = "fetch" /\ UNCHANGED seen
     \/ /\ Verdict(PendingCount) = "GapStalling"
        /\ pc' = "fetch" /\ UNCHANGED <<consecutiveFailures, killSwitch, seen>>
     \/ /\ Verdict(PendingCount) = "Reap"
        /\ seen' = PendingCount /\ pc' = "reapFresh"
        /\ UNCHANGED <<consecutiveFailures, killSwitch>>
  /\ UNCHANGED <<networkVars, inFlight, nonce, fee, replacements, attempt, latest,
                 cycleVars, resultVars>>

(* The fresh count, or, when the request fails, the one seen before.       *)
ReapFresh ==
  /\ pc = "reapFresh"
  /\ \E fresh \in {PendingCount, seen} :
       IF fresh > seen
       THEN NoteCanceled(seen) /\ RecordSuccess /\ pc' = "fetch" /\ seen' = 0
       ELSE pc' = "cancel" /\ UNCHANGED <<reaperVars, seen>>
  /\ UNCHANGED <<networkVars, nonce, fee, replacements, attempt, latest,
                 cycleVars, resultVars>>

(* Half as much again as the estimate, or, when there is none, what the    *)
(* middleware fills in.                                                    *)
CancelFees == {(base * 150) \div 100 : base \in BaseFees} \cup BaseFees
CancelTx(gas) == [nonce |-> seen, op |-> 0, fee |-> gas]

(* The no-op self-transfer: sent, or refused by the node or the network.   *)
CancelSent ==
  /\ pc = "cancel"
  /\ \E gas \in CancelFees : Reply(CancelTx(gas)) = "accepted" /\ Accept(CancelTx(gas))
  /\ NoteCanceled(seen) /\ RecordSuccess
  /\ pc' = "fetch" /\ seen' = 0
  /\ UNCHANGED <<nonce, fee, replacements, attempt, latest, cycleVars, resultVars>>

CancelFailed ==
  /\ pc = "cancel"
  /\ \E gas \in CancelFees : MaybeDelivered(CancelTx(gas))
  /\ RecordFailure
  /\ pc' = "fetch" /\ seen' = 0
  /\ UNCHANGED <<inFlight, nonce, fee, replacements, attempt, latest, cycleVars, resultVars>>

(* One nonce for the whole attempt; it is noted in flight at once.         *)
FetchNonce ==
  /\ pc = "fetch"
  /\ PendingCount \in Nonce
  /\ nonce' = PendingCount
  /\ NoteBroadcast(PendingCount)
  /\ pc' = "populate"
  /\ UNCHANGED <<networkVars, consecutiveFailures, killSwitch, fee, replacements,
                 attempt, latest, seen, cycleVars, resultVars>>

FetchNonceFails ==
  /\ pc = "fetch"
  /\ Finish("AbortedPreBroadcast")
  /\ UNCHANGED <<networkVars, reaperVars, booked>>

(* populate_dynamic_gas; its error is passed on with `?'.                  *)
Populate ==
  /\ pc = "populate"
  /\ fee' \in BaseFees
  /\ pc' = "send"
  /\ UNCHANGED <<networkVars, reaperVars, nonce, replacements, attempt, latest, seen,
                 cycleVars, resultVars>>

PopulateFails ==
  /\ pc = "populate"
  /\ Finish("Err")
  /\ UNCHANGED <<networkVars, reaperVars, booked>>

-------------------------------------------------------------------------------
(* The send loop                                                           *)

CurrentTx == [nonce |-> nonce, op |-> op, fee |-> fee]
LastAttempt == attempt + 1 >= MaxRetries
BumpedFee == (fee * Multiplier) \div 100

(* rbf_bump_gas: too many bumps, or a fee above the ceiling.               *)
BumpAborts == replacements >= MaxReplace \/ (Ceiling # 0 /\ BumpedFee > Ceiling)

(* The nonce every send of the attempt carries.                            *)
FetchAgain == PendingCount   \* mutant: each send asks for a nonce of its own
RetryNonce == nonce

(* The next turn of the loop, with the fee bumped.                         *)
Bump(again) ==
  IF BumpAborts THEN Finish("Expired")
  ELSE IF ~again THEN Finish("TimeoutStuck")
  ELSE /\ fee' = BumpedFee
       /\ replacements' = replacements + 1
       /\ attempt' = attempt + 1
       /\ nonce' = RetryNonce
       /\ pc' = "send"
       /\ UNCHANGED <<latest, seen, cycleVars, outcome>>

(* `continue', or, on the last turn, the outcome the branch returns.       *)
RetryForever(result) ==   \* mutant: the turn is not counted
  /\ pc' = "send" /\ UNCHANGED <<localVars, cycleVars, outcome>>
Retry(result) == IF LastAttempt THEN Finish(result) ELSE Bump(TRUE)

SendAccepted ==
  /\ pc = "send"
  /\ Reply(CurrentTx) = "accepted"
  /\ Accept(CurrentTx)
  /\ latest' = CurrentTx
  /\ pc' = "confirm"
  /\ UNCHANGED <<reaperVars, nonce, fee, replacements, attempt, seen, cycleVars, resultVars>>

(* Refused for its fee, as a replacement or below the node's own floor:    *)
(* bumped at once, also on the last turn.                                  *)
SendUnderpriced ==
  /\ pc = "send"
  /\ Reply(CurrentTx) \in {"underpriced", "accepted"}
  /\ Bump(~LastAttempt)
  /\ UNCHANGED <<networkVars, reaperVars, booked>>

SendNonceTooLow ==
  /\ pc = "send"
  /\ Reply(CurrentTx) = "nonce too low"
  /\ Retry("Dropped")
  /\ UNCHANGED <<networkVars, reaperVars, booked>>

SendAlreadyKnown ==
  /\ pc = "send"
  /\ Reply(CurrentTx) = "already known"
  /\ Retry("TimeoutStuck")
  /\ UNCHANGED <<networkVars, reaperVars, booked>>

(* What a send that fails for another reason is reported as at the end.    *)
AbortOnSendError == "AbortedPreBroadcast"   \* mutant
SendErrorOutcome == "Dropped"

SendFails ==
  /\ pc = "send"
  /\ MaybeDelivered(CurrentTx)
  /\ Retry(SendErrorOutcome)
  /\ UNCHANGED <<reaperVars, booked>>

SendTimesOut ==
  /\ pc = "send"
  /\ MaybeDelivered(CurrentTx)
  /\ Retry("TimeoutStuck")
  /\ UNCHANGED <<reaperVars, booked>>

-------------------------------------------------------------------------------
(* Waiting for the receipt of the latest hash                              *)

(* The receipts that confirm the attempt.                                  *)
AnyStatus(tx) == \E ok \in BOOLEAN : Mined(tx, ok)   \* mutant: status not read
StatusOne(tx) == Mined(tx, TRUE)

ReceiptOk ==
  /\ pc = "confirm"
  /\ StatusOne(latest)
  /\ pc' = "account"
  /\ UNCHANGED <<networkVars, reaperVars, localVars, cycleVars, resultVars>>

ReceiptReverted ==
  /\ pc = "confirm"
  /\ Mined(latest, FALSE)
  /\ Finish("Reverted")
  /\ UNCHANGED <<networkVars, reaperVars, booked>>

(* No receipt: the node does not know the transaction, or not yet.         *)
ReceiptNone ==
  /\ pc = "confirm"
  /\ IF LastAttempt
     THEN pc' = "recheck" /\ UNCHANGED <<localVars, cycleVars, outcome>>
     ELSE Bump(TRUE)
  /\ UNCHANGED <<networkVars, reaperVars, booked>>

(* The confirmation fails or times out.                                    *)
ConfirmFails ==
  /\ pc = "confirm"
  /\ Retry("TimeoutStuck")
  /\ UNCHANGED <<networkVars, reaperVars, booked>>

(* After the last missing receipt: is the nonce consumed?  A failed request*)
(* counts as no.                                                           *)
Recheck ==
  /\ pc = "recheck"
  /\ \E net \in {PendingCount, nonce} :
       Finish(IF net > nonce THEN "Dropped" ELSE "TimeoutStuck")
  /\ UNCHANGED <<networkVars, reaperVars, booked>>

(* update_execution_block, gas and profit accounting, record_included.     *)
Account ==
  /\ pc = "account"
  /\ booked' = booked \cup {latest}
  /\ Finish("Confirmed")
  /\ UNCHANGED <<networkVars, reaperVars>>

-------------------------------------------------------------------------------
Prepare == Refuse \/ ApproveSent \/ ApproveNotSent \/ Approved \/ RefuseApproved \/ PassGates
Reap == ReapBlind \/ ReapLook \/ ReapFresh \/ CancelSent \/ CancelFailed
Reserve == FetchNonce \/ FetchNonceFails \/ Populate \/ PopulateFails
Send == SendAccepted \/ SendUnderpriced \/ SendNonceTooLow \/ SendAlreadyKnown
          \/ SendFails \/ SendTimesOut
Await == ReceiptOk \/ ReceiptReverted \/ ReceiptNone \/ ConfirmFails \/ Recheck \/ Account

(* The executor, once a batch is in its hands.                             *)
Executor == Prepare \/ Reap \/ Reserve \/ Send \/ Await

Environment == Mine \/ (\E n \in Nonce : Evict(n)) \/ (\E n \in Nonce : Stall(n))

Next == StartCycle \/ Executor \/ Abandon \/ Environment \/ BoundReached

Spec == Init /\ [][Next]_vars

(* Every await of the executor ends (its own timeouts, or the client's), so*)
(* the task is never stuck for good.  Abandon is not needed for it.        *)
FairSpec == Spec /\ WF_vars(Executor)

-------------------------------------------------------------------------------
(* Properties                                                              *)

TypeOK ==
  /\ ReaperTypeOK
  /\ chain \in Seq([tx : Tx, ok : BOOLEAN])
  /\ pool \in [Nonce -> Tx]
  /\ broadcast \in SUBSET Tx
  /\ config \in Configs
  /\ pc \in PCs
  /\ op \in 0 .. MaxOps /\ left \in 0 .. MaxOps /\ cycleStart \in 0 .. MaxOps
  /\ nonce \in Nonce /\ seen \in Nonce
  /\ fee \in Nat /\ replacements \in Nat /\ attempt \in Nat
  /\ latest \in Tx
  /\ outcome \in [Op -> Outcomes]
  /\ booked \in SUBSET Tx

SentBy(o) == {tx \in broadcast : tx.op = o}

(* What makes the four properties below inductive: nothing is sent under   *)
(* an attempt that has not begun; the current attempt has sent nothing     *)
(* before its send loop and only transactions with its own nonce in it; an *)
(* attempt with an outcome is over; mined transactions were broadcast and  *)
(* sit at their nonce.                                                     *)
Sending == pc \in {"send", "confirm", "recheck", "account"}
Preparing == pc \in {"prepare", "approve", "simulate", "reap", "reapFresh", "cancel",
                     "fetch", "populate"}

AttemptsInOrder ==
  /\ op + left <= MaxOps
  /\ \A tx \in broadcast : tx.op <= op
  /\ pc # "idle" => op # 0
  /\ Preparing => \A tx \in broadcast : tx.op # op
  /\ Sending => \A tx \in broadcast : tx.op = op => tx.nonce = nonce
  /\ \A o \in Op : outcome[o] # "None" => o <= op /\ (o = op => pc = "idle")

ChainOfBroadcasts ==
  \A i \in DOMAIN chain : chain[i].tx \in broadcast /\ chain[i].tx.nonce = i - 1

SendInv == TypeOK /\ AttemptsInOrder /\ ChainOfBroadcasts

(* All the transactions of one logical attempt carry one nonce, whatever   *)
(* was retried, replaced, timed out or refused on the way: the comment on  *)
(* the retry policy of send_and_confirm_transaction.                       *)
OneNoncePerAttempt ==
  \A t, u \in broadcast : t.op = u.op /\ t.op > 0 => t.nonce = u.nonce

(* ... so that no logical attempt is ever executed twice, though replaced  *)
(* and evicted transactions may be mined too.                              *)
ExecutedAtMostOnce ==
  \A i, j \in DOMAIN chain :
    chain[i].tx.op = chain[j].tx.op /\ chain[i].tx.op > 0 => i = j

NothingSentOutcomes == {"AbortedPreBroadcast", "Skipped", "SameBlockRejected", "Err"}

(* An attempt reported as aborted before the broadcast, skipped, or        *)
(* rejected in the same block has no trade anywhere in the network, not    *)
(* even one whose send seemed to fail.                                     *)
AbortedMeansNothingSent ==
  \A o \in Op : outcome[o] \in NothingSentOutcomes => SentBy(o) = {}

(* Of the opportunities of one batch at most one reaches the network: the  *)
(* next is tried only when the one before it left nothing behind.          *)
EarlierWereAborted ==
  \A o \in Op : cycleStart <= o /\ o < op => outcome[o] = "AbortedPreBroadcast"

OneSenderPerBatch ==
  cycleStart # 0 =>
    Cardinality({o \in cycleStart .. op : SentBy(o) # {}}) <= 1

(* A confirmed attempt has a mined, successful transaction and is booked;  *)
(* a reverted one has a mined, failed one; nothing else is ever booked.    *)
ReceiptsAreTruthful ==
  /\ \A o \in Op : outcome[o] = "Confirmed" => SentBy(o) \cap booked # {}
  /\ \A o \in Op : outcome[o] = "Reverted" => \E tx \in SentBy(o) : Mined(tx, FALSE)
  /\ \A tx \in booked : Mined(tx, TRUE)

(* The send path makes trades and reports them as TradeAttempts promises:  *)
(* whatever is retried, replaced, evicted, reaped or dropped, each trade is*)
(* made at most once, a result is true when it is given, and a trade said  *)
(* to be left alone is never made.                                         *)
FateOf(o) ==
  IF ~\E i \in DOMAIN chain : chain[i].tx.op = o THEN "unmined"
  ELSE IF \E i \in DOMAIN chain : chain[i].tx.op = o /\ chain[i].ok THEN "executed" ELSE "failed"
Trades == INSTANCE TradeAttempts WITH
  Attempts <- Op,
  fate <- [o \in Op |-> FateOf(o)],
  outcome <- outcome,
  booked <- {tx.op : tx \in booked}
ImplementsTrades == Trades!Spec

(* An attempt spends at most MaxReplace replacements, and no replacement   *)
(* (a transaction with a fee above the attempt's first) is above the       *)
(* ceiling.                                                                *)
ReplacementsBounded ==
  \A o \in Op :
    /\ Cardinality(SentBy(o)) <= MaxReplace + 1
    /\ Ceiling # 0 =>
         \A t, u \in SentBy(o) : u.fee > t.fee => u.fee <= Ceiling

(* In paper and dry-run mode nothing reaches the network: no trade, not on *)
(* a retry, no approval, no no-op of the reaper.  With a private relay     *)
(* required, or the relay URL left at the Ethereum default, no trade and   *)
(* no no-op does.                                                          *)
ClosedGatesSendNothing ==
  /\ config.sendsForbidden => broadcast = {}
  /\ config.privateRelayRequired \/ (config.mevEnabled /\ config.defaultRelay)
       => \A tx \in broadcast : tx.op < 0

(* Every cycle of the executor comes to its end: no chain of retries,      *)
(* replacements and re-bumps goes on for ever.                             *)
CycleEnds == pc # "idle" ~> pc = "idle"

===============================================================================
