------------------------- MODULE SendAndConfirmProofs -------------------------
(* Theorems about the send path, for every number of attempts, nonces,     *)
(* retries and replacements, every fee policy and every configuration.     *)
EXTENDS SendAndConfirm, SequenceTheorems, FiniteSetTheorems, TLAPS

USE MaxNonceAssumption, KillThresholdAssumption, MaxOpsAssumption, TopNAssumption,
    MultiplierAssumption, BaseFeesAssumption

-------------------------------------------------------------------------------
(* Facts about single operators                                            *)

LEMMA NoTxType == NoTx \in Tx
BY DEF NoTx, Tx, Nonce

LEMMA FeeTypes ==
  ASSUME NEW f \in Nat
  PROVE  (f * Multiplier) \div 100 \in Nat /\ (f * 150) \div 100 \in Nat
<1>1. ASSUME NEW a \in Nat, NEW b \in Nat PROVE (a * b) \div 100 \in Nat
  <2>1. a * b \in Nat
    OBVIOUS
  <2> DEFINE p == a * b
  <2>2. p \in Nat
    BY <2>1
  <2> HIDE DEF p
  <2>3. p \div 100 \in Nat
    BY <2>2
  <2> QED
    BY <2>3 DEF p
<1>2. (f * Multiplier) \div 100 \in Nat
  BY <1>1
<1>3. (f * 150) \div 100 \in Nat
  BY <1>1
<1> QED
  BY <1>2, <1>3

LEMMA CancelFeeTypes == CancelFees \subseteq Nat
<1>1. \A base \in BaseFees : (base * 150) \div 100 \in Nat
  BY FeeTypes
<1> QED
  BY <1>1 DEF CancelFees

(* A send, whatever its answer, adds at most its own transaction.          *)
LEMMA Delivery ==
  ASSUME NEW tx \in Tx, pool \in [Nonce -> Tx], broadcast \in SUBSET Tx,
         Accept(tx) \/ MaybeDelivered(tx)
  PROVE  /\ chain' = chain
         /\ pool' \in [Nonce -> Tx]
         /\ broadcast' \in SUBSET Tx
         /\ broadcast \subseteq broadcast'
         /\ broadcast' \subseteq broadcast \cup {tx}
BY DEF Accept, MaybeDelivered, networkVars

(* An attempt that returns leaves the executor idle at the same attempt or *)
(* preparing the next one, which exists.                                   *)
LEMMA FinishEffect ==
  ASSUME NEW result \in Outcomes, TypeOK, op + left <= MaxOps, op # 0, Finish(result)
  PROVE  /\ op' \in 0 .. MaxOps /\ left' \in 0 .. MaxOps /\ op' + left' <= MaxOps
         /\ \/ op' = op /\ pc' = "idle"
            \/ op' = op + 1 /\ pc' = "prepare"
         /\ nonce' \in Nonce /\ seen' \in Nonce
         /\ fee' \in Nat /\ replacements' \in Nat /\ attempt' \in Nat
         /\ latest' \in Tx
         /\ outcome' = [outcome EXCEPT ![op] = result]
         /\ outcome' \in [Op -> Outcomes]
         /\ UNCHANGED <<config, cycleStart>>
BY NoTxType DEF Finish, ResetLocals, TypeOK, Op, Nonce

(* A turn of the send loop either returns or keeps the nonce and goes on.  *)
LEMMA BumpEffect ==
  ASSUME NEW again, TypeOK, Bump(again)
  PROVE  \/ Finish("Expired")
         \/ Finish("TimeoutStuck")
         \/ /\ pc' = "send" /\ nonce' = nonce
            /\ fee' \in Nat /\ replacements' \in Nat /\ attempt' \in Nat
            /\ UNCHANGED <<latest, seen, cycleVars, outcome>>
BY FeeTypes DEF Bump, RetryNonce, BumpedFee, TypeOK

LEMMA RetryEffect ==
  ASSUME NEW result, TypeOK, Retry(result)
  PROVE  \/ Finish("Expired") \/ Finish("TimeoutStuck") \/ Finish(result)
         \/ /\ pc' = "send" /\ nonce' = nonce
            /\ fee' \in Nat /\ replacements' \in Nat /\ attempt' \in Nat
            /\ UNCHANGED <<latest, seen, cycleVars, outcome>>
BY BumpEffect DEF Retry

-------------------------------------------------------------------------------
(* The invariant over the two shapes an executor step can have             *)

(* The attempt returns; before it did, it may have sent its transaction.   *)
LEMMA FinishKeepsInv ==
  ASSUME SendInv, op # 0, NEW result \in Outcomes, Finish(result),
         pc # "idle",
         ReaperTypeOK', booked' \in SUBSET Tx,
         chain' = chain, pool' \in [Nonce -> Tx], broadcast' \in SUBSET Tx,
         broadcast \subseteq broadcast',
         \A tx \in broadcast' \ broadcast : tx.op <= op
  PROVE  SendInv'
<1> USE DEF SendInv
<1>1. op \in Op /\ op + left <= MaxOps
  BY DEF TypeOK, AttemptsInOrder, Op
<1>2. /\ op' \in 0 .. MaxOps /\ left' \in 0 .. MaxOps /\ op' + left' <= MaxOps
      /\ \/ op' = op /\ pc' = "idle"
         \/ op' = op + 1 /\ pc' = "prepare"
      /\ nonce' \in Nonce /\ seen' \in Nonce
      /\ fee' \in Nat /\ replacements' \in Nat /\ attempt' \in Nat
      /\ latest' \in Tx
      /\ outcome' = [outcome EXCEPT ![op] = result]
      /\ outcome' \in [Op -> Outcomes]
      /\ UNCHANGED <<config, cycleStart>>
  BY <1>1, FinishEffect
<1>3. TypeOK'
  BY <1>2 DEF TypeOK, PCs
<1>4. \A tx \in broadcast' : tx.op \in Int /\ tx.op <= op
  BY DEF TypeOK, Tx, AttemptsInOrder
<1>5. AttemptsInOrder'
  <2>1. \A tx \in broadcast' : tx.op <= op'
    BY <1>1, <1>2, <1>4 DEF Op
  <2>2. pc' # "idle" => op' # 0
    BY <1>1, <1>2 DEF Op
  <2>3. Preparing' => \A tx \in broadcast' : tx.op # op'
    BY <1>1, <1>2, <1>4 DEF Preparing, Op
  <2>4. ~Sending'
    BY <1>2 DEF Sending
  <2>5. \A o \in Op : outcome'[o] # "None" => o <= op' /\ (o = op' => pc' = "idle")
    <3> TAKE o \in Op
    <3>1. CASE o = op
      BY <1>1, <1>2, <3>1 DEF Op
    <3>2. CASE o # op
      <4>1. outcome'[o] = outcome[o]
        BY <1>1, <1>2, <3>2 DEF TypeOK
      <4>2. outcome[o] # "None" => o <= op
        BY DEF AttemptsInOrder
      <4> QED
        BY <1>1, <1>2, <3>2, <4>1, <4>2 DEF Op
    <3> QED
      BY <3>1, <3>2
  <2> QED
    BY <1>2, <2>1, <2>2, <2>3, <2>4, <2>5 DEF AttemptsInOrder
<1>6. ChainOfBroadcasts'
  BY DEF ChainOfBroadcasts
<1> QED
  BY <1>3, <1>5, <1>6

(* The attempt goes on.                                                    *)
LEMMA GoingOnKeepsInv ==
  ASSUME SendInv, pc # "idle",
         UNCHANGED <<config, op, left, cycleStart, outcome>>,
         ReaperTypeOK', booked' \in SUBSET Tx,
         chain' = chain, pool' \in [Nonce -> Tx], broadcast' \in SUBSET Tx,
         broadcast \subseteq broadcast',
         nonce' \in Nonce, seen' \in Nonce, fee' \in Nat, replacements' \in Nat,
         attempt' \in Nat, latest' \in Tx, pc' \in PCs, pc' # "idle",
         \A tx \in broadcast' \ broadcast : tx.op <= op,
         Preparing' => Preparing /\ \A tx \in broadcast' \ broadcast : tx.op # op,
         Sending' =>
           /\ Preparing \/ nonce' = nonce
           /\ \A tx \in broadcast' \ broadcast : tx.op = op => tx.nonce = nonce'
  PROVE  SendInv'
<1> USE DEF SendInv
<1>1. TypeOK'
  BY DEF TypeOK
<1>2. AttemptsInOrder'
  <2>1. Sending' => \A tx \in broadcast' : tx.op = op' => tx.nonce = nonce'
    <3>1. Preparing \/ Sending
      BY DEF TypeOK, PCs, Preparing, Sending
    <3> QED
      BY <3>1 DEF AttemptsInOrder
  <2>2. Preparing' => \A tx \in broadcast' : tx.op # op'
    BY DEF AttemptsInOrder
  <2>3. \A tx \in broadcast' : tx.op <= op'
    BY DEF AttemptsInOrder
  <2> QED
    BY <2>1, <2>2, <2>3 DEF AttemptsInOrder
<1>3. ChainOfBroadcasts'
  BY DEF ChainOfBroadcasts
<1> QED
  BY <1>1, <1>2, <1>3

-------------------------------------------------------------------------------
(* The invariant, action by action                                         *)

LEMMA ReaperTypes ==
  ASSUME ReaperTypeOK
  PROVE  /\ \A n \in Nonce : NoteBroadcast(n) => inFlight' \in [Nonce -> Ages]
         /\ \A n \in Nonce : NoteCanceled(n) => inFlight' \in [Nonce -> Ages]
         /\ RecordFailure => consecutiveFailures' \in 0 .. KillThreshold /\ killSwitch' \in BOOLEAN
         /\ RecordSuccess => consecutiveFailures' \in 0 .. KillThreshold /\ killSwitch' \in BOOLEAN
<1> USE DEF ReaperTypeOK, Ages
<1>1. \A n \in Nonce : NoteBroadcast(n) => inFlight' \in [Nonce -> Ages]
  BY DEF NoteBroadcast
<1>2. \A n \in Nonce : NoteCanceled(n) => inFlight' \in [Nonce -> Ages]
  BY DEF NoteCanceled
<1>3. RecordFailure => consecutiveFailures' \in 0 .. KillThreshold
  BY DEF RecordFailure
<1>4. RecordFailure => killSwitch' \in BOOLEAN
  BY Zenon DEF RecordFailure
<1>5. RecordSuccess => consecutiveFailures' \in 0 .. KillThreshold
  BY DEF RecordSuccess
<1>6. RecordSuccess => killSwitch' \in BOOLEAN
  BY Zenon DEF RecordSuccess
<1> QED
  BY <1>1, <1>2, <1>3, <1>4, <1>5, <1>6

LEMMA ApprovalType ==
  ASSUME TypeOK, op # 0, PendingCount \in Nonce, NEW gas \in BaseFees
  PROVE  ApprovalTx(gas) \in Tx /\ ApprovalTx(gas).op = -op /\ -op < 0
BY DEF ApprovalTx, Tx, TypeOK

LEMMA CurrentTxType ==
  ASSUME TypeOK
  PROVE  CurrentTx \in Tx /\ CurrentTx.op = op /\ CurrentTx.nonce = nonce
<1>1. op \in (-MaxOps) .. MaxOps /\ nonce \in Nonce /\ fee \in Nat
  BY DEF TypeOK
<1> QED
  BY <1>1 DEF CurrentTx, Tx

LEMMA PrepareKeepsInv ==
  ASSUME SendInv, Prepare
  PROVE  SendInv'
<1> USE DEF SendInv
<1>0. pc \in {"prepare", "approve", "simulate"}
  BY DEF Prepare, Refuse, RouteUnsupported, EconomicsRefuse,
         StrategyRefuses, ApproveSent, ApproveNotSent, WantsApproval, Approved,
         RefuseApproved, PassGates
<1>1. op # 0 /\ op \in Nat /\ pc \in {"prepare", "approve", "simulate"}
  BY <1>0 DEF AttemptsInOrder, TypeOK
<1>2. ReaperTypeOK' /\ booked' \in SUBSET Tx
  BY DEF Prepare, Refuse, RouteUnsupported, EconomicsRefuse,
         StrategyRefuses, ApproveSent, ApproveNotSent, Approved, RefuseApproved, PassGates,
         reaperVars, resultVars, TypeOK, ReaperTypeOK
<1>3. /\ chain' = chain /\ pool' \in [Nonce -> Tx]
      /\ broadcast' \in SUBSET Tx /\ broadcast \subseteq broadcast'
      /\ \A tx \in broadcast' \ broadcast : tx.op < 0
  <2>1. CASE UNCHANGED networkVars
    BY <2>1 DEF networkVars, TypeOK
  <2>2. ASSUME NEW gas \in BaseFees, PendingCount \in Nonce,
               Accept(ApprovalTx(gas)) \/ MaybeDelivered(ApprovalTx(gas))
        PROVE  /\ chain' = chain /\ pool' \in [Nonce -> Tx]
               /\ broadcast' \in SUBSET Tx /\ broadcast \subseteq broadcast'
               /\ \A tx \in broadcast' \ broadcast : tx.op < 0
    <3>1. ApprovalTx(gas) \in Tx /\ ApprovalTx(gas).op < 0
      BY <1>1, <2>2, ApprovalType
    <3> QED
      BY <2>2, <3>1, Delivery DEF TypeOK
  <2>3. ApprovalFees \subseteq BaseFees
    BY DEF ApprovalFees
  <2> QED
    BY <2>1, <2>2, <2>3 DEF Prepare, Refuse, RouteUnsupported, EconomicsRefuse,
         StrategyRefuses, ApproveSent, ApproveNotSent, WantsApproval, Approved,
         RefuseApproved, PassGates
<1>4. ASSUME NEW result \in Outcomes, Finish(result) PROVE SendInv'
  <2>1. \A tx \in broadcast' \ broadcast : tx.op <= op
    BY <1>1, <1>3 DEF Tx
  <2> QED
    BY <1>1, <1>2, <1>3, <1>4, <2>1, FinishKeepsInv
<1>5. ASSUME UNCHANGED <<cycleVars, outcome>>, nonce' = nonce, seen' = seen, fee' = fee,
             replacements' = replacements, attempt' = attempt, latest' \in Tx,
             pc' \in {"approve", "simulate", "reap"}
      PROVE  SendInv'
  <2>1. \A tx \in broadcast' \ broadcast : tx.op <= op /\ tx.op # op
    BY <1>1, <1>3 DEF Tx
  <2> QED
    BY <1>1, <1>2, <1>3, <1>5, <2>1, GoingOnKeepsInv
       DEF cycleVars, PCs, Preparing, Sending, TypeOK
<1>6. CASE Refuse \/ ApproveNotSent \/ RefuseApproved
  BY <1>4, <1>6 DEF Refuse, RouteUnsupported, EconomicsRefuse,
         StrategyRefuses, ApproveNotSent, RefuseApproved, Outcomes
<1>7. CASE PassGates
  <2>1. \/ \E result \in Outcomes : Finish(result)
        \/ pc' = "reap" /\ UNCHANGED <<localVars, cycleVars, outcome>>
    BY <1>7 DEF PassGates, Gate, Outcomes
  <2> QED
    BY <1>4, <1>5, <2>1 DEF localVars, TypeOK
<1>8. CASE ApproveSent
  <2>1. latest' \in Tx
    BY <1>1, <1>8, ApprovalType DEF ApproveSent, ApprovalFees
  <2> QED
    BY <1>5, <1>8, <2>1 DEF ApproveSent, resultVars
<1>9. CASE Approved
  BY <1>5, <1>9, NoTxType DEF Approved, resultVars
<1> QED
  BY <1>6, <1>7, <1>8, <1>9 DEF Prepare

LEMMA ReapKeepsInv ==
  ASSUME SendInv, Reap
  PROVE  SendInv'
<1> USE DEF SendInv
<1> DEFINE Rest == UNCHANGED <<nonce, fee, replacements, attempt, latest, cycleVars, resultVars>>
<1>1. pc \in {"reap", "reapFresh", "cancel"} /\ op # 0 /\ seen \in Nonce
  BY DEF Reap, ReapBlind, ReapLook, ReapFresh, CancelSent, CancelFailed, AttemptsInOrder, TypeOK
<1>2. ASSUME Rest, ReaperTypeOK', pc' \in {"reapFresh", "cancel", "fetch"}, seen' \in Nonce,
             chain' = chain, pool' \in [Nonce -> Tx], broadcast' \in SUBSET Tx,
             broadcast \subseteq broadcast', \A tx \in broadcast' \ broadcast : tx.op = 0
      PROVE  SendInv'
  BY <1>1, <1>2, GoingOnKeepsInv
     DEF cycleVars, resultVars, PCs, Preparing, Sending, TypeOK
<1>3. UNCHANGED networkVars =>
        /\ chain' = chain /\ pool' \in [Nonce -> Tx] /\ broadcast' \in SUBSET Tx
        /\ broadcast' = broadcast
  BY DEF networkVars, TypeOK
<1>4. CASE ReapBlind
  <2>1. ReaperTypeOK'
    BY <1>4, ReaperTypes DEF ReapBlind, TypeOK, ReaperTypeOK
  <2> QED
    BY <1>1, <1>2, <1>3, <1>4, <2>1 DEF ReapBlind, localVars
<1>5. CASE ReapLook
  <2>0. UNCHANGED inFlight /\ (RecordSuccess \/ UNCHANGED <<consecutiveFailures, killSwitch>>)
    BY <1>5 DEF ReapLook, Verdict
  <2>1. ReaperTypeOK'
    BY <2>0, ReaperTypes DEF TypeOK, ReaperTypeOK
  <2>2. seen' \in Nonce /\ pc' \in {"reapFresh", "fetch"}
    BY <1>1, <1>5 DEF ReapLook, Verdict
  <2> QED
    BY <1>2, <1>3, <1>5, <2>1, <2>2 DEF ReapLook
<1>6. CASE ReapFresh
  <2>1. ReaperTypeOK'
    BY <1>1, <1>6, ReaperTypes DEF ReapFresh, TypeOK, ReaperTypeOK, reaperVars, NoteCanceled
  <2>2. seen' \in Nonce /\ pc' \in {"cancel", "fetch"}
    BY <1>1, <1>6 DEF ReapFresh, Nonce
  <2> QED
    BY <1>2, <1>3, <1>6, <2>1, <2>2 DEF ReapFresh
<1>7. ASSUME NEW gas \in CancelFees
      PROVE  CancelTx(gas) \in Tx /\ CancelTx(gas).op = 0
  BY <1>1, CancelFeeTypes DEF CancelTx, Tx
<1>8. CASE CancelSent
  <2>1. ReaperTypeOK'
    BY <1>1, <1>8, ReaperTypes DEF CancelSent, TypeOK, ReaperTypeOK
  <2>2. PICK gas \in CancelFees : Accept(CancelTx(gas))
    BY <1>8 DEF CancelSent
  <2>3. /\ chain' = chain /\ pool' \in [Nonce -> Tx] /\ broadcast' \in SUBSET Tx
        /\ broadcast \subseteq broadcast' /\ broadcast' \subseteq broadcast \cup {CancelTx(gas)}
    BY <1>7, <2>2, Delivery DEF TypeOK
  <2>4. \A tx \in broadcast' \ broadcast : tx.op = 0
    BY <1>7, <2>3
  <2>5. Rest /\ pc' = "fetch" /\ seen' \in Nonce
    BY <1>8 DEF CancelSent, Nonce
  <2> QED
    BY <1>2, <2>1, <2>3, <2>4, <2>5
<1>9. CASE CancelFailed
  <2>1. ReaperTypeOK'
    BY <1>9, ReaperTypes DEF CancelFailed, TypeOK, ReaperTypeOK
  <2>2. PICK gas \in CancelFees : MaybeDelivered(CancelTx(gas))
    BY <1>9 DEF CancelFailed
  <2>3. /\ chain' = chain /\ pool' \in [Nonce -> Tx] /\ broadcast' \in SUBSET Tx
        /\ broadcast \subseteq broadcast' /\ broadcast' \subseteq broadcast \cup {CancelTx(gas)}
    BY <1>7, <2>2, Delivery DEF TypeOK
  <2>4. \A tx \in broadcast' \ broadcast : tx.op = 0
    BY <1>7, <2>3
  <2>5. Rest /\ pc' = "fetch" /\ seen' \in Nonce
    BY <1>9 DEF CancelFailed, Nonce
  <2> QED
    BY <1>2, <2>1, <2>3, <2>4, <2>5
<1> QED
  BY <1>4, <1>5, <1>6, <1>8, <1>9 DEF Reap

LEMMA ReserveKeepsInv ==
  ASSUME SendInv, Reserve
  PROVE  SendInv'
<1> USE DEF SendInv
<1>1. pc \in {"fetch", "populate"} /\ op # 0
  BY DEF Reserve, FetchNonce, FetchNonceFails, Populate, PopulateFails, AttemptsInOrder
<1>2. /\ chain' = chain /\ pool' \in [Nonce -> Tx] /\ broadcast' = broadcast
      /\ broadcast' \in SUBSET Tx /\ booked' \in SUBSET Tx
  BY DEF Reserve, FetchNonce, FetchNonceFails, Populate, PopulateFails,
         networkVars, resultVars, TypeOK
<1>3. CASE FetchNonce
  <2>1. ReaperTypeOK'
    BY <1>3, ReaperTypes DEF FetchNonce, TypeOK, ReaperTypeOK
  <2>2. nonce' \in Nonce /\ pc' = "populate"
    BY <1>3 DEF FetchNonce
  <2> QED
    BY <1>1, <1>2, <1>3, <2>1, <2>2, GoingOnKeepsInv
       DEF FetchNonce, cycleVars, resultVars, PCs, Preparing, Sending, TypeOK
<1>4. CASE Populate
  <2>1. ReaperTypeOK' /\ fee' \in Nat
    BY <1>4 DEF Populate, TypeOK, ReaperTypeOK, reaperVars
  <2>2. \A tx \in broadcast' : tx.op # op
    BY <1>1, <1>2 DEF AttemptsInOrder, Preparing
  <2> QED
    BY <1>1, <1>2, <1>4, <2>1, <2>2, GoingOnKeepsInv
       DEF Populate, cycleVars, resultVars, PCs, Preparing, Sending, TypeOK
<1>5. ASSUME NEW result \in Outcomes, Finish(result), UNCHANGED reaperVars
      PROVE  SendInv'
  <2>1. ReaperTypeOK'
    BY <1>5 DEF TypeOK, ReaperTypeOK, reaperVars
  <2> QED
    BY <1>1, <1>2, <1>5, <2>1, FinishKeepsInv
<1> QED
  BY <1>3, <1>4, <1>5 DEF Reserve, FetchNonceFails, PopulateFails, Outcomes

LEMMA SendKeepsInv ==
  ASSUME SendInv, Send \/ Await
  PROVE  SendInv'
<1> USE DEF SendInv
<1> USE DEF Send, SendAccepted, SendUnderpriced, SendNonceTooLow, SendAlreadyKnown,
            SendFails, SendTimesOut
<1> USE DEF Await, ReceiptOk, ReceiptReverted, ReceiptNone, ConfirmFails, Recheck, Account
<1>1. pc \in {"send", "confirm", "recheck", "account"} /\ op # 0
  BY DEF AttemptsInOrder
<1>2. CurrentTx \in Tx /\ CurrentTx.op = op /\ CurrentTx.nonce = nonce
  BY CurrentTxType
<1>3. UNCHANGED reaperVars /\ ReaperTypeOK'
  BY DEF TypeOK, ReaperTypeOK, reaperVars
<1>4. booked' \in SUBSET Tx
  BY DEF TypeOK, resultVars
<1>5. UNCHANGED networkVars \/ Accept(CurrentTx) \/ MaybeDelivered(CurrentTx)
  OBVIOUS
<1> DEFINE Again ==
      /\ pc' = "send" /\ nonce' = nonce
      /\ fee' \in Nat /\ replacements' \in Nat /\ attempt' \in Nat
      /\ UNCHANGED <<latest, seen, cycleVars, outcome>>
<1>5a. \/ SendAccepted
       \/ ReceiptOk
       \/ ReceiptNone /\ LastAttempt
       \/ \E again \in BOOLEAN : Bump(again)
       \/ \E result \in Outcomes : Finish(result) \/ Retry(result)
  BY DEF Outcomes, SendErrorOutcome
<1> HIDE DEF Send, SendAccepted, SendUnderpriced, SendNonceTooLow, SendAlreadyKnown,
             SendFails, SendTimesOut, Await, ReceiptOk, ReceiptReverted, ReceiptNone,
             ConfirmFails, Recheck, Account
<1>6. /\ chain' = chain /\ pool' \in [Nonce -> Tx] /\ broadcast' \in SUBSET Tx
      /\ broadcast \subseteq broadcast' /\ broadcast' \subseteq broadcast \cup {CurrentTx}
  BY <1>2, <1>5, Delivery DEF TypeOK, networkVars
<1>7. \A tx \in broadcast' \ broadcast : tx.op = op /\ tx.nonce = nonce
  BY <1>2, <1>6
<1>8. op \in Nat /\ pc # "idle"
  BY <1>1 DEF TypeOK
<1>9. ASSUME NEW result \in Outcomes, Finish(result) PROVE SendInv'
  BY <1>1, <1>3, <1>4, <1>6, <1>7, <1>8, <1>9, FinishKeepsInv
<1>10. ASSUME UNCHANGED <<cycleVars, outcome>>, nonce' = nonce, seen' = seen,
              fee' \in Nat, replacements' \in Nat, attempt' \in Nat, latest' \in Tx,
              pc' \in {"send", "confirm", "recheck", "account"}
       PROVE  SendInv'
  BY <1>1, <1>3, <1>4, <1>6, <1>7, <1>8, <1>10, GoingOnKeepsInv
     DEF cycleVars, PCs, Preparing, Sending, TypeOK
<1>11. CASE Again
  BY <1>10, <1>11 DEF TypeOK
<1>12. CASE SendAccepted
  BY <1>2, <1>10, <1>12 DEF SendAccepted, TypeOK, resultVars
<1>13. CASE ReceiptOk \/ (ReceiptNone /\ LastAttempt)
  BY <1>10, <1>13 DEF ReceiptOk, ReceiptNone, TypeOK, resultVars, localVars
<1>14. ASSUME NEW again \in BOOLEAN, Bump(again) PROVE SendInv'
  BY <1>9, <1>11, <1>14, BumpEffect DEF Outcomes
<1>15. ASSUME NEW result \in Outcomes, Retry(result) PROVE SendInv'
  BY <1>9, <1>11, <1>15, RetryEffect DEF Outcomes
<1> QED
  BY <1>9, <1>12, <1>13, <1>14, <1>15, <1>5a

LEMMA CycleKeepsInv ==
  ASSUME SendInv, StartCycle \/ Abandon \/ BoundReached
  PROVE  SendInv'
<1> USE DEF SendInv
<1>1. /\ chain' = chain /\ pool' = pool /\ broadcast' = broadcast
      /\ UNCHANGED <<inFlight, consecutiveFailures, killSwitch>>
      /\ config' = config /\ outcome' = outcome /\ booked' = booked
  BY DEF StartCycle, Abandon, BoundReached, vars, networkVars, reaperVars, resultVars, cycleVars
<1>2. ReaperTypeOK' /\ ChainOfBroadcasts'
  BY <1>1 DEF TypeOK, ReaperTypeOK, ChainOfBroadcasts
<1>3. CASE StartCycle
  <2>1. op' = op + 1 /\ pc' = "prepare" /\ pc = "idle" /\ op < MaxOps /\ cycleStart' = op + 1
    BY <1>3 DEF StartCycle
  <2>2. left' \in 0 .. MaxOps /\ op' + left' <= MaxOps
    <3>1. PICK k \in 1 .. TopN : left' = IF op + k <= MaxOps THEN k - 1 ELSE MaxOps - op - 1
      BY <1>3 DEF StartCycle
    <3> QED
      BY <2>1, <3>1 DEF TypeOK
  <2>3. TypeOK'
    BY <1>1, <1>2, <1>3, <2>1, <2>2 DEF StartCycle, TypeOK, PCs, localVars
  <2>4. \A tx \in broadcast : tx.op \in Int /\ tx.op <= op
    BY DEF TypeOK, Tx, AttemptsInOrder
  <2>5. AttemptsInOrder'
    <3>1. \A o \in Op : outcome[o] # "None" => o <= op
      BY DEF AttemptsInOrder
    <3>2. ~Sending' /\ op \in 0 .. MaxOps
      BY <2>1 DEF Sending, TypeOK
    <3>3. \A tx \in broadcast' : tx.op <= op' /\ tx.op # op'
      BY <1>1, <2>1, <2>4, <3>2
    <3>4. op' # 0 /\ \A o \in Op : outcome'[o] # "None" => o <= op' /\ o # op'
      BY <1>1, <2>1, <3>1, <3>2 DEF Op
    <3> QED
      BY <2>1, <2>2, <3>2, <3>3, <3>4 DEF AttemptsInOrder
  <2> QED
    BY <1>2, <2>3, <2>5
<1>4. CASE Abandon
  <2>1. op' = op /\ pc' = "idle" /\ left' = 0
    BY <1>4 DEF Abandon
  <2>2. TypeOK'
    BY <1>1, <1>2, <1>4, <2>1, NoTxType DEF Abandon, ResetLocals, TypeOK, PCs, Nonce
  <2>3. AttemptsInOrder'
    BY <1>1, <2>1 DEF AttemptsInOrder, TypeOK, Preparing, Sending
  <2> QED
    BY <1>2, <2>2, <2>3
<1>5. CASE BoundReached
  <2>1. UNCHANGED <<pc, op, left, cycleStart, nonce, fee, replacements, attempt, latest, seen>>
    BY <1>5 DEF BoundReached, vars, localVars, cycleVars
  <2>2. TypeOK' /\ AttemptsInOrder'
    BY <1>1, <1>2, <2>1 DEF TypeOK, AttemptsInOrder, Preparing, Sending
  <2> QED
    BY <1>2, <2>2
<1> QED
  BY <1>3, <1>4, <1>5

LEMMA EnvironmentKeepsInv ==
  ASSUME SendInv, Environment
  PROVE  SendInv'
<1> USE DEF SendInv
<1> DEFINE Mined1 == [tx : Tx, ok : BOOLEAN]
<1>1. UNCHANGED <<broadcast, localVars, cycleVars, resultVars, pc>>
  BY DEF Environment, Mine, Evict, Stall, networkVars
<1>2. AttemptsInOrder'
  BY <1>1 DEF AttemptsInOrder, Preparing, Sending, localVars, cycleVars, resultVars
<1>3. ASSUME ReaperTypeOK', chain' \in Seq(Mined1), pool' \in [Nonce -> Tx]
      PROVE  TypeOK'
  BY <1>1, <1>3 DEF TypeOK, localVars, cycleVars, resultVars
<1>4. CASE Mine
  <2>1. PICK tx \in broadcast, ok \in BOOLEAN :
          /\ tx.nonce = ChainNonce
          /\ chain' = Append(chain, [tx |-> tx, ok |-> ok])
          /\ pool' = [pool EXCEPT ![tx.nonce] = NoTx]
          /\ UNCHANGED reaperVars
    BY <1>4 DEF Mine
  <2> DEFINE entry == [tx |-> tx, ok |-> ok]
  <2>2. chain \in Seq(Mined1) /\ entry \in Mined1
    BY <2>1 DEF TypeOK
  <2>3. /\ Len(chain) \in Nat /\ DOMAIN chain = 1 .. Len(chain)
        /\ chain' \in Seq(Mined1) /\ Len(chain') = Len(chain) + 1
        /\ DOMAIN chain' = 1 .. Len(chain) + 1
        /\ \A i \in 1 .. Len(chain) : chain'[i] = chain[i]
        /\ chain'[Len(chain) + 1] = entry
    BY <2>1, <2>2, AppendProperties, LenProperties
  <2>4. TypeOK'
    BY <1>3, <2>1, <2>3, NoTxType DEF TypeOK, ReaperTypeOK, reaperVars
  <2>5. ChainOfBroadcasts'
    <3> SUFFICES ASSUME NEW i \in 1 .. Len(chain) + 1
                 PROVE  chain'[i].tx \in broadcast /\ chain'[i].tx.nonce = i - 1
      BY <1>1, <2>3 DEF ChainOfBroadcasts
    <3>1. CASE i \in 1 .. Len(chain)
      BY <2>3, <3>1 DEF ChainOfBroadcasts
    <3>2. CASE i = Len(chain) + 1
      BY <2>1, <2>3, <3>2 DEF ChainNonce
    <3> QED
      BY <2>3, <3>1, <3>2
  <2> QED
    BY <1>2, <2>4, <2>5
<1>5. ASSUME NEW n \in Nonce, Evict(n) PROVE SendInv'
  <2>1. ReaperTypeOK' /\ chain' = chain /\ pool' \in [Nonce -> Tx]
    BY <1>5, NoTxType DEF Evict, TypeOK, ReaperTypeOK, reaperVars
  <2>2. TypeOK'
    BY <1>3, <2>1 DEF TypeOK
  <2> QED
    BY <1>1, <1>2, <2>1, <2>2 DEF ChainOfBroadcasts
<1>6. ASSUME NEW n \in Nonce, Stall(n) PROVE SendInv'
  <2>1. ReaperTypeOK' /\ chain' = chain /\ pool' = pool
    BY <1>6 DEF Stall, Age, TypeOK, ReaperTypeOK, Ages, networkVars
  <2>2. TypeOK'
    BY <1>3, <2>1 DEF TypeOK
  <2> QED
    BY <1>1, <1>2, <2>1, <2>2 DEF ChainOfBroadcasts
<1> QED
  BY <1>4, <1>5, <1>6 DEF Environment

LEMMA SendInvNext ==
  ASSUME SendInv, [Next]_vars
  PROVE  SendInv'
<1>1. CASE StartCycle \/ Abandon \/ BoundReached
  BY <1>1, CycleKeepsInv
<1>2. CASE Executor
  BY <1>2, PrepareKeepsInv, ReapKeepsInv, ReserveKeepsInv, SendKeepsInv DEF Executor
<1>3. CASE Environment
  BY <1>3, EnvironmentKeepsInv
<1>4. CASE UNCHANGED vars
  BY <1>4 DEF vars, networkVars, reaperVars, localVars, cycleVars, resultVars, SendInv,
       TypeOK, ReaperTypeOK, AttemptsInOrder, Preparing, Sending, ChainOfBroadcasts
<1> QED
  BY <1>1, <1>2, <1>3, <1>4 DEF Next

(* The inductive invariant of the send path: types, the order of the       *)
(* attempts and their transactions, and a chain made of broadcasts.        *)
THEOREM SendInvariant == Spec => []SendInv
<1>1. Init => SendInv
  <2> SUFFICES ASSUME Init PROVE SendInv
    OBVIOUS
  <2>1. ReaperTypeOK
    <3>1. killSwitch \in BOOLEAN
      BY Zenon DEF Init, ReaperInit
    <3> QED
      BY <3>1 DEF Init, ReaperInit, ReaperTypeOK, Ages
  <2>2. chain = <<>> /\ chain \in Seq([tx : Tx, ok : BOOLEAN])
    BY DEF Init
  <2>3. TypeOK
    BY <2>1, <2>2, NoTxType DEF Init, TypeOK, Nonce, Op, Outcomes, PCs
  <2>4. AttemptsInOrder
    BY DEF Init, AttemptsInOrder, Preparing, Sending
  <2>5. ChainOfBroadcasts
    BY <2>2 DEF ChainOfBroadcasts
  <2> QED
    BY <2>3, <2>4, <2>5 DEF SendInv
<1>2. SendInv /\ [Next]_vars => SendInv'
  BY SendInvNext
<1> QED
  BY <1>1, <1>2, PTL DEF Spec

-------------------------------------------------------------------------------
(* What follows from it                                                    *)

(* A step adds at most one transaction to the network: the trade of the    *)
(* send loop, a no-op of the reaper, or an approval outside of dry mode.   *)
LEMMA NewBroadcasts ==
  ASSUME SendInv, [Next]_vars, NEW tx \in broadcast' \ broadcast
  PROVE  /\ tx.op > 0 => tx = CurrentTx /\ pc = "send"
         /\ tx.op = 0 => pc = "cancel"
         /\ tx.op < 0 => ~config.sendsForbidden
<1> USE DEF SendInv
<1>1. ASSUME NEW sent \in Tx, Accept(sent) \/ MaybeDelivered(sent) PROVE tx = sent
  BY <1>1, Delivery DEF TypeOK
<1>2. CASE Send
  <2>1. CurrentTx \in Tx
    BY CurrentTxType
  <2>2. Accept(CurrentTx) \/ MaybeDelivered(CurrentTx) \/ UNCHANGED networkVars
    BY <1>2 DEF Send, SendAccepted, SendUnderpriced, SendNonceTooLow, SendAlreadyKnown,
                SendFails, SendTimesOut
  <2>3. pc = "send"
    BY <1>2 DEF Send, SendAccepted, SendUnderpriced, SendNonceTooLow, SendAlreadyKnown,
                SendFails, SendTimesOut
  <2>4. tx = CurrentTx
    BY <1>1, <2>1, <2>2 DEF networkVars
  <2>5. op \in Nat /\ op # 0
    BY <2>3 DEF AttemptsInOrder, TypeOK
  <2>6. tx.op > 0 /\ tx.op # 0 /\ ~(tx.op < 0)
    BY <2>4, <2>5 DEF CurrentTx
  <2> QED
    BY <2>3, <2>4, <2>6
<1>3. CASE CancelSent \/ CancelFailed
  <2>1. PICK gas \in CancelFees : Accept(CancelTx(gas)) \/ MaybeDelivered(CancelTx(gas))
    BY <1>3 DEF CancelSent, CancelFailed
  <2>2. CancelTx(gas) \in Tx
    BY CancelFeeTypes DEF CancelTx, Tx, TypeOK
  <2>3. pc = "cancel"
    BY <1>3 DEF CancelSent, CancelFailed
  <2>4. tx.op = 0
    BY <1>1, <2>1, <2>2 DEF CancelTx
  <2> QED
    BY <2>3, <2>4
<1>4. CASE ReapBlind \/ ReapLook \/ ReapFresh
  BY <1>4 DEF ReapBlind, ReapLook, ReapFresh, networkVars
<1>5. CASE ApproveSent \/ ApproveNotSent
  <2>1. PICK gas \in BaseFees : Accept(ApprovalTx(gas)) \/ MaybeDelivered(ApprovalTx(gas))
    BY <1>5 DEF ApproveSent, ApproveNotSent, ApprovalFees
  <2>2. ApprovalTx(gas) \in Tx /\ ApprovalTx(gas).op = -op /\ -op < 0
    BY <1>5, ApprovalType DEF ApproveSent, ApproveNotSent, WantsApproval, AttemptsInOrder, TypeOK
  <2>3. ~config.sendsForbidden
    BY <1>5 DEF ApproveSent, ApproveNotSent, WantsApproval
  <2>4. tx = ApprovalTx(gas)
    BY <1>1, <2>1, <2>2
  <2>5. tx.op < 0 /\ ~(tx.op > 0) /\ tx.op # 0
    BY <2>2, <2>4 DEF TypeOK
  <2> QED
    BY <2>3, <2>5
<1>7. CASE Refuse \/ Approved \/ RefuseApproved \/ PassGates \/ Reserve \/ Await
  BY <1>7 DEF Refuse, RouteUnsupported, EconomicsRefuse,
         StrategyRefuses, Approved, RefuseApproved, PassGates, Reserve, FetchNonce, FetchNonceFails, Populate,
       PopulateFails, Await, ReceiptOk, ReceiptReverted, ReceiptNone, ConfirmFails,
       Recheck, Account, networkVars
<1>6. CASE StartCycle \/ Abandon \/ BoundReached \/ Environment \/ UNCHANGED vars
  BY <1>6 DEF StartCycle, Abandon, BoundReached, Environment, Mine, Evict, Stall, vars, networkVars
<1> QED
  BY <1>2, <1>3, <1>4, <1>5, <1>6, <1>7 DEF Next, Executor, Reap, Prepare

(* Every transaction of a logical attempt carries the attempt's nonce.     *)
THEOREM OneNonce == Spec => []OneNoncePerAttempt
<1>1. Init => OneNoncePerAttempt
  BY DEF Init, OneNoncePerAttempt
<1>2. SendInv /\ OneNoncePerAttempt /\ [Next]_vars => OneNoncePerAttempt'
  <2> SUFFICES ASSUME SendInv, OneNoncePerAttempt, [Next]_vars,
                      NEW t \in broadcast', NEW u \in broadcast', t.op = u.op, t.op > 0
               PROVE  t.nonce = u.nonce
    BY DEF OneNoncePerAttempt
  <2>1. \A x \in broadcast' \ broadcast :
          x.op > 0 => x.op = op /\ x.nonce = nonce /\ Sending
    BY NewBroadcasts DEF CurrentTx, Sending
  <2>2. Sending => \A x \in broadcast : x.op = op => x.nonce = nonce
    BY DEF SendInv, AttemptsInOrder
  <2>3. CASE t \in broadcast /\ u \in broadcast
    BY <2>3 DEF OneNoncePerAttempt
  <2>4. CASE ~(t \in broadcast /\ u \in broadcast)
    BY <2>1, <2>2, <2>4
  <2> QED
    BY <2>3, <2>4
<1> QED
  BY <1>1, <1>2, SendInvariant, PTL DEF Spec

(* No logical attempt is executed twice: two of its transactions in the    *)
(* chain would carry the same nonce and so be at the same place of it.     *)
THEOREM AtMostOnce == Spec => []ExecutedAtMostOnce
<1>1. SendInv /\ OneNoncePerAttempt => ExecutedAtMostOnce
  <2> SUFFICES ASSUME SendInv, OneNoncePerAttempt,
                      NEW i \in DOMAIN chain, NEW j \in DOMAIN chain,
                      chain[i].tx.op = chain[j].tx.op, chain[i].tx.op > 0
               PROVE  i = j
    BY DEF ExecutedAtMostOnce
  <2>1. /\ chain[i].tx \in broadcast /\ chain[i].tx.nonce = i - 1
        /\ chain[j].tx \in broadcast /\ chain[j].tx.nonce = j - 1
    BY DEF SendInv, ChainOfBroadcasts
  <2>2. i - 1 = j - 1
    BY <2>1 DEF OneNoncePerAttempt
  <2>3. i \in Nat /\ j \in Nat
    BY LenProperties DEF SendInv, TypeOK
  <2> QED
    BY <2>2, <2>3
<1> QED
  BY <1>1, SendInvariant, OneNonce, PTL

(* How outcomes change: only the current attempt gets one, and one of      *)
(* those that promise silence only before the send loop.  The number of    *)
(* the attempt moves with an outcome or with a new batch only.             *)
LEMMA NewOutcomes ==
  ASSUME SendInv, [Next]_vars
  PROVE  \/ UNCHANGED <<op, cycleStart, outcome>>
         \/ StartCycle /\ outcome' = outcome
         \/ \E result \in Outcomes :
              /\ Finish(result) /\ op # 0 /\ pc # "idle"
              /\ result \in NothingSentOutcomes => Preparing
<1> USE DEF SendInv
<1>1. CASE Prepare
  <2>1. op # 0 /\ Preparing
    BY <1>1 DEF Prepare, Refuse, RouteUnsupported, EconomicsRefuse,
         StrategyRefuses, ApproveSent, ApproveNotSent, WantsApproval, Approved,
         RefuseApproved, PassGates, AttemptsInOrder, Preparing
  <2>2. (\E result \in Outcomes : Finish(result)) \/ UNCHANGED <<op, cycleStart, outcome>>
    BY <1>1 DEF Prepare, Refuse, RouteUnsupported, EconomicsRefuse,
         StrategyRefuses, ApproveSent, ApproveNotSent, Approved, RefuseApproved,
         PassGates, Outcomes, cycleVars, resultVars
  <2> QED
    BY <2>1, <2>2 DEF Preparing
<1>2. CASE Reserve
  <2>1. op # 0 /\ pc \in {"fetch", "populate"} /\ broadcast' = broadcast
    BY <1>2 DEF Reserve, FetchNonce, FetchNonceFails, Populate, PopulateFails,
                AttemptsInOrder, networkVars
  <2>2. (\E result \in Outcomes : Finish(result)) \/ UNCHANGED <<op, cycleStart, outcome>>
    BY <1>2 DEF Reserve, FetchNonce, FetchNonceFails, Populate, PopulateFails, Outcomes,
                resultVars, cycleVars
  <2> QED
    BY <2>1, <2>2 DEF Preparing
<1>3. CASE Send \/ Await
  <2>1. op # 0 /\ pc # "idle"
    BY <1>3 DEF Send, SendAccepted, SendUnderpriced, SendNonceTooLow, SendAlreadyKnown,
         SendFails, SendTimesOut, Await, ReceiptOk, ReceiptReverted, ReceiptNone,
         ConfirmFails, Recheck, Account, AttemptsInOrder
  <2>2. \/ UNCHANGED <<op, cycleStart, outcome>>
        \/ \E again \in BOOLEAN : Bump(again)
        \/ \E result \in {"Dropped", "TimeoutStuck"} : Retry(result)
        \/ \E result \in {"Dropped", "TimeoutStuck", "Confirmed", "Reverted"} : Finish(result)
    BY <1>3 DEF Send, SendAccepted, SendUnderpriced, SendNonceTooLow, SendAlreadyKnown,
         SendFails, SendTimesOut, Await, ReceiptOk, ReceiptReverted, ReceiptNone,
         ConfirmFails, Recheck, Account, SendErrorOutcome, resultVars, cycleVars
  <2>3. \/ UNCHANGED <<op, cycleStart, outcome>>
        \/ \E result \in Outcomes \ NothingSentOutcomes : Finish(result)
    BY <2>2, BumpEffect, RetryEffect DEF cycleVars, Outcomes, NothingSentOutcomes
  <2> QED
    BY <2>1, <2>3
<1>4. CASE Reap
  BY <1>4 DEF Reap, ReapBlind, ReapLook, ReapFresh, CancelSent, CancelFailed, resultVars,
           cycleVars
<1>5. CASE StartCycle \/ Abandon \/ BoundReached \/ Environment \/ UNCHANGED vars
  BY <1>5 DEF StartCycle, Abandon, BoundReached, Environment, Mine, Evict, Stall, vars,
           resultVars, cycleVars
<1> QED
  BY <1>1, <1>2, <1>3, <1>4, <1>5 DEF Next, Executor

(* An attempt reported as refused before the broadcast sent nothing.       *)
THEOREM AbortedSentNothing == Spec => []AbortedMeansNothingSent
<1>1. Init => AbortedMeansNothingSent
  BY DEF Init, AbortedMeansNothingSent, NothingSentOutcomes
<1>2. SendInv /\ AbortedMeansNothingSent /\ [Next]_vars => AbortedMeansNothingSent'
  <2> SUFFICES ASSUME SendInv, AbortedMeansNothingSent, [Next]_vars,
                      NEW o \in Op, outcome'[o] \in NothingSentOutcomes,
                      NEW tx \in broadcast', tx.op = o
               PROVE  FALSE
    BY DEF AbortedMeansNothingSent, SentBy
  <2>1. o > 0
    BY DEF Op
  <2>2. tx \in broadcast \/ (tx.op = op /\ Sending)
    BY <2>1, NewBroadcasts DEF CurrentTx, Sending
  <2>3. CASE outcome'[o] = outcome[o]
    <3>1. SentBy(o) = {} /\ outcome[o] # "None"
      BY <2>3 DEF AbortedMeansNothingSent, NothingSentOutcomes
    <3>2. tx.op = op /\ Sending
      BY <2>2, <3>1 DEF SentBy
    <3> QED
      BY <3>1, <3>2 DEF SendInv, AttemptsInOrder, Sending
  <2>4. CASE outcome'[o] # outcome[o]
    <3>1. PICK result \in Outcomes :
            /\ Finish(result) /\ op # 0 /\ pc # "idle"
            /\ result \in NothingSentOutcomes => Preparing
      BY <2>4, NewOutcomes
    <3>2. outcome' = [outcome EXCEPT ![op] = result]
      BY <3>1 DEF Finish
    <3>3. o = op /\ result \in NothingSentOutcomes
      BY <2>4, <3>2 DEF SendInv, TypeOK
    <3>4. Preparing /\ ~Sending
      BY <3>1, <3>3 DEF Preparing, Sending
    <3> QED
      BY <2>2, <3>3, <3>4 DEF SendInv, AttemptsInOrder
  <2> QED
    BY <2>3, <2>4
<1> QED
  BY <1>1, <1>2, SendInvariant, PTL DEF Spec

(* In one batch at most one opportunity reaches the network: the earlier   *)
(* ones were all aborted before the broadcast, and so sent nothing.        *)
THEOREM OneSender == Spec => []OneSenderPerBatch
<1>1. Init => EarlierWereAborted
  BY DEF Init, EarlierWereAborted, Op
<1>2. SendInv /\ EarlierWereAborted /\ [Next]_vars => EarlierWereAborted'
  <2> SUFFICES ASSUME SendInv, EarlierWereAborted, [Next]_vars,
                      NEW o \in Op, cycleStart' <= o, o < op'
               PROVE  outcome'[o] = "AbortedPreBroadcast"
    BY DEF EarlierWereAborted
  <2>1. op \in 0 .. MaxOps
    BY DEF SendInv, TypeOK
  <2>2. CASE StartCycle
    BY <2>1, <2>2 DEF StartCycle, Op
  <2>3. ASSUME NEW result \in Outcomes, Finish(result), op # 0, pc # "idle"
        PROVE  outcome'[o] = "AbortedPreBroadcast"
    <3>1. outcome' = [outcome EXCEPT ![op] = result] /\ cycleStart' = cycleStart
      BY <2>3 DEF Finish
    <3>2. op' = op \/ (op' = op + 1 /\ result = "AbortedPreBroadcast")
      BY <2>3 DEF Finish, ShouldTryNext
    <3>3. outcome \in [Op -> Outcomes]
      BY DEF SendInv, TypeOK
    <3>4. CASE o < op
      BY <2>1, <3>1, <3>3, <3>4 DEF EarlierWereAborted, Op
    <3>5. CASE o = op
      BY <2>1, <3>1, <3>2, <3>3, <3>5 DEF Op
    <3> QED
      BY <2>1, <3>2, <3>4, <3>5 DEF Op
  <2>4. CASE UNCHANGED <<op, cycleStart, outcome>>
    BY <2>4 DEF EarlierWereAborted
  <2> QED
    BY <2>2, <2>3, <2>4, NewOutcomes
<1>3. SendInv /\ AbortedMeansNothingSent /\ EarlierWereAborted => OneSenderPerBatch
  <2> SUFFICES ASSUME SendInv, AbortedMeansNothingSent, EarlierWereAborted, cycleStart # 0
               PROVE  Cardinality({o \in cycleStart .. op : SentBy(o) # {}}) <= 1
    BY DEF OneSenderPerBatch
  <2> DEFINE senders == {o \in cycleStart .. op : SentBy(o) # {}}
  <2>1. senders \subseteq {op}
    <3> SUFFICES ASSUME NEW o \in cycleStart .. op, o # op PROVE SentBy(o) = {}
      OBVIOUS
    <3>1. o \in Op /\ cycleStart <= o /\ o < op
      BY DEF SendInv, TypeOK, Op
    <3>2. outcome[o] = "AbortedPreBroadcast"
      BY <3>1 DEF EarlierWereAborted
    <3> QED
      BY <3>1, <3>2 DEF AbortedMeansNothingSent, NothingSentOutcomes
  <2>2. IsFiniteSet({op}) /\ Cardinality({op}) = 1
    BY FS_Singleton
  <2>3. Cardinality(senders) <= Cardinality({op})
    BY <2>1, <2>2, FS_Subset
  <2> QED
    BY <2>2, <2>3
<1> QED
  BY <1>1, <1>2, <1>3, SendInvariant, AbortedSentNothing, PTL DEF Spec

-------------------------------------------------------------------------------
(* The gates                                                               *)

RelayClosed ==
  config.privateRelayRequired \/ (config.mevEnabled /\ config.defaultRelay)

(* Where the executor can be while a gate is closed.                       *)
ClosedGatesStop ==
  /\ config.sendsForbidden => pc \in {"idle", "prepare"}
  /\ RelayClosed => pc \in {"idle", "prepare", "approve", "simulate"}

LEMMA ClosedGates ==
  ASSUME TypeOK, config.sendsForbidden \/ RelayClosed
  PROVE  Gate # "open"
BY ConfigsAssumption DEF TypeOK, Config, Gate, EngineWired, RelayClosed

LEMMA GatesKeep ==
  ASSUME SendInv, ClosedGatesStop, [Next]_vars
  PROVE  ClosedGatesStop' /\ config' = config
<1> USE DEF SendInv, RelayClosed
<1>1. ASSUME NEW result, Finish(result) PROVE pc' \in {"idle", "prepare"} /\ config' = config
  BY <1>1 DEF Finish
<1>2. CASE Refuse \/ ApproveNotSent \/ RefuseApproved
  BY <1>1, <1>2 DEF Refuse, RouteUnsupported, EconomicsRefuse, StrategyRefuses,
       ApproveNotSent, RefuseApproved, ClosedGatesStop
<1>3. CASE ApproveSent \/ Approved
  BY <1>3 DEF ApproveSent, WantsApproval, Approved, ClosedGatesStop, cycleVars
<1>4. CASE PassGates
  <2>1. CASE Gate = "open"
    BY <1>4, <2>1, ClosedGates DEF PassGates, cycleVars, ClosedGatesStop
  <2>2. CASE Gate # "open"
    BY <1>1, <1>4, <2>2 DEF PassGates, ClosedGatesStop
  <2> QED
    BY <2>1, <2>2
<1>5. CASE Reap \/ Reserve
  <2>1. pc \notin {"idle", "prepare", "approve", "simulate"}
    BY <1>5 DEF Reap, ReapBlind, ReapLook, ReapFresh, CancelSent, CancelFailed, Reserve,
         FetchNonce, FetchNonceFails, Populate, PopulateFails
  <2>2. config' = config
    BY <1>1, <1>5 DEF Reap, ReapBlind, ReapLook, ReapFresh, CancelSent, CancelFailed, Reserve,
         FetchNonce, FetchNonceFails, Populate, PopulateFails, cycleVars
  <2> QED
    BY <2>1, <2>2 DEF ClosedGatesStop
<1>6. CASE Send \/ Await
  <2>1. pc \notin {"idle", "prepare", "approve", "simulate"}
    BY <1>6 DEF Send, SendAccepted, SendUnderpriced, SendNonceTooLow, SendAlreadyKnown,
         SendFails, SendTimesOut, Await, ReceiptOk, ReceiptReverted, ReceiptNone,
         ConfirmFails, Recheck, Account
  <2>2. ASSUME NEW again, Bump(again) PROVE config' = config
    BY <1>1, <2>2 DEF Bump, cycleVars
  <2>3. ASSUME NEW result, Retry(result) PROVE config' = config
    BY <1>1, <2>2, <2>3 DEF Retry
  <2>4. config' = config
    BY <1>1, <1>6, <2>2, <2>3 DEF Send, SendAccepted, SendUnderpriced, SendNonceTooLow,
         SendAlreadyKnown, SendFails, SendTimesOut, Await, ReceiptOk, ReceiptReverted,
         ReceiptNone, ConfirmFails, Recheck, Account, cycleVars
  <2> QED
    BY <2>1, <2>4 DEF ClosedGatesStop
<1>7. CASE StartCycle \/ Abandon \/ BoundReached \/ Environment \/ UNCHANGED vars
  BY <1>7 DEF StartCycle, Abandon, BoundReached, Environment, Mine, Evict, Stall, vars,
       cycleVars, ClosedGatesStop
<1> QED
  BY <1>2, <1>3, <1>4, <1>5, <1>6, <1>7 DEF Next, Executor, Prepare

(* A closed gate lets nothing out, under any configuration.                *)
THEOREM GatesAreTight == Spec => []ClosedGatesSendNothing
<1>1. Init => ClosedGatesStop /\ ClosedGatesSendNothing
  BY DEF Init, ClosedGatesStop, ClosedGatesSendNothing
<1>2. SendInv /\ ClosedGatesStop /\ [Next]_vars => ClosedGatesStop'
  BY GatesKeep
<1>3. SendInv /\ ClosedGatesStop /\ ClosedGatesSendNothing /\ [Next]_vars
        => ClosedGatesSendNothing'
  <2> SUFFICES ASSUME SendInv, ClosedGatesStop, ClosedGatesSendNothing, [Next]_vars
               PROVE  ClosedGatesSendNothing'
    OBVIOUS
  <2>1. config' = config
    BY GatesKeep
  <2>2. \A tx \in broadcast' : tx.op \in Int
    <3>1. broadcast' \in SUBSET Tx
      BY SendInvNext DEF SendInv, TypeOK
    <3> QED
      BY <3>1 DEF Tx
  <2>3. ASSUME config.sendsForbidden, NEW tx \in broadcast' \ broadcast PROVE FALSE
    <3>1. pc # "send" /\ pc # "cancel"
      BY <2>3 DEF ClosedGatesStop
    <3> QED
      BY <2>2, <2>3, <3>1, NewBroadcasts
  <2>4. ASSUME RelayClosed, NEW tx \in broadcast' \ broadcast PROVE tx.op < 0
    <3>1. pc # "send" /\ pc # "cancel"
      BY <2>4 DEF ClosedGatesStop
    <3> QED
      BY <2>2, <2>4, <3>1, NewBroadcasts
  <2> QED
    BY <2>1, <2>3, <2>4 DEF ClosedGatesSendNothing, RelayClosed
<1> QED
  BY <1>1, <1>2, <1>3, SendInvariant, PTL DEF Spec

-------------------------------------------------------------------------------
(* The replacements                                                        *)

(* The current attempt has sent one fee for each replacement and one more, *)
(* the highest last, and every fee but the first is below the ceiling.     *)
FewFees ==
  /\ \A o \in Op : IsFiniteSet(SentBy(o))
  /\ replacements <= MaxReplace
  /\ ~Sending => replacements = 0
  /\ Sending =>
       /\ Cardinality(SentBy(op)) <= IF pc = "send" THEN replacements ELSE replacements + 1
       /\ \A tx \in SentBy(op) : tx.fee <= fee
       /\ Ceiling # 0 /\ replacements > 0 => fee <= Ceiling
       /\ replacements = 0 => \A tx \in SentBy(op) : tx.fee = fee

(* What a step adds to the transactions of an attempt.                     *)
SentNext(o) == {tx \in broadcast' : tx.op = o}

LEMMA NewSentBy ==
  ASSUME SendInv, [Next]_vars, NEW o \in Op
  PROVE  /\ SentNext(o) \subseteq SentBy(o) \cup {CurrentTx}
         /\ o # op \/ pc # "send" => SentNext(o) \subseteq SentBy(o)
<1>1. \A tx \in broadcast' \ broadcast : tx.op = o => tx = CurrentTx /\ pc = "send"
  BY NewBroadcasts DEF Op
<1>2. CurrentTx.op = op
  BY DEF CurrentTx
<1> QED
  BY <1>1, <1>2 DEF SentBy, SentNext

LEMMA GrowsByOne ==
  ASSUME NEW S, NEW T, NEW x, IsFiniteSet(S), T \subseteq S \cup {x}
  PROVE  IsFiniteSet(T) /\ Cardinality(T) \in Nat /\ Cardinality(S) \in Nat
         /\ Cardinality(T) <= Cardinality(S) + 1
<1>1. IsFiniteSet(S \cup {x}) /\ Cardinality(S) \in Nat
      /\ Cardinality(S \cup {x}) = IF x \in S THEN Cardinality(S) ELSE Cardinality(S) + 1
  BY FS_AddElement, FS_CardinalityType
<1>2. IsFiniteSet(T) /\ Cardinality(T) <= Cardinality(S \cup {x})
  BY <1>1, FS_Subset
<1>3. Cardinality(T) \in Nat
  BY <1>2, FS_CardinalityType
<1> QED
  BY <1>1, <1>2, <1>3

(* How a step moves the send loop.                                         *)
LEMMA LoopEffect ==
  ASSUME SendInv, [Next]_vars
  PROVE  \/ ~Sending' /\ replacements' = 0
         \/ ~Sending' /\ ~Sending /\ replacements' = replacements
         \/ pc = "populate" /\ pc' = "send" /\ op' = op /\ replacements' = replacements
         \/ Sending /\ Sending' /\ pc' # "send" /\ UNCHANGED <<op, fee, replacements>>
         \/ /\ Sending /\ pc' = "send" /\ op' = op /\ ~BumpAborts
            /\ fee' = BumpedFee /\ replacements' = replacements + 1
         \/ UNCHANGED <<pc, op, fee, replacements, broadcast>>
<1>1. ASSUME NEW result, Finish(result) PROVE ~Sending' /\ replacements' = 0
  BY <1>1 DEF Finish, ResetLocals, Sending
<1>2. ASSUME NEW again, Bump(again)
      PROVE  \/ ~Sending' /\ replacements' = 0
             \/ /\ pc' = "send" /\ op' = op /\ ~BumpAborts
                /\ fee' = BumpedFee /\ replacements' = replacements + 1
  BY <1>1, <1>2 DEF Bump, cycleVars
<1>3. ASSUME NEW result, Retry(result)
      PROVE  \/ ~Sending' /\ replacements' = 0
             \/ /\ pc' = "send" /\ op' = op /\ ~BumpAborts
                /\ fee' = BumpedFee /\ replacements' = replacements + 1
  BY <1>1, <1>2, <1>3 DEF Retry
<1>4. CASE Prepare
  BY <1>1, <1>4 DEF Prepare, Refuse, RouteUnsupported, EconomicsRefuse, StrategyRefuses,
       ApproveSent, ApproveNotSent, WantsApproval, Approved, RefuseApproved, PassGates,
       localVars, Sending
<1>5. CASE Reap
  BY <1>5 DEF Reap, ReapBlind, ReapLook, ReapFresh, CancelSent, CancelFailed, localVars, Sending
<1>6. CASE Reserve
  BY <1>1, <1>6 DEF Reserve, FetchNonce, FetchNonceFails, Populate, PopulateFails, cycleVars,
       Sending
<1>7. CASE Send
  BY <1>2, <1>3, <1>7 DEF Send, SendAccepted, SendUnderpriced, SendNonceTooLow,
       SendAlreadyKnown, SendFails, SendTimesOut, cycleVars, Sending
<1>8. CASE Await
  BY <1>1, <1>2, <1>3, <1>8 DEF Await, ReceiptOk, ReceiptReverted, ReceiptNone, ConfirmFails,
       Recheck, Account, cycleVars, localVars, Sending
<1>9. CASE StartCycle \/ Abandon
  BY <1>9 DEF StartCycle, Abandon, ResetLocals, localVars, Sending
<1>10. CASE BoundReached \/ Environment \/ UNCHANGED vars
  BY <1>10 DEF BoundReached, Environment, Mine, Evict, Stall, vars, localVars, cycleVars,
       networkVars
<1> QED
  BY <1>4, <1>5, <1>6, <1>7, <1>8, <1>9, <1>10 DEF Next, Executor

LEMMA BumpRaises ==
  ASSUME NEW f \in Nat
  PROVE  (f * Multiplier) \div 100 >= f
<1>1. f * Multiplier \in Nat /\ f * Multiplier >= f * 100
  <2>1. PICK k \in Nat : Multiplier = 100 + k
    <3>1. Multiplier - 100 \in Nat /\ Multiplier = 100 + (Multiplier - 100)
      OBVIOUS
    <3> QED
      BY <3>1
  <2>2. f * Multiplier = f * 100 + f * k /\ f * k \in Nat
    BY <2>1
  <2> QED
    BY <2>2
<1> DEFINE p == f * Multiplier
<1>2. p \in Nat /\ p >= f * 100
  BY <1>1
<1> HIDE DEF p
<1>3. p \div 100 >= f
  BY <1>2
<1> QED
  BY <1>3 DEF p

(* While it is sending: what the attempt will have sent after the step.    *)
LEMMA SentSoFar ==
  ASSUME SendInv, FewFees, [Next]_vars, Sending
  PROVE  /\ op \in Op /\ replacements \in Nat /\ fee \in Nat
         /\ Cardinality(SentNext(op)) \in Nat
         /\ Cardinality(SentNext(op)) <= replacements + 1
         /\ \A tx \in SentNext(op) : tx.fee <= fee
         /\ replacements = 0 => \A tx \in SentNext(op) : tx.fee = fee
<1>1. op \in Op /\ replacements \in Nat /\ fee \in Nat
  BY DEF SendInv, TypeOK, AttemptsInOrder, Sending, Op
<1> DEFINE before == SentBy(op)
           after == SentNext(op)
<1>2. IsFiniteSet(before) /\ after \subseteq before \cup {CurrentTx}
  BY <1>1, NewSentBy DEF FewFees
<1>3. pc # "send" => after \subseteq before
  BY <1>1, NewSentBy
<1>4. \A tx \in before : tx.fee <= fee
  BY DEF FewFees
<1>5. replacements = 0 => \A tx \in before : tx.fee = fee
  BY DEF FewFees
<1>6. CurrentTx.fee = fee
  BY DEF CurrentTx
<1>7. Cardinality(before) <= IF pc = "send" THEN replacements ELSE replacements + 1
  BY DEF FewFees
<1> HIDE DEF before, after
<1>8. Cardinality(after) \in Nat /\ Cardinality(before) \in Nat
      /\ Cardinality(after) <= Cardinality(before) + 1
  BY <1>2, GrowsByOne
<1>9. Cardinality(after) <= replacements + 1
  <2>1. CASE pc = "send"
    BY <1>1, <1>7, <1>8, <2>1
  <2>2. CASE pc # "send"
    <3>1. Cardinality(after) <= Cardinality(before)
      BY <1>2, <1>3, <2>2, FS_Subset
    <3> QED
      BY <1>1, <1>7, <1>8, <2>2, <3>1
  <2> QED
    BY <2>1, <2>2
<1>10. \A tx \in after : tx.fee <= fee
  BY <1>1, <1>2, <1>4, <1>6
<1>11. replacements = 0 => \A tx \in after : tx.fee = fee
  BY <1>2, <1>5, <1>6
<1> QED
  BY <1>1, <1>8, <1>9, <1>10, <1>11 DEF after

LEMMA FewFeesStep ==
  ASSUME SendInv, FewFees, [Next]_vars
  PROVE  FewFees'
<1>1. \A o \in Op : IsFiniteSet(SentNext(o))
  BY NewSentBy, GrowsByOne DEF FewFees
<1>2. replacements \in Nat /\ fee \in Nat
  BY DEF SendInv, TypeOK
<1>0. (\A o \in Op : SentBy(o)' = SentNext(o)) /\ (op' = op => SentBy(op)' = SentNext(op))
  BY DEF SentBy, SentNext
<1>3. CASE ~Sending' /\ (replacements' = 0 \/ (~Sending /\ replacements' = replacements))
  BY <1>0, <1>1, <1>2, <1>3, MaxReplaceAssumption DEF FewFees
<1>4. CASE pc = "populate" /\ pc' = "send" /\ op' = op /\ replacements' = replacements
  <2>1. op \in Op /\ SentBy(op) = {}
    BY <1>4 DEF SendInv, TypeOK, AttemptsInOrder, Preparing, SentBy, Op
  <2>2. SentNext(op) = {}
    BY <1>4, <2>1, NewSentBy
  <2>3. replacements = 0
    BY <1>4 DEF FewFees, Sending
  <2>4. Cardinality({}) = 0
    BY FS_EmptySet
  <2> QED
    BY <1>0, <1>1, <1>4, <2>2, <2>3, <2>4, MaxReplaceAssumption DEF FewFees, Sending
<1>5. CASE Sending /\ Sending' /\ pc' # "send" /\ UNCHANGED <<op, fee, replacements>>
  BY <1>0, <1>1, <1>5, SentSoFar DEF FewFees
<1>6. CASE /\ Sending /\ pc' = "send" /\ op' = op /\ ~BumpAborts
           /\ fee' = BumpedFee /\ replacements' = replacements + 1
  <2>1. fee' \in Nat /\ fee' >= fee
    BY <1>2, <1>6, BumpRaises, FeeTypes DEF BumpedFee
  <2>2. replacements + 1 <= MaxReplace /\ (Ceiling # 0 => fee' <= Ceiling)
    BY <1>2, <1>6, <2>1, CeilingAssumption, MaxReplaceAssumption DEF BumpAborts
  <2>3. \A tx \in SentNext(op) : tx.fee \in Nat /\ tx.fee <= fee
    <3>1. broadcast' \in SUBSET Tx
      BY SendInvNext DEF SendInv, TypeOK
    <3> QED
      BY <1>2, <1>6, <3>1, SentSoFar DEF Tx, SentNext
  <2>4. \A tx \in SentNext(op) : tx.fee <= fee'
    BY <1>2, <2>1, <2>3
  <2>5. Cardinality(SentNext(op)) <= replacements + 1
    BY <1>6, SentSoFar
  <2>6. ~(replacements + 1 = 0)
    BY <1>2
  <2> QED
    BY <1>0, <1>1, <1>6, <2>2, <2>4, <2>5, <2>6 DEF FewFees, Sending
<1>7. CASE UNCHANGED <<pc, op, fee, replacements, broadcast>>
  BY <1>7 DEF FewFees, Sending, SentBy
<1> QED
  BY <1>3, <1>4, <1>5, <1>6, <1>7, LoopEffect

(* The limits on replacing a transaction hold for every attempt.           *)
THEOREM ReplacementsAreBounded == Spec => []ReplacementsBounded
<1>1. Init => FewFees /\ ReplacementsBounded
  <2>1. IsFiniteSet({}) /\ Cardinality({}) = 0
    BY FS_EmptySet
  <2>2. Init => \A o \in Op : SentBy(o) = {}
    BY DEF Init, SentBy
  <2>3. Init => op = 0 /\ replacements = 0 /\ ~Sending
    BY DEF Init, Sending
  <2>4. ASSUME Init PROVE FewFees
    BY <2>1, <2>2, <2>3, <2>4, MaxReplaceAssumption DEF FewFees
  <2>5. ASSUME Init PROVE ReplacementsBounded
    BY <2>1, <2>2, <2>5, MaxReplaceAssumption DEF ReplacementsBounded
  <2> QED
    BY <2>4, <2>5
<1>2. SendInv /\ FewFees /\ [Next]_vars => FewFees'
  BY FewFeesStep
<1>3. SendInv /\ FewFees /\ ReplacementsBounded /\ [Next]_vars => ReplacementsBounded'
  <2> SUFFICES ASSUME SendInv, FewFees, ReplacementsBounded, [Next]_vars, NEW o \in Op
               PROVE  /\ Cardinality(SentNext(o)) <= MaxReplace + 1
                      /\ Ceiling # 0 =>
                           \A t, u \in SentNext(o) : u.fee > t.fee => u.fee <= Ceiling
    BY DEF ReplacementsBounded, SentBy, SentNext
  <2>1. CASE SentNext(o) \subseteq SentBy(o)
    <3>1. IsFiniteSet(SentBy(o)) /\ IsFiniteSet(SentNext(o))
          /\ Cardinality(SentNext(o)) <= Cardinality(SentBy(o))
      BY <2>1, FS_Subset DEF FewFees
    <3>2. Cardinality(SentNext(o)) \in Nat /\ Cardinality(SentBy(o)) \in Nat
      BY <3>1, FS_CardinalityType
    <3>3. Cardinality(SentNext(o)) <= MaxReplace + 1
      BY <3>1, <3>2, MaxReplaceAssumption DEF ReplacementsBounded
    <3> QED
      BY <2>1, <3>3 DEF ReplacementsBounded
  <2>2. CASE o = op /\ pc = "send"
    <3>1. Sending
      BY <2>2 DEF Sending
    <3>2. /\ Cardinality(SentNext(o)) \in Nat /\ Cardinality(SentNext(o)) <= replacements + 1
          /\ \A tx \in SentNext(o) : tx.fee <= fee
          /\ replacements = 0 => \A tx \in SentNext(o) : tx.fee = fee
          /\ replacements \in Nat /\ fee \in Nat
      BY <2>2, <3>1, SentSoFar
    <3>3. replacements <= MaxReplace
      BY DEF FewFees
    <3>4. Cardinality(SentNext(o)) <= MaxReplace + 1
      BY <3>2, <3>3, MaxReplaceAssumption
    <3>5. ASSUME Ceiling # 0, NEW t \in SentNext(o), NEW u \in SentNext(o), u.fee > t.fee
          PROVE  u.fee <= Ceiling
      <4>1. t.fee \in Nat /\ u.fee \in Nat
        <5>1. broadcast' \in SUBSET Tx
          BY SendInvNext DEF SendInv, TypeOK
        <5> QED
          BY <3>5, <5>1 DEF Tx, SentNext
      <4>2. replacements > 0
        BY <3>2, <3>5, <4>1
      <4>3. fee <= Ceiling
        BY <3>1, <3>5, <4>2 DEF FewFees
      <4> QED
        BY <3>2, <4>1, <4>3, CeilingAssumption
    <3> QED
      BY <3>4, <3>5
  <2> QED
    BY <2>1, <2>2, NewSentBy
<1> QED
  BY <1>1, <1>2, <1>3, SendInvariant, PTL DEF Spec
-------------------------------------------------------------------------------
(* The receipts, and the refinement of TradeAttempts                       *)

(* What is awaited is a transaction of the current attempt, and it is      *)
(* accounted for only when it was mined and went well.                     *)
AwaitsItsOwn ==
  /\ pc \in {"confirm", "recheck", "account"} => latest \in broadcast /\ latest.op = op
  /\ pc = "account" => Mined(latest, TRUE)

MinedNext(tx, ok) == \E i \in DOMAIN chain' : chain'[i] = [tx |-> tx, ok |-> ok]

(* The chain and the network only grow.                                    *)
LEMMA NothingIsUnmined ==
  ASSUME SendInv, [Next]_vars
  PROVE  /\ chain' = chain \/ Mine
         /\ \A tx, ok : Mined(tx, ok) => MinedNext(tx, ok)
         /\ broadcast \subseteq broadcast'
<1> USE DEF SendInv
<1>1. ASSUME NEW tx \in Tx, Accept(tx) \/ MaybeDelivered(tx)
      PROVE  chain' = chain /\ broadcast \subseteq broadcast'
  BY <1>1, Delivery DEF TypeOK
<1>2. (chain' = chain \/ Mine) /\ broadcast \subseteq broadcast'
  <2>1. CASE Send
    <3>1. CurrentTx \in Tx
      BY CurrentTxType
    <3> QED
      BY <1>1, <2>1, <3>1 DEF Send, SendAccepted, SendUnderpriced, SendNonceTooLow,
         SendAlreadyKnown, SendFails, SendTimesOut, networkVars
  <2>2. CASE CancelSent \/ CancelFailed
    <3>1. \A gas \in CancelFees : CancelTx(gas) \in Tx
      BY CancelFeeTypes DEF CancelTx, Tx, TypeOK
    <3> QED
      BY <1>1, <2>2, <3>1 DEF CancelSent, CancelFailed
  <2>3. CASE ApproveSent \/ ApproveNotSent
    <3>1. \A gas \in ApprovalFees : ApprovalTx(gas) \in Tx
      BY <2>3, ApprovalType
         DEF ApproveSent, ApproveNotSent, WantsApproval, ApprovalFees, AttemptsInOrder
    <3> QED
      BY <1>1, <2>3, <3>1 DEF ApproveSent, ApproveNotSent
  <2>4. CASE ReapBlind \/ ReapLook \/ ReapFresh
    BY <2>4 DEF ReapBlind, ReapLook, ReapFresh, networkVars
  <2>5. CASE Refuse \/ Approved \/ RefuseApproved \/ PassGates \/ Reserve \/ Await
    BY <2>5 DEF Refuse, RouteUnsupported, EconomicsRefuse, StrategyRefuses, Approved,
       RefuseApproved, PassGates, Reserve, FetchNonce, FetchNonceFails, Populate,
       PopulateFails, Await, ReceiptOk, ReceiptReverted, ReceiptNone, ConfirmFails,
       Recheck, Account, networkVars
  <2>6. CASE StartCycle \/ Abandon \/ BoundReached \/ Environment \/ UNCHANGED vars
    BY <2>6 DEF StartCycle, Abandon, BoundReached, Environment, Mine, Evict, Stall, vars,
       networkVars
  <2> QED
    BY <2>1, <2>2, <2>3, <2>4, <2>5, <2>6 DEF Next, Executor, Reap, Prepare
<1>3. ASSUME Mine, NEW tx, NEW ok, Mined(tx, ok) PROVE MinedNext(tx, ok)
  <2>1. PICK e : chain' = Append(chain, e) /\ e \in [tx : Tx, ok : BOOLEAN]
    BY <1>3 DEF Mine, TypeOK
  <2>2. PICK i \in DOMAIN chain : chain[i] = [tx |-> tx, ok |-> ok]
    BY <1>3 DEF Mined
  <2>3. i \in DOMAIN chain' /\ chain'[i] = chain[i]
    BY <2>1, <2>2, AppendProperties DEF TypeOK
  <2> QED
    BY <2>2, <2>3 DEF MinedNext
<1> QED
  BY <1>2, <1>3 DEF Mined, MinedNext

(* How the hash that is awaited comes about.                               *)
LEMMA WaitsFor ==
  ASSUME SendInv, [Next]_vars, pc' \in {"confirm", "recheck", "account"}
  PROVE  \/ /\ latest' = CurrentTx /\ CurrentTx \in broadcast' /\ op' = op
            /\ pc' = "confirm"
         \/ /\ UNCHANGED <<latest, op>> /\ pc \in {"confirm", "recheck", "account"}
            /\ pc' = "account" => pc = "account" \/ Mined(latest, TRUE)
<1>1. ASSUME NEW result, Finish(result) PROVE FALSE
  BY <1>1 DEF Finish
<1>2. ASSUME NEW again, Bump(again) PROVE FALSE
  BY <1>1, <1>2 DEF Bump
<1>3. ASSUME NEW result, Retry(result) PROVE FALSE
  BY <1>1, <1>2, <1>3 DEF Retry
<1>4. CASE Prepare \/ Reap \/ Reserve
  BY <1>1, <1>4 DEF Prepare, Refuse, RouteUnsupported, EconomicsRefuse, StrategyRefuses,
       ApproveSent, ApproveNotSent, Approved, RefuseApproved, PassGates,
       Reap, ReapBlind, ReapLook, ReapFresh, CancelSent, CancelFailed, Reserve,
       FetchNonce, FetchNonceFails, Populate, PopulateFails
<1>5. CASE Send
  BY <1>2, <1>3, <1>5 DEF Send, SendAccepted, SendUnderpriced, SendNonceTooLow,
       SendAlreadyKnown, SendFails, SendTimesOut, Accept, cycleVars
<1>6. CASE Await
  BY <1>1, <1>2, <1>3, <1>6 DEF Await, ReceiptOk, StatusOne, ReceiptReverted, ReceiptNone,
       ConfirmFails, Recheck, Account, localVars, cycleVars
<1>7. CASE StartCycle \/ Abandon \/ BoundReached \/ Environment \/ UNCHANGED vars
  BY <1>7 DEF StartCycle, Abandon, BoundReached, Environment, Mine, Evict, Stall, vars,
       localVars, cycleVars
<1> QED
  BY <1>4, <1>5, <1>6, <1>7 DEF Next, Executor

LEMMA AwaitsItsOwnStep ==
  ASSUME SendInv, AwaitsItsOwn, [Next]_vars
  PROVE  AwaitsItsOwn'
<1>1. \A tx, ok : Mined(tx, ok) => MinedNext(tx, ok)
  BY NothingIsUnmined
<1>2. broadcast \subseteq broadcast'
  BY NothingIsUnmined
<1>3. ASSUME pc' \in {"confirm", "recheck", "account"}
      PROVE  latest' \in broadcast' /\ latest'.op = op'
  <2>1. CurrentTx.op = op
    BY DEF CurrentTx
  <2>2. CASE latest' = CurrentTx /\ CurrentTx \in broadcast' /\ op' = op
    BY <2>1, <2>2
  <2>3. CASE UNCHANGED <<latest, op>> /\ pc \in {"confirm", "recheck", "account"}
    BY <1>2, <2>3 DEF AwaitsItsOwn
  <2> QED
    BY <1>3, <2>2, <2>3, WaitsFor
<1>4. ASSUME pc' = "account" PROVE MinedNext(latest', TRUE)
  BY <1>1, <1>4, WaitsFor DEF AwaitsItsOwn
<1> QED
  BY <1>3, <1>4 DEF AwaitsItsOwn, Mined, MinedNext

(* Only two steps report a receipt.                                        *)
LEMMA OtherResults ==
  ASSUME SendInv, [Next]_vars, ~Account, ~ReceiptReverted, op \in Op, outcome[op] = "None"
  PROVE  outcome'[op] \notin {"Confirmed", "Reverted"}
<1> USE DEF SendInv
<1>1. ASSUME NEW result \in Outcomes \ {"Confirmed", "Reverted"}, Finish(result)
      PROVE  outcome'[op] \notin {"Confirmed", "Reverted"}
  BY <1>1 DEF Finish, TypeOK
<1>2. ASSUME NEW again, Bump(again) PROVE outcome'[op] \notin {"Confirmed", "Reverted"}
  BY <1>1, <1>2 DEF Bump, Outcomes
<1>3. ASSUME NEW result \in {"Dropped", "TimeoutStuck"}, Retry(result)
      PROVE  outcome'[op] \notin {"Confirmed", "Reverted"}
  BY <1>1, <1>2, <1>3 DEF Retry, Outcomes
<1>4. CASE Prepare
  BY <1>1, <1>4 DEF Prepare, Refuse, RouteUnsupported, EconomicsRefuse, StrategyRefuses,
       ApproveSent, ApproveNotSent, Approved, RefuseApproved, PassGates, Gate, Outcomes,
       resultVars
<1>5. CASE Reap \/ Reserve
  BY <1>1, <1>5 DEF Reap, ReapBlind, ReapLook, ReapFresh, CancelSent, CancelFailed, Reserve,
       FetchNonce, FetchNonceFails, Populate, PopulateFails, Outcomes, resultVars
<1>6. CASE Send
  BY <1>2, <1>3, <1>6 DEF Send, SendAccepted, SendUnderpriced, SendNonceTooLow,
       SendAlreadyKnown, SendFails, SendTimesOut, SendErrorOutcome, resultVars
<1>7. CASE Await
  BY <1>1, <1>2, <1>3, <1>7 DEF Await, ReceiptOk, ReceiptNone, ConfirmFails, Recheck,
       Outcomes, resultVars
<1>8. CASE StartCycle \/ Abandon \/ BoundReached \/ Environment \/ UNCHANGED vars
  BY <1>8 DEF StartCycle, Abandon, BoundReached, Environment, Mine, Evict, Stall, vars,
       resultVars
<1> QED
  BY <1>4, <1>5, <1>6, <1>7, <1>8 DEF Next, Executor

(* What a result says, and when it is given; only what was confirmed is    *)
(* booked.                                                                 *)
LEMMA ResultsAreTrue ==
  ASSUME SendInv, AwaitsItsOwn, [Next]_vars, outcome' # outcome \/ booked' # booked
  PROVE  \E result \in Outcomes \ {"None"} :
           /\ op # 0 /\ outcome[op] = "None" /\ outcome' = [outcome EXCEPT ![op] = result]
           /\ chain' = chain
           /\ result \in NothingSentOutcomes => SentBy(op) = {}
           /\ result = "Confirmed" => /\ Mined(latest, TRUE) /\ latest \in SentBy(op)
                                      /\ booked' = booked \cup {latest}
           /\ result = "Reverted" => Mined(latest, FALSE) /\ latest \in SentBy(op)
           /\ result # "Confirmed" => booked' = booked
<1> USE DEF SendInv
<1>1. pc # "idle" /\ op # 0 /\ (booked' = booked \/ Account)
  <2>1. CASE Executor
    BY <2>1 DEF Executor, Prepare, Refuse, RouteUnsupported, EconomicsRefuse,
       StrategyRefuses, ApproveSent, ApproveNotSent, WantsApproval, Approved, RefuseApproved,
       PassGates, Reap, ReapBlind, ReapLook, ReapFresh, CancelSent, CancelFailed, Reserve,
       FetchNonce, FetchNonceFails, Populate, PopulateFails, Send, SendAccepted,
       SendUnderpriced, SendNonceTooLow, SendAlreadyKnown, SendFails, SendTimesOut, Await,
       ReceiptOk, ReceiptReverted, ReceiptNone, ConfirmFails, Recheck, resultVars,
       AttemptsInOrder, Account
  <2>2. CASE ~Executor
    BY <2>2 DEF Next, StartCycle, Abandon, BoundReached, Environment, Mine, Evict, Stall, vars,
       resultVars
  <2> QED
    BY <2>1, <2>2
<1>2. op \in Op /\ outcome[op] = "None"
  BY <1>1 DEF AttemptsInOrder, TypeOK, Op
<1>3. CASE Account
  <2>1. /\ outcome' = [outcome EXCEPT ![op] = "Confirmed"] /\ chain' = chain
        /\ booked' = booked \cup {latest} /\ pc = "account"
    BY <1>3 DEF Account, Finish, networkVars
  <2> QED
    BY <1>1, <1>2, <2>1 DEF AwaitsItsOwn, SentBy, Outcomes, NothingSentOutcomes
<1>4. CASE ReceiptReverted
  <2>1. /\ outcome' = [outcome EXCEPT ![op] = "Reverted"] /\ chain' = chain
        /\ booked' = booked /\ pc = "confirm" /\ Mined(latest, FALSE)
    BY <1>4 DEF ReceiptReverted, Finish, networkVars
  <2> QED
    BY <1>1, <1>2, <2>1 DEF AwaitsItsOwn, SentBy, Outcomes, NothingSentOutcomes
<1>5. CASE ~Account /\ ~ReceiptReverted
  <2>1. booked' = booked /\ outcome' # outcome
    BY <1>1, <1>5
  <2>2. PICK result \in Outcomes :
          /\ Finish(result) /\ op # 0 /\ pc # "idle"
          /\ result \in NothingSentOutcomes => Preparing
    BY <2>1, NewOutcomes DEF StartCycle, resultVars
  <2>3. outcome' = [outcome EXCEPT ![op] = result]
    BY <2>2 DEF Finish
  <2>4. result \notin {"None", "Confirmed", "Reverted"}
    <3>1. ~(result = "None")
      BY <1>2, <2>1, <2>3 DEF TypeOK
    <3>2. outcome'[op] = result
      BY <1>2, <2>3 DEF TypeOK
    <3>3. outcome'[op] \notin {"Confirmed", "Reverted"}
      BY <1>2, <1>5, <3>1, <3>2, OtherResults
    <3> QED
      BY <3>1, <3>2, <3>3
  <2>5. chain' = chain
    BY <2>1, NothingIsUnmined DEF Mine, resultVars
  <2>6. result \in NothingSentOutcomes => SentBy(op) = {}
    BY <2>2 DEF AttemptsInOrder, SentBy
  <2> QED
    BY <1>1, <1>2, <2>1, <2>3, <2>4, <2>5, <2>6
<1> QED
  BY <1>3, <1>4, <1>5

(* Every result is what the chain says: a confirmed attempt has a          *)
(* transaction that was mined and went well, and it is booked; a reverted  *)
(* one has a mined, failed transaction; nothing else is booked.            *)
THEOREM ReceiptsTellTheTruth == Spec => []ReceiptsAreTruthful
<1>1. Init => AwaitsItsOwn /\ ReceiptsAreTruthful
  BY DEF Init, AwaitsItsOwn, ReceiptsAreTruthful
<1>2. SendInv /\ AwaitsItsOwn /\ [Next]_vars => AwaitsItsOwn'
  BY AwaitsItsOwnStep
<1>3. SendInv /\ AwaitsItsOwn /\ ReceiptsAreTruthful /\ [Next]_vars => ReceiptsAreTruthful'
  <2> SUFFICES ASSUME SendInv, AwaitsItsOwn, ReceiptsAreTruthful, [Next]_vars
               PROVE  ReceiptsAreTruthful'
    OBVIOUS
  <2>1. /\ \A tx, ok : Mined(tx, ok) => MinedNext(tx, ok)
        /\ \A o \in Op : SentBy(o) \subseteq SentNext(o)
    BY NothingIsUnmined DEF SentBy, SentNext
  <2>2. SUFFICES
          /\ \A o \in Op : outcome'[o] = "Confirmed" => SentNext(o) \cap booked' # {}
          /\ \A o \in Op : outcome'[o] = "Reverted" => \E tx \in SentNext(o) : MinedNext(tx, FALSE)
          /\ \A tx \in booked' : MinedNext(tx, TRUE)
    BY DEF ReceiptsAreTruthful, SentBy, SentNext, Mined, MinedNext
  <2>3. CASE outcome' = outcome /\ booked' = booked
    BY <2>1, <2>3 DEF ReceiptsAreTruthful
  <2>4. CASE outcome' # outcome \/ booked' # booked
    <3>1. PICK result \in Outcomes \ {"None"} :
            /\ op # 0 /\ outcome[op] = "None" /\ outcome' = [outcome EXCEPT ![op] = result]
            /\ result = "Confirmed" => /\ Mined(latest, TRUE) /\ latest \in SentBy(op)
                                       /\ booked' = booked \cup {latest}
            /\ result = "Reverted" => Mined(latest, FALSE) /\ latest \in SentBy(op)
            /\ result # "Confirmed" => booked' = booked
      BY <2>4, ResultsAreTrue
    <3>2. \A tx \in booked' : MinedNext(tx, TRUE)
      <4>1. booked' \subseteq booked \cup {latest} /\ (booked' = booked \/ Mined(latest, TRUE))
        BY <3>1
      <4>2. \A tx \in booked : Mined(tx, TRUE)
        BY DEF ReceiptsAreTruthful
      <4>3. \A tx \in booked' : Mined(tx, TRUE)
        BY <4>1, <4>2
      <4> QED
        BY Zenon, <2>1, <4>3
    <3>3. booked \subseteq booked'
      BY <3>1
    <3>4. ASSUME NEW o \in Op, o # op
          PROVE  /\ outcome'[o] = "Confirmed" => SentNext(o) \cap booked' # {}
                 /\ outcome'[o] = "Reverted" => \E tx \in SentNext(o) : MinedNext(tx, FALSE)
      <4>1. outcome'[o] = outcome[o]
        <5>1. outcome \in [Op -> Outcomes]
          BY DEF SendInv, TypeOK
        <5>2. outcome' = [outcome EXCEPT ![op] = result]
          BY <3>1
        <5> QED
          BY <3>4, <5>1, <5>2
      <4> QED
        BY <2>1, <3>3, <4>1 DEF ReceiptsAreTruthful
    <3>5. op \in Op /\ outcome'[op] = result
      BY <3>1 DEF SendInv, TypeOK, Op
    <3>6. /\ outcome'[op] = "Confirmed" => SentNext(op) \cap booked' # {}
          /\ outcome'[op] = "Reverted" => \E tx \in SentNext(op) : MinedNext(tx, FALSE)
      BY <2>1, <3>1, <3>5
    <3> QED
      BY <3>2, <3>4, <3>6
  <2> QED
    BY <2>3, <2>4
<1> QED
  BY <1>1, <1>2, <1>3, SendInvariant, PTL DEF Spec

(* Once one transaction of an attempt is mined, its fate is that one's.    *)
LEMMA FateIsTheMined ==
  ASSUME SendInv, ExecutedAtMostOnce, NEW o \in Op, NEW tx, NEW ok \in BOOLEAN,
         Mined(tx, ok), tx.op = o
  PROVE  FateOf(o) = IF ok THEN "executed" ELSE "failed"
<1>1. PICK i \in DOMAIN chain : chain[i] = [tx |-> tx, ok |-> ok]
  BY DEF Mined
<1>2. chain[i].tx.op = o /\ chain[i].ok = ok /\ o > 0
  BY <1>1 DEF Op
<1>3. \A j \in DOMAIN chain : chain[j].tx.op = o => j = i
  BY <1>2 DEF ExecutedAtMostOnce
<1> QED
  BY <1>2, <1>3 DEF FateOf

LEMMA UnsentIsUnmined ==
  ASSUME SendInv, NEW o \in Op, SentBy(o) = {}
  PROVE  FateOf(o) = "unmined"
BY DEF SendInv, ChainOfBroadcasts, SentBy, FateOf

LEMMA SameChainSameFates ==
  ASSUME chain' = chain
  PROVE  [o \in Op |-> FateOf(o)]' = [o \in Op |-> FateOf(o)]
BY DEF FateOf

(* A result of the executor is a conclusion of the abstract specification. *)
LEMMA ResultConcludes ==
  ASSUME SendInv, AwaitsItsOwn, ExecutedAtMostOnce, [Next]_vars,
         outcome' # outcome \/ booked' # booked
  PROVE  \E o \in Op : Trades!Conclude(o)
<1>1. PICK result \in Outcomes \ {"None"} :
        /\ op # 0 /\ outcome[op] = "None" /\ outcome' = [outcome EXCEPT ![op] = result]
        /\ chain' = chain
        /\ result \in NothingSentOutcomes => SentBy(op) = {}
        /\ result = "Confirmed" => /\ Mined(latest, TRUE) /\ latest \in SentBy(op)
                                   /\ booked' = booked \cup {latest}
        /\ result = "Reverted" => Mined(latest, FALSE) /\ latest \in SentBy(op)
        /\ result # "Confirmed" => booked' = booked
  BY ResultsAreTrue
<1>2. op \in Op /\ outcome'[op] = result
  BY <1>1 DEF SendInv, TypeOK, Op
<1>3. result \in Trades!Results
  BY DEF Outcomes, Trades!Results, Trades!LeftAlone, Trades!Undecided
<1>4. result \in Trades!LeftAlone => FateOf(op) = "unmined"
  BY <1>1, <1>2, UnsentIsUnmined DEF Trades!LeftAlone, NothingSentOutcomes
<1>5. result = "Confirmed" => FateOf(op) = "executed"
  <2>1. ASSUME Mined(latest, TRUE), latest \in SentBy(op) PROVE FateOf(op) = "executed"
    BY <1>2, <2>1, FateIsTheMined DEF SentBy
  <2> QED
    BY <1>1, <2>1
<1>6. result = "Reverted" => FateOf(op) = "failed"
  <2>1. ASSUME Mined(latest, FALSE), latest \in SentBy(op) PROVE FateOf(op) = "failed"
    BY <1>2, <2>1, FateIsTheMined DEF SentBy
  <2> QED
    BY <1>1, <2>1
<1>7. {tx.op : tx \in booked'} = IF result = "Confirmed" THEN {tx.op : tx \in booked} \cup {op}
                                 ELSE {tx.op : tx \in booked}
  <2>1. CASE result = "Confirmed"
    <3>1. booked' = booked \cup {latest} /\ latest.op = op
      BY <1>1, <2>1 DEF SentBy
    <3> QED
      BY <2>1, <3>1
  <2>2. CASE result # "Confirmed"
    BY <1>1, <2>2
  <2> QED
    BY <2>1, <2>2
<1>8. [o \in Op |-> FateOf(o)]' = [o \in Op |-> FateOf(o)]
  BY <1>1, SameChainSameFates
<1>9. [o \in Op |-> FateOf(o)][op] = FateOf(op)
  BY <1>2
<1>10. Trades!True(op, result)
  BY <1>4, <1>5, <1>6, <1>9 DEF Trades!True
<1>11. ASSUME NEW o \in Op, o = op PROVE Trades!Conclude(o)
  BY <1>1, <1>2, <1>3, <1>7, <1>8, <1>10, <1>11 DEF Trades!Conclude
<1> QED
  BY <1>2, <1>11

(* A mined trade is the one of an attempt that was not left alone, and the *)
(* first of its attempt; a mined approval or no-op is no trade.            *)
LEMMA MiningIsMine ==
  ASSUME SendInv, ExecutedAtMostOnce, ExecutedAtMostOnce', AbortedMeansNothingSent, Mine
  PROVE  (\E o \in Op : Trades!Mine(o)) \/ UNCHANGED Trades!vars
<1>1. PICK tx \in broadcast, ok \in BOOLEAN : chain' = Append(chain, [tx |-> tx, ok |-> ok])
  BY DEF Mine
<1>2. chain \in Seq([tx : Tx, ok : BOOLEAN]) /\ tx \in Tx
  BY DEF SendInv, TypeOK
<1> DEFINE last == Len(chain) + 1
<1>3. /\ DOMAIN chain' = DOMAIN chain \cup {last} /\ last \notin DOMAIN chain
      /\ \A i \in DOMAIN chain : chain'[i] = chain[i]
      /\ chain'[last] = [tx |-> tx, ok |-> ok]
  <2> DEFINE e == [tx |-> tx, ok |-> ok]
  <2>1. e \in [tx : Tx, ok : BOOLEAN]
    BY <1>2
  <2> HIDE DEF e
  <2>2. /\ Append(chain, e) \in Seq([tx : Tx, ok : BOOLEAN])
        /\ Len(Append(chain, e)) = Len(chain) + 1
        /\ \A i \in 1 .. Len(chain) : Append(chain, e)[i] = chain[i]
        /\ Append(chain, e)[Len(chain) + 1] = e
    BY <1>2, <2>1, AppendProperties
  <2>3. /\ DOMAIN chain = 1 .. Len(chain) /\ Len(chain) \in Nat
        /\ DOMAIN Append(chain, e) = 1 .. Len(chain) + 1
    BY <1>2, <2>2, LenProperties
  <2> QED
    BY <1>1, <2>2, <2>3 DEF e
<1> HIDE DEF last
<1> DEFINE FateNext(o) ==
      IF ~\E i \in DOMAIN chain' : chain'[i].tx.op = o THEN "unmined"
      ELSE IF \E i \in DOMAIN chain' : chain'[i].tx.op = o /\ chain'[i].ok
           THEN "executed" ELSE "failed"
<1>4. [o \in Op |-> FateOf(o)]' = [o \in Op |-> FateNext(o)]
  BY DEF FateOf
<1>5. UNCHANGED <<outcome, booked>>
  BY DEF Mine, resultVars
<1>6. chain'[last].tx = tx /\ chain'[last].ok = ok
  BY <1>3
<1>7. ASSUME NEW o \in Op, o # tx.op PROVE FateNext(o) = FateOf(o)
  BY <1>3, <1>6, <1>7 DEF FateOf
<1>8. CASE tx.op \notin Op
  <2>1. \A o \in Op : FateNext(o) = FateOf(o)
    BY <1>7, <1>8
  <2> QED
    BY <1>4, <1>5, <2>1 DEF Trades!vars
<1>9. CASE tx.op \in Op
  <2> DEFINE o == tx.op
  <2>1. o > 0 /\ chain'[last].tx.op = o
    BY <1>6, <1>9 DEF Op
  <2>2. \A i, j \in DOMAIN chain' :
          chain'[i].tx.op = chain'[j].tx.op /\ chain'[i].tx.op > 0 => i = j
    BY DEF ExecutedAtMostOnce
  <2>3. \A i \in DOMAIN chain' : chain'[i].tx.op = o => i = last
    BY <1>3, <2>1, <2>2
  <2>4. FateOf(o) = "unmined"
    BY <1>3, <2>3 DEF FateOf
  <2>5. FateNext(o) \in {"executed", "failed"}
    BY <1>3, <2>1
  <2>6. outcome[o] \notin Trades!LeftAlone
    BY <1>9 DEF AbortedMeansNothingSent, NothingSentOutcomes, Trades!LeftAlone, SentBy
  <2> HIDE DEF FateNext
  <2>7. [a \in Op |-> FateNext(a)] = [[a \in Op |-> FateOf(a)] EXCEPT ![o] = FateNext(o)]
    BY <1>7
  <2>8. Trades!Mine(o)
    BY <1>4, <1>5, <1>9, <2>4, <2>5, <2>6, <2>7 DEF Trades!Mine
  <2> QED
    BY <1>9, <2>8
<1> QED
  BY <1>8, <1>9

(* Whatever is retried, replaced, reaped, evicted or dropped, the send path*)
(* makes and reports trades as TradeAttempts promises.                     *)
THEOREM SendPathImplementsTrades == Spec => ImplementsTrades
<1>1. Init => Trades!Init
  <2> SUFFICES ASSUME Init PROVE Trades!Init
    OBVIOUS
  <2>1. \A o \in Op : FateOf(o) = "unmined"
    BY DEF Init, FateOf
  <2> QED
    BY <2>1 DEF Init, Trades!Init
<1>2. SendInv /\ AwaitsItsOwn /\ ExecutedAtMostOnce /\ ExecutedAtMostOnce'
        /\ AbortedMeansNothingSent /\ [Next]_vars => [Trades!Next]_(Trades!vars)
  <2> SUFFICES ASSUME SendInv, AwaitsItsOwn, ExecutedAtMostOnce, ExecutedAtMostOnce',
                      AbortedMeansNothingSent, [Next]_vars
               PROVE  [Trades!Next]_(Trades!vars)
    OBVIOUS
  <2>1. CASE outcome' # outcome \/ booked' # booked
    BY <2>1, ResultConcludes DEF Trades!Next
  <2>2. CASE Mine
    BY <2>2, MiningIsMine DEF Trades!Next
  <2>3. CASE UNCHANGED <<outcome, booked, chain>>
    BY <2>3, SameChainSameFates DEF Trades!vars
  <2> QED
    BY <2>1, <2>2, <2>3, NothingIsUnmined
<1>3. Init => AwaitsItsOwn
  BY DEF Init, AwaitsItsOwn
<1>4. SendInv /\ AwaitsItsOwn /\ [Next]_vars => AwaitsItsOwn'
  BY AwaitsItsOwnStep
<1> QED
  BY <1>1, <1>2, <1>3, <1>4, SendInvariant, AtMostOnce, AbortedSentNothing, PTL
     DEF Spec, ImplementsTrades, Trades!Spec

===============================================================================
