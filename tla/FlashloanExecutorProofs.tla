------------------------ MODULE FlashloanExecutorProofs ------------------------
(***************************************************************************)
(* That the executor contract keeps what is its own and never leaves an    *)
(* allowance behind, for any tokens, accounts, amounts, routes and premium,*)
(* and however many transactions there are.                                *)
(*                                                                         *)
(* What a call in progress holds is known at each of its stages only from  *)
(* the stage before; hence ExecutorInv, which says for every stage what is *)
(* in transit, and which worlds a revert may restore.                      *)
(***************************************************************************)
EXTENDS FlashloanExecutor, SumTheorems

USE WmaticAssumption, OwnerAssumption, NoWrapperAssumption, InitiatorAssumption,
    AmountsAssumption,
    PremiumAssumption, MinProfitsAssumption, RoutesAssumption, ReceivedAssumption,
    MinAmountsAssumption, BoundsAssumption

LEMMA InitHolds == Init => ExecutorInv
<1> SUFFICES ASSUME Init PROVE ExecutorInv
  OBVIOUS
<1> DEFINE zero == [s \in Asset |-> 0]
           gains == [a \in Account \X Asset |-> 0]
           none == [t \in Token |-> 0]
           ones == [t \in Token |-> 1]
<1>1. /\ zero \in [Asset -> Int] /\ zero \in [Asset -> Nat]
      /\ gains \in [Account \X Asset -> Int]
      /\ none \in [Token -> Nat] /\ none \in [Token -> Int] /\ ones \in [Token -> Nat]
  OBVIOUS
<1>2. /\ world.held = zero /\ world.allowance = none /\ world.locked = FALSE
      /\ call = NoCall /\ saved = <<>> /\ stash = zero
  BY DEF Init
<1>3. world \in World
  <2>1. PICK w \in Wrapper \cup {NoWrapper} :
          world = [paused |-> FALSE, locked |-> FALSE, wrapperAddress |-> w,
                   authorizedWrappers |-> {}, allowedExecutors |-> {Owner},
                   minAmountByAsset |-> ones, lastExecutionBlock |-> 0,
                   totalFlashloans |-> 0, totalProfit |-> 0, totalPremiumPaid |-> 0,
                   failedFlashloans |-> 0, held |-> zero, allowance |-> none,
                   pool |-> none, gain |-> gains]
    BY DEF Init
  <2> HIDE DEF zero, gains, none, ones
  <2> QED
    BY <1>1, <2>1 DEF World
<1>4. TypeOK
  BY <1>1, <1>2, <1>3 DEF Init, TypeOK
<1> QED
  BY <1>2, <1>4
     DEF ExecutorInv, HoldingsAccounted, AllowanceAccounted, SavedAreQuiet,
         RouteLeadsBack, NativeIsWrapped, Unlocked, InTransit, Idle, NoCall, Asset

(* The fields of a world, one by one.                                      *)
LEMMA Fields ==
  ASSUME NEW w \in World
  PROVE  /\ w.locked \in BOOLEAN
         /\ w.totalFlashloans \in Nat /\ w.totalProfit \in Nat
         /\ w.totalPremiumPaid \in Nat /\ w.failedFlashloans \in Nat
         /\ w.held \in [Asset -> Int] /\ w.allowance \in [Token -> Nat]
         /\ w.pool \in [Token -> Int] /\ w.gain \in [Account \X Asset -> Int]
BY DEF World

(* Between transactions the contract holds its own, unlocked.              *)
LEMMA Quiet ==
  ASSUME ExecutorInv, Idle
  PROVE  /\ world.held = stash /\ ~world.locked
         /\ \A t \in Token : world.allowance[t] = 0
<1>1. call.phase = "none"
  BY DEF Idle, NoCall
<1>2. world.held \in [Asset -> Int] /\ stash \in [Asset -> Nat]
  BY Fields DEF ExecutorInv, TypeOK
<1>3. \A a \in Asset : world.held[a] = stash[a]
  BY <1>1, <1>2 DEF ExecutorInv, HoldingsAccounted, InTransit
<1>4. world.held = stash
  BY <1>2, <1>3
<1> QED
  BY <1>1, <1>4 DEF ExecutorInv, AllowanceAccounted, Unlocked

(* A transaction begins from a quiet world, and saves it.                  *)
LEMMA DirectKeeps ==
  ASSUME ExecutorInv, NEW sender \in Account, NEW asset \in Asset, NEW amount \in Amounts,
         NEW route \in Routes, NEW minProfit \in MinProfits,
         ExecuteDirect(sender, asset, amount, route, minProfit)
  PROVE  ExecutorInv'
<1> DEFINE token == IF asset = Native THEN Wmatic ELSE asset
           gain == [world.gain EXCEPT ![<<sender, asset>>] = @ - amount]
           held == [world.held EXCEPT ![token] = @ + amount]
<1>1. /\ world \in World /\ stash \in [Asset -> Nat] /\ saved \in Seq(World)
      /\ block \in 1 .. MaxBlock /\ txs \in 0 .. MaxTxs
      /\ doneIn \in [1 .. MaxBlock -> Nat]
  BY DEF ExecutorInv, TypeOK
<1>2. /\ call = NoCall /\ Idle
      /\ token \in Token /\ token \in Asset /\ route \in Seq(Step) /\ route # <<>>
      /\ amount \in Nat /\ block \in Nat
  BY <1>1 DEF ExecuteDirect, Begin, Idle, Asset, ValidSteps
<1>3. gain \in [Account \X Asset -> Int] /\ held \in [Asset -> Int]
  <2>1. world.gain \in [Account \X Asset -> Int] /\ world.held \in [Asset -> Int]
    BY <1>1, Fields
  <2>2. <<sender, asset>> \in Account \X Asset
    OBVIOUS
  <2>3. gain \in [Account \X Asset -> Int]
    BY <1>2, <2>1, <2>2
  <2> QED
    BY <1>2, <2>1, <2>3
<1>4. world' = [world EXCEPT !.locked = TRUE, !.lastExecutionBlock = block,
                             !.gain = gain, !.held = held]
  BY <1>1, <1>2, Fields DEF ExecuteDirect, World
<1>5. call' = [phase |-> "swap", sender |-> sender, initiator |-> "none",
            recipient |-> sender, asset |-> asset, amount |-> amount,
            minProfit |-> minProfit, route |-> route, token |-> token,
            current |-> amount, wmaticBefore |-> world.held[Wmatic]]
  BY DEF ExecuteDirect, Begin
<1>6. /\ txs' = txs + 1 /\ txs < MaxTxs /\ saved' = <<world>>
      /\ UNCHANGED <<block, stash, doneIn>>
  BY DEF ExecuteDirect, Begin
<1>7. /\ world.held = stash /\ ~world.locked
      /\ \A t \in Token : world.allowance[t] = 0
  BY <1>2, Quiet
<1> HIDE DEF gain, held
<1>8. /\ world' \in World /\ world'.held = held /\ world'.allowance = world.allowance
      /\ world'.locked = TRUE
  BY <1>1, <1>2, <1>3, <1>4 DEF World
<1>9. call' \in Call /\ ~Idle'
  BY <1>1, <1>2, <1>5, Fields DEF Call, Idle, NoCall, Asset
<1>10. TypeOK'
  BY <1>1, <1>6, <1>8, <1>9 DEF TypeOK
<1>11. HoldingsAccounted'
  <2>1. \A a \in Asset : InTransit(a)' = IF a = token THEN amount ELSE 0
    BY <1>2, <1>5 DEF InTransit, CurrentToken, ExecuteDirect, ValidSteps
  <2> QED
    BY <1>1, <1>2, <1>6, <1>7, <1>8, <2>1, Fields DEF HoldingsAccounted, held
<1>12. AllowanceAccounted'
  BY <1>5, <1>7, <1>8 DEF AllowanceAccounted
<1>13. SavedAreQuiet'
  <2>1. Len(saved') = 1 /\ DOMAIN saved' = {1} /\ saved'[1] = world
    BY <1>6
  <2> QED
    BY <1>6, <1>7, <1>9, <2>1 DEF SavedAreQuiet
<1>14. RouteLeadsBack' /\ NativeIsWrapped' /\ Unlocked'
  BY <1>2, <1>5, <1>6, <1>7
     DEF RouteLeadsBack, NativeIsWrapped, Unlocked, ExecuteDirect, ValidSteps
<1> QED
  BY <1>10, <1>11, <1>12, <1>13, <1>14 DEF ExecutorInv

(* A loan has nothing in transit before the pool has lent.  In the try     *)
(* block of executeFlashloan a second world is saved, with the lock taken. *)
LEMMA LoanKeeps ==
  ASSUME ExecutorInv, Idle, txs < MaxTxs, txs' = txs + 1,
         NEW sender \in Account, NEW initiator \in Wrapper \cup {"executor"},
         NEW recipient \in Account, NEW token \in Token, NEW amount \in Amounts,
         NEW route \in Routes, NEW minProfit \in MinProfits,
         call' = Loan(sender, initiator, recipient, token, amount, route, minProfit),
         UNCHANGED <<block, stash, doneIn>>,
         \/ world' = world /\ saved' = <<world>>
         \/ /\ world' = [world EXCEPT !.locked = TRUE, !.lastExecutionBlock = block]
            /\ saved' = <<world, world'>>
  PROVE  ExecutorInv'
<1>1. /\ world \in World /\ block \in Nat
      /\ world.held = stash /\ ~world.locked /\ \A t \in Token : world.allowance[t] = 0
  <2>1. world \in World /\ block \in Nat
    BY DEF ExecutorInv, TypeOK
  <2> QED
    BY <2>1, Quiet
<1>2. world' \in World /\ world'.held = world.held /\ world'.allowance = world.allowance
  <2>1. CASE world' = world
    BY <1>1, <2>1
  <2>2. CASE world' = [world EXCEPT !.locked = TRUE, !.lastExecutionBlock = block]
    BY <1>1, <2>2 DEF World
  <2> QED
    BY <2>1, <2>2
<1>3. call' \in Call /\ call'.phase = "pool" /\ call'.asset # Native /\ ~Idle'
  BY DEF Loan, Call, Idle, NoCall, Asset
<1>4. TypeOK'
  <2>1. <<world>> \in Seq(World) /\ <<world, world'>> \in Seq(World)
    BY <1>1, <1>2
  <2>2. saved' \in Seq(World)
    BY <2>1
  <2>3. /\ block' \in 1 .. MaxBlock /\ txs' \in 0 .. MaxTxs
        /\ stash' \in [Asset -> Nat] /\ doneIn' \in [1 .. MaxBlock -> Nat]
    BY DEF ExecutorInv, TypeOK
  <2> QED
    BY <1>2, <1>3, <2>2, <2>3 DEF TypeOK
<1>5. HoldingsAccounted' /\ AllowanceAccounted'
  <2>1. stash \in [Asset -> Nat]
    BY DEF ExecutorInv, TypeOK
  <2> QED
    BY <1>1, <1>2, <1>3, <2>1 DEF HoldingsAccounted, AllowanceAccounted, InTransit
<1>6. SavedAreQuiet'
  <2>1. CASE saved' = <<world>>
    <3>1. Len(saved') = 1 /\ DOMAIN saved' = {1} /\ saved'[1] = world
      BY <2>1
    <3> QED
      BY <1>1, <1>3, <3>1 DEF SavedAreQuiet
  <2>2. CASE saved' = <<world, world'>> /\ world' = [world EXCEPT !.locked = TRUE,
                                                               !.lastExecutionBlock = block]
    <3>1. /\ Len(saved') = 2 /\ DOMAIN saved' = {1, 2}
          /\ saved'[1] = world /\ saved'[2] = world'
      BY <2>2
    <3>2. world'.locked
      BY <1>1, <2>2 DEF World
    <3> QED
      BY <1>1, <1>2, <1>3, <3>1, <3>2 DEF SavedAreQuiet
  <2> QED
    BY <2>1, <2>2
<1> QED
  BY <1>3, <1>4, <1>5, <1>6 DEF ExecutorInv, RouteLeadsBack, NativeIsWrapped, Unlocked

(* Whatever ends or stays between transactions needs no more than this.    *)
LEMMA QuietSuffices ==
  ASSUME block' \in 1 .. MaxBlock, txs' \in 0 .. MaxTxs, stash' \in [Asset -> Nat],
         doneIn' \in [1 .. MaxBlock -> Nat], world' \in World,
         call' = NoCall, saved' = <<>>,
         world'.held = stash', ~world'.locked, \A t \in Token : world'.allowance[t] = 0
  PROVE  ExecutorInv'
<1>1. TypeOK'
  <2>1. saved' \in Seq(World)
    OBVIOUS
  <2> QED
    BY <2>1 DEF TypeOK
<1>2. HoldingsAccounted' /\ AllowanceAccounted'
  BY DEF HoldingsAccounted, AllowanceAccounted, InTransit, NoCall
<1>3. SavedAreQuiet'
  BY DEF SavedAreQuiet, Idle
<1> QED
  BY <1>1, <1>2, <1>3
     DEF ExecutorInv, RouteLeadsBack, NativeIsWrapped, Unlocked, Idle, NoCall

(* What is known of a call in progress.                                    *)
LEMMA InCall ==
  ASSUME ExecutorInv, ~Idle
  PROVE  /\ call \in Call /\ world \in World /\ saved \in Seq(World)
         /\ call.token \in Token /\ call.token \in Asset /\ call.asset \in Asset
         /\ call.amount \in Amounts /\ call.amount \in Nat /\ call.current \in Nat
         /\ call.minProfit \in Nat /\ Owed \in Nat /\ Premium[call.amount] \in Nat
         /\ call.route \in Seq(Step)
         /\ block \in 1 .. MaxBlock /\ txs \in 0 .. MaxTxs
         /\ stash \in [Asset -> Nat] /\ doneIn \in [1 .. MaxBlock -> Nat]
         /\ Len(saved) \in {1, 2}
<1>1. call \in Call
  BY DEF ExecutorInv, TypeOK, Idle
<1>2. /\ call.token \in Token /\ call.asset \in Asset /\ call.amount \in Amounts
      /\ call.current \in Nat /\ call.minProfit \in MinProfits /\ call.route \in Seq(Step)
  BY <1>1 DEF Call
<1>3. Premium[call.amount] \in Nat /\ call.amount \in Nat /\ call.minProfit \in Nat
  BY <1>2
<1>4. /\ world \in World /\ saved \in Seq(World) /\ Len(saved) \in {1, 2}
      /\ block \in 1 .. MaxBlock /\ txs \in 0 .. MaxTxs
      /\ stash \in [Asset -> Nat] /\ doneIn \in [1 .. MaxBlock -> Nat]
  BY DEF ExecutorInv, TypeOK, SavedAreQuiet
<1>5. Owed \in Nat
  BY <1>3 DEF Owed
<1>6. call.token \in Asset
  BY <1>2 DEF Asset
<1> QED
  BY <1>1, <1>2, <1>3, <1>4, <1>5, <1>6

(* The saved worlds are as quiet as the one before the transaction.        *)
LEMMA RevertKeeps ==
  ASSUME ExecutorInv, RevertAll \/ FlashloanFails
  PROVE  ExecutorInv'
<1>1. /\ ~Idle /\ call' = NoCall /\ saved' = <<>> /\ UNCHANGED <<block, txs, stash>>
  BY DEF RevertAll, FlashloanFails, Return
<1>2. doneIn' \in [1 .. MaxBlock -> Nat]
  <2>1. /\ doneIn \in [1 .. MaxBlock -> Nat]
        /\ doneIn' = doneIn \/ doneIn' = [doneIn EXCEPT ![block] = @ + 1]
    BY <1>1, InCall DEF RevertAll, FlashloanFails, RecordDone
  <2> QED
    BY <2>1
<1>3. \A i \in DOMAIN saved : saved[i] \in World
  BY <1>1, InCall
<1>4. CASE RevertAll
  <2>1. 1 \in DOMAIN saved
    BY <1>1, InCall
  <2>2. world' = saved[1]
    BY <1>4 DEF RevertAll
  <2>3. /\ world' \in World /\ world'.held = stash /\ ~world'.locked
        /\ \A t \in Token : world'.allowance[t] = 0
    BY <1>3, <2>1, <2>2 DEF ExecutorInv, SavedAreQuiet
  <2> QED
    BY <1>1, <1>2, <2>3, InCall, QuietSuffices
<1>5. CASE FlashloanFails
  <2>1. 2 \in DOMAIN saved
    BY <1>1, <1>5, InCall DEF FlashloanFails, InTry
  <2>2. world' = [saved[2] EXCEPT !.locked = FALSE, !.failedFlashloans = @ + 1]
    BY <1>5 DEF FlashloanFails
  <2>3. saved[2].held = stash /\ \A t \in Token : saved[2].allowance[t] = 0
    BY <2>1 DEF ExecutorInv, SavedAreQuiet
  <2>4. saved[2] \in World
    BY <1>3, <2>1
  <2> DEFINE before == saved[2]
             count == before.failedFlashloans + 1
  <2>5. count \in Nat /\ before \in World
    BY <2>4, Fields
  <2>6. world' = [before EXCEPT !.locked = FALSE, !.failedFlashloans = count]
    BY <2>2, <2>4 DEF World
  <2> HIDE DEF before, count
  <2>7. /\ world' \in World /\ world'.held = before.held /\ ~world'.locked
        /\ world'.allowance = before.allowance
    BY <2>5, <2>6 DEF World
  <2> QED
    BY <1>1, <1>2, <2>3, <2>7, InCall, QuietSuffices DEF before
<1> QED
  BY <1>4, <1>5

(* From here to the end of a call: one lemma for each of its steps.        *)
LEMMA LendsKeeps ==
  ASSUME ExecutorInv, PoolLends
  PROVE  ExecutorInv'
<1> DEFINE pool == [world.pool EXCEPT ![call.token] = @ - call.amount]
           held == [world.held EXCEPT ![call.token] = @ + call.amount]
<1>1. /\ call.phase = "pool" /\ ~Idle /\ call' = [call EXCEPT !.phase = "callback"]
      /\ UNCHANGED <<block, txs, stash, saved, doneIn>>
      /\ world' = [world EXCEPT !.pool = pool, !.held = held]
  BY DEF PoolLends, Inside, Idle, NoCall
<1>2. world.held \in [Asset -> Int] /\ world.pool \in [Token -> Int]
  BY <1>1, InCall, Fields
<1>3. pool \in [Token -> Int] /\ held \in [Asset -> Int]
  <2>1. call.token \in Asset /\ call.token \in Token /\ call.amount \in Int
    BY <1>1, InCall
  <2>2. /\ world.held[call.token] + call.amount \in Int
        /\ world.pool[call.token] - call.amount \in Int
    BY <1>2, <2>1
  <2> QED
    BY <1>2, <2>2
<1>4. held = [a \in Asset |-> IF a = call.token THEN world.held[a] + call.amount
                                              ELSE world.held[a]]
  BY <1>2
<1> HIDE DEF pool, held
<1>5. /\ world' \in World /\ world'.held = held /\ world'.allowance = world.allowance
      /\ world'.locked = world.locked
  BY <1>1, <1>3, InCall DEF World
<1>6. /\ call' \in Call /\ ~Idle' /\ call'.phase = "callback" /\ call'.token = call.token
      /\ call'.asset = call.asset /\ call'.amount = call.amount
      /\ call'.wmaticBefore = call.wmaticBefore
  BY <1>1, InCall DEF Call, Idle, NoCall
<1>7. TypeOK'
  BY <1>1, <1>5, <1>6, InCall DEF TypeOK
<1>8. HoldingsAccounted'
  <2>1. \A a \in Asset : world.held[a] = stash[a] /\ stash[a] \in Nat
    BY <1>1, InCall DEF ExecutorInv, HoldingsAccounted, InTransit
  <2>2. \A a \in Asset : InTransit(a)' = IF a = call.token THEN call.amount ELSE 0
    BY <1>6 DEF InTransit
  <2>3. ASSUME NEW a \in Asset PROVE held[a] = stash[a] + InTransit(a)'
    <3>1. world.held[a] = stash[a] /\ stash[a] \in Nat /\ call.amount \in Nat
      BY <1>1, <2>1, InCall
    <3>2. held[a] = IF a = call.token THEN world.held[a] + call.amount ELSE world.held[a]
      BY <1>4
    <3> QED
      BY <2>2, <3>1, <3>2
  <2> QED
    BY <1>1, <1>5, <2>3 DEF HoldingsAccounted
<1>9. AllowanceAccounted' /\ RouteLeadsBack' /\ Unlocked'
  BY <1>1, <1>5, <1>6 DEF ExecutorInv, AllowanceAccounted, RouteLeadsBack, Unlocked
<1>10. SavedAreQuiet' /\ NativeIsWrapped'
  BY <1>1, <1>6 DEF ExecutorInv, SavedAreQuiet, NativeIsWrapped
<1> QED
  BY <1>7, <1>8, <1>9, <1>10 DEF ExecutorInv

LEMMA OperationKeeps ==
  ASSUME ExecutorInv, ExecuteOperation
  PROVE  ExecutorInv'
<1> DEFINE loans == world.totalFlashloans + 1
           premiums == world.totalPremiumPaid + PremiumPaid
<1>1. /\ call.phase = "callback" /\ ~Idle
      /\ call' = [call EXCEPT !.phase = "swap", !.current = call.amount]
      /\ UNCHANGED <<block, txs, stash, saved, doneIn>>
      /\ ValidSteps(call.route, call.token)
      /\ world' = [world EXCEPT !.locked = TRUE, !.totalFlashloans = loans,
                                !.totalPremiumPaid = premiums]
  BY DEF ExecuteOperation, Inside, Idle, NoCall, Accepted
<1>2. loans \in Nat /\ premiums \in Nat
  <2>1. world \in World /\ Premium[call.amount] \in Nat
    BY <1>1, InCall
  <2>2. world.totalFlashloans \in Nat /\ world.totalPremiumPaid \in Nat
    BY <2>1, Fields
  <2> QED
    BY <2>1, <2>2 DEF PremiumPaid
<1> HIDE DEF loans, premiums
<1>3. /\ world' \in World /\ world'.held = world.held
      /\ world'.allowance = world.allowance
  BY <1>1, <1>2, InCall DEF World
<1>4. /\ call' \in Call /\ ~Idle' /\ call'.phase = "swap" /\ call'.token = call.token
      /\ call'.asset = call.asset /\ call'.amount = call.amount
      /\ call'.wmaticBefore = call.wmaticBefore
      /\ call'.route = call.route /\ call'.current = call.amount
  BY <1>1, InCall DEF Call, Idle, NoCall
<1>5. TypeOK'
  BY <1>1, <1>3, <1>4, InCall DEF TypeOK
<1>6. HoldingsAccounted'
  <2>1. \A a \in Asset : InTransit(a) = InTransit(a)'
    BY <1>1, <1>4 DEF InTransit, CurrentToken, ValidSteps
  <2> QED
    BY <1>1, <1>3, <2>1 DEF ExecutorInv, HoldingsAccounted
<1>7. AllowanceAccounted' /\ RouteLeadsBack' /\ Unlocked'
  BY <1>1, <1>3, <1>4
     DEF ExecutorInv, AllowanceAccounted, RouteLeadsBack, Unlocked, ValidSteps
<1>8. SavedAreQuiet' /\ NativeIsWrapped'
  BY <1>1, <1>4 DEF ExecutorInv, SavedAreQuiet, NativeIsWrapped
<1> QED
  BY <1>5, <1>6, <1>7, <1>8 DEF ExecutorInv

(* The rest of a sequence is the sequence, moved by one.                   *)
LEMMA TailFacts ==
  ASSUME NEW S, NEW s \in Seq(S), s # <<>>
  PROVE  /\ Head(s) \in S /\ Head(s) = s[1] /\ Tail(s) \in Seq(S)
         /\ Len(s) \in Nat \ {0} /\ DOMAIN s = 1 .. Len(s)
         /\ Len(Tail(s)) = Len(s) - 1 /\ DOMAIN Tail(s) = 1 .. Len(Tail(s))
         /\ \A i \in 1 .. Len(Tail(s)) : Tail(s)[i] = s[i + 1]
         /\ Tail(s) = <<>> => Len(s) = 1
         /\ Tail(s) # <<>> => Len(s) >= 2 /\ Head(Tail(s)) = s[2]
<1>1. /\ Head(s) \in S /\ Head(s) = s[1] /\ Tail(s) \in Seq(S)
      /\ Len(s) \in Nat \ {0} /\ DOMAIN s = 1 .. Len(s)
  OBVIOUS
<1>2. Len(Tail(s)) = Len(s) - 1 /\ DOMAIN Tail(s) = 1 .. Len(Tail(s))
  OBVIOUS
<1>3. \A i \in 1 .. Len(Tail(s)) : Tail(s)[i] = s[i + 1]
  BY <1>1, <1>2
<1>4. ASSUME Len(s) # 1 PROVE Tail(s) # <<>>
  <2>1. Len(Tail(s)) # 0
    BY <1>1, <1>2, <1>4
  <2>2. Len(<<>>) = 0
    OBVIOUS
  <2> QED
    BY <2>1, <2>2, Zenon
<1>5. ASSUME Tail(s) # <<>> PROVE Len(s) >= 2 /\ Head(Tail(s)) = s[2]
  <2>1. Len(Tail(s)) # 0 /\ Head(Tail(s)) = Tail(s)[1]
    BY <1>1, <1>5
  <2>2. Len(Tail(s)) \in Nat \ {0}
    BY <1>1, <2>1
  <2> QED
    BY <1>1, <1>2, <1>3, <2>1, <2>2
<1> QED
  BY <1>1, <1>2, <1>3, <1>4, <1>5

LEMMA SwapKeeps ==
  ASSUME ExecutorInv, Swap
  PROVE  ExecutorInv'
<1> DEFINE step == Head(call.route)
           spent == [world.held EXCEPT ![step.tokenIn] = @ - call.current]
<1>1. PICK received \in Received :
        /\ world' = [world EXCEPT !.held = [spent EXCEPT ![step.tokenOut] = @ + received]]
        /\ call' = [call EXCEPT !.route = Tail(@), !.current = received]
  BY DEF Swap
<1>2. /\ call.phase = "swap" /\ ~Idle /\ call.route # <<>>
      /\ UNCHANGED <<block, txs, stash, saved, doneIn>>
  BY DEF Swap, Inside, Idle, NoCall
<1>3. /\ step \in Step /\ step.tokenIn \in Asset /\ step.tokenOut \in Asset
      /\ call.route \in Seq(Step) /\ Tail(call.route) \in Seq(Step)
      /\ received \in Nat /\ call.current \in Nat
  <2>1. call.route \in Seq(Step) /\ call.current \in Nat
    BY <1>2, InCall
  <2>2. step \in Step /\ Tail(call.route) \in Seq(Step)
    BY <1>2, <2>1, TailFacts
  <2>3. step.tokenIn \in Token /\ step.tokenOut \in Token
    BY <2>2 DEF Step
  <2> QED
    BY <2>1, <2>2, <2>3 DEF Asset
<1> DEFINE held == [spent EXCEPT ![step.tokenOut] = @ + received]
<1> HIDE DEF step
<1>4. world \in World /\ world.held \in [Asset -> Int] /\ spent \in [Asset -> Int]
  <2>1. world \in World
    BY <1>2, InCall
  <2>2. world.held \in [Asset -> Int]
    BY <2>1, Fields
  <2>3. world.held[step.tokenIn] - call.current \in Int
    BY <1>3, <2>2
  <2> QED
    BY <2>1, <2>2, <2>3
<1>5. held \in [Asset -> Int]
  <2> HIDE DEF spent
  <2>1. spent[step.tokenOut] + received \in Int
    BY <1>3, <1>4
  <2> QED
    BY <1>4, <2>1
<1>6. world' = [world EXCEPT !.held = held]
  BY <1>1
<1> HIDE DEF spent, held
<1>7. /\ world' \in World /\ world'.held = held /\ world'.allowance = world.allowance
      /\ world'.locked = world.locked
  BY <1>2, <1>5, <1>6, InCall DEF World
<1>8. /\ call' \in Call /\ ~Idle' /\ call'.phase = "swap" /\ call'.token = call.token
      /\ call'.asset = call.asset /\ call'.amount = call.amount
      /\ call'.wmaticBefore = call.wmaticBefore
      /\ call'.route = Tail(call.route) /\ call'.current = received
  BY <1>1, <1>2, <1>3, InCall DEF Call, Idle, NoCall
<1>9. TypeOK'
  BY <1>2, <1>7, <1>8, InCall DEF TypeOK
<1>10. CurrentToken = step.tokenIn /\ CurrentToken' = step.tokenOut
  <2>1. CASE Tail(call.route) = <<>>
    <3>1. Len(call.route) = 1 /\ call.route[1] = step
      BY <1>2, <1>3, <2>1, TailFacts DEF step
    <3> QED
      BY <1>2, <1>8, <2>1, <3>1 DEF CurrentToken, step, ExecutorInv, RouteLeadsBack
  <2>2. CASE Tail(call.route) # <<>>
    <3>1. /\ Len(call.route) \in Nat /\ Len(call.route) >= 2
          /\ DOMAIN call.route = 1 .. Len(call.route)
          /\ call.route[1] = step /\ Head(Tail(call.route)) = call.route[2]
      BY <1>2, <1>3, <2>2, TailFacts DEF step
    <3>2. 2 \in DOMAIN call.route \ {1} /\ 2 - 1 = 1
      BY <3>1
    <3>3. call.route[1].tokenOut = call.route[2].tokenIn
      BY <1>2, <3>2 DEF ExecutorInv, RouteLeadsBack
    <3> QED
      BY <1>2, <1>8, <2>2, <3>1, <3>3 DEF CurrentToken, step
  <2> QED
    BY <2>1, <2>2
<1>11. HoldingsAccounted'
  <2>1. \A a \in Asset : InTransit(a) = IF a = step.tokenIn THEN call.current ELSE 0
    BY <1>2, <1>10 DEF InTransit
  <2>2. \A a \in Asset : InTransit(a)' = IF a = step.tokenOut THEN received ELSE 0
    BY <1>8, <1>10 DEF InTransit
  <2>3. world.held \in [Asset -> Int] /\ stash \in [Asset -> Nat]
    BY <1>2, InCall, Fields
  <2>4. \A a \in Asset : spent[a] = stash[a]
    <3>1. \A a \in Asset : world.held[a] = stash[a] + InTransit(a)
      BY DEF ExecutorInv, HoldingsAccounted
    <3> QED
      BY <1>3, <1>4, <2>1, <2>3, <3>1 DEF spent
  <2>5. \A a \in Asset : held[a] = stash[a] + IF a = step.tokenOut THEN received ELSE 0
    BY <1>3, <1>4, <2>3, <2>4 DEF held
  <2> QED
    BY <1>2, <1>7, <2>2, <2>5 DEF HoldingsAccounted
<1>12. RouteLeadsBack'
  <2> DEFINE rest == Tail(call.route)
  <2>1. /\ DOMAIN rest = 1 .. Len(rest) /\ DOMAIN call.route = 1 .. Len(call.route)
        /\ Len(rest) = Len(call.route) - 1 /\ Len(call.route) \in Nat
        /\ \A i \in 1 .. Len(rest) : rest[i] = call.route[i + 1]
        /\ rest # <<>> => Len(call.route) >= 2
    BY <1>2, <1>3, TailFacts
  <2>2. /\ \A i \in DOMAIN call.route \ {1} : call.route[i - 1].tokenOut = call.route[i].tokenIn
        /\ call.route[Len(call.route)].tokenOut = call.token
    BY <1>2 DEF ExecutorInv, RouteLeadsBack
  <2> HIDE DEF rest
  <2>3. \A i \in DOMAIN rest \ {1} : rest[i - 1].tokenOut = rest[i].tokenIn
    <3> TAKE i \in DOMAIN rest \ {1}
    <3>1. /\ i \in 1 .. Len(rest) /\ i - 1 \in 1 .. Len(rest)
          /\ (i - 1) + 1 = i /\ (i + 1) - 1 = i /\ i + 1 \in DOMAIN call.route \ {1}
      BY <2>1
    <3>2. call.route[(i + 1) - 1].tokenOut = call.route[i + 1].tokenIn
      BY <2>2, <3>1
    <3> QED
      BY <2>1, <3>1, <3>2
  <2>4. rest # <<>> => rest[Len(rest)].tokenOut = call.token
    <3> SUFFICES ASSUME rest # <<>> PROVE rest[Len(rest)].tokenOut = call.token
      OBVIOUS
    <3>1. Len(rest) \in 1 .. Len(rest) /\ Len(rest) + 1 = Len(call.route)
      BY <2>1
    <3> QED
      BY <2>1, <2>2, <3>1
  <2>5. call'.route = rest /\ call'.token = call.token
    BY <1>8 DEF rest
  <2> QED
    BY <2>3, <2>4, <2>5 DEF RouteLeadsBack
<1>13. AllowanceAccounted' /\ Unlocked'
  BY <1>2, <1>7, <1>8 DEF ExecutorInv, AllowanceAccounted, Unlocked
<1>14. SavedAreQuiet' /\ NativeIsWrapped'
  BY <1>2, <1>8 DEF ExecutorInv, SavedAreQuiet, NativeIsWrapped
<1> QED
  BY <1>9, <1>11, <1>12, <1>13, <1>14 DEF ExecutorInv

(* The end of executeDirect: what is paid out is what was in transit, for  *)
(* MATIC too, since the balance it is compared with was the contract's own.*)
LEMMA SettleDirectKeeps ==
  ASSUME ExecutorInv, SettleDirect
  PROVE  ExecutorInv'
<1> DEFINE profit == world.totalProfit + DirectProfit
           held == [world.held EXCEPT ![call.token] = @ - Proceeds]
           gain == [world.gain EXCEPT ![<<call.sender, call.asset>>] = @ + Proceeds]
<1>1. /\ call.phase = "swap" /\ ~Idle /\ call.route = <<>> /\ CoversCapital(Proceeds)
      /\ UNCHANGED <<block, txs, stash>> /\ call' = NoCall /\ saved' = <<>>
      /\ doneIn' = [doneIn EXCEPT ![block] = @ + 1]
      /\ world' = [world EXCEPT !.locked = FALSE, !.totalProfit = profit,
                                !.held = held, !.gain = gain]
  BY DEF SettleDirect, Inside, Idle, NoCall, Return, RecordDone
<1>2. /\ world \in World /\ call.token \in Token /\ call.token \in Asset
      /\ call.amount \in Nat /\ call.minProfit \in Nat /\ call.current \in Nat
      /\ stash \in [Asset -> Nat] /\ call.sender \in Account /\ call.asset \in Asset
  BY <1>1, InCall DEF Call
<1>3. /\ world.held \in [Asset -> Int] /\ world.gain \in [Account \X Asset -> Int]
      /\ world.totalProfit \in Nat
  BY <1>2, Fields
<1>4. \A a \in Asset : world.held[a] = stash[a] + IF a = call.token THEN call.current ELSE 0
  BY <1>1 DEF ExecutorInv, HoldingsAccounted, InTransit, CurrentToken
<1>5. Proceeds = call.current
  <2>1. CASE call.asset = Native
    <3>1. call.token = Wmatic /\ call.wmaticBefore = stash[Wmatic]
      BY <1>1, <2>1 DEF ExecutorInv, NativeIsWrapped
    <3>2. world.held[Wmatic] = stash[Wmatic] + call.current /\ stash[Wmatic] \in Nat
      BY <1>2, <1>4, <3>1
    <3> QED
      BY <1>2, <2>1, <3>1, <3>2 DEF Proceeds
  <2>2. CASE call.asset # Native
    BY <2>2 DEF Proceeds
  <2> QED
    BY <2>1, <2>2
<1>6. profit \in Nat
  <2>1. call.current >= call.amount + call.minProfit
    BY <1>1, <1>5 DEF CoversCapital
  <2> QED
    BY <1>2, <1>3, <1>5, <2>1 DEF DirectProfit
<1>7. held \in [Asset -> Int] /\ held = stash
  BY <1>2, <1>3, <1>4, <1>5
<1>8. gain \in [Account \X Asset -> Int]
  <2>1. <<call.sender, call.asset>> \in Account \X Asset
    BY <1>2
  <2> QED
    BY <1>2, <1>3, <1>5, <2>1
<1>9. \A t \in Token : world.allowance[t] = 0
  BY <1>1 DEF ExecutorInv, AllowanceAccounted
<1>10. doneIn' \in [1 .. MaxBlock -> Nat]
  <2>1. doneIn \in [1 .. MaxBlock -> Nat] /\ block \in 1 .. MaxBlock
    BY <1>1, InCall
  <2> QED
    BY <1>1, <2>1
<1> HIDE DEF profit, held, gain
<1>11. /\ world' \in World /\ world'.held = held /\ world'.allowance = world.allowance
       /\ ~world'.locked
  BY <1>1, <1>2, <1>6, <1>7, <1>8 DEF World
<1> QED
  BY <1>1, <1>7, <1>9, <1>10, <1>11, InCall, QuietSuffices

(* The end of executeOperation: what is owed stays, with its allowance.    *)
LEMMA SettleFlashloanKeeps ==
  ASSUME ExecutorInv, SettleFlashloan
  PROVE  ExecutorInv'
<1> DEFINE profit == call.current - Owed
           total == world.totalProfit + profit
           held == [world.held EXCEPT ![call.token] = @ - profit]
           gain == [world.gain EXCEPT ![<<call.recipient, call.token>>] = @ + profit]
           allowance == [world.allowance EXCEPT ![call.token] = ApproveTo(call.token)]
<1>1. /\ call.phase = "swap" /\ ~Idle /\ call.route = <<>>
      /\ call.current >= Owed + call.minProfit
      /\ UNCHANGED <<block, txs, stash, saved, doneIn>>
      /\ call' = [call EXCEPT !.phase = "repay"]
      /\ world' = [world EXCEPT !.locked = FALSE, !.allowance = allowance,
                                !.totalProfit = total, !.held = held, !.gain = gain]
  BY DEF SettleFlashloan, Inside, Idle, NoCall
<1>2. /\ world \in World /\ call.token \in Token /\ call.token \in Asset
      /\ call.minProfit \in Nat /\ call.current \in Nat /\ Owed \in Nat
      /\ stash \in [Asset -> Nat] /\ call.recipient \in Account
  BY <1>1, InCall DEF Call
<1>3. /\ world.held \in [Asset -> Int] /\ world.gain \in [Account \X Asset -> Int]
      /\ world.totalProfit \in Nat /\ world.allowance \in [Token -> Nat]
  BY <1>2, Fields
<1>4. profit \in Nat /\ total \in Nat
  <2>1. profit \in Nat
    BY <1>1, <1>2
  <2>2. world.totalProfit \in Nat
    BY <1>3
  <2> HIDE DEF profit
  <2> QED
    BY <2>1, <2>2
<1>5. \A t \in Token : world.allowance[t] = 0
  BY <1>1 DEF ExecutorInv, AllowanceAccounted
<1>6. /\ allowance \in [Token -> Nat]
      /\ \A t \in Token : allowance[t] = IF t = call.token THEN Owed ELSE 0
  <2>1. ApproveTo(call.token) = Owed
    BY <1>2, <1>5 DEF ApproveTo
  <2> QED
    BY <1>2, <1>3, <1>5, <2>1
<1>7. /\ held \in [Asset -> Int]
      /\ \A a \in Asset : held[a] = stash[a] + IF a = call.token THEN Owed ELSE 0
  <2>1. \A a \in Asset : world.held[a] = stash[a] + IF a = call.token THEN call.current ELSE 0
    BY <1>1 DEF ExecutorInv, HoldingsAccounted, InTransit, CurrentToken
  <2>2. \A a \in Asset : held[a] = IF a = call.token THEN world.held[a] - profit
                                                   ELSE world.held[a]
    BY <1>2, <1>3
  <2>3. held \in [Asset -> Int]
    <3>1. world.held[call.token] \in Int /\ profit \in Int
      BY <1>2, <1>3, <1>4
    <3> HIDE DEF profit
    <3>2. world.held[call.token] - profit \in Int
      BY <3>1
    <3> QED
      BY <1>2, <1>3, <3>2
  <2> HIDE DEF held
  <2>4. ASSUME NEW a \in Asset
        PROVE  held[a] = stash[a] + IF a = call.token THEN Owed ELSE 0
    <3>1. stash[a] \in Nat
      BY <1>2
    <3>2. CASE a = call.token
      <4>1. world.held[a] = stash[a] + call.current /\ held[a] = world.held[a] - profit
        BY <2>1, <2>2, <3>2
      <4>2. profit = call.current - Owed /\ call.current \in Nat /\ Owed \in Nat
        BY <1>2
      <4> HIDE DEF profit
      <4> QED
        BY <3>1, <3>2, <4>1, <4>2
    <3>3. CASE a # call.token
      BY <2>1, <2>2, <3>1, <3>3
    <3> QED
      BY <3>2, <3>3
  <2> QED
    BY <2>3, <2>4
<1> HIDE DEF profit
<1>8. gain \in [Account \X Asset -> Int]
  <2>1. <<call.recipient, call.token>> \in Account \X Asset
    BY <1>2
  <2>2. world.gain[<<call.recipient, call.token>>] + profit \in Int
    BY <1>3, <1>4, <2>1
  <2> QED
    BY <1>3, <2>2
<1> HIDE DEF total, held, gain, allowance
<1>9. /\ world' \in World /\ world'.held = held /\ world'.allowance = allowance
      /\ ~world'.locked
  BY <1>1, <1>2, <1>4, <1>6, <1>7, <1>8 DEF World
<1>10. /\ call' \in Call /\ ~Idle' /\ call'.phase = "repay" /\ call'.token = call.token
       /\ call'.asset = call.asset /\ call'.amount = call.amount
       /\ call'.wmaticBefore = call.wmaticBefore
  BY <1>1, InCall DEF Call, Idle, NoCall
<1>11. TypeOK'
  BY <1>1, <1>9, <1>10, InCall DEF TypeOK
<1>12. Owed' = Owed
  BY <1>10 DEF Owed
<1>13. HoldingsAccounted' /\ AllowanceAccounted'
  BY <1>1, <1>6, <1>7, <1>9, <1>10, <1>12
     DEF HoldingsAccounted, AllowanceAccounted, InTransit
<1>14. RouteLeadsBack' /\ Unlocked'
  BY <1>9, <1>10 DEF RouteLeadsBack, Unlocked
<1>15. SavedAreQuiet' /\ NativeIsWrapped'
  BY <1>1, <1>10 DEF ExecutorInv, SavedAreQuiet, NativeIsWrapped
<1> QED
  BY <1>11, <1>13, <1>14, <1>15 DEF ExecutorInv

LEMMA CollectsKeeps ==
  ASSUME ExecutorInv, PoolCollects
  PROVE  ExecutorInv'
<1> DEFINE pool == [world.pool EXCEPT ![call.token] = @ + Owed]
           held == [world.held EXCEPT ![call.token] = @ - Owed]
           allowance == [world.allowance EXCEPT ![call.token] = @ - Owed]
<1>1. /\ call.phase = "repay" /\ ~Idle
      /\ UNCHANGED <<block, txs, stash>> /\ call' = NoCall /\ saved' = <<>>
      /\ world' = [world EXCEPT !.allowance = allowance, !.held = held, !.pool = pool]
  BY DEF PoolCollects, Inside, Idle, NoCall, Return
<1>2. /\ world \in World /\ call.token \in Token /\ call.token \in Asset
      /\ Owed \in Nat /\ stash \in [Asset -> Nat]
  BY <1>1, InCall
<1>3. /\ world.held \in [Asset -> Int] /\ world.pool \in [Token -> Int]
      /\ world.allowance \in [Token -> Nat]
  BY <1>2, Fields
<1>4. /\ \A t \in Token : world.allowance[t] = IF t = call.token THEN Owed ELSE 0
      /\ \A a \in Asset : world.held[a] = stash[a] + IF a = call.token THEN Owed ELSE 0
      /\ ~world.locked
  BY <1>1 DEF ExecutorInv, AllowanceAccounted, HoldingsAccounted, InTransit, Unlocked
<1>5. allowance \in [Token -> Nat] /\ \A t \in Token : allowance[t] = 0
  BY <1>2, <1>3, <1>4
<1>6. held \in [Asset -> Int] /\ held = stash
  <2>1. held \in [Asset -> Int]
    BY <1>2, <1>3
  <2>2. ASSUME NEW a \in Asset PROVE held[a] = stash[a]
    <3>1. stash[a] \in Int /\ world.held[a] \in Int
      BY <1>2, <1>3
    <3>2. CASE a = call.token
      <4>1. held[a] = world.held[a] - Owed
        BY <1>3, <3>2
      <4> QED
        BY <1>2, <1>4, <3>1, <3>2, <4>1
    <3>3. CASE a # call.token
      <4>1. held[a] = world.held[a]
        BY <1>3, <3>3
      <4> QED
        BY <1>4, <3>1, <3>3, <4>1
    <3> QED
      BY <3>2, <3>3
  <2>3. stash \in [Asset -> Int]
    BY <1>2
  <2> HIDE DEF held
  <2> QED
    BY <2>1, <2>2, <2>3
<1>7. pool \in [Token -> Int]
  BY <1>2, <1>3
<1> HIDE DEF pool, held, allowance
<1>8. /\ world' \in World /\ world'.held = held /\ world'.allowance = allowance
      /\ world'.locked = world.locked
  BY <1>1, <1>2, <1>5, <1>6, <1>7 DEF World
<1>9. doneIn' \in [1 .. MaxBlock -> Nat]
  <2>1. /\ doneIn \in [1 .. MaxBlock -> Nat]
        /\ doneIn' = doneIn \/ doneIn' = [doneIn EXCEPT ![block] = @ + 1]
    BY <1>1, InCall DEF PoolCollects, RecordDone
  <2> QED
    BY <2>1
<1> QED
  BY <1>1, <1>4, <1>5, <1>6, <1>8, <1>9, InCall, QuietSuffices

(* What the owner administers touches neither balances nor allowances.     *)
LEMMA AdministerKeeps ==
  ASSUME ExecutorInv, Administer
  PROVE  ExecutorInv'
<1>1. Idle /\ UNCHANGED <<block, call, saved, txs, doneIn, stash>>
  BY DEF Administer, UpdateExecutor, UpdateMinAmount, EmergencyStop, Resume,
         SetWrapper, AuthorizeWrapper, Between
<1>2. world \in World
  BY DEF ExecutorInv, TypeOK
<1>3. /\ world' \in World /\ world'.held = world.held
      /\ world'.allowance = world.allowance /\ world'.locked = world.locked
  <2>1. ASSUME NEW account \in Account, UpdateExecutor(account) PROVE <1>3
    <3>1. PICK set \in SUBSET Account : world' = [world EXCEPT !.allowedExecutors = set]
      <4>1. world.allowedExecutors \in SUBSET Account
        BY <1>2 DEF World
      <4>2. /\ world.allowedExecutors \cup {account} \in SUBSET Account
            /\ world.allowedExecutors \ {account} \in SUBSET Account
        BY <4>1
      <4> QED
        BY <2>1, <4>2 DEF UpdateExecutor
    <3> QED
      BY <1>2, <3>1 DEF World
  <2>2. ASSUME NEW token \in Token, NEW amount \in MinAmounts, UpdateMinAmount(token, amount)
        PROVE  <1>3
    <3> DEFINE least == [world.minAmountByAsset EXCEPT ![token] = amount]
    <3>1. least \in [Token -> Nat]
      BY <1>2 DEF World
    <3>2. world' = [world EXCEPT !.minAmountByAsset = least]
      BY <2>2 DEF UpdateMinAmount
    <3> HIDE DEF least
    <3> QED
      BY <1>2, <3>1, <3>2 DEF World
  <2>3. ASSUME EmergencyStop \/ Resume PROVE <1>3
    <3>1. PICK stopped \in BOOLEAN : world' = [world EXCEPT !.paused = stopped]
      BY <2>3 DEF EmergencyStop, Resume
    <3> QED
      BY <1>2, <3>1 DEF World
  <2>4. ASSUME NEW wrapper \in Wrapper \cup {NoWrapper}, SetWrapper(wrapper) PROVE <1>3
    BY <1>2, <2>4 DEF SetWrapper, World
  <2>5. ASSUME NEW wrapper \in Wrapper, AuthorizeWrapper(wrapper) PROVE <1>3
    <3>1. PICK set \in SUBSET Wrapper : world' = [world EXCEPT !.authorizedWrappers = set]
      <4>1. world.authorizedWrappers \in SUBSET Wrapper
        BY <1>2 DEF World
      <4>2. /\ world.authorizedWrappers \cup {wrapper} \in SUBSET Wrapper
            /\ world.authorizedWrappers \ {wrapper} \in SUBSET Wrapper
        BY <4>1
      <4> QED
        BY <2>5, <4>2 DEF AuthorizeWrapper
    <3> QED
      BY <1>2, <3>1 DEF World
  <2> QED
    BY <2>1, <2>2, <2>3, <2>4, <2>5 DEF Administer
<1>4. call = NoCall /\ saved = <<>>
  BY <1>1 DEF ExecutorInv, TypeOK, SavedAreQuiet, Idle
<1>5. /\ world.held = stash /\ ~world.locked /\ \A t \in Token : world.allowance[t] = 0
  BY <1>1, Quiet
<1>6. /\ block' \in 1 .. MaxBlock /\ txs' \in 0 .. MaxTxs
      /\ stash' \in [Asset -> Nat] /\ doneIn' \in [1 .. MaxBlock -> Nat]
  BY <1>1 DEF ExecutorInv, TypeOK
<1> QED
  BY <1>1, <1>3, <1>4, <1>5, <1>6, QuietSuffices

(* What comes and goes between executions is the contract's own.           *)
LEMMA OwnKeeps ==
  ASSUME ExecutorInv, NEW asset \in Asset, NEW amount \in Amounts,
         Withdraw(asset, amount) \/ Deposit(asset, amount)
  PROVE  ExecutorInv'
<1>1. /\ Idle /\ UNCHANGED <<block, call, saved, doneIn>>
      /\ txs' = txs \/ (txs < MaxTxs /\ txs' = txs + 1)
  <2>1. CASE Withdraw(asset, amount)
    BY <2>1 DEF Withdraw, Between
  <2>2. CASE Deposit(asset, amount)
    BY <2>2 DEF Deposit
  <2> QED
    BY <2>1, <2>2
<1>2. /\ world \in World /\ stash \in [Asset -> Nat]
      /\ world.held = stash /\ ~world.locked /\ \A t \in Token : world.allowance[t] = 0
  BY <1>1, Quiet DEF ExecutorInv, TypeOK
<1>3. amount \in Nat
  OBVIOUS
<1>4. world' = [world EXCEPT !.held = stash'] /\ stash' \in [Asset -> Nat]
  <2>1. CASE Withdraw(asset, amount)
    <3>1. stash' = [stash EXCEPT ![asset] = @ - amount] /\ amount <= stash[asset]
      BY <1>2, <2>1 DEF Withdraw
    <3>2. world' = [world EXCEPT !.held = [stash EXCEPT ![asset] = @ - amount]]
      BY <1>2, <2>1 DEF Withdraw
    <3> QED
      BY <1>2, <1>3, <3>1, <3>2
  <2>2. CASE Deposit(asset, amount)
    <3>1. stash' = [stash EXCEPT ![asset] = @ + amount]
      BY <2>2 DEF Deposit
    <3>2. world' = [world EXCEPT !.held = [stash EXCEPT ![asset] = @ + amount]]
      BY <1>2, <2>2 DEF Deposit
    <3> QED
      BY <1>2, <1>3, <3>1, <3>2
  <2> QED
    BY <2>1, <2>2
<1>5. /\ world' \in World /\ world'.held = stash' /\ ~world'.locked
      /\ world'.allowance = world.allowance
  <2>1. stash' \in [Asset -> Int]
    BY <1>4
  <2> QED
    BY <1>2, <1>4, <2>1 DEF World
<1>6. call = NoCall /\ saved = <<>>
  BY <1>1 DEF ExecutorInv, TypeOK, SavedAreQuiet, Idle
<1>7. /\ block' \in 1 .. MaxBlock /\ txs' \in 0 .. MaxTxs
      /\ doneIn' \in [1 .. MaxBlock -> Nat]
  BY <1>1 DEF ExecutorInv, TypeOK
<1> QED
  BY <1>1, <1>2, <1>4, <1>5, <1>6, <1>7, QuietSuffices

LEMMA BlockKeeps ==
  ASSUME ExecutorInv, NextBlock
  PROVE  ExecutorInv'
<1>1. Idle /\ UNCHANGED <<world, call, saved, txs, stash, doneIn>>
  BY DEF NextBlock
<1>2. call = NoCall /\ saved = <<>>
  BY <1>1 DEF ExecutorInv, TypeOK, SavedAreQuiet, Idle
<1>3. /\ world.held = stash /\ ~world.locked /\ \A t \in Token : world.allowance[t] = 0
  BY <1>1, Quiet
<1>4. /\ block' \in 1 .. MaxBlock /\ world' \in World /\ txs' \in 0 .. MaxTxs
      /\ stash' \in [Asset -> Nat] /\ doneIn' \in [1 .. MaxBlock -> Nat]
  BY <1>1 DEF NextBlock, ExecutorInv, TypeOK
<1> QED
  BY <1>1, <1>2, <1>3, <1>4, QuietSuffices

LEMMA ExecuteKeeps ==
  ASSUME ExecutorInv, Execute
  PROVE  ExecutorInv'
<1>1. PICK sender \in Account, recipient \in Account, token \in Token, amount \in Amounts,
           route \in Routes, minProfit \in MinProfits :
        \/ ExecuteDirect(sender, token, amount, route, minProfit)
        \/ ExecuteDirect(sender, Native, amount, route, minProfit)
        \/ ExecuteFlashloan(sender, token, amount, route, minProfit)
        \/ \E wrapper \in Wrapper :
             TriggerFlashloan(wrapper, recipient, token, amount, route, minProfit)
  BY DEF Execute
<1>2. token \in Asset /\ Native \in Asset
  BY DEF Asset
<1>3. CASE ExecuteDirect(sender, token, amount, route, minProfit)
  BY <1>2, <1>3, DirectKeeps
<1>4. CASE ExecuteDirect(sender, Native, amount, route, minProfit)
  BY <1>2, <1>4, DirectKeeps
<1>5. CASE ExecuteFlashloan(sender, token, amount, route, minProfit)
  <2>1. /\ Idle /\ txs < MaxTxs /\ txs' = txs + 1 /\ UNCHANGED <<block, stash, doneIn>>
        /\ call' = Loan(sender, "executor", Owner, token, amount, route, minProfit)
        /\ world' = [world EXCEPT !.locked = TRUE, !.lastExecutionBlock = block]
        /\ saved' = <<world, world'>>
    BY <1>5 DEF ExecuteFlashloan, Begin
  <2> QED
    BY <2>1, LoanKeeps
<1>6. ASSUME NEW wrapper \in Wrapper,
             TriggerFlashloan(wrapper, recipient, token, amount, route, minProfit)
      PROVE  ExecutorInv'
  <2>1. /\ Idle /\ txs < MaxTxs /\ txs' = txs + 1 /\ UNCHANGED <<block, stash, doneIn>>
        /\ call' = Loan(Owner, wrapper, recipient, token, amount, route, minProfit)
        /\ world' = world /\ saved' = <<world>>
    BY <1>6 DEF TriggerFlashloan, Begin
  <2> QED
    BY <2>1, LoanKeeps
<1> QED
  BY <1>1, <1>3, <1>4, <1>5, <1>6

LEMMA StutterKeeps ==
  ASSUME ExecutorInv, UNCHANGED vars
  PROVE  ExecutorInv'
BY DEF vars, ExecutorInv, TypeOK, HoldingsAccounted, AllowanceAccounted, SavedAreQuiet,
       RouteLeadsBack, NativeIsWrapped, Unlocked, InTransit, CurrentToken, Owed, Idle

(* At every stage of every transaction the contract holds exactly its own  *)
(* and what is in transit, the pool's allowance is exactly what it is about*)
(* to collect, and a revert goes back to a quiet world.                    *)
THEOREM ExecutorInvariant == Spec => []ExecutorInv
<1>1. ExecutorInv /\ [Next]_vars => ExecutorInv'
  <2> SUFFICES ASSUME ExecutorInv, [Next]_vars PROVE ExecutorInv'
    OBVIOUS
  <2>1. CASE Execute
    BY <2>1, ExecuteKeeps
  <2>2. CASE PoolLends
    BY <2>2, LendsKeeps
  <2>3. CASE ExecuteOperation
    BY <2>3, OperationKeeps
  <2>4. CASE Swap
    BY <2>4, SwapKeeps
  <2>5. CASE SettleDirect
    BY <2>5, SettleDirectKeeps
  <2>6. CASE SettleFlashloan
    BY <2>6, SettleFlashloanKeeps
  <2>7. CASE PoolCollects
    BY <2>7, CollectsKeeps
  <2>8. CASE RevertAll \/ FlashloanFails
    BY <2>8, RevertKeeps
  <2>9. CASE Administer
    BY <2>9, AdministerKeeps
  <2>10. CASE \E asset \in Asset, amount \in Amounts :
                Withdraw(asset, amount) \/ Deposit(asset, amount)
    BY <2>10, OwnKeeps
  <2>11. CASE NextBlock
    BY <2>11, BlockKeeps
  <2>12. CASE UNCHANGED vars
    BY <2>12, StutterKeeps
  <2> QED
    BY <2>1, <2>2, <2>3, <2>4, <2>5, <2>6, <2>7, <2>8, <2>9, <2>10, <2>11, <2>12 DEF Next
<1> QED
  BY <1>1, InitHolds, PTL DEF Spec

(* Between transactions the contract has what it was given, less what the  *)
(* owner withdrew, and no one has an allowance on it.                      *)
THEOREM OwnHoldings == Spec => []OwnHoldingsUntouched
<1>1. ExecutorInv => OwnHoldingsUntouched
  BY Quiet DEF OwnHoldingsUntouched
<1> QED
  BY <1>1, ExecutorInvariant, PTL

-------------------------------------------------------------------------------
(* Two rules that no single state shows to be kept: what a stopped contract*)
(* does, and how many executions one block takes.  Both rest on what the   *)
(* worlds that a revert restores have in common with the current one.      *)

(* A stop while a call is in progress can only have come before it; such a *)
(* call has moved nobody's money yet.                                      *)
StoppedInv ==
  ~Idle /\ world.paused =>
    /\ call.phase \in {"pool", "callback"}
    /\ \A i \in DOMAIN saved : saved[i].gain = world.gain

(* A block with an execution has its mark, also after any revert; the mark *)
(* is set, and the execution not counted, as long as it is in progress.    *)
BlockInv ==
  /\ \A b \in 1 .. MaxBlock : doneIn[b] <= 1 /\ (b > block => doneIn[b] = 0)
  /\ doneIn[block] = 1 =>
       /\ world.lastExecutionBlock = block
       /\ \A i \in DOMAIN saved : saved[i].lastExecutionBlock = block
  /\ ~Idle /\ (call.initiator = "none" \/ InTry) =>
       /\ doneIn[block] = 0
       /\ world.lastExecutionBlock = block
       /\ InTry => saved[2].lastExecutionBlock = block

(* What the rules are about, and what a step in the middle of a call that  *)
(* pays nobody leaves as it was.                                           *)
SameBooks ==
  /\ world'.paused = world.paused /\ world'.gain = world.gain
  /\ world'.lastExecutionBlock = world.lastExecutionBlock

LEMMA LendsPaysNobody ==
  ASSUME ExecutorInv, PoolLends
  PROVE  /\ SameBooks /\ ~Idle /\ ~Idle' /\ call.phase = "pool"
         /\ call'.phase = "callback" /\ call'.initiator = call.initiator
         /\ UNCHANGED <<block, saved, doneIn>>
<1> DEFINE pool == [world.pool EXCEPT ![call.token] = @ - call.amount]
           held == [world.held EXCEPT ![call.token] = @ + call.amount]
<1>1. /\ call.phase = "pool" /\ ~Idle /\ call' = [call EXCEPT !.phase = "callback"]
      /\ UNCHANGED <<block, saved, doneIn>>
      /\ world' = [world EXCEPT !.pool = pool, !.held = held]
  BY DEF PoolLends, Inside, Idle, NoCall
<1> HIDE DEF pool, held
<1>2. SameBooks
  BY <1>1, InCall DEF World, SameBooks
<1> QED
  BY <1>1, <1>2, InCall DEF Call, Idle, NoCall

LEMMA OperationPaysNobody ==
  ASSUME ExecutorInv, ExecuteOperation
  PROVE  /\ SameBooks /\ ~Idle /\ ~Idle' /\ ~world.paused
         /\ call'.initiator = call.initiator /\ UNCHANGED <<block, saved, doneIn>>
<1> DEFINE loans == world.totalFlashloans + 1
           premium == world.totalPremiumPaid + PremiumPaid
<1>1. /\ call.phase = "callback" /\ ~Idle /\ ~world.paused
      /\ call' = [call EXCEPT !.phase = "swap", !.current = call.amount]
      /\ UNCHANGED <<block, saved, doneIn>>
      /\ world' = [world EXCEPT !.locked = TRUE, !.totalFlashloans = loans,
                                !.totalPremiumPaid = premium]
  BY DEF ExecuteOperation, Inside, Idle, NoCall, Accepted, NotPaused
<1> HIDE DEF loans, premium
<1>2. SameBooks
  BY <1>1, InCall DEF World, SameBooks
<1> QED
  BY <1>1, <1>2, InCall DEF Call, Idle, NoCall

LEMMA SwapPaysNobody ==
  ASSUME ExecutorInv, Swap
  PROVE  /\ SameBooks /\ ~Idle /\ ~Idle' /\ call.phase = "swap"
         /\ call'.initiator = call.initiator /\ UNCHANGED <<block, saved, doneIn>>
<1>1. PICK received \in Received :
        /\ world' = [world EXCEPT !.held =
                       [[world.held EXCEPT ![Head(call.route).tokenIn] = @ - call.current]
                          EXCEPT ![Head(call.route).tokenOut] = @ + received]]
        /\ call' = [call EXCEPT !.route = Tail(@), !.current = received]
  BY DEF Swap
<1>2. PICK held : world' = [world EXCEPT !.held = held]
  BY <1>1
<1>3. PICK route : call' = [call EXCEPT !.route = route, !.current = received]
  BY <1>1
<1>4. call.phase = "swap" /\ ~Idle /\ UNCHANGED <<block, saved, doneIn>>
  BY DEF Swap, Inside, Idle, NoCall
<1>5. SameBooks
  BY <1>2, <1>4, InCall DEF World, SameBooks
<1> QED
  BY <1>3, <1>4, <1>5, InCall DEF Call, Idle, NoCall

LEMMA SettleFlashloanMarks ==
  ASSUME ExecutorInv, SettleFlashloan
  PROVE  /\ world'.lastExecutionBlock = world.lastExecutionBlock
         /\ world'.paused = world.paused /\ ~Idle /\ ~Idle' /\ call.phase = "swap"
         /\ call'.initiator = call.initiator /\ UNCHANGED <<block, saved, doneIn>>
<1>1. PICK allowance, total, held, gain :
        world' = [world EXCEPT !.locked = FALSE, !.allowance = allowance,
                               !.totalProfit = total, !.held = held, !.gain = gain]
  BY DEF SettleFlashloan
<1>2. /\ call.phase = "swap" /\ ~Idle /\ call' = [call EXCEPT !.phase = "repay"]
      /\ UNCHANGED <<block, saved, doneIn>>
  BY DEF SettleFlashloan, Inside, Idle, NoCall
<1>3. /\ world'.lastExecutionBlock = world.lastExecutionBlock
      /\ world'.paused = world.paused
  BY <1>1, <1>2, InCall DEF World
<1> QED
  BY <1>2, <1>3, InCall DEF Call, Idle, NoCall

LEMMA SettleDirectMarks ==
  ASSUME ExecutorInv, SettleDirect
  PROVE  /\ world'.lastExecutionBlock = world.lastExecutionBlock
         /\ world'.paused = world.paused /\ ~Idle /\ Idle' /\ call.phase = "swap"
         /\ call.initiator = "none" /\ saved' = <<>>
         /\ doneIn' = [doneIn EXCEPT ![block] = @ + 1] /\ UNCHANGED block
<1>1. PICK total, held, gain :
        world' = [world EXCEPT !.locked = FALSE, !.totalProfit = total, !.held = held,
                               !.gain = gain]
  BY DEF SettleDirect
<1>2. /\ call.phase = "swap" /\ ~Idle /\ Idle' /\ call.initiator = "none" /\ saved' = <<>>
      /\ doneIn' = [doneIn EXCEPT ![block] = @ + 1] /\ UNCHANGED block
  BY DEF SettleDirect, Inside, Idle, NoCall, Return, RecordDone
<1> QED
  BY <1>1, <1>2, InCall DEF World

LEMMA CollectsMarks ==
  ASSUME ExecutorInv, PoolCollects
  PROVE  /\ SameBooks /\ ~Idle /\ Idle' /\ saved' = <<>> /\ UNCHANGED block
         /\ doneIn' = IF InTry THEN [doneIn EXCEPT ![block] = @ + 1] ELSE doneIn
<1>1. PICK allowance, held, pool :
        world' = [world EXCEPT !.allowance = allowance, !.held = held, !.pool = pool]
  BY DEF PoolCollects
<1>2. /\ ~Idle /\ Idle' /\ saved' = <<>> /\ UNCHANGED block
      /\ doneIn' = IF InTry THEN [doneIn EXCEPT ![block] = @ + 1] ELSE doneIn
  BY DEF PoolCollects, Inside, Idle, NoCall, Return, RecordDone
<1> QED
  BY <1>1, <1>2, InCall DEF World, SameBooks

LEMMA FailsMarks ==
  ASSUME ExecutorInv, FlashloanFails
  PROVE  /\ ~Idle /\ Idle' /\ InTry /\ saved' = <<>> /\ UNCHANGED block
         /\ doneIn' = [doneIn EXCEPT ![block] = @ + 1] /\ 2 \in DOMAIN saved
         /\ world'.gain = saved[2].gain
         /\ world'.lastExecutionBlock = saved[2].lastExecutionBlock
<1>1. /\ ~Idle /\ Idle' /\ InTry /\ saved' = <<>> /\ UNCHANGED block
      /\ doneIn' = [doneIn EXCEPT ![block] = @ + 1]
      /\ world' = [saved[2] EXCEPT !.locked = FALSE, !.failedFlashloans = @ + 1]
  BY DEF FlashloanFails, Return, RecordDone, Idle
<1>2. saved \in Seq(World) /\ Len(saved) = 2
  BY <1>1, InCall DEF InTry
<1>3. 2 \in DOMAIN saved /\ saved[2] \in World
  BY <1>2
<1>4. PICK count : world' = [saved[2] EXCEPT !.locked = FALSE, !.failedFlashloans = count]
  BY <1>1, <1>3 DEF World
<1>5. /\ world'.gain = saved[2].gain
      /\ world'.lastExecutionBlock = saved[2].lastExecutionBlock
  BY <1>3, <1>4 DEF World
<1> QED
  BY <1>1, <1>3, <1>5

LEMMA AdministerPaysNobody ==
  ASSUME ExecutorInv, Administer
  PROVE  /\ world'.gain = world.gain /\ Idle /\ Idle'
         /\ world'.lastExecutionBlock = world.lastExecutionBlock
         /\ UNCHANGED <<block, saved, doneIn>>
<1>1. Idle /\ Idle' /\ UNCHANGED <<block, saved, doneIn>>
  BY DEF Administer, UpdateExecutor, UpdateMinAmount, EmergencyStop, Resume,
         SetWrapper, AuthorizeWrapper, Between, Idle
<1>2. world \in World
  BY DEF ExecutorInv, TypeOK
<1>3. \/ \E set : world' = [world EXCEPT !.allowedExecutors = set]
      \/ \E set : world' = [world EXCEPT !.minAmountByAsset = set]
      \/ \E set : world' = [world EXCEPT !.paused = set]
      \/ \E set : world' = [world EXCEPT !.wrapperAddress = set]
      \/ \E set : world' = [world EXCEPT !.authorizedWrappers = set]
  BY DEF Administer, UpdateExecutor, UpdateMinAmount, EmergencyStop, Resume,
         SetWrapper, AuthorizeWrapper
<1> QED
  BY <1>1, <1>2, <1>3 DEF World

(* Deposits, withdrawals and blocks: nothing but the contract's own.       *)
LEMMA BetweenPaysNobody ==
  ASSUME ExecutorInv,
         \/ \E asset \in Asset, amount \in Amounts :
              Withdraw(asset, amount) \/ Deposit(asset, amount)
         \/ NextBlock \/ UNCHANGED vars
  PROVE  /\ SameBooks /\ UNCHANGED <<call, saved, doneIn>>
         /\ block' = block \/ (Idle /\ block' = block + 1)
<1>1. world \in World
  BY DEF ExecutorInv, TypeOK
<1>2. ASSUME NEW asset \in Asset, NEW amount \in Amounts,
             Withdraw(asset, amount) \/ Deposit(asset, amount)
      PROVE  SameBooks /\ UNCHANGED <<block, call, saved, doneIn>>
  <2>1. PICK held : world' = [world EXCEPT !.held = held]
    BY <1>2 DEF Withdraw, Deposit
  <2>2. UNCHANGED <<block, call, saved, doneIn>>
    BY <1>2 DEF Withdraw, Deposit, Between
  <2> QED
    BY <1>1, <2>1, <2>2 DEF World, SameBooks
<1>3. ASSUME NextBlock \/ UNCHANGED vars
      PROVE  /\ SameBooks /\ UNCHANGED <<call, saved, doneIn>>
             /\ block' = block \/ (Idle /\ block' = block + 1)
  BY <1>3 DEF NextBlock, vars, SameBooks
<1> QED
  BY <1>2, <1>3

(* A transaction begins.                                                   *)
LEMMA DirectMarks ==
  ASSUME ExecutorInv, NEW sender, NEW asset, NEW amount, NEW route, NEW minProfit,
         ExecuteDirect(sender, asset, amount, route, minProfit)
  PROVE  /\ Idle /\ ~Idle' /\ ~world.paused /\ ~world'.paused
         /\ block # world.lastExecutionBlock
         /\ world'.lastExecutionBlock = block /\ ~InTry' /\ saved' = <<world>>
         /\ UNCHANGED <<block, doneIn>>
<1>1. world \in World
  BY DEF ExecutorInv, TypeOK
<1>2. PICK gain, held : world' = [world EXCEPT !.locked = TRUE, !.lastExecutionBlock = block,
                                               !.gain = gain, !.held = held]
  BY <1>1 DEF ExecuteDirect, World
<1>3. /\ ~world'.paused <=> ~world.paused
      /\ world'.lastExecutionBlock = block
  BY <1>1, <1>2 DEF World
<1>4. /\ Idle /\ ~world.paused /\ block # world.lastExecutionBlock
      /\ saved' = <<world>> /\ UNCHANGED <<block, doneIn>> /\ call'.phase = "swap"
  BY DEF ExecuteDirect, Begin, MayExecute, NotPaused, NewBlock
<1>5. ~Idle' /\ ~InTry'
  BY <1>4 DEF Idle, NoCall, InTry
<1> QED
  BY <1>3, <1>4, <1>5

LEMMA FlashloanMarks ==
  ASSUME ExecutorInv, NEW sender, NEW token, NEW amount, NEW route, NEW minProfit,
         ExecuteFlashloan(sender, token, amount, route, minProfit)
  PROVE  /\ Idle /\ ~Idle' /\ ~world.paused /\ ~world'.paused
         /\ block # world.lastExecutionBlock /\ world'.gain = world.gain
         /\ world'.lastExecutionBlock = block /\ saved' = <<world, world'>>
         /\ UNCHANGED <<block, doneIn>>
<1>1. world \in World
  BY DEF ExecutorInv, TypeOK
<1>2. world' = [world EXCEPT !.locked = TRUE, !.lastExecutionBlock = block]
  BY DEF ExecuteFlashloan
<1>3. /\ ~world'.paused <=> ~world.paused
      /\ world'.lastExecutionBlock = block /\ world'.gain = world.gain
  BY <1>1, <1>2 DEF World
<1>4. /\ Idle /\ ~world.paused /\ block # world.lastExecutionBlock
      /\ saved' = <<world, world'>> /\ UNCHANGED <<block, doneIn>> /\ call'.phase = "pool"
  BY DEF ExecuteFlashloan, Begin, MayExecute, NotPaused, NewBlock, Loan
<1>5. ~Idle'
  BY <1>4 DEF Idle, NoCall
<1> QED
  BY <1>3, <1>4, <1>5

LEMMA TriggerMarks ==
  ASSUME NEW wrapper \in Wrapper, NEW recipient, NEW token, NEW amount, NEW route,
         NEW minProfit, TriggerFlashloan(wrapper, recipient, token, amount, route, minProfit)
  PROVE  /\ Idle /\ ~Idle' /\ call'.phase = "pool" /\ call'.initiator # "none"
         /\ ~InTry' /\ saved' = <<world>> /\ UNCHANGED <<world, block, doneIn>>
<1>1. /\ Idle /\ saved' = <<world>> /\ UNCHANGED <<world, block, doneIn>>
      /\ call'.phase = "pool" /\ call'.initiator = wrapper
  BY DEF TriggerFlashloan, Begin, Loan
<1> QED
  BY <1>1 DEF Idle, NoCall, InTry

(* What one step may be, for both rules.                                   *)
LEMMA Cases ==
  ASSUME [Next]_vars
  PROVE  \/ \E sender \in Account, asset \in Asset, amount \in Amounts,
               route \in Routes, minProfit \in MinProfits :
              \/ ExecuteDirect(sender, asset, amount, route, minProfit)
              \/ ExecuteFlashloan(sender, asset, amount, route, minProfit)
              \/ \E wrapper \in Wrapper, recipient \in Account :
                   TriggerFlashloan(wrapper, recipient, asset, amount, route, minProfit)
         \/ PoolLends \/ ExecuteOperation \/ Swap \/ SettleDirect \/ SettleFlashloan
         \/ PoolCollects \/ FlashloanFails \/ RevertAll \/ Administer
         \/ \E asset \in Asset, amount \in Amounts :
              Withdraw(asset, amount) \/ Deposit(asset, amount)
         \/ NextBlock \/ UNCHANGED vars
<1>1. Token \subseteq Asset /\ Native \in Asset
  BY DEF Asset
<1> QED
  BY <1>1, Zenon DEF Next, Execute

LEMMA StoppedStep ==
  ASSUME ExecutorInv, StoppedInv, [Next]_vars
  PROVE  StoppedInv' /\ (world.paused => world'.gain = world.gain)
<1>1. ASSUME NEW sender \in Account, NEW asset \in Asset, NEW amount \in Amounts,
             NEW route \in Routes, NEW minProfit \in MinProfits,
             \/ ExecuteDirect(sender, asset, amount, route, minProfit)
             \/ ExecuteFlashloan(sender, asset, amount, route, minProfit)
      PROVE  StoppedInv' /\ (world.paused => world'.gain = world.gain)
  BY <1>1, DirectMarks, FlashloanMarks DEF StoppedInv
<1>2. ASSUME NEW wrapper \in Wrapper, NEW recipient \in Account, NEW asset \in Asset,
             NEW amount \in Amounts, NEW route \in Routes, NEW minProfit \in MinProfits,
             TriggerFlashloan(wrapper, recipient, asset, amount, route, minProfit)
      PROVE  StoppedInv' /\ (world.paused => world'.gain = world.gain)
  <2>1. /\ call'.phase = "pool" /\ saved' = <<world>> /\ world' = world
    BY <1>2, TriggerMarks
  <2>2. DOMAIN saved' = {1} /\ saved'[1] = world
    BY <2>1
  <2> QED
    BY <2>1, <2>2 DEF StoppedInv
<1>3. CASE PoolLends \/ ExecuteOperation \/ Swap
  <2>1. SameBooks /\ UNCHANGED saved /\ ~Idle
    BY <1>3, LendsPaysNobody, OperationPaysNobody, SwapPaysNobody
  <2>2. world'.paused => call'.phase = "callback"
    BY <1>3, <2>1, LendsPaysNobody, OperationPaysNobody, SwapPaysNobody
       DEF StoppedInv, SameBooks
  <2> QED
    BY <2>1, <2>2 DEF StoppedInv, SameBooks
<1>4. CASE SettleFlashloan \/ SettleDirect
  <2>1. ~world.paused /\ world'.paused = world.paused
    BY <1>4, SettleFlashloanMarks, SettleDirectMarks DEF StoppedInv
  <2> QED
    BY <2>1 DEF StoppedInv
<1>5. CASE PoolCollects
  BY <1>5, CollectsMarks DEF StoppedInv, SameBooks
<1>6. CASE FlashloanFails
  BY <1>6, FailsMarks DEF StoppedInv
<1>7. CASE RevertAll
  <2>1. ~Idle /\ Idle' /\ world' = saved[1]
    BY <1>7 DEF RevertAll, Return, Idle
  <2>2. 1 \in DOMAIN saved
    BY <2>1, InCall
  <2> QED
    BY <2>1, <2>2 DEF StoppedInv
<1>8. CASE Administer
  BY <1>8, AdministerPaysNobody DEF StoppedInv
<1>9. CASE \/ \E asset \in Asset, amount \in Amounts :
                Withdraw(asset, amount) \/ Deposit(asset, amount)
           \/ NextBlock \/ UNCHANGED vars
  BY <1>9, BetweenPaysNobody DEF StoppedInv, SameBooks, Idle
<1> QED
  BY <1>1, <1>2, <1>3, <1>4, <1>5, <1>6, <1>7, <1>8, <1>9, Cases

(* While the contract is stopped nobody gains or loses anything, through   *)
(* any of the entries and whatever is reverted (whenNotPaused, and the     *)
(* check of executeOperation that FlashloanExecutor.sol:363 adds).         *)
THEOREM StoppedPaysNobody == Spec => StoppedMeansStopped
<1>1. Init => StoppedInv
  BY DEF Init, StoppedInv, Idle
<1>2. ExecutorInv /\ StoppedInv /\ [Next]_vars
        => StoppedInv' /\ [world.paused => world'.gain = world.gain]_vars
  BY StoppedStep
<1> QED
  BY <1>1, <1>2, ExecutorInvariant, PTL DEF Spec, StoppedMeansStopped

(* An execution is counted: it was in progress, so the block had none yet. *)
LEMMA Counted ==
  ASSUME ExecutorInv, BlockInv, ~Idle, call.initiator = "none" \/ InTry,
         doneIn' = [doneIn EXCEPT ![block] = @ + 1], UNCHANGED block, Idle', saved' = <<>>,
         world'.lastExecutionBlock = block
  PROVE  BlockInv'
<1>1. doneIn \in [1 .. MaxBlock -> Nat] /\ block \in 1 .. MaxBlock /\ doneIn[block] = 0
  BY InCall DEF BlockInv
<1>2. \A b \in 1 .. MaxBlock : doneIn'[b] = IF b = block THEN 1 ELSE doneIn[b]
  BY <1>1
<1>3. \A b \in 1 .. MaxBlock : doneIn'[b] <= 1 /\ (b > block => doneIn'[b] = 0)
  BY <1>1, <1>2 DEF BlockInv
<1> QED
  BY <1>3 DEF BlockInv

(* No execution is counted and no mark is moved.                           *)
LEMMA NotCounted ==
  ASSUME ExecutorInv, BlockInv, UNCHANGED <<block, doneIn>>,
         doneIn[block] = 1 => /\ world'.lastExecutionBlock = block
                              /\ \A i \in DOMAIN saved' : saved'[i].lastExecutionBlock = block,
         ~Idle' /\ (call'.initiator = "none" \/ InTry') =>
           /\ doneIn[block] = 0
           /\ world'.lastExecutionBlock = block
           /\ InTry' => saved'[2].lastExecutionBlock = block
  PROVE  BlockInv'
BY DEF BlockInv

LEMMA BlockStep ==
  ASSUME ExecutorInv, BlockInv, [Next]_vars
  PROVE  BlockInv'
<1>0. /\ doneIn \in [1 .. MaxBlock -> Nat] /\ block \in 1 .. MaxBlock
      /\ doneIn[block] \in {0, 1}
  <2>1. doneIn \in [1 .. MaxBlock -> Nat] /\ block \in 1 .. MaxBlock
    BY DEF ExecutorInv, TypeOK
  <2> QED
    BY <2>1 DEF BlockInv
<1>1. ASSUME NEW sender \in Account, NEW asset \in Asset, NEW amount \in Amounts,
             NEW route \in Routes, NEW minProfit \in MinProfits,
             ExecuteDirect(sender, asset, amount, route, minProfit)
      PROVE  BlockInv'
  <2>1. doneIn[block] = 0
    BY <1>0, <1>1, DirectMarks DEF BlockInv
  <2> QED
    BY <1>1, <2>1, DirectMarks, NotCounted
<1>2. ASSUME NEW sender \in Account, NEW asset \in Asset, NEW amount \in Amounts,
             NEW route \in Routes, NEW minProfit \in MinProfits,
             ExecuteFlashloan(sender, asset, amount, route, minProfit)
      PROVE  BlockInv'
  <2>1. doneIn[block] = 0
    BY <1>0, <1>2, FlashloanMarks DEF BlockInv
  <2>2. saved'[2].lastExecutionBlock = block
    BY <1>2, FlashloanMarks
  <2> QED
    BY <1>2, <2>1, <2>2, FlashloanMarks, NotCounted
<1>3. ASSUME NEW wrapper \in Wrapper, NEW recipient \in Account, NEW asset \in Asset,
             NEW amount \in Amounts, NEW route \in Routes, NEW minProfit \in MinProfits,
             TriggerFlashloan(wrapper, recipient, asset, amount, route, minProfit)
      PROVE  BlockInv'
  <2>1. DOMAIN saved' = {1} /\ saved'[1] = world
    BY <1>3, TriggerMarks
  <2>2. doneIn[block] = 1 => world.lastExecutionBlock = block
    BY DEF BlockInv
  <2> QED
    BY <1>3, <2>1, <2>2, TriggerMarks, NotCounted
<1>4. CASE PoolLends \/ ExecuteOperation \/ Swap \/ SettleFlashloan
  <2>1. /\ world'.lastExecutionBlock = world.lastExecutionBlock /\ ~Idle
        /\ call'.initiator = call.initiator /\ UNCHANGED <<block, saved, doneIn>>
    BY <1>4, LendsPaysNobody, OperationPaysNobody, SwapPaysNobody, SettleFlashloanMarks
       DEF SameBooks
  <2> QED
    BY <2>1 DEF BlockInv, InTry
<1>5. CASE SettleDirect
  <2>1. world'.lastExecutionBlock = block
    BY <1>5, SettleDirectMarks DEF BlockInv
  <2> QED
    BY <1>5, <2>1, SettleDirectMarks, Counted
<1>6. CASE PoolCollects
  <2>1. CASE InTry
    <3>1. world'.lastExecutionBlock = block
      BY <1>6, <2>1, CollectsMarks DEF BlockInv, SameBooks
    <3> QED
      BY <1>6, <2>1, <3>1, CollectsMarks, Counted
  <2>2. CASE ~InTry
    <3>1. doneIn[block] = 1 => world'.lastExecutionBlock = block
      BY <1>6, CollectsMarks DEF BlockInv, SameBooks
    <3> QED
      BY <1>6, <2>2, <3>1, CollectsMarks, NotCounted
  <2> QED
    BY <2>1, <2>2
<1>7. CASE FlashloanFails
  <2>1. world'.lastExecutionBlock = block
    BY <1>7, FailsMarks DEF BlockInv
  <2> QED
    BY <1>7, <2>1, FailsMarks, Counted
<1>8. CASE RevertAll
  <2>1. /\ ~Idle /\ Idle' /\ world' = saved[1] /\ saved' = <<>>
        /\ UNCHANGED <<block, doneIn>>
    BY <1>8 DEF RevertAll, Return, Idle
  <2>2. 1 \in DOMAIN saved
    BY <2>1, InCall
  <2>3. doneIn[block] = 1 => world'.lastExecutionBlock = block
    BY <2>1, <2>2 DEF BlockInv
  <2> QED
    BY <2>1, <2>3, NotCounted
<1>9. CASE Administer
  <2>1. /\ Idle' /\ world'.lastExecutionBlock = world.lastExecutionBlock
        /\ UNCHANGED <<block, saved, doneIn>>
    BY <1>9, AdministerPaysNobody
  <2> QED
    BY <2>1 DEF BlockInv
<1>10. CASE \/ \E asset \in Asset, amount \in Amounts :
                 Withdraw(asset, amount) \/ Deposit(asset, amount)
            \/ NextBlock \/ UNCHANGED vars
  <2>1. /\ world'.lastExecutionBlock = world.lastExecutionBlock
        /\ UNCHANGED <<call, saved, doneIn>>
        /\ block' = block \/ (Idle /\ block' = block + 1)
    BY <1>10, BetweenPaysNobody DEF SameBooks
  <2>2. CASE block' = block
    BY <2>1, <2>2 DEF BlockInv, Idle, InTry
  <2>3. CASE Idle /\ block' = block + 1
    <3>1. block' \in 1 .. MaxBlock
      BY <1>10, <2>3, <1>0 DEF Withdraw, Deposit, Between, NextBlock, vars
    <3>2. \A b \in 1 .. MaxBlock : doneIn[b] <= 1 /\ (b > block' => doneIn[b] = 0)
      BY <1>0, <2>3 DEF BlockInv
    <3>3. doneIn'[block'] = 0
      BY <1>0, <2>1, <2>3, <3>1 DEF BlockInv
    <3> QED
      BY <2>1, <2>3, <3>2, <3>3 DEF BlockInv, Idle
  <2> QED
    BY <2>1, <2>2, <2>3
<1> QED
  BY <1>1, <1>2, <1>3, <1>4, <1>5, <1>6, <1>7, <1>8, <1>9, <1>10, Cases

(* antiMEV: of the executions that one block takes from the allowed        *)
(* senders at most one is not reverted.  The wrapper's are not limited.    *)
THEOREM OnePerBlock == Spec => []OneExecutionPerBlock
<1>1. Init => BlockInv
  <2> SUFFICES ASSUME Init PROVE BlockInv
    OBVIOUS
  <2>1. block = 1 /\ Idle /\ \A b \in 1 .. MaxBlock : doneIn[b] = 0
    BY DEF Init, Idle
  <2> QED
    BY <2>1 DEF BlockInv
<1>2. ExecutorInv /\ BlockInv /\ [Next]_vars => BlockInv'
  BY BlockStep
<1>3. ExecutorInv /\ BlockInv => OneExecutionPerBlock
  BY DEF ExecutorInv, TypeOK, BlockInv, OneExecutionPerBlock
<1> QED
  BY <1>1, <1>2, <1>3, ExecutorInvariant, PTL DEF Spec

-------------------------------------------------------------------------------
(* That nobody loses.  A sender may be down by the capital of a direct     *)
(* trade only while it is in progress, and no revert goes back to a loss.  *)

Pledged(account, asset) ==
  IF /\ ~Idle /\ call.initiator = "none"
     /\ account = call.sender /\ asset = call.asset
  THEN call.amount ELSE 0

LossInv ==
  /\ \A account \in Account, asset \in Asset :
       world.gain[<<account, asset>>] >= 0 - Pledged(account, asset)
  /\ \A i \in DOMAIN saved : \A account \in Account, asset \in Asset :
       saved[i].gain[<<account, asset>>] >= 0
  /\ ~Idle /\ call.initiator = "none" => call.phase = "swap"

LEMMA IdleGains ==
  ASSUME ExecutorInv, LossInv, Idle, NEW account \in Account, NEW asset \in Asset
  PROVE  world.gain[<<account, asset>>] >= 0
<1>1. Pledged(account, asset) = 0
  BY DEF Pledged
<1>2. world.gain[<<account, asset>>] \in Int
  BY Fields DEF ExecutorInv, TypeOK
<1>3. world.gain[<<account, asset>>] >= 0 - Pledged(account, asset)
  BY DEF LossInv
<1> QED
  BY <1>1, <1>2, <1>3

(* Once no capital is pledged any more, LossInv needs only the gains.      *)
LEMMA NothingPledged ==
  ASSUME Idle', saved' = <<>>,
         \A account \in Account, asset \in Asset : world'.gain[<<account, asset>>] >= 0
  PROVE  LossInv'
BY DEF LossInv, Pledged

LEMMA DirectPledges ==
  ASSUME ExecutorInv, LossInv, NEW sender \in Account, NEW asset \in Asset,
         NEW amount \in Amounts, NEW route \in Routes, NEW minProfit \in MinProfits,
         ExecuteDirect(sender, asset, amount, route, minProfit)
  PROVE  LossInv'
<1> DEFINE gain == [world.gain EXCEPT ![<<sender, asset>>] = @ - amount]
<1>1. world \in World /\ world.gain \in [Account \X Asset -> Int] /\ amount \in Nat
  BY Fields DEF ExecutorInv, TypeOK
<1>2. world'.gain = gain
  <2>1. PICK held : world' = [world EXCEPT !.locked = TRUE, !.lastExecutionBlock = block,
                                           !.gain = gain, !.held = held]
    BY <1>1 DEF ExecuteDirect, World
  <2> HIDE DEF gain
  <2> QED
    BY <1>1, <2>1 DEF World
<1>3. /\ Idle /\ ~Idle' /\ saved' = <<world>> /\ call'.initiator = "none"
      /\ call'.phase = "swap" /\ call'.sender = sender /\ call'.asset = asset
      /\ call'.amount = amount
  BY DEF ExecuteDirect, Begin, Idle, NoCall
<1>4. \A account \in Account, a \in Asset : world.gain[<<account, a>>] >= 0
  BY <1>3, IdleGains
<1>5. ASSUME NEW account \in Account, NEW a \in Asset
      PROVE  world'.gain[<<account, a>>] >= 0 - Pledged(account, a)'
  <2>1. world.gain[<<account, a>>] \in Int /\ world.gain[<<account, a>>] >= 0
    BY <1>1, <1>4
  <2>2. CASE account = sender /\ a = asset
    <3>1. world'.gain[<<account, a>>] = world.gain[<<account, a>>] - amount
      BY <1>1, <1>2, <2>2
    <3>2. Pledged(account, a)' = amount
      BY <1>3, <2>2 DEF Pledged
    <3> QED
      BY <1>1, <2>1, <3>1, <3>2
  <2>3. CASE ~(account = sender /\ a = asset)
    <3>1. world'.gain[<<account, a>>] = world.gain[<<account, a>>]
      BY <1>1, <1>2, <2>3
    <3>2. Pledged(account, a)' = 0
      BY <1>3, <2>3 DEF Pledged
    <3> QED
      BY <2>1, <3>1, <3>2
  <2> QED
    BY <2>2, <2>3
<1>6. DOMAIN saved' = {1} /\ saved'[1] = world
  BY <1>3
<1> QED
  BY <1>3, <1>4, <1>5, <1>6 DEF LossInv

(* A loan pledges nobody's capital.                                        *)
LEMMA LoanPledgesNothing ==
  ASSUME LossInv, Idle, ~Idle', call'.initiator # "none",
         \A i \in DOMAIN saved' : saved'[i].gain = world.gain, world'.gain = world.gain
  PROVE  LossInv'
BY DEF LossInv, Pledged

LEMMA MidCallPledges ==
  ASSUME LossInv, ~Idle, ~Idle', UNCHANGED saved, world'.gain = world.gain,
         call'.initiator = call.initiator, call'.sender = call.sender,
         call'.asset = call.asset, call'.amount = call.amount,
         call.initiator = "none" => call'.phase = "swap"
  PROVE  LossInv'
<1>1. \A account, asset : Pledged(account, asset)' = Pledged(account, asset)
  BY DEF Pledged
<1> QED
  BY <1>1 DEF LossInv

(* The terms of a call never change.                                       *)
LEMMA SameTerms ==
  ASSUME ExecutorInv, PoolLends \/ ExecuteOperation \/ Swap \/ SettleFlashloan
  PROVE  /\ ~Idle /\ ~Idle' /\ UNCHANGED saved
         /\ call'.initiator = call.initiator /\ call'.sender = call.sender
         /\ call'.asset = call.asset /\ call'.amount = call.amount
<1>1. ~Idle /\ ~Idle' /\ UNCHANGED saved
  BY LendsPaysNobody, OperationPaysNobody, SwapPaysNobody, SettleFlashloanMarks
<1>2. CASE PoolLends
  BY <1>1, <1>2, InCall DEF PoolLends, Call
<1>3. CASE ExecuteOperation
  BY <1>1, <1>3, InCall DEF ExecuteOperation, Call
<1>4. CASE Swap
  <2>1. PICK received, route : call' = [call EXCEPT !.route = route, !.current = received]
    BY <1>4 DEF Swap
  <2> QED
    BY <1>1, <2>1, InCall DEF Call
<1>5. CASE SettleFlashloan
  BY <1>1, <1>5, InCall DEF SettleFlashloan, Call
<1> QED
  BY <1>1, <1>2, <1>3, <1>4, <1>5

LEMMA SettleFlashloanPays ==
  ASSUME ExecutorInv, LossInv, SettleFlashloan
  PROVE  LossInv'
<1> DEFINE profit == call.current - Owed
           paid == [world.gain EXCEPT ![<<call.recipient, call.token>>] = @ + profit]
<1>1. /\ ~Idle /\ ~Idle' /\ UNCHANGED saved /\ call'.initiator # "none"
      /\ call.initiator # "none"
  BY SameTerms DEF SettleFlashloan
<1>2. /\ world \in World /\ world.gain \in [Account \X Asset -> Int]
      /\ call.recipient \in Account /\ call.token \in Asset
  BY <1>1, InCall, Fields DEF Call
<1>3. profit \in Nat
  BY <1>1, InCall DEF SettleFlashloan
<1>4. world'.gain = paid
  <2>1. PICK allowance, total, held :
          world' = [world EXCEPT !.locked = FALSE, !.allowance = allowance,
                                 !.totalProfit = total, !.held = held, !.gain = paid]
    BY <1>2 DEF SettleFlashloan, World
  <2> HIDE DEF paid
  <2> QED
    BY <1>2, <2>1 DEF World
<1> HIDE DEF profit
<1>5. ASSUME NEW account \in Account, NEW asset \in Asset
      PROVE  world'.gain[<<account, asset>>] >= 0
  <2>1. world.gain[<<account, asset>>] \in Nat
    BY <1>1, <1>2 DEF LossInv, Pledged
  <2>2. \/ world'.gain[<<account, asset>>] = world.gain[<<account, asset>>]
        \/ world'.gain[<<account, asset>>] = world.gain[<<account, asset>>] + profit
    BY <1>2, <1>4
  <2> QED
    BY <1>3, <2>1, <2>2
<1>6. \A account \in Account, asset \in Asset : Pledged(account, asset)' = 0
  BY <1>1 DEF Pledged
<1> QED
  BY <1>1, <1>5, <1>6 DEF LossInv

LEMMA SettleDirectPays ==
  ASSUME ExecutorInv, LossInv, SettleDirect
  PROVE  LossInv'
<1> DEFINE paid == [world.gain EXCEPT ![<<call.sender, call.asset>>] = @ + Proceeds]
<1>1. ~Idle /\ Idle' /\ saved' = <<>> /\ call.initiator = "none"
  BY SettleDirectMarks
<1>2. /\ world \in World /\ world.gain \in [Account \X Asset -> Int]
      /\ call.sender \in Account /\ call.asset \in Asset /\ call.amount \in Nat
  BY <1>1, InCall, Fields DEF Call
<1>3. Proceeds \in Int /\ Proceeds >= call.amount
  <2>1. /\ Wmatic \in Asset /\ world.held \in [Asset -> Int] /\ call.current \in Int
        /\ call.wmaticBefore \in Int /\ call.minProfit \in Nat
    <3>1. Wmatic \in Asset /\ world.held \in [Asset -> Int]
      BY <1>2, Fields DEF Asset
    <3>2. call \in Call /\ call.current \in Nat /\ call.minProfit \in Nat
      BY <1>1, InCall
    <3>3. call.wmaticBefore \in Int
      BY <3>2 DEF Call
    <3> QED
      BY <3>1, <3>2, <3>3
  <2>2. Proceeds \in Int
    BY <2>1 DEF Proceeds
  <2>3. Proceeds >= call.amount + call.minProfit
    BY DEF SettleDirect, CoversCapital
  <2> QED
    BY <1>2, <2>1, <2>2, <2>3
<1>4. world'.gain = paid
  <2>1. PICK total, held :
          world' = [world EXCEPT !.locked = FALSE, !.totalProfit = total,
                                 !.held = held, !.gain = paid]
    BY <1>2 DEF SettleDirect, World
  <2> HIDE DEF paid
  <2> QED
    BY <1>2, <2>1 DEF World
<1>5. ASSUME NEW account \in Account, NEW asset \in Asset
      PROVE  world'.gain[<<account, asset>>] >= 0
  <2>1. world.gain[<<account, asset>>] \in Int
    BY <1>2
  <2>2. CASE account = call.sender /\ asset = call.asset
    <3>1. world'.gain[<<account, asset>>] = world.gain[<<account, asset>>] + Proceeds
      BY <1>2, <1>4, <2>2
    <3>2. world.gain[<<account, asset>>] >= 0 - call.amount
      BY <1>1, <2>2 DEF LossInv, Pledged
    <3> QED
      BY <1>2, <1>3, <2>1, <3>1, <3>2
  <2>3. CASE ~(account = call.sender /\ asset = call.asset)
    <3>1. world'.gain[<<account, asset>>] = world.gain[<<account, asset>>]
      BY <1>2, <1>4, <2>3
    <3>2. world.gain[<<account, asset>>] >= 0
      BY <1>1, <2>1, <2>3 DEF LossInv, Pledged
    <3> QED
      BY <3>1, <3>2
  <2> QED
    BY <2>2, <2>3
<1> QED
  BY <1>1, <1>5, NothingPledged

(* A revert goes back to a world without a loss.                           *)
LEMMA RevertPays ==
  ASSUME ExecutorInv, LossInv, RevertAll \/ FlashloanFails
  PROVE  LossInv'
<1>1. CASE RevertAll
  <2>1. ~Idle /\ Idle' /\ world' = saved[1] /\ saved' = <<>>
    BY <1>1 DEF RevertAll, Return, Idle
  <2>2. 1 \in DOMAIN saved
    BY <2>1, InCall
  <2> QED
    BY <2>1, <2>2, NothingPledged DEF LossInv
<1>2. CASE FlashloanFails
  BY <1>2, FailsMarks, NothingPledged DEF LossInv
<1> QED
  BY <1>1, <1>2

LEMMA LossStep ==
  ASSUME ExecutorInv, LossInv, [Next]_vars
  PROVE  LossInv'
<1>1. ASSUME NEW sender \in Account, NEW asset \in Asset, NEW amount \in Amounts,
             NEW route \in Routes, NEW minProfit \in MinProfits,
             ExecuteFlashloan(sender, asset, amount, route, minProfit)
      PROVE  LossInv'
  <2>1. \A i \in DOMAIN saved' : saved'[i].gain = world.gain
    <3>1. saved' = <<world, world'>> /\ world'.gain = world.gain
      BY <1>1, FlashloanMarks
    <3>2. DOMAIN saved' = {1, 2} /\ saved'[1] = world /\ saved'[2] = world'
      BY <3>1
    <3> QED
      BY <3>1, <3>2
  <2>2. call'.initiator = "executor"
    BY <1>1 DEF ExecuteFlashloan, Begin, Loan
  <2> QED
    BY <1>1, <2>1, <2>2, FlashloanMarks, LoanPledgesNothing
<1>2. ASSUME NEW wrapper \in Wrapper, NEW recipient \in Account, NEW asset \in Asset,
             NEW amount \in Amounts, NEW route \in Routes, NEW minProfit \in MinProfits,
             TriggerFlashloan(wrapper, recipient, asset, amount, route, minProfit)
      PROVE  LossInv'
  <2>1. DOMAIN saved' = {1} /\ saved'[1] = world
    BY <1>2, TriggerMarks
  <2> QED
    BY <1>2, <2>1, TriggerMarks, LoanPledgesNothing
<1>3. CASE PoolLends \/ ExecuteOperation \/ Swap
  <2>1. world'.gain = world.gain
    BY <1>3, LendsPaysNobody, OperationPaysNobody, SwapPaysNobody DEF SameBooks
  <2>2. call.initiator = "none" => call'.phase = "swap"
    <3>1. SUFFICES ASSUME call.initiator = "none" PROVE call'.phase = "swap"
      OBVIOUS
    <3>2. call.phase = "swap"
      BY <1>3, <3>1, SameTerms DEF LossInv
    <3>3. Swap
      BY <1>3, <3>2 DEF PoolLends, ExecuteOperation, Inside
    <3>4. PICK received, route : call' = [call EXCEPT !.route = route, !.current = received]
      BY <3>3 DEF Swap
    <3> QED
      BY <1>3, <3>2, <3>4, SameTerms, InCall DEF Call
  <2> QED
    BY <1>3, <2>1, <2>2, SameTerms, MidCallPledges
<1>4. CASE PoolCollects
  <2>1. call.phase = "repay" /\ ~Idle /\ Idle' /\ saved' = <<>> /\ world'.gain = world.gain
    BY <1>4, CollectsMarks DEF PoolCollects, Inside, SameBooks
  <2> QED
    BY <2>1, NothingPledged DEF LossInv, Pledged
<1>5. CASE Administer
  BY <1>5, AdministerPaysNobody DEF LossInv, Pledged
<1>6. CASE \/ \E asset \in Asset, amount \in Amounts :
                Withdraw(asset, amount) \/ Deposit(asset, amount)
           \/ NextBlock \/ UNCHANGED vars
  BY <1>6, BetweenPaysNobody DEF LossInv, Pledged, SameBooks, Idle
<1> QED
  BY <1>1, <1>2, <1>3, <1>4, <1>5, <1>6, DirectPledges, SettleFlashloanPays,
     SettleDirectPays, RevertPays, Cases

(* Nobody comes out of an execution with less than was put in, however it  *)
(* ends (the capital check of executeDirect, FlashloanExecutor.sol:322).   *)
THEOREM NoLosses == Spec => []NobodyLoses
<1>1. Init => LossInv
  <2> SUFFICES ASSUME Init PROVE LossInv
    OBVIOUS
  <2>1. world.gain = [a \in Account \X Asset |-> 0] /\ saved = <<>> /\ Idle
    BY DEF Init, Idle
  <2>2. \A account \in Account, asset \in Asset : world.gain[<<account, asset>>] = 0
    BY <2>1
  <2> QED
    BY <2>1, <2>2 DEF LossInv, Pledged
<1>2. ExecutorInv /\ LossInv /\ [Next]_vars => LossInv'
  BY LossStep
<1>3. ExecutorInv /\ LossInv => NobodyLoses
  BY IdleGains DEF NobodyLoses
<1> QED
  BY <1>1, <1>2, <1>3, ExecutorInvariant, PTL DEF Spec

-------------------------------------------------------------------------------
(* Who is paid, and whether the books agree: what each step does to the    *)
(* money and to the counters.                                              *)

SamePool == world'.pool = world.pool /\ world'.totalPremiumPaid = world.totalPremiumPaid
SameGain == world'.gain = world.gain /\ world'.totalProfit = world.totalProfit

LEMMA DirectMoves ==
  ASSUME ExecutorInv, NEW sender \in Account, NEW asset \in Asset, NEW amount \in Amounts,
         NEW route \in Routes, NEW minProfit \in MinProfits,
         ExecuteDirect(sender, asset, amount, route, minProfit)
  PROVE  /\ SamePool /\ world'.totalProfit = world.totalProfit
         /\ world'.gain = [world.gain EXCEPT ![<<sender, asset>>] = @ - amount]
         /\ Idle /\ ~Idle' /\ saved' = <<world>> /\ call'.initiator = "none"
         /\ call'.phase = "swap" /\ call'.sender = sender /\ call'.amount = amount
<1> DEFINE gain == [world.gain EXCEPT ![<<sender, asset>>] = @ - amount]
<1>1. world \in World
  BY DEF ExecutorInv, TypeOK
<1>2. PICK held : world' = [world EXCEPT !.locked = TRUE, !.lastExecutionBlock = block,
                                         !.gain = gain, !.held = held]
  BY <1>1 DEF ExecuteDirect, World
<1>3. world'.gain = gain /\ SamePool /\ world'.totalProfit = world.totalProfit
  <2> HIDE DEF gain
  <2> QED BY <1>1, <1>2 DEF World, SamePool
<1> QED BY <1>3 DEF ExecuteDirect, Begin, Idle, NoCall

LEMMA LoanMoves ==
  ASSUME ExecutorInv, NEW sender \in Account, NEW token \in Asset, NEW amount \in Amounts,
         NEW route \in Routes, NEW minProfit \in MinProfits,
         \/ ExecuteFlashloan(sender, token, amount, route, minProfit)
         \/ \E wrapper \in Wrapper, recipient \in Account :
              TriggerFlashloan(wrapper, recipient, token, amount, route, minProfit)
  PROVE  /\ SamePool /\ SameGain /\ Idle /\ ~Idle'
         /\ call'.phase = "pool" /\ call'.initiator # "none"
         /\ \A i \in DOMAIN saved' : \/ saved'[i] = world
                                    \/ /\ saved'[i].pool = world.pool
                                       /\ saved'[i].totalPremiumPaid = world.totalPremiumPaid
                                       /\ saved'[i].gain = world.gain
                                       /\ saved'[i].totalProfit = world.totalProfit
<1>1. world \in World
  BY DEF ExecutorInv, TypeOK
<1>2. CASE ExecuteFlashloan(sender, token, amount, route, minProfit)
  <2>1. /\ world' = [world EXCEPT !.locked = TRUE, !.lastExecutionBlock = block]
        /\ saved' = <<world, world'>> /\ Idle /\ call'.phase = "pool" /\ call'.initiator = "executor"
    BY <1>2 DEF ExecuteFlashloan, Begin, Loan
  <2>2. SamePool /\ SameGain
    BY <1>1, <2>1 DEF World, SamePool, SameGain
  <2>3. DOMAIN saved' = {1, 2} /\ saved'[1] = world /\ saved'[2] = world'
    BY <2>1
  <2>4. Idle /\ ~Idle'
    BY <2>1 DEF Idle, NoCall
  <2>5. /\ saved'[2].pool = world.pool /\ saved'[2].totalPremiumPaid = world.totalPremiumPaid
        /\ saved'[2].gain = world.gain /\ saved'[2].totalProfit = world.totalProfit
    BY <2>2, <2>3 DEF SamePool, SameGain
  <2>6. call'.initiator # "none"
    BY <2>1
  <2> HIDE DEF SamePool, SameGain, Idle
  <2> QED BY <2>1, <2>2, <2>3, <2>4, <2>5, <2>6
<1>3. ASSUME NEW wrapper \in Wrapper, NEW recipient \in Account,
             TriggerFlashloan(wrapper, recipient, token, amount, route, minProfit)
      PROVE  /\ SamePool /\ SameGain /\ Idle /\ ~Idle' /\ saved' = <<world>>
             /\ call'.phase = "pool" /\ call'.initiator # "none"
  BY <1>3, TriggerMarks DEF SamePool, SameGain
<1>4. saved' = <<world>> => \A i \in DOMAIN saved' : saved'[i] = world
  OBVIOUS
<1> QED BY <1>2, <1>3, <1>4

LEMMA LendsMoves ==
  ASSUME ExecutorInv, PoolLends
  PROVE  /\ SameGain /\ world'.totalPremiumPaid = world.totalPremiumPaid
         /\ world'.pool = [world.pool EXCEPT ![call.token] = @ - call.amount]
         /\ call.phase = "pool" /\ call' = [call EXCEPT !.phase = "callback"]
<1> DEFINE pool == [world.pool EXCEPT ![call.token] = @ - call.amount]
<1>1. /\ call.phase = "pool" /\ ~Idle /\ call' = [call EXCEPT !.phase = "callback"]
  BY DEF PoolLends, Inside, Idle, NoCall
<1>2. PICK held : world' = [world EXCEPT !.pool = pool, !.held = held]
  BY DEF PoolLends
<1> HIDE DEF pool
<1>3. SameGain /\ world'.totalPremiumPaid = world.totalPremiumPaid /\ world'.pool = pool
  BY <1>1, <1>2, InCall DEF World, SameGain
<1> QED BY <1>1, <1>3 DEF pool

LEMMA OperationMoves ==
  ASSUME ExecutorInv, ExecuteOperation
  PROVE  /\ SameGain /\ world'.pool = world.pool
         /\ world'.totalPremiumPaid = world.totalPremiumPaid + Premium[call.amount]
         /\ call.phase = "callback" /\ call.recipient = Owner
         /\ call' = [call EXCEPT !.phase = "swap", !.current = call.amount]
<1> DEFINE loans == world.totalFlashloans + 1
           premium == world.totalPremiumPaid + Premium[call.amount]
<1>1. /\ call.phase = "callback" /\ ~Idle /\ call.recipient = Owner
      /\ call' = [call EXCEPT !.phase = "swap", !.current = call.amount]
      /\ world' = [world EXCEPT !.locked = TRUE, !.totalFlashloans = loans,
                                !.totalPremiumPaid = premium]
  BY DEF ExecuteOperation, Inside, Idle, NoCall, Accepted, AuthorizedRecipient, PremiumPaid
<1> HIDE DEF loans, premium
<1>2. SameGain /\ world'.pool = world.pool /\ world'.totalPremiumPaid = premium
  BY <1>1, InCall DEF World, SameGain
<1> QED BY <1>1, <1>2 DEF premium

LEMMA SwapMoves ==
  ASSUME ExecutorInv, Swap
  PROVE  /\ SameGain /\ SamePool /\ call.phase = "swap" /\ call'.phase = "swap"
         /\ call'.initiator = call.initiator /\ call'.amount = call.amount
         /\ call'.recipient = call.recipient /\ call'.token = call.token
<1>1. PICK held, received, route :
        /\ world' = [world EXCEPT !.held = held]
        /\ call' = [call EXCEPT !.route = route, !.current = received]
  BY DEF Swap
<1>2. call.phase = "swap" /\ ~Idle
  BY DEF Swap, Inside, Idle, NoCall
<1>3. SameGain /\ SamePool
  BY <1>1, <1>2, InCall DEF World, SameGain, SamePool
<1> QED BY <1>1, <1>2, <1>3, InCall DEF Call

LEMMA SettleDirectMoves ==
  ASSUME ExecutorInv, SettleDirect
  PROVE  /\ SamePool /\ world'.totalProfit = world.totalProfit + (Proceeds - call.amount)
         /\ world'.gain = [world.gain EXCEPT ![<<call.sender, call.asset>>] = @ + Proceeds]
         /\ Proceeds \in Int
<1> DEFINE gain == [world.gain EXCEPT ![<<call.sender, call.asset>>] = @ + Proceeds]
           total == world.totalProfit + (Proceeds - call.amount)
<1>1. ~Idle
  BY SettleDirectMarks
<1>2. PICK held : world' = [world EXCEPT !.locked = FALSE, !.totalProfit = total,
                                         !.held = held, !.gain = gain]
  BY <1>1, InCall DEF SettleDirect, World, DirectProfit
<1>3. SamePool /\ world'.totalProfit = total /\ world'.gain = gain
  <2> HIDE DEF gain, total
  <2> QED BY <1>1, <1>2, InCall DEF World, SamePool
<1>4. Proceeds \in Int
  <2>1. Wmatic \in Asset /\ world.held \in [Asset -> Int]
    BY <1>1, InCall, Fields DEF Asset
  <2>2. call.current \in Int /\ call.wmaticBefore \in Int
    BY <1>1, InCall DEF Call
  <2> QED BY <2>1, <2>2 DEF Proceeds
<1> QED BY <1>3, <1>4

LEMMA SettleFlashloanMoves ==
  ASSUME ExecutorInv, SettleFlashloan
  PROVE  /\ SamePool /\ world'.totalProfit = world.totalProfit + (call.current - Owed)
         /\ world'.gain = [world.gain EXCEPT ![<<call.recipient, call.token>>] = @ + (call.current - Owed)]
         /\ call.phase = "swap" /\ call' = [call EXCEPT !.phase = "repay"] /\ call.initiator # "none"
<1> DEFINE gain == [world.gain EXCEPT ![<<call.recipient, call.token>>] = @ + (call.current - Owed)]
           total == world.totalProfit + (call.current - Owed)
<1>1. ~Idle
  BY SettleFlashloanMarks
<1>2. PICK allowance, held :
        world' = [world EXCEPT !.locked = FALSE, !.allowance = allowance,
                               !.totalProfit = total, !.held = held, !.gain = gain]
  BY <1>1, InCall DEF SettleFlashloan, World
<1>3. SamePool /\ world'.totalProfit = total /\ world'.gain = gain
  <2> HIDE DEF gain, total
  <2> QED BY <1>1, <1>2, InCall DEF World, SamePool
<1> QED BY <1>3 DEF SettleFlashloan, Inside

LEMMA CollectsMoves ==
  ASSUME ExecutorInv, PoolCollects
  PROVE  /\ SameGain /\ world'.totalPremiumPaid = world.totalPremiumPaid
         /\ world'.pool = [world.pool EXCEPT ![call.token] = @ + Owed]
         /\ call.phase = "repay"
<1> DEFINE pool == [world.pool EXCEPT ![call.token] = @ + Owed]
<1>1. ~Idle /\ call.phase = "repay"
  BY CollectsMarks DEF PoolCollects, Inside
<1>2. PICK allowance, held :
        world' = [world EXCEPT !.allowance = allowance, !.held = held, !.pool = pool]
  BY <1>1, InCall DEF PoolCollects, World
<1> HIDE DEF pool
<1>3. SameGain /\ world'.totalPremiumPaid = world.totalPremiumPaid /\ world'.pool = pool
  BY <1>1, <1>2, InCall DEF World, SameGain
<1> QED BY <1>1, <1>3 DEF pool

(* A revert restores the money and the counters of a world that was saved. *)
LEMMA RevertMoves ==
  ASSUME ExecutorInv, RevertAll \/ FlashloanFails
  PROVE  /\ ~Idle /\ Idle' /\ saved' = <<>>
         /\ \E i \in DOMAIN saved :
              /\ world'.pool = saved[i].pool /\ world'.totalPremiumPaid = saved[i].totalPremiumPaid
              /\ world'.gain = saved[i].gain /\ world'.totalProfit = saved[i].totalProfit
<1>1. CASE RevertAll
  <2>1. ~Idle /\ Idle' /\ world' = saved[1] /\ saved' = <<>>
    BY <1>1 DEF RevertAll, Return, Idle
  <2>2. 1 \in DOMAIN saved
    BY <2>1, InCall
  <2> QED BY <2>1, <2>2
<1>2. CASE FlashloanFails
  <2>1. /\ ~Idle /\ Idle' /\ InTry /\ saved' = <<>>
        /\ world' = [saved[2] EXCEPT !.locked = FALSE, !.failedFlashloans = @ + 1]
    BY <1>2 DEF FlashloanFails, Return, Idle
  <2>2. 2 \in DOMAIN saved /\ saved[2] \in World
    <3>1. saved \in Seq(World) /\ Len(saved) = 2
      BY <2>1, InCall DEF InTry
    <3> QED BY <3>1
  <2>3. PICK count : world' = [saved[2] EXCEPT !.locked = FALSE, !.failedFlashloans = count]
    BY <2>1, <2>2 DEF World
  <2>4. /\ world'.pool = saved[2].pool /\ world'.totalPremiumPaid = saved[2].totalPremiumPaid
        /\ world'.gain = saved[2].gain /\ world'.totalProfit = saved[2].totalProfit
    BY <2>2, <2>3 DEF World
  <2> QED BY <2>1, <2>2, <2>4
<1> QED BY <1>1, <1>2

(* Between transactions nobody's money moves.                              *)
LEMMA BetweenMoves ==
  ASSUME ExecutorInv,
         \/ Administer
         \/ \E asset \in Asset, amount \in Amounts :
              Withdraw(asset, amount) \/ Deposit(asset, amount)
         \/ NextBlock \/ UNCHANGED vars
  PROVE  SamePool /\ SameGain /\ UNCHANGED <<call, saved>>
<1>1. world \in World
  BY DEF ExecutorInv, TypeOK
<1>2. UNCHANGED <<call, saved>>
  BY DEF Administer, UpdateExecutor, UpdateMinAmount, EmergencyStop, Resume, SetWrapper,
         AuthorizeWrapper, Between, Withdraw, Deposit, NextBlock, vars
<1>3. \/ \E set : world' = [world EXCEPT !.allowedExecutors = set]
      \/ \E set : world' = [world EXCEPT !.minAmountByAsset = set]
      \/ \E set : world' = [world EXCEPT !.paused = set]
      \/ \E set : world' = [world EXCEPT !.wrapperAddress = set]
      \/ \E set : world' = [world EXCEPT !.authorizedWrappers = set]
      \/ \E set : world' = [world EXCEPT !.held = set]
      \/ UNCHANGED world
  BY DEF Administer, UpdateExecutor, UpdateMinAmount, EmergencyStop, Resume, SetWrapper,
         AuthorizeWrapper, Withdraw, Deposit, NextBlock, vars
<1> QED BY <1>1, <1>2, <1>3 DEF World, SamePool, SameGain

-------------------------------------------------------------------------------
(* Whom an execution pays.                                                 *)

(* Whoever's gains differ from those a revert would restore.               *)
MayBePaid(account) == account = Owner \/ (call.initiator = "none" /\ account = call.sender)

PaidInv ==
  ~Idle =>
    /\ call.phase = "swap" /\ call.initiator # "none" => call.recipient = Owner
    /\ \A i \in DOMAIN saved : \A account \in Account, asset \in Asset :
         saved[i].gain[<<account, asset>>] # world.gain[<<account, asset>>] => MayBePaid(account)

Paid ==
  \A account \in Account, asset \in Asset :
    world'.gain[<<account, asset>>] # world.gain[<<account, asset>>] =>
      \/ account = Owner
      \/ ~Idle /\ account = call.sender /\ call.initiator = "none"
      \/ Idle /\ account = call'.sender

(* A step that pays nobody and leaves the terms alone.                     *)
LEMMA NobodyPaid ==
  ASSUME PaidInv, ~Idle, world'.gain = world.gain, UNCHANGED saved,
         call'.initiator = call.initiator, call'.sender = call.sender,
         call'.phase = "swap" /\ call'.initiator # "none" => call'.recipient = Owner
  PROVE  PaidInv' /\ Paid
<1>1. \A account : MayBePaid(account)' <=> MayBePaid(account)
  BY DEF MayBePaid
<1> QED BY <1>1 DEF PaidInv, Paid

LEMMA PaidStep ==
  ASSUME ExecutorInv, PaidInv, [Next]_vars
  PROVE  PaidInv' /\ Paid
<1>1. ASSUME NEW sender \in Account, NEW asset \in Asset, NEW amount \in Amounts,
             NEW route \in Routes, NEW minProfit \in MinProfits,
             ExecuteDirect(sender, asset, amount, route, minProfit)
      PROVE  PaidInv' /\ Paid
  <2>1. /\ world'.gain = [world.gain EXCEPT ![<<sender, asset>>] = @ - amount]
        /\ Idle /\ saved' = <<world>> /\ call'.initiator = "none" /\ call'.sender = sender
    BY <1>1, DirectMoves
  <2>2. world.gain \in [Account \X Asset -> Int]
    BY Fields DEF ExecutorInv, TypeOK
  <2>3. \A account \in Account, a \in Asset :
          world'.gain[<<account, a>>] # world.gain[<<account, a>>] => account = sender
    BY <2>1, <2>2
  <2>4. DOMAIN saved' = {1} /\ saved'[1] = world
    BY <2>1
  <2> QED BY <2>1, <2>3, <2>4 DEF PaidInv, Paid, MayBePaid
<1>2. ASSUME NEW sender \in Account, NEW asset \in Asset, NEW amount \in Amounts,
             NEW route \in Routes, NEW minProfit \in MinProfits,
             \/ ExecuteFlashloan(sender, asset, amount, route, minProfit)
             \/ \E wrapper \in Wrapper, recipient \in Account :
                  TriggerFlashloan(wrapper, recipient, asset, amount, route, minProfit)
      PROVE  PaidInv' /\ Paid
  <2>1. /\ world'.gain = world.gain /\ call'.phase = "pool"
        /\ \A i \in DOMAIN saved' : saved'[i].gain = world.gain
    BY <1>2, LoanMoves DEF SameGain
  <2> QED BY <2>1 DEF PaidInv, Paid
<1>3. CASE PoolLends \/ ExecuteOperation \/ Swap
  <2>1. SameGain /\ ~Idle /\ UNCHANGED saved /\ call'.initiator = call.initiator
        /\ call'.sender = call.sender
    BY <1>3, SameTerms, LendsMoves, OperationMoves, SwapMoves
  <2>2. call \in Call
    BY <2>1, InCall
  <2>3. call'.phase = "swap" /\ call'.initiator # "none" => call'.recipient = Owner
    <3>1. CASE PoolLends
      BY <2>2, <3>1, LendsMoves DEF Call
    <3>2. CASE ExecuteOperation
      BY <2>2, <3>2, OperationMoves DEF Call
    <3>3. CASE Swap
      BY <2>1, <3>3, SwapMoves DEF PaidInv
    <3> QED BY <1>3, <3>1, <3>2, <3>3
  <2> QED BY <2>1, <2>3, NobodyPaid DEF SameGain
<1>4. CASE SettleFlashloan
  <2>1. /\ ~Idle /\ ~Idle' /\ UNCHANGED saved /\ call'.initiator = call.initiator
        /\ call'.sender = call.sender
    BY <1>4, SameTerms
  <2>2. /\ call.phase = "swap" /\ call.initiator # "none" /\ call \in Call /\ call'.phase = "repay"
    BY <1>4, <2>1, SettleFlashloanMoves, InCall DEF Call
  <2>3. call.recipient = Owner /\ call.token \in Asset
    BY <2>1, <2>2, InCall DEF PaidInv
  <2>4. world'.gain = [world.gain EXCEPT ![<<Owner, call.token>>] = @ + (call.current - Owed)]
    BY <1>4, <2>3, SettleFlashloanMoves
  <2>5. world.gain \in [Account \X Asset -> Int]
    BY Fields DEF ExecutorInv, TypeOK
  <2>6. \A account \in Account, a \in Asset :
          account # Owner => world'.gain[<<account, a>>] = world.gain[<<account, a>>]
    BY <2>4, <2>5
  <2> QED BY <2>1, <2>2, <2>6 DEF PaidInv, Paid, MayBePaid
<1>5. CASE SettleDirect
  <2>1. ~Idle /\ Idle' /\ call.initiator = "none"
    BY <1>5, SettleDirectMarks
  <2>2. world'.gain = [world.gain EXCEPT ![<<call.sender, call.asset>>] = @ + Proceeds]
    BY <1>5, SettleDirectMoves
  <2>3. world.gain \in [Account \X Asset -> Int]
    BY Fields DEF ExecutorInv, TypeOK
  <2>4. \A account \in Account, a \in Asset :
          account # call.sender => world'.gain[<<account, a>>] = world.gain[<<account, a>>]
    BY <2>2, <2>3
  <2> QED BY <2>1, <2>4 DEF PaidInv, Paid
<1>6. CASE PoolCollects
  BY <1>6, CollectsMoves, CollectsMarks DEF PaidInv, Paid, SameGain
<1>7. CASE RevertAll \/ FlashloanFails
  BY <1>7, RevertMoves DEF PaidInv, Paid, MayBePaid
<1>8. CASE \/ Administer
           \/ \E asset \in Asset, amount \in Amounts :
                Withdraw(asset, amount) \/ Deposit(asset, amount)
           \/ NextBlock \/ UNCHANGED vars
  <2>1. world'.gain = world.gain /\ call' = call /\ saved' = saved
    BY <1>8, BetweenMoves DEF SameGain
  <2>2. PaidInv'
    BY <2>1 DEF PaidInv, MayBePaid, Idle
  <2> QED BY <2>1, <2>2 DEF Paid
<1> QED BY <1>1, <1>2, <1>3, <1>4, <1>5, <1>6, <1>7, <1>8, Cases

(* Profit goes to the owner, or, of one's own capital, to its sender,      *)
(* through whichever entry, and a revert takes back no more than was paid  *)
(* (_requireAuthorizedProfitRecipient, FlashloanExecutor.sol).             *)
THEOREM OwnerIsPaid == Spec => ProfitGoesToOwner
<1>1. Init => PaidInv
  BY DEF Init, PaidInv, Idle
<1>2. ExecutorInv /\ PaidInv /\ [Next]_vars => PaidInv' /\ [Paid]_vars
  BY PaidStep
<1> QED
  BY <1>1, <1>2, ExecutorInvariant, PTL DEF Spec, ProfitGoesToOwner, Paid

-------------------------------------------------------------------------------
(* Whether the books agree.                                                *)

LEMMA TotalIsSum ==
  ASSUME NEW f, NEW S
  PROVE  Total(f, S) = SumOf(f, S)
BY DEF Total, MapThenSumSet, MapThenFoldSet, SumOf

(* What the pool is short of, and who put in the capital of the call.      *)
Borrowed == ~Idle /\ call.initiator # "none" /\ call.phase # "pool"
Lent(token) == IF Borrowed /\ token = call.token THEN call.amount ELSE 0
Due == IF ~Borrowed THEN 0 ELSE IF call.phase = "callback" THEN call.amount ELSE Owed
Capital == IF ~Idle /\ call.initiator = "none" THEN call.amount ELSE 0

Balanced(w) ==
  /\ \A token \in Token : w.pool[token] >= 0
  /\ Total(w.pool, Token) = w.totalPremiumPaid
  /\ Total(w.gain, Account \X Asset) = w.totalProfit

(* Before the pool has collected it is short of the loan, token by token,  *)
(* and of the premium the contract has already counted; before a direct    *)
(* trade is settled its sender is short of the capital.                    *)
BooksInv ==
  /\ \A token \in Token : world.pool[token] >= 0 - Lent(token)
  /\ Total(world.pool, Token) = world.totalPremiumPaid - Due
  /\ Total(world.gain, Account \X Asset) = world.totalProfit - Capital
  /\ \A i \in DOMAIN saved : Balanced(saved[i])
  /\ ~Idle /\ call.initiator = "none" => call.phase = "swap"

LEMMA Ledgers ==
  ASSUME ExecutorInv
  PROVE  /\ IsFiniteSet(Token) /\ IsFiniteSet(Account \X Asset)
         /\ world.pool \in [Token -> Int] /\ world.gain \in [Account \X Asset -> Int]
         /\ world.totalProfit \in Nat /\ world.totalPremiumPaid \in Nat
<1>1. IsFiniteSet(Asset)
  BY FinitenessAssumption, FS_AddElement DEF Asset
<1> QED
  BY <1>1, FinitenessAssumption, FS_Product, Fields DEF ExecutorInv, TypeOK

LEMMA GainMoves ==
  ASSUME ExecutorInv, NEW account \in Account, NEW asset \in Asset, NEW d \in Int
  PROVE  world'.gain = [world.gain EXCEPT ![<<account, asset>>] = @ + d] =>
           Total(world'.gain, Account \X Asset) = Total(world.gain, Account \X Asset) + d
<1>0. SUFFICES ASSUME world'.gain = [world.gain EXCEPT ![<<account, asset>>] = @ + d]
               PROVE  Total(world'.gain, Account \X Asset) = Total(world.gain, Account \X Asset) + d
  OBVIOUS
<1> DEFINE S == Account \X Asset
           x == <<account, asset>>
           f == world.gain
           g == world'.gain
<1>1. x \in S /\ IsFiniteSet(S) /\ f \in [S -> Int] /\ g = [f EXCEPT ![x] = @ + d]
  BY <1>0, Ledgers
<1>2. Total(g, S) = SumOf(g, S) /\ Total(f, S) = SumOf(f, S)
  BY TotalIsSum
<1> HIDE DEF S, x, f, g
<1>3. /\ \A y \in S : f[y] \in Int
      /\ \A y \in S : g[y] = IF y = x THEN f[y] + d ELSE f[y]
  BY <1>1
<1>4. x \in S /\ IsFiniteSet(S)
  BY <1>1
<1>5. SumOf(g, S) = SumOf(f, S) + d
  BY <1>3, <1>4, SumMovesAt
<1> QED BY <1>2, <1>5 DEF S, f, g

LEMMA PoolMoves ==
  ASSUME ExecutorInv, NEW token \in Token, NEW d \in Int,
         world'.pool = [world.pool EXCEPT ![token] = @ + d]
  PROVE  /\ Total(world'.pool, Token) = Total(world.pool, Token) + d
         /\ world'.pool[token] = world.pool[token] + d /\ world.pool[token] \in Int
         /\ \A t \in Token \ {token} : world'.pool[t] = world.pool[t]
<1> DEFINE f == world.pool
           g == world'.pool
<1>1. IsFiniteSet(Token) /\ f \in [Token -> Int] /\ g = [f EXCEPT ![token] = @ + d]
  BY Ledgers
<1>2. Total(g, Token) = SumOf(g, Token) /\ Total(f, Token) = SumOf(f, Token)
  BY TotalIsSum
<1> HIDE DEF f, g
<1>3. /\ \A t \in Token : f[t] \in Int
      /\ \A t \in Token : g[t] = IF t = token THEN f[t] + d ELSE f[t]
  BY <1>1
<1>5. SumOf(g, Token) = SumOf(f, Token) + d
  <2>1. IsFiniteSet(Token)
    BY <1>1
  <2> QED BY <1>3, <2>1, SumMovesAt
<1>4. /\ g[token] = f[token] + d /\ f[token] \in Int
      /\ \A t \in Token \ {token} : g[t] = f[t]
  BY <1>1
<1> QED BY <1>2, <1>4, <1>5 DEF f, g

LEMMA IdleBalances ==
  ASSUME ExecutorInv, BooksInv, Idle
  PROVE  Balanced(world) /\ Due = 0 /\ Capital = 0 /\ \A token : Lent(token) = 0
<1>1. Due = 0 /\ Capital = 0 /\ \A token : Lent(token) = 0
  BY DEF Due, Capital, Lent, Borrowed
<1> QED BY <1>1, Ledgers DEF BooksInv, Balanced

(* Whatever ends a transaction, or comes between two.                      *)
LEMMA BalancedSuffices ==
  ASSUME Idle', saved' = <<>>, Balanced(world'), world'.totalPremiumPaid \in Nat,
         world'.totalProfit \in Nat, world'.pool \in [Token -> Int]
  PROVE  BooksInv'
<1>1. Due' = 0 /\ Capital' = 0 /\ \A token : Lent(token)' = 0
  BY DEF Due, Capital, Lent, Borrowed
<1>2. \A i \in DOMAIN saved' : FALSE
  OBVIOUS
<1> QED BY <1>1, <1>2 DEF BooksInv, Balanced

LEMMA DirectBalances ==
  ASSUME ExecutorInv, BooksInv, NEW sender \in Account, NEW asset \in Asset,
         NEW amount \in Amounts, NEW route \in Routes, NEW minProfit \in MinProfits,
         ExecuteDirect(sender, asset, amount, route, minProfit)
  PROVE  BooksInv'
<1>1. /\ SamePool /\ world'.totalProfit = world.totalProfit
      /\ world'.gain = [world.gain EXCEPT ![<<sender, asset>>] = @ - amount]
      /\ Idle /\ ~Idle' /\ saved' = <<world>> /\ call'.initiator = "none"
      /\ call'.phase = "swap" /\ call'.amount = amount
  BY DirectMoves
<1>2. Balanced(world)
  BY <1>1, IdleBalances
<1>3. Due' = 0 /\ Capital' = amount /\ \A token : Lent(token)' = 0
  BY <1>1 DEF Due, Capital, Lent, Borrowed
<1>4. Total(world'.gain, Account \X Asset) = Total(world.gain, Account \X Asset) - amount
  <2>1. world'.gain = [world.gain EXCEPT ![<<sender, asset>>] = @ + (0 - amount)]
    <3>1. <<sender, asset>> \in Account \X Asset /\ world.gain \in [Account \X Asset -> Int]
      BY Ledgers
    <3>2. world.gain[<<sender, asset>>] - amount = world.gain[<<sender, asset>>] + (0 - amount)
      BY <3>1
    <3> QED BY <1>1, <3>2
  <2>2. PICK d \in Int : d = 0 - amount
    OBVIOUS
  <2>3. Total(world'.gain, Account \X Asset) = Total(world.gain, Account \X Asset) + d
    BY <2>1, <2>2, GainMoves
  <2>4. Total(world.gain, Account \X Asset) \in Int
    BY <1>2, Ledgers DEF Balanced
  <2> QED BY <2>2, <2>3, <2>4
<1>5. DOMAIN saved' = {1} /\ saved'[1] = world
  BY <1>1
<1>6. \A token \in Token : world'.pool[token] >= 0
  BY <1>1, <1>2 DEF SamePool, Balanced
<1>7. Total(world'.pool, Token) = world'.totalPremiumPaid /\ world'.totalPremiumPaid \in Nat
  BY <1>1, <1>2, Ledgers DEF SamePool, Balanced
<1>8. Total(world'.gain, Account \X Asset) = world'.totalProfit - amount
  BY <1>1, <1>2, <1>4 DEF Balanced
<1> QED BY <1>1, <1>2, <1>3, <1>5, <1>6, <1>7, <1>8 DEF BooksInv

LEMMA LoanBalances ==
  ASSUME ExecutorInv, BooksInv, NEW sender \in Account, NEW token \in Asset, NEW amount \in Amounts,
         NEW route \in Routes, NEW minProfit \in MinProfits,
         \/ ExecuteFlashloan(sender, token, amount, route, minProfit)
         \/ \E wrapper \in Wrapper, recipient \in Account :
              TriggerFlashloan(wrapper, recipient, token, amount, route, minProfit)
  PROVE  BooksInv'
<1>1. SamePool /\ SameGain /\ Idle /\ ~Idle' /\ call'.phase = "pool" /\ call'.initiator # "none"
  BY LoanMoves
<1>2. Balanced(world)
  BY <1>1, IdleBalances
<1>3. Due' = 0 /\ Capital' = 0 /\ \A t : Lent(t)' = 0
  BY <1>1 DEF Due, Capital, Lent, Borrowed
<1>4. \A i \in DOMAIN saved' : Balanced(saved'[i])
  BY <1>2, LoanMoves DEF Balanced
<1>5. Balanced(world')
  BY <1>1, <1>2 DEF Balanced, SamePool, SameGain
<1>6. world'.totalPremiumPaid \in Nat /\ world'.totalProfit \in Nat /\ world'.pool \in [Token -> Int]
  BY <1>1, Ledgers DEF SamePool, SameGain
<1>7. /\ \A t \in Token : world'.pool[t] >= 0 - Lent(t)'
      /\ Total(world'.pool, Token) = world'.totalPremiumPaid - Due'
      /\ Total(world'.gain, Account \X Asset) = world'.totalProfit - Capital'
  BY <1>3, <1>5, <1>6 DEF Balanced
<1> QED BY <1>1, <1>4, <1>7 DEF BooksInv

LEMMA LendsBalances ==
  ASSUME ExecutorInv, BooksInv, PoolLends
  PROVE  BooksInv'
<1>1. /\ SameGain /\ world'.totalPremiumPaid = world.totalPremiumPaid
      /\ world'.pool = [world.pool EXCEPT ![call.token] = @ - call.amount]
      /\ call.phase = "pool" /\ call' = [call EXCEPT !.phase = "callback"]
  BY LendsMoves
<1>2. ~Idle /\ ~Idle' /\ UNCHANGED saved /\ call \in Call /\ call.amount \in Nat /\ call.token \in Token
  BY SameTerms, InCall
<1>3. call.initiator # "none"
  BY <1>1, <1>2 DEF BooksInv
<1>4. /\ call'.phase = "callback" /\ call'.initiator = call.initiator
      /\ call'.token = call.token /\ call'.amount = call.amount
  BY <1>1, <1>2 DEF Call
<1>5. /\ Due = 0 /\ Capital = 0 /\ \A t : Lent(t) = 0
      /\ Due' = call.amount /\ Capital' = 0
      /\ \A t : Lent(t)' = IF t = call.token THEN call.amount ELSE 0
  BY <1>1, <1>2, <1>3, <1>4 DEF Due, Capital, Lent, Borrowed
<1>6. \A t \in Token : world'.pool[t] >= 0 - Lent(t)'
  BY <1>1, <1>2, <1>5, Ledgers DEF BooksInv
<1>7. Total(world'.pool, Token) = world'.totalPremiumPaid - Due'
  <2>1. world'.pool = [world.pool EXCEPT ![call.token] = @ + (0 - call.amount)]
    BY <1>1, <1>2, Ledgers
  <2>2. Total(world'.pool, Token) = Total(world.pool, Token) + (0 - call.amount)
    BY <1>2, <2>1, PoolMoves
  <2>3. Total(world.pool, Token) = world.totalPremiumPaid
    BY <1>5, Ledgers DEF BooksInv
  <2> QED BY <1>1, <1>2, <1>5, <2>2, <2>3, Ledgers
<1>8. Total(world'.gain, Account \X Asset) = world'.totalProfit - Capital'
  BY <1>1, <1>5 DEF BooksInv, SameGain
<1> QED BY <1>2, <1>3, <1>4, <1>6, <1>7, <1>8 DEF BooksInv

LEMMA OperationBalances ==
  ASSUME ExecutorInv, BooksInv, ExecuteOperation
  PROVE  BooksInv'
<1>1. /\ SameGain /\ world'.pool = world.pool
      /\ world'.totalPremiumPaid = world.totalPremiumPaid + Premium[call.amount]
      /\ call.phase = "callback"
      /\ call' = [call EXCEPT !.phase = "swap", !.current = call.amount]
  BY OperationMoves
<1>2. /\ ~Idle /\ ~Idle' /\ UNCHANGED saved /\ call \in Call /\ call.amount \in Nat
      /\ Premium[call.amount] \in Nat
  BY SameTerms, InCall
<1>3. call.initiator # "none"
  BY <1>1, <1>2 DEF BooksInv
<1>4. /\ call'.phase = "swap" /\ call'.initiator = call.initiator
      /\ call'.token = call.token /\ call'.amount = call.amount
  BY <1>1, <1>2 DEF Call
<1>5. /\ Due = call.amount /\ Capital = 0 /\ Due' = call.amount + Premium[call.amount] /\ Capital' = 0
      /\ \A t : Lent(t)' = Lent(t)
  BY <1>1, <1>2, <1>3, <1>4 DEF Due, Capital, Lent, Borrowed, Owed
<1>6. \A t \in Token : world'.pool[t] >= 0 - Lent(t)'
  BY <1>1, <1>5 DEF BooksInv
<1>7. Total(world'.pool, Token) = world'.totalPremiumPaid - Due'
  <2>1. Total(world.pool, Token) = world.totalPremiumPaid - Due
    BY DEF BooksInv
  <2> QED BY <1>1, <1>2, <1>5, <2>1, Ledgers
<1>8. Total(world'.gain, Account \X Asset) = world'.totalProfit - Capital'
  BY <1>1, <1>5 DEF BooksInv, SameGain
<1> QED BY <1>2, <1>3, <1>4, <1>6, <1>7, <1>8 DEF BooksInv

LEMMA SwapBalances ==
  ASSUME ExecutorInv, BooksInv, Swap
  PROVE  BooksInv'
<1>1. /\ SameGain /\ SamePool /\ call.phase = "swap" /\ call'.phase = "swap"
      /\ call'.initiator = call.initiator /\ call'.amount = call.amount /\ call'.token = call.token
      /\ ~Idle /\ ~Idle' /\ UNCHANGED saved
  BY SwapMoves, SameTerms
<1>2. Due' = Due /\ Capital' = Capital /\ \A t : Lent(t)' = Lent(t)
  BY <1>1 DEF Due, Capital, Lent, Borrowed, Owed
<1> QED BY <1>1, <1>2 DEF BooksInv, SamePool, SameGain

LEMMA SettleFlashloanBalances ==
  ASSUME ExecutorInv, BooksInv, SettleFlashloan
  PROVE  BooksInv'
<1>1. /\ SamePool /\ world'.totalProfit = world.totalProfit + (call.current - Owed)
      /\ world'.gain = [world.gain EXCEPT ![<<call.recipient, call.token>>] = @ + (call.current - Owed)]
      /\ call.phase = "swap" /\ call' = [call EXCEPT !.phase = "repay"] /\ call.initiator # "none"
  BY SettleFlashloanMoves
<1>2. /\ ~Idle /\ ~Idle' /\ UNCHANGED saved /\ call \in Call /\ call.current \in Nat /\ Owed \in Nat
      /\ call.token \in Asset
  BY SameTerms, InCall
<1>3. /\ call'.phase = "repay" /\ call'.initiator = call.initiator
      /\ call'.token = call.token /\ call'.amount = call.amount
  BY <1>1, <1>2 DEF Call
<1>4. Due' = Due /\ Capital' = 0 /\ Capital = 0 /\ \A t : Lent(t)' = Lent(t)
  BY <1>1, <1>2, <1>3 DEF Due, Capital, Lent, Borrowed, Owed
<1>5. Total(world'.gain, Account \X Asset) = world'.totalProfit - Capital'
  <2>1. <<call.recipient, call.token>> \in Account \X Asset /\ call.current - Owed \in Int
    BY <1>2 DEF Call
  <2>0. PICK d \in Int : d = call.current - Owed
    BY <2>1
  <2>2. Total(world'.gain, Account \X Asset) = Total(world.gain, Account \X Asset) + d
    <3>1. call.recipient \in Account
      BY <1>2 DEF Call
    <3>2. world'.gain = [world.gain EXCEPT ![<<call.recipient, call.token>>] = @ + d]
      BY <1>1, <2>0
    <3>3. call.token \in Asset
      BY <1>2
    <3> QED BY <3>1, <3>2, <3>3, GainMoves
  <2>3. Total(world.gain, Account \X Asset) = world.totalProfit
    BY <1>4, Ledgers DEF BooksInv
  <2> QED BY <1>1, <1>2, <1>4, <2>0, <2>2, <2>3, Ledgers
<1> QED BY <1>1, <1>2, <1>3, <1>4, <1>5 DEF BooksInv, SamePool

LEMMA SettleDirectBalances ==
  ASSUME ExecutorInv, ExecutorInv', BooksInv, SettleDirect
  PROVE  BooksInv'
<1>1. /\ SamePool /\ world'.totalProfit = world.totalProfit + (Proceeds - call.amount)
      /\ world'.gain = [world.gain EXCEPT ![<<call.sender, call.asset>>] = @ + Proceeds]
      /\ Proceeds \in Int
  BY SettleDirectMoves
<1>2. ~Idle /\ Idle' /\ saved' = <<>> /\ call.initiator = "none"
  BY SettleDirectMarks
<1>3. call.amount \in Nat /\ call.sender \in Account /\ call.asset \in Asset
  BY <1>2, InCall DEF Call
<1>4. Due = 0 /\ Capital = call.amount /\ \A t : Lent(t) = 0
  BY <1>2 DEF Due, Capital, Lent, Borrowed
<1>5. Total(world'.gain, Account \X Asset) = world'.totalProfit
  <2>1. <<call.sender, call.asset>> \in Account \X Asset
    BY <1>3
  <2>2. Total(world'.gain, Account \X Asset) = Total(world.gain, Account \X Asset) + Proceeds
    BY <1>1, <1>3, GainMoves
  <2>3. Total(world.gain, Account \X Asset) = world.totalProfit - call.amount
    BY <1>4 DEF BooksInv
  <2> QED BY <1>1, <1>3, <2>2, <2>3, Ledgers
<1>6. /\ \A t \in Token : world'.pool[t] >= 0
      /\ Total(world'.pool, Token) = world'.totalPremiumPaid
  BY <1>1, <1>4, Ledgers DEF BooksInv, SamePool
<1>7. /\ world'.totalPremiumPaid \in Nat /\ world'.totalProfit \in Nat
      /\ world'.pool \in [Token -> Int]
  BY Fields DEF ExecutorInv, TypeOK
<1> QED BY <1>2, <1>5, <1>6, <1>7, BalancedSuffices DEF Balanced

LEMMA CollectsBalances ==
  ASSUME ExecutorInv, ExecutorInv', BooksInv, PoolCollects
  PROVE  BooksInv'
<1>1. /\ SameGain /\ world'.totalPremiumPaid = world.totalPremiumPaid
      /\ world'.pool = [world.pool EXCEPT ![call.token] = @ + Owed] /\ call.phase = "repay"
  BY CollectsMoves
<1>2. ~Idle /\ Idle' /\ saved' = <<>>
  BY CollectsMarks
<1>3. /\ call.amount \in Nat /\ call.token \in Token /\ Owed \in Nat
      /\ Owed = call.amount + Premium[call.amount] /\ Premium[call.amount] \in Nat
  BY <1>2, InCall DEF Owed
<1>4. call.initiator # "none"
  BY <1>1, <1>2 DEF BooksInv
<1>5. Due = Owed /\ Capital = 0 /\ \A t : Lent(t) = IF t = call.token THEN call.amount ELSE 0
  BY <1>1, <1>2, <1>4 DEF Due, Capital, Lent, Borrowed
<1>6. \A t \in Token : world'.pool[t] >= 0
  <2>1. /\ world'.pool[call.token] = world.pool[call.token] + Owed /\ world.pool[call.token] \in Int
        /\ \A t \in Token \ {call.token} : world'.pool[t] = world.pool[t]
    BY <1>1, <1>3, PoolMoves
  <2>2. /\ world.pool[call.token] >= 0 - call.amount
        /\ \A t \in Token \ {call.token} : world.pool[t] >= 0
    BY <1>3, <1>5, Ledgers DEF BooksInv
  <2> QED BY <1>3, <2>1, <2>2
<1>7. Total(world'.pool, Token) = world'.totalPremiumPaid
  <2>1. Total(world'.pool, Token) = Total(world.pool, Token) + Owed
    BY <1>1, <1>3, PoolMoves
  <2>2. Total(world.pool, Token) = world.totalPremiumPaid - Owed
    BY <1>5 DEF BooksInv
  <2> QED BY <1>1, <1>3, <2>1, <2>2, Ledgers
<1>8. Total(world'.gain, Account \X Asset) = world'.totalProfit
  BY <1>1, <1>5, Ledgers DEF BooksInv, SameGain
<1>9. /\ world'.totalPremiumPaid \in Nat /\ world'.totalProfit \in Nat
      /\ world'.pool \in [Token -> Int]
  BY Fields DEF ExecutorInv, TypeOK
<1> QED BY <1>2, <1>6, <1>7, <1>8, <1>9, BalancedSuffices DEF Balanced

LEMMA BooksStep ==
  ASSUME ExecutorInv, ExecutorInv', BooksInv, [Next]_vars
  PROVE  BooksInv'
<1>1. CASE RevertAll \/ FlashloanFails
  <2>1. PICK i \in DOMAIN saved :
          /\ world'.pool = saved[i].pool /\ world'.totalPremiumPaid = saved[i].totalPremiumPaid
          /\ world'.gain = saved[i].gain /\ world'.totalProfit = saved[i].totalProfit
    BY <1>1, RevertMoves
  <2>2. Balanced(world')
    BY <2>1 DEF BooksInv, Balanced
  <2>3. /\ world'.totalPremiumPaid \in Nat /\ world'.totalProfit \in Nat
        /\ world'.pool \in [Token -> Int]
    BY Fields DEF ExecutorInv, TypeOK
  <2> QED BY <1>1, <2>2, <2>3, RevertMoves, BalancedSuffices
<1>2. CASE \/ Administer
           \/ \E asset \in Asset, amount \in Amounts :
                Withdraw(asset, amount) \/ Deposit(asset, amount)
           \/ NextBlock \/ UNCHANGED vars
  <2>1. SamePool /\ SameGain /\ call' = call /\ saved' = saved
    BY <1>2, BetweenMoves
  <2>2. Due' = Due /\ Capital' = Capital /\ \A t : Lent(t)' = Lent(t)
    BY <2>1 DEF Due, Capital, Lent, Borrowed, Owed, Idle
  <2> QED BY <2>1, <2>2 DEF BooksInv, SamePool, SameGain, Idle
<1> QED BY <1>1, <1>2, DirectBalances, LoanBalances, LendsBalances, OperationBalances, SwapBalances,
     SettleDirectBalances, SettleFlashloanBalances, CollectsBalances, Cases

(* The pool has every loan back, with exactly the premiums that the        *)
(* contract counted, and totalProfit is what all accounts have gained,     *)
(* however executions end (executeOperation, executeDirect and the try     *)
(* block of executeFlashloan in FlashloanExecutor.sol).                    *)
THEOREM TheBooksAreTrue == Spec => []BooksAreTrue
<1>1. Init => BooksInv
  <2> SUFFICES ASSUME Init PROVE BooksInv
    OBVIOUS
  <2>1. /\ world.pool = [t \in Token |-> 0] /\ world.gain = [a \in Account \X Asset |-> 0]
        /\ world.totalProfit = 0 /\ world.totalPremiumPaid = 0 /\ saved = <<>> /\ Idle
    BY DEF Init, Idle
  <2>2. IsFiniteSet(Token) /\ IsFiniteSet(Account \X Asset)
    BY InitHolds, Ledgers
  <2>3. /\ \A t \in Token : world.pool[t] = 0
        /\ \A a \in Account \X Asset : world.gain[a] = 0
    BY <2>1
  <2>4. Total(world.pool, Token) = 0 /\ Total(world.gain, Account \X Asset) = 0
    BY <2>2, <2>3, SumOfZeros, TotalIsSum
  <2>5. Due = 0 /\ Capital = 0 /\ \A token : Lent(token) = 0
    BY <2>1 DEF Due, Capital, Lent, Borrowed
  <2> QED BY <2>1, <2>3, <2>4, <2>5 DEF BooksInv
<1>2. ExecutorInv /\ ExecutorInv' /\ BooksInv /\ [Next]_vars => BooksInv'
  BY BooksStep
<1>3. ExecutorInv /\ BooksInv => BooksAreTrue
  BY IdleBalances DEF BooksAreTrue, Balanced
<1> QED
  BY <1>1, <1>2, <1>3, ExecutorInvariant, PTL DEF Spec
===============================================================================
