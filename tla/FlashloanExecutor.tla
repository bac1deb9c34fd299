--------------------------- MODULE FlashloanExecutor ---------------------------
(***************************************************************************)
(* The executor contract, contracts/FlashloanExecutor.sol, with the Aave   *)
(* pool that calls it back and the FlashloanCaller wrapper in front of it. *)
(*                                                                         *)
(* Transactions are serial and each is atomic, but within one of them the  *)
(* contract is left and entered again: it calls the pool, the pool calls   *)
(* executeOperation, that calls the routers, the pool then pulls what it   *)
(* is owed.  A step goes from one external call to the next.  `world' is   *)
(* all that a revert restores; `saved' holds the worlds to go back to: the *)
(* start of the transaction and, in executeFlashloan, of its try block.    *)
(*                                                                         *)
(* A transaction refused by its first checks changes nothing and is left   *)
(* out.  So are slippageConfigs (nothing reads them), the router allow-    *)
(* ances (made infinite on demand), V3 fee data and events.  Wrapped MATIC *)
(* is worth one MATIC.                                                     *)
(***************************************************************************)
EXTENDS Integers, Sequences, FiniteSets, FiniteSetsExt

CONSTANTS
  Token,      \* ERC20 assets
  Wmatic,     \* one of them
  Native,     \* NATIVE_ASSET, the MATIC itself
  Account,    \* whoever may send transactions
  Owner,      \* one of them, the owner of executor and wrapper
  Wrapper,    \* FlashloanCaller contracts
  NoWrapper,  \* address(0)
  Amounts,    \* amounts to trade with, borrow, deposit or withdraw
  Premium,    \* the pool's premium for each amount
  MinProfits, \* values of minProfit
  Routes,     \* step lists, well formed or not
  Received,   \* what a swap may return
  MinAmounts, \* values of minAmountByAsset
  MaxBlock,   \* bound on blocks
  MaxTxs      \* bound on transactions that move money

Asset == Token \cup {Native}
Step == [tokenIn : Token, tokenOut : Token, amountOutMin : Nat]

ASSUME WmaticAssumption == Wmatic \in Token /\ Native \notin Token
ASSUME OwnerAssumption == Owner \in Account
ASSUME FinitenessAssumption == IsFiniteSet(Token) /\ IsFiniteSet(Account)
ASSUME NoWrapperAssumption == NoWrapper \notin Wrapper
ASSUME InitiatorAssumption == Wrapper \cap {"executor", "none"} = {}
ASSUME AmountsAssumption == Amounts \subseteq Nat \ {0}
ASSUME PremiumAssumption == Premium \in [Amounts -> Nat]
ASSUME MinProfitsAssumption == MinProfits \subseteq Nat
ASSUME RoutesAssumption == Routes \subseteq Seq(Step)
ASSUME ReceivedAssumption == Received \subseteq Nat
ASSUME MinAmountsAssumption == MinAmounts \subseteq Nat
ASSUME BoundsAssumption == MaxBlock \in Nat \ {0} /\ MaxTxs \in Nat

VARIABLES
  block,   \* block.number
  world,   \* storage and balances
  call,    \* the transaction in progress
  saved,   \* the worlds it may have to go back to
  txs,     \* transactions so far (bound)
  stash,   \* history: what the contract was given, less what was withdrawn
  doneIn   \* history: executions in each block that were not reverted

vars == <<block, world, call, saved, txs, stash, doneIn>>

(* gain: what an account got out of executions, less what it put in;       *)
(* pool: what the pool got back, less what it lent; allowance: the pool's. *)
World == [paused : BOOLEAN, locked : BOOLEAN,
          wrapperAddress : Wrapper \cup {NoWrapper}, authorizedWrappers : SUBSET Wrapper,
          allowedExecutors : SUBSET Account, minAmountByAsset : [Token -> Nat],
          lastExecutionBlock : Nat, totalFlashloans : Nat, totalProfit : Nat,
          totalPremiumPaid : Nat, failedFlashloans : Nat,
          held : [Asset -> Int], allowance : [Token -> Nat], pool : [Token -> Int],
          gain : [Account \X Asset -> Int]]

Call == [phase : {"pool", "callback", "swap", "repay"},
         sender : Account, initiator : Wrapper \cup {"executor", "none"},
         recipient : Account, asset : Asset, amount : Amounts, minProfit : MinProfits,
         route : Seq(Step), token : Token, current : Nat, wmaticBefore : Int]
NoCall == [phase |-> "none"]

Idle == call = NoCall
InTry == Len(saved) = 2

Init ==
  /\ block = 1
  /\ \E wrapper \in Wrapper \cup {NoWrapper} :
       world = [paused |-> FALSE, locked |-> FALSE, wrapperAddress |-> wrapper,
                authorizedWrappers |-> {}, allowedExecutors |-> {Owner},
                minAmountByAsset |-> [t \in Token |-> 1], lastExecutionBlock |-> 0,
                totalFlashloans |-> 0, totalProfit |-> 0, totalPremiumPaid |-> 0,
                failedFlashloans |-> 0, held |-> [a \in Asset |-> 0],
                allowance |-> [t \in Token |-> 0], pool |-> [t \in Token |-> 0],
                gain |-> [a \in Account \X Asset |-> 0]]
  /\ call = NoCall
  /\ saved = <<>>
  /\ txs = 0
  /\ stash = [a \in Asset |-> 0]
  /\ doneIn = [b \in 1 .. MaxBlock |-> 0]

-------------------------------------------------------------------------------
(* Checks                                                                  *)

(* _validateSteps, _validateStepsMemory                                    *)
MaxSteps == 5
ValidSteps(route, token) ==
  /\ route # <<>> /\ Len(route) <= MaxSteps
  /\ route[1].tokenIn = token /\ route[Len(route)].tokenOut = token
  /\ \A i \in DOMAIN route : route[i].amountOutMin > 0
  /\ \A i \in DOMAIN route \ {1} : route[i - 1].tokenOut = route[i].tokenIn

NewBlock == block # world.lastExecutionBlock

NotPaused == ~world.paused

(* onlyExecutor, nonReentrant, whenNotPaused, antiMEV                      *)
MayExecute(sender) ==
  /\ sender \in world.allowedExecutors
  /\ ~world.locked /\ NotPaused
  /\ NewBlock

ValidInitiator(initiator) ==
  \/ initiator = world.wrapperAddress
  \/ initiator \in world.authorizedWrappers
  \/ initiator = "executor"

AnyRecipient(recipient) == TRUE   \* mutant: _requireAuthorizedProfitRecipient dropped
AuthorizedRecipient(recipient) == recipient = Owner

(* The checks of executeOperation.                                         *)
Accepted ==
  /\ ~world.locked /\ NotPaused
  /\ call.amount >= world.minAmountByAsset[call.token]
  /\ ValidInitiator(call.initiator)
  /\ AuthorizedRecipient(call.recipient)
  /\ ValidSteps(call.route, call.token)

-------------------------------------------------------------------------------
(* The start of a transaction                                              *)

Begin(first, start) ==
  /\ Idle /\ txs < MaxTxs
  /\ txs' = txs + 1
  /\ call' = first
  /\ saved' = start
  /\ UNCHANGED <<block, stash, doneIn>>

(* executeDirect: the sender's capital comes in, as an ERC20 or as MATIC   *)
(* that is wrapped at once.                                                *)
ExecuteDirect(sender, asset, amount, route, minProfit) ==
  LET token == IF asset = Native THEN Wmatic ELSE asset IN
  /\ MayExecute(sender)
  /\ amount >= world.minAmountByAsset[token]
  /\ ValidSteps(route, token)
  /\ world' = [world EXCEPT !.locked = TRUE, !.lastExecutionBlock = block,
                            !.gain[<<sender, asset>>] = @ - amount,
                            !.held[token] = @ + amount]
  /\ Begin([phase |-> "swap", sender |-> sender, initiator |-> "none",
            recipient |-> sender, asset |-> asset, amount |-> amount,
            minProfit |-> minProfit, route |-> route, token |-> token,
            current |-> amount, wmaticBefore |-> world.held[Wmatic]], <<world>>)

Loan(sender, initiator, recipient, token, amount, route, minProfit) ==
  [phase |-> "pool", sender |-> sender, initiator |-> initiator,
   recipient |-> recipient, asset |-> token, amount |-> amount,
   minProfit |-> minProfit, route |-> route, token |-> token,
   current |-> 0, wmaticBefore |-> 0]

(* executeFlashloan up to its try block.                                   *)
ExecuteFlashloan(sender, token, amount, route, minProfit) ==
  /\ MayExecute(sender)
  /\ amount >= world.minAmountByAsset[token]
  /\ ValidSteps(route, token)
  /\ world' = [world EXCEPT !.locked = TRUE, !.lastExecutionBlock = block]
  /\ Begin(Loan(sender, "executor", Owner, token, amount, route, minProfit),
           <<world, world'>>)

(* FlashloanCaller.triggerFlashloan: the parameters go through unchecked.  *)
TriggerFlashloan(wrapper, recipient, token, amount, route, minProfit) ==
  /\ UNCHANGED world
  /\ Begin(Loan(Owner, wrapper, recipient, token, amount, route, minProfit), <<world>>)

-------------------------------------------------------------------------------
(* Inside a transaction                                                    *)

Inside(phase) == call.phase = phase /\ UNCHANGED <<block, txs, stash>>

(* flashLoanSimple hands the asset over and calls executeOperation.        *)
PoolLends ==
  /\ Inside("pool")
  /\ world' = [world EXCEPT !.pool[call.token] = @ - call.amount,
                            !.held[call.token] = @ + call.amount]
  /\ call' = [call EXCEPT !.phase = "callback"]
  /\ UNCHANGED <<saved, doneIn>>

Owed == call.amount + Premium[call.amount]

PremiumOwed == Owed   \* mutant: what is owed is counted, not the premium
PremiumPaid == Premium[call.amount]

(* executeOperation up to the first swap.                                  *)
ExecuteOperation ==
  /\ Inside("callback")
  /\ Accepted
  /\ world' = [world EXCEPT !.locked = TRUE, !.totalFlashloans = @ + 1,
                            !.totalPremiumPaid = @ + PremiumPaid]
  /\ call' = [call EXCEPT !.phase = "swap", !.current = call.amount]
  /\ UNCHANGED <<saved, doneIn>>

(* _executeArbitrage, one step of the route: all of the current amount is  *)
(* swapped.                                                                *)
Swap ==
  LET step == Head(call.route)
      spent == [world.held EXCEPT ![step.tokenIn] = @ - call.current] IN
  /\ Inside("swap") /\ call.route # <<>>
  /\ \E received \in Received :
       /\ received >= step.amountOutMin
       /\ world' = [world EXCEPT !.held = [spent EXCEPT ![step.tokenOut] = @ + received]]
       /\ call' = [call EXCEPT !.route = Tail(@), !.current = received]
  /\ UNCHANGED <<saved, doneIn>>

Return == call' = NoCall /\ saved' = <<>>

RecordDone == doneIn' = [doneIn EXCEPT ![block] = @ + 1]

(* What executeDirect gives back: the result of the swaps, or, for MATIC,  *)
(* by how much the contract's balance has grown.                           *)
WholeBalance == IF call.asset = Native THEN world.held[Wmatic] ELSE call.current  \* mutant
Proceeds ==
  IF call.asset = Native THEN world.held[Wmatic] - call.wmaticBefore ELSE call.current

AtLeastMinProfit(proceeds) == proceeds >= call.minProfit   \* mutant: capital forgotten
CoversCapital(proceeds) == proceeds >= call.amount + call.minProfit

DirectProfit == Proceeds - call.amount

(* The rest of executeDirect.                                              *)
SettleDirect ==
  /\ Inside("swap") /\ call.route = <<>> /\ call.initiator = "none"
  /\ CoversCapital(Proceeds)
  /\ world' = [world EXCEPT !.locked = FALSE,
                            !.totalProfit = @ + DirectProfit,
                            !.held[call.token] = @ - Proceeds,
                            !.gain[<<call.sender, call.asset>>] = @ + Proceeds]
  /\ Return /\ RecordDone

(* _approveTo                                                              *)
ApproveTo(token) == IF world.allowance[token] < Owed THEN Owed ELSE world.allowance[token]

(* The rest of executeOperation: profit to the recipient, leave for the    *)
(* pool to take what it is owed.                                           *)
SettleFlashloan ==
  LET profit == call.current - Owed IN
  /\ Inside("swap") /\ call.route = <<>> /\ call.initiator # "none"
  /\ call.current >= Owed + call.minProfit
  /\ world' = [world EXCEPT !.locked = FALSE,
                            !.allowance[call.token] = ApproveTo(call.token),
                            !.totalProfit = @ + profit,
                            !.held[call.token] = @ - profit,
                            !.gain[<<call.recipient, call.token>>] = @ + profit]
  /\ call' = [call EXCEPT !.phase = "repay"]
  /\ UNCHANGED <<saved, doneIn>>

(* The pool pulls amount and premium; then all calls return.               *)
PoolCollects ==
  /\ Inside("repay")
  /\ world.allowance[call.token] >= Owed /\ world.held[call.token] >= Owed
  /\ world' = [world EXCEPT !.allowance[call.token] = @ - Owed,
                            !.held[call.token] = @ - Owed,
                            !.pool[call.token] = @ + Owed]
  /\ Return
  /\ IF InTry THEN RecordDone ELSE UNCHANGED doneIn

(* A revert inside the try block is caught: everything since is undone, a  *)
(* failure is counted, executeFlashloan returns false.                     *)
FlashloanFails ==
  /\ ~Idle /\ InTry
  /\ world' = [saved[2] EXCEPT !.locked = FALSE, !.failedFlashloans = @ + 1]
  /\ Return /\ RecordDone
  /\ UNCHANGED <<block, txs, stash>>

(* A revert that nothing catches: a failed check, swap, transfer, no gas.  *)
RevertAll ==
  /\ ~Idle
  /\ world' = saved[1]
  /\ Return
  /\ UNCHANGED <<block, txs, stash, doneIn>>

-------------------------------------------------------------------------------
(* Transactions of one step                                                *)

Between == Idle /\ UNCHANGED <<block, call, saved, txs, doneIn>>

UpdateExecutor(account) ==
  /\ Between
  /\ \E set \in {world.allowedExecutors \cup {account}, world.allowedExecutors \ {account}} :
       world' = [world EXCEPT !.allowedExecutors = set]
  /\ UNCHANGED stash

UpdateMinAmount(token, amount) ==
  /\ Between
  /\ world' = [world EXCEPT !.minAmountByAsset[token] = amount]
  /\ UNCHANGED stash

EmergencyStop ==
  Between /\ world' = [world EXCEPT !.paused = TRUE] /\ UNCHANGED stash

Resume ==
  Between /\ world' = [world EXCEPT !.paused = FALSE] /\ UNCHANGED stash

SetWrapper(wrapper) ==
  Between /\ world' = [world EXCEPT !.wrapperAddress = wrapper] /\ UNCHANGED stash

AuthorizeWrapper(wrapper) ==
  /\ Between
  /\ \E set \in {world.authorizedWrappers \cup {wrapper}, world.authorizedWrappers \ {wrapper}} :
       world' = [world EXCEPT !.authorizedWrappers = set]
  /\ UNCHANGED stash

(* withdrawToken; withdrawMATIC takes all of it.                           *)
Withdraw(asset, amount) ==
  /\ Between
  /\ amount <= world.held[asset]
  /\ asset = Native => amount = world.held[asset]
  /\ world' = [world EXCEPT !.held[asset] = @ - amount]
  /\ stash' = [stash EXCEPT ![asset] = @ - amount]

(* Anyone may send tokens, or MATIC (receive), to the contract.            *)
Deposit(asset, amount) ==
  /\ Idle /\ txs < MaxTxs
  /\ txs' = txs + 1
  /\ world' = [world EXCEPT !.held[asset] = @ + amount]
  /\ stash' = [stash EXCEPT ![asset] = @ + amount]
  /\ UNCHANGED <<block, call, saved, doneIn>>

NextBlock ==
  /\ Idle /\ block < MaxBlock
  /\ block' = block + 1
  /\ UNCHANGED <<world, call, saved, txs, stash, doneIn>>

Execute ==
  \E sender, recipient \in Account, token \in Token, amount \in Amounts,
     route \in Routes, minProfit \in MinProfits :
    \/ ExecuteDirect(sender, token, amount, route, minProfit)
    \/ ExecuteDirect(sender, Native, amount, route, minProfit)
    \/ ExecuteFlashloan(sender, token, amount, route, minProfit)
    \/ \E wrapper \in Wrapper :
         TriggerFlashloan(wrapper, recipient, token, amount, route, minProfit)

Administer ==
  \/ \E account \in Account : UpdateExecutor(account)
  \/ \E token \in Token, amount \in MinAmounts : UpdateMinAmount(token, amount)
  \/ EmergencyStop \/ Resume
  \/ \E wrapper \in Wrapper \cup {NoWrapper} : SetWrapper(wrapper)
  \/ \E wrapper \in Wrapper : AuthorizeWrapper(wrapper)

Next ==
  \/ Execute
  \/ PoolLends \/ ExecuteOperation \/ Swap \/ SettleDirect \/ SettleFlashloan
  \/ PoolCollects \/ FlashloanFails \/ RevertAll
  \/ Administer
  \/ \E asset \in Asset, amount \in Amounts :
       Withdraw(asset, amount) \/ Deposit(asset, amount)
  \/ NextBlock

Spec == Init /\ [][Next]_vars

-------------------------------------------------------------------------------
(* Properties                                                              *)

TypeOK ==
  /\ block \in 1 .. MaxBlock
  /\ world \in World
  /\ call \in Call \cup {NoCall}
  /\ saved \in Seq(World)
  /\ txs \in 0 .. MaxTxs
  /\ stash \in [Asset -> Nat]
  /\ doneIn \in [1 .. MaxBlock -> Nat]

(* What the contract holds beyond its own: nothing between transactions;   *)
(* within one, the current amount of the route in the token it has reached.*)
CurrentToken == IF call.route = <<>> THEN call.token ELSE Head(call.route).tokenIn

InTransit(asset) ==
  IF call.phase = "callback" /\ asset = call.token THEN call.amount
  ELSE IF call.phase = "swap" /\ asset = CurrentToken THEN call.current
  ELSE IF call.phase = "repay" /\ asset = call.token THEN Owed
  ELSE 0

HoldingsAccounted ==
  \A asset \in Asset : world.held[asset] = stash[asset] + InTransit(asset)

(* No allowance is left for the pool but while it is about to use it.      *)
AllowanceAccounted ==
  \A token \in Token :
    world.allowance[token] =
      IF call.phase = "repay" /\ token = call.token THEN Owed ELSE 0

(* Any world a revert goes back to is one between two transactions, but    *)
(* for the lock inside a try block.                                        *)
SavedAreQuiet ==
  /\ Len(saved) \in IF Idle THEN {0} ELSE {1, 2}
  /\ \A i \in DOMAIN saved :
       /\ saved[i].held = stash
       /\ \A token \in Token : saved[i].allowance[token] = 0
       /\ saved[i].locked <=> i = 2

(* The rest of the route is a chain that ends at the token of the trade.   *)
RouteLeadsBack ==
  call.phase = "swap" =>
    /\ \A i \in DOMAIN call.route \ {1} : call.route[i - 1].tokenOut = call.route[i].tokenIn
    /\ call.route # <<>> => call.route[Len(call.route)].tokenOut = call.token

(* MATIC trades as WMATIC, and what was there before is the contract's own.*)
NativeIsWrapped ==
  ~Idle /\ call.asset = Native =>
    call.token = Wmatic /\ call.wmaticBefore = stash[Wmatic]

Unlocked == call.phase \in {"none", "repay"} => ~world.locked

ExecutorInv ==
  /\ TypeOK /\ HoldingsAccounted /\ AllowanceAccounted
  /\ SavedAreQuiet /\ RouteLeadsBack /\ NativeIsWrapped /\ Unlocked

(* The contract's own holdings are never used or paid out by an execution, *)
(* however it ends: between transactions it has what it was given, less    *)
(* what the owner withdrew, and no one has a claim on it.                  *)
OwnHoldingsUntouched ==
  Idle => world.held = stash /\ \A token \in Token : world.allowance[token] = 0

Total(f, S) == MapThenSumSet(LAMBDA s : f[s], S)

(* The books of all parties agree.  The pool gets every loan back, with    *)
(* exactly the premiums the contract has counted, and a loan that failed   *)
(* leaves no trace on either side; totalProfit is what the accounts have   *)
(* gained, all in all.                                                     *)
BooksAreTrue ==
  Idle =>
    /\ \A token \in Token : world.pool[token] >= 0
    /\ Total(world.pool, Token) = world.totalPremiumPaid
    /\ Total(world.gain, Account \X Asset) = world.totalProfit

(* Nobody comes out of an execution with less than was put in, in any      *)
(* asset: the check that used to be missing from executeDirect.            *)
NobodyLoses ==
  Idle => \A account \in Account, asset \in Asset : world.gain[<<account, asset>>] >= 0

(* Profit goes to the owner, or, of one's own capital, to its sender.      *)
ProfitGoesToOwner ==
  [][\A account \in Account, asset \in Asset :
       world'.gain[<<account, asset>>] # world.gain[<<account, asset>>] =>
         \/ account = Owner
         \/ ~Idle /\ account = call.sender /\ call.initiator = "none"
         \/ Idle /\ account = call'.sender
    ]_vars

(* While the contract is stopped nobody gains or loses anything, through   *)
(* whichever entry: executor, own capital or wrapper.                      *)
StoppedMeansStopped == [][world.paused => world'.gain = world.gain]_vars

(* antiMEV: of the executions in a block at most one is not reverted.      *)
OneExecutionPerBlock == \A b \in DOMAIN doneIn : doneIn[b] <= 1

===============================================================================
