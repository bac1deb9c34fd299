------------------------------- MODULE Cooldowns -------------------------------
(***************************************************************************)
(* CooldownManager (config/mod.rs) behind CooldownService: a task asks     *)
(* whether it may execute, and records afterwards that it did.  The two are*)
(* separate calls under one lock each, so several tasks may pass on what   *)
(* the same records say.                                                   *)
(*                                                                         *)
(* Instants are ages in ticks; an age of Keep is an entry cleaned up.      *)
(***************************************************************************)
EXTENDS Naturals, Sequences, FiniteSets, SequencesExt

CONSTANTS
    Tasks, Pairs, Strategies,
    Global, PerPair, PerStrategy, Penalty,      \* ticks of global_ms, pair_ms, ...
    Minute,                                     \* ticks of the 60 s
    Keep,                                       \* ticks of the 300 and 600 s
    MaxPerMinute,                               \* max_concurrent_executions
    MaxBlock                                    \* bound on the chain

ASSUME CooldownAssumption ==
    /\ \A w \in {Global, PerPair, PerStrategy, Penalty, Minute, 2 * Minute} :
         w \in Nat /\ w <= Keep
    /\ MaxPerMinute \in Nat \ {0} /\ MaxBlock \in Nat /\ Keep \in Nat \ {0}
    /\ Minute # 0 /\ IsFiniteSet(Tasks)

VARIABLES
    head,               \* the chain's number
    lastGlobal, lastPair, lastStrategy, reverted, executedBlocks,
    lastBlock,          \* last_block_number, 0 for none
    timestamps,         \* execution_timestamps
    asking,             \* task -> "idle", or what it passed the check for
    executions          \* ages of the executions of the last minute

cooldownVars == <<head, lastGlobal, lastPair, lastStrategy, reverted, executedBlocks, lastBlock,
                  timestamps, asking, executions>>

Idle == [pair |-> "none"]
Aged(age) == IF age = Keep THEN Keep ELSE age + 1
Within(ages, w) ==
    LET kept[i \in 0..Len(ages)] ==
          IF i = 0 THEN <<>> ELSE IF ages[i] < w THEN Append(kept[i - 1], ages[i]) ELSE kept[i - 1]
    IN  kept[Len(ages)]

CooldownInit ==
    /\ head = 1 /\ lastBlock = 0
    /\ lastGlobal = Keep
    /\ lastPair = [p \in Pairs |-> Keep] /\ reverted = lastPair
    /\ lastStrategy = [s \in Strategies |-> Keep]
    /\ executedBlocks = [b \in 1..MaxBlock |-> Keep]
    /\ timestamps = <<>> /\ executions = <<>>
    /\ asking = [t \in Tasks |-> Idle]

(* can_execute: the first cooldown that still runs refuses; a penalty that *)
(* is over is forgotten, but only if nothing before it refused.            *)
OneTooMany(b) ==
    /\ executedBlocks[b] = Keep /\ b # lastBlock
    /\ Len(Within(timestamps, Minute)) <= MaxPerMinute
    /\ lastGlobal >= Global
BeforePenalty(b) ==
    /\ executedBlocks[b] = Keep /\ b # lastBlock
    /\ Len(Within(timestamps, Minute)) < MaxPerMinute
    /\ lastGlobal >= Global
CanExecute(p, s, b) ==
    /\ BeforePenalty(b) /\ reverted[p] >= Penalty
    /\ lastPair[p] >= PerPair /\ lastStrategy[s] >= PerStrategy

CheckExecution(t, p, s) ==
    /\ asking[t] = Idle
    /\ reverted' = IF BeforePenalty(head) /\ reverted[p] >= Penalty
                   THEN [reverted EXCEPT ![p] = Keep] ELSE reverted
    /\ asking' = IF CanExecute(p, s, head)
                 THEN [asking EXCEPT ![t] = [pair |-> p, strategy |-> s, block |-> head]] ELSE asking
    /\ UNCHANGED <<head, lastGlobal, lastPair, lastStrategy, executedBlocks, lastBlock, timestamps,
                   executions>>

(* record_execution                                                        *)
Recorded == Append(Within(timestamps, 2 * Minute), 0)

RecordExecution(t) ==
    /\ asking[t] # Idle
    /\ LET e == asking[t] IN
       /\ lastPair' = [lastPair EXCEPT ![e.pair] = 0]
       /\ lastStrategy' = [lastStrategy EXCEPT ![e.strategy] = 0]
       /\ executedBlocks' = [executedBlocks EXCEPT ![e.block] = 0]
       /\ lastBlock' = e.block
    /\ lastGlobal' = 0 /\ timestamps' = Recorded /\ executions' = Append(executions, 0)
    /\ asking' = [asking EXCEPT ![t] = Idle]
    /\ UNCHANGED <<head, reverted>>

(* The execution was not sent after all, or reverts: record_revert.        *)
Abandon(t) ==
    /\ asking[t] # Idle
    /\ asking' = [asking EXCEPT ![t] = Idle]
    /\ reverted' \in {reverted, [reverted EXCEPT ![asking[t].pair] = 0]}
    /\ UNCHANGED <<head, lastGlobal, lastPair, lastStrategy, executedBlocks, lastBlock, timestamps,
                   executions>>

(* reset                                                                   *)
ResetCooldowns ==
    /\ lastBlock' = 0 /\ lastGlobal' = Keep
    /\ lastPair' = [p \in Pairs |-> Keep] /\ reverted' = lastPair'
    /\ lastStrategy' = [s \in Strategies |-> Keep]
    /\ executedBlocks' = [b \in 1..MaxBlock |-> Keep]
    /\ timestamps' = <<>> /\ executions' = <<>>
    /\ UNCHANGED <<head, asking>>

NewBlock ==
    /\ head < MaxBlock /\ head' = head + 1
    /\ UNCHANGED <<lastGlobal, lastPair, lastStrategy, reverted, executedBlocks, lastBlock,
                   timestamps, asking, executions>>

CooldownTick ==
    /\ lastGlobal' = Aged(lastGlobal)
    /\ lastPair' = [p \in Pairs |-> Aged(lastPair[p])]
    /\ reverted' = [p \in Pairs |-> Aged(reverted[p])]
    /\ lastStrategy' = [s \in Strategies |-> Aged(lastStrategy[s])]
    /\ executedBlocks' = [b \in 1..MaxBlock |-> Aged(executedBlocks[b])]
    /\ timestamps' = [i \in DOMAIN timestamps |-> Aged(timestamps[i])]
    /\ executions' = Within([i \in DOMAIN executions |-> executions[i] + 1], Minute)
    /\ UNCHANGED <<head, lastBlock, asking>>

CooldownNext ==
    \/ \E t \in Tasks :
         \/ \E p \in Pairs, s \in Strategies : CheckExecution(t, p, s)
         \/ RecordExecution(t) \/ Abandon(t)
    \/ ResetCooldowns \/ NewBlock \/ CooldownTick

CooldownSpec == CooldownInit /\ [][CooldownNext]_cooldownVars

-------------------------------------------------------------------------------
(* Properties *)

(* Asking and recording are two calls, yet the limit of a minute is passed *)
(* by the tasks alone that asked before the others had recorded: at most   *)
(* one execution for each other task (can_execute, record_execution).      *)
MinuteLimitHolds == Len(executions) < MaxPerMinute + Cardinality(Tasks)
===============================================================================
