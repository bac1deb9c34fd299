--------------------------- MODULE ExecutionEngine ----------------------------
(***************************************************************************)
(* execution/execution_engine.rs and bundle_sender.rs: several calls of    *)
(* execute_opportunity share one cooldown per pair, one counter of nonces  *)
(* and one resynchronisation of it with the node.  The counter is read and *)
(* raised without a lock; a call that fails after it took a nonce leaves a *)
(* gap, and only a failure of the relay resynchronises.                    *)
(***************************************************************************)
EXTENDS Naturals, FiniteSets

CONSTANTS
    Calls,          \* concurrent calls of execute_opportunity
    Labels, Key,    \* how routes name their pair, and normalize_pair_key
    Cooldown,       \* ticks
    MaxNonce,       \* bound on the nonces given
    NoCall

ASSUME EngineAssumption ==
    /\ DOMAIN Key = Labels /\ Cooldown \in Nat \ {0} /\ MaxNonce \in Nat /\ NoCall \notin Calls

VARIABLES
    local,          \* local_nonce
    resyncing,      \* is_resyncing
    lock,           \* the holder of resync_lock
    last,           \* key -> ticks since its cooldown started, at most Cooldown
    stage,             \* call -> where it is
    nonce,          \* call -> the nonce it took; the node's answer while it resynchronises
    pool,           \* nonces of bundles a relay may still include
    mined,          \* the account's count on the chain
    outrun          \* calls that hold a nonce taken before the counter was last set

engineVars == <<local, resyncing, lock, last, stage, nonce, pool, mined, outrun>>

Keys == {Key[l] : l \in Labels}
Holding == {"preparing", "sending", "confirming"}
To(c, p) == stage' = [stage EXCEPT ![c] = p]

EngineInit ==
    /\ local = 0 /\ resyncing = FALSE /\ lock = NoCall
    /\ last = [k \in Keys |-> Cooldown]
    /\ stage = [c \in Calls |-> "idle"] /\ nonce = [c \in Calls |-> 0]
    /\ pool = {} /\ mined = 0 /\ outrun = {}

(* try_start_cooldown: looked up and written under one lock.               *)
StartCooldown(c, l) ==
    /\ stage[c] = "idle" /\ last[Key[l]] >= Cooldown
    /\ last' = [last EXCEPT ![Key[l]] = 0]
    /\ To(c, "asking")
    /\ UNCHANGED <<local, resyncing, lock, nonce, pool, mined, outrun>>

(* get_next_nonce: the flag first ...                                      *)
ReadFlag(c) ==
    /\ stage[c] = "asking"
    /\ To(c, IF resyncing THEN "idle" ELSE "taking")
    /\ UNCHANGED <<local, resyncing, lock, last, nonce, pool, mined, outrun>>

(* ... then, whatever the flag says by now, the counter.                   *)
LoadThenStore == local' \in {local, local + 1}
FetchAdd == local' = local + 1

TakeNonce(c) ==
    /\ stage[c] = "taking" /\ local < MaxNonce
    /\ nonce' = [nonce EXCEPT ![c] = local] /\ FetchAdd
    /\ outrun' = outrun \ {c} /\ To(c, "preparing")
    /\ UNCHANGED <<resyncing, lock, last, pool, mined>>

(* Chain id, gas, signature and block number: any of them may end the call *)
(* with an error, and nobody gives the nonce back.                         *)
Prepare(c) ==
    /\ stage[c] = "preparing"
    /\ stage' \in {[stage EXCEPT ![c] = p] : p \in {"idle", "sending"}}
    /\ UNCHANGED <<local, resyncing, lock, last, nonce, pool, mined, outrun>>

(* send_atomic_flashloan: accepted; or not, or so it seems: the relay may  *)
(* have the bundle although its answer is lost.                            *)
SendBundle(c) ==
    /\ stage[c] = "sending"
    /\ \/ To(c, "confirming") /\ pool' = pool \cup {nonce[c]}
       \/ To(c, "failed") /\ pool' \in {pool, pool \cup {nonce[c]}}
    /\ UNCHANGED <<local, resyncing, lock, last, nonce, mined, outrun>>

(* confirm_bundle_receipt: the receipt, or the caller's time limit.        *)
Confirm(c) ==
    /\ stage[c] = "confirming"
    /\ To(c, "idle")
    /\ UNCHANGED <<local, resyncing, lock, last, nonce, pool, mined, outrun>>

(* trigger_resync: one call asks the node, the others wait for it.         *)
TriggerResync(c) ==
    /\ stage[c] = "failed"
    /\ IF lock = NoCall THEN lock' = c /\ resyncing' = TRUE /\ To(c, "resyncing")
       ELSE To(c, "waiting") /\ UNCHANGED <<lock, resyncing>>
    /\ UNCHANGED <<local, last, nonce, pool, mined, outrun>>

(* The node counts what is on the chain: of bundles it knows nothing.      *)
CountRead(c) ==
    /\ stage[c] = "resyncing"
    /\ nonce' = [nonce EXCEPT ![c] = mined] /\ To(c, "setting")
    /\ UNCHANGED <<local, resyncing, lock, last, pool, mined, outrun>>

Resynced(c) ==
    /\ \/ /\ stage[c] = "setting" /\ local' = nonce[c]
          /\ outrun' = IF local' = local THEN outrun ELSE {d \in Calls : stage[d] \in Holding}
       \/ stage[c] = "resyncing" /\ UNCHANGED <<local, outrun>>
    /\ resyncing' = FALSE /\ lock' = NoCall /\ To(c, "idle")
    /\ UNCHANGED <<last, nonce, pool, mined>>

WaitedForResync(c) ==
    /\ stage[c] = "waiting" /\ lock = NoCall
    /\ To(c, "idle")
    /\ UNCHANGED <<local, resyncing, lock, last, nonce, pool, mined, outrun>>

(* The relay's bundle is for one block: it is included then, or never.     *)
BundleIncluded ==
    /\ mined \in pool /\ mined' = mined + 1 /\ pool' = pool \ {mined}
    /\ UNCHANGED <<local, resyncing, lock, last, stage, nonce, outrun>>
BundleExpires ==
    /\ \E n \in pool : pool' = pool \ {n}
    /\ UNCHANGED <<local, resyncing, lock, last, stage, nonce, mined, outrun>>

EngineTick ==
    /\ last' = [k \in Keys |-> IF last[k] < Cooldown THEN last[k] + 1 ELSE Cooldown]
    /\ UNCHANGED <<local, resyncing, lock, stage, nonce, pool, mined, outrun>>

EngineNext ==
    \/ \E c \in Calls :
         \/ \E l \in Labels : StartCooldown(c, l)
         \/ ReadFlag(c) \/ TakeNonce(c) \/ Prepare(c) \/ SendBundle(c) \/ Confirm(c)
         \/ TriggerResync(c) \/ CountRead(c) \/ Resynced(c) \/ WaitedForResync(c)
    \/ BundleIncluded \/ BundleExpires \/ EngineTick

EngineSpec == EngineInit /\ [][EngineNext]_engineVars

-------------------------------------------------------------------------------
(* Properties *)

(* Two calls never hold the same nonce unless the counter was set back     *)
(* between their turns: taking one is a single step although no lock       *)
(* protects it and the flag may have changed since it was read             *)
(* (NonceManager::get_next_nonce, trigger_resync).                         *)
NoncesAreUnique ==
    \A c, d \in Calls :
        c # d /\ {stage[c], stage[d]} \subseteq Holding /\ nonce[c] = nonce[d] => {c, d} \cap outrun # {}
===============================================================================
