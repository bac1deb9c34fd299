---------------------------- MODULE MetadataOracle ----------------------------
(***************************************************************************)
(* What the canonical discovery is promised by its cache of identity       *)
(* lookups (src/core/canonical_metadata_cache.rs): the address of a pool,  *)
(* its tokens, the hash of its code.  No cell, no single flight and no call*)
(* appears here; MetadataCache implements this.                            *)
(*                                                                         *)
(* A key stands for one lookup of one of the five sub-caches; a contract   *)
(* is deployed on the chain or it is not.  The variables `ever' and        *)
(* `absentAt' are what an observer who sees every block would know.        *)
(***************************************************************************)
EXTENDS Integers

CONSTANTS
  Keys, NoKey, \* V2PairKey, V3PoolKey, PoolMetadataKey, CodeKey
  Workers,   \* the quote tasks of one round: CANONICAL_QUOTE_CONCURRENCY
  TTL,       \* NEGATIVE_CACHE_TTL_BLOCKS
  MaxBlock,  \* bound: the last block
  MaxReorgs  \* bound: reorganisations that the anchors do not show

VARIABLES
  anchor,   \* the block every read of the round is pinned to
  deployed, \* external: the contracts of the chain as of the anchor
  ever,     \* the contracts that were deployed at some anchor
  absentAt, \* the last anchor at which a contract was not deployed, 0 for none
  lookup,   \* what each task asked for, and the answer it got
  reorgs    \* reorganisations so far

vars == <<anchor, deployed, ever, absentAt, lookup, reorgs>>

World == <<anchor, deployed, ever, absentAt, reorgs>>

Statuses == {"idle", "asked", "found", "absent", "error"}
Idle == [key |-> NoKey, status |-> "idle"]

Absence(a, d, old) == [k \in Keys |-> IF k \in d THEN old[k] ELSE a]

Init ==
  /\ anchor = 1
  /\ deployed \in SUBSET Keys
  /\ ever = deployed
  /\ absentAt = Absence(1, deployed, [k \in Keys |-> 0])
  /\ lookup = [w \in Workers |-> Idle]
  /\ reorgs = 0

(* The chain as the node shows it at block a.                              *)
Becomes(a, d) ==
  /\ anchor' = a
  /\ deployed' = d
  /\ ever' = ever \cup d
  /\ absentAt' = Absence(a, d, absentAt)

(* discover_at for a later anchor.  The tasks of the round before are done *)
(* or were dropped by the round's time limit.                              *)
NewRound ==
  /\ \E a \in anchor + 1 .. MaxBlock : \E d \in SUBSET Keys : deployed \subseteq d /\ Becomes(a, d)
  /\ lookup' = [w \in Workers |-> Idle]
  /\ UNCHANGED reorgs

(* The block at the anchor's height is replaced during the round.          *)
Reorg ==
  /\ reorgs < MaxReorgs
  /\ reorgs' = reorgs + 1
  /\ \E d \in SUBSET Keys : Becomes(anchor, d)
  /\ UNCHANGED lookup

Ask(w, k) ==
  /\ lookup[w].status # "asked"
  /\ lookup' = [lookup EXCEPT ![w] = [key |-> k, status |-> "asked"]]
  /\ UNCHANGED World

(* A contract is reported only if it was there, and its absence only if it *)
(* was observed less than TTL blocks ago.                                  *)
Truthful(k, status) ==
  CASE status = "found" -> k \in ever
    [] status = "absent" -> absentAt[k] > 0 /\ anchor - absentAt[k] < TTL
    [] status = "error" -> TRUE

Answer(w) ==
  /\ lookup[w].status = "asked"
  /\ \E status \in {"found", "absent", "error"} :
       /\ Truthful(lookup[w].key, status)
       /\ lookup' = [lookup EXCEPT ![w].status = status]
  /\ UNCHANGED World

(* A lookup that finds its answer in the cache is answered in the step that*)
(* asks.                                                                   *)
AskAndAnswer(w, k) ==
  /\ lookup[w].status # "asked"
  /\ \E status \in {"found", "absent"} :
       /\ Truthful(k, status)
       /\ lookup' = [lookup EXCEPT ![w] = [key |-> k, status |-> status]]
  /\ UNCHANGED World

Next ==
  \/ NewRound
  \/ Reorg
  \/ \E w \in Workers : Answer(w) \/ \E k \in Keys : Ask(w, k) \/ AskAndAnswer(w, k)

Spec == Init /\ [][Next]_vars
===============================================================================
