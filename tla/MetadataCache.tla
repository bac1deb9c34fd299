---------------------------- MODULE MetadataCache -----------------------------
(***************************************************************************)
(* ResolutionCache (src/core/canonical_metadata_cache.rs): a map from keys *)
(* to once-cells, shared by the concurrent quote tasks of a round and kept *)
(* from round to round.  The first task to find a cell empty fetches it    *)
(* while the others wait; a fetch that fails or is dropped hands the cell  *)
(* to the next in line; an absence is believed for TTL blocks.             *)
(*                                                                         *)
(* The keys of the five sub-caches differ only in what is fetched, so one  *)
(* set of keys stands for all.  The chain (anchor, deployed, ever,         *)
(* absentAt, reorgs) is the one of MetadataOracle, which says what the     *)
(* lookups promise; this module implements it.                             *)
(***************************************************************************)
EXTENDS Integers, FiniteSets

CONSTANTS Keys, NoKey, Workers, TTL, MaxBlock, MaxReorgs, \* see MetadataOracle
  Nobody,    \* no task
  CellIds,   \* places for once-cells
  NoCell,    \* the map has no entry
  MaxLookups \* bound: the lookups of all tasks

VARIABLES anchor, deployed, ever, absentAt, lookup, reorgs,
  cellOf,   \* ResolutionCache::inner: the cell of each key, or NoCell
  cells,    \* the once-cells: what they hold and who is initialising them
  held,     \* the Arc each task took out of the map
  counters  \* CacheCounters; `fails' and `dropped' are ghosts

Oracle == INSTANCE MetadataOracle WITH
  anchor <- anchor, deployed <- deployed, ever <- ever, absentAt <- absentAt,
  lookup <- lookup, reorgs <- reorgs

World == <<anchor, deployed, ever, absentAt, reorgs>>
vars == <<World, lookup, cellOf, cells, held, counters>>

ASSUME CacheAssumption ==
  /\ NoKey \notin Keys /\ Nobody \notin Workers /\ NoCell \notin CellIds
  /\ IsFiniteSet(Keys) /\ IsFiniteSet(Workers) /\ IsFiniteSet(CellIds)
  /\ TTL \in Nat \ {0} /\ MaxBlock \in Nat \ {0} /\ MaxReorgs \in Nat /\ MaxLookups \in Nat

Empty == [state |-> "empty", at |-> 0, leader |-> Nobody]
Zero == [hits |-> 0, misses |-> 0, negativeHits |-> 0, expired |-> 0, calls |-> 0, fails |-> 0]

Init ==
  /\ Oracle!Init
  /\ cellOf = [k \in Keys |-> NoCell]
  /\ cells = [c \in CellIds |-> Empty]
  /\ held = [w \in Workers |-> NoCell]
  /\ counters = [k \in Keys |-> Zero]

-------------------------------------------------------------------------------
(* Lookup: cell(), then get_or_try_init as far as its first await.         *)

(* Mutant of Expired: off by one. *)
BelievedTooLong(cell) == cell.state = "negative" /\ anchor - cell.at > TTL

Expired(cell) == cell.state = "negative" /\ anchor - cell.at >= TTL

Replaces(k) == cellOf[k] # NoCell /\ Expired(cells[cellOf[k]])

(* Allocated where nothing refers to: with as many cells as keys and tasks *)
(* together there always is such a place.                                  *)
Unused == CellIds \ ({cellOf[k] : k \in Keys} \cup {held[w] : w \in Workers})

StatusOf(cell) == IF cell.state = "positive" THEN "found" ELSE "absent"

(* hits, misses, negative_expired, negative_hits, rpc_calls.               *)
Counted(k, cell, calls) ==
  LET hit == IF cell.state = "empty" THEN 0 ELSE 1 IN
  [counters EXCEPT ![k] =
     [hits |-> @.hits + hit, misses |-> @.misses + 1 - hit,
      expired |-> @.expired + (IF Replaces(k) THEN 1 ELSE 0),
      negativeHits |-> @.negativeHits + (IF cell.state = "negative" THEN 1 ELSE 0),
      calls |-> @.calls + calls, fails |-> @.fails]]

Total(k) == counters[k].hits + counters[k].misses

(* Mutant of Free: look, then fetch. *)
NotFilled(cell) == cell.state = "empty"

Free(cell) == cell.state = "empty" /\ cell.leader = Nobody

(* The cell is c and holds `cell'; the map's lock covers no more than that.*)
With(w, k, c, cell) ==
  /\ cellOf' = [cellOf EXCEPT ![k] = c]
  /\ \/ /\ cell.state # "empty"
        /\ lookup' = [lookup EXCEPT ![w] = [key |-> k, status |-> StatusOf(cell)]]
        /\ counters' = Counted(k, cell, 0)
        /\ UNCHANGED <<cells, held>>
     \/ /\ cell.state = "empty"
        /\ lookup' = [lookup EXCEPT ![w] = [key |-> k, status |-> "asked"]]
        /\ held' = [held EXCEPT ![w] = c]
        /\ IF Free(cell)
           THEN /\ cells' = [cells EXCEPT ![c] = [Empty EXCEPT !.leader = w]]
                /\ counters' = Counted(k, cell, 1)
           ELSE /\ counters' = Counted(k, cell, 0)
                /\ UNCHANGED cells

Lookup(w, k) ==
  /\ lookup[w].status # "asked"
  /\ Total(k) < MaxLookups
  /\ IF cellOf[k] = NoCell \/ Replaces(k)
     THEN \E c \in Unused : With(w, k, c, Empty)
     ELSE With(w, k, cellOf[k], cells[cellOf[k]])
  /\ UNCHANGED World

-------------------------------------------------------------------------------
(* The fetch and the waiters of get_or_try_init.                           *)

Leads(w) == lookup[w].status = "asked" /\ cells[held[w]].leader = w

Answered(w, status) ==
  /\ lookup' = [lookup EXCEPT ![w].status = status]
  /\ held' = [held EXCEPT ![w] = NoCell]

(* What the factory or the pool says at the anchor's height.               *)
Read(k) == IF k \in deployed THEN [state |-> "positive", at |-> 0, leader |-> Nobody]
           ELSE [state |-> "negative", at |-> anchor, leader |-> Nobody]

Fetched(w) ==
  /\ Leads(w)
  /\ LET k == lookup[w].key IN
       /\ cells' = [cells EXCEPT ![held[w]] = Read(k)]
       /\ Answered(w, StatusOf(Read(k)))
  /\ UNCHANGED <<World, cellOf, counters>>

KeepsThePermit(cell) == cell

(* The call fails, or QUOTE_TIMEOUT drops the task's future with it: the   *)
(* cell stays empty and is anybody's again.                                *)
Released(cell) == [cell EXCEPT !.leader = Nobody]

FetchFails(w) ==
  /\ Leads(w)
  /\ cells' = [cells EXCEPT ![held[w]] = Released(@)]
  /\ counters' = [counters EXCEPT ![lookup[w].key].fails = @ + 1]
  /\ Answered(w, "error")
  /\ UNCHANGED <<World, cellOf>>

Waits(w) == lookup[w].status = "asked" /\ cells[held[w]].leader # w

(* QUOTE_TIMEOUT for a task in the queue.                                  *)
WaiterTimesOut(w) ==
  /\ Waits(w)
  /\ Answered(w, "error")
  /\ UNCHANGED <<World, cellOf, cells, counters>>

(* The queue moves: the cell was filled, or whoever was filling it is gone.*)
Wakes(w) ==
  /\ Waits(w)
  /\ LET cell == cells[held[w]] IN
       \/ /\ cell.state # "empty"
          /\ Answered(w, StatusOf(cell))
          /\ UNCHANGED <<cells, counters>>
       \/ /\ Free(cell)
          /\ cells' = [cells EXCEPT ![held[w]].leader = w]
          /\ counters' = [counters EXCEPT ![lookup[w].key].calls = @ + 1]
          /\ UNCHANGED <<lookup, held>>
  /\ UNCHANGED <<World, cellOf>>

-------------------------------------------------------------------------------
(* Rounds.                                                                 *)

Leaders == {w \in Workers : Leads(w)}

(* The tasks of the old round are gone, in the middle of a fetch or not.   *)
NewRound ==
  /\ Oracle!NewRound
  /\ cells' = [c \in CellIds |-> Released(cells[c])]
  /\ held' = [w \in Workers |-> NoCell]
  /\ counters' = [k \in Keys |-> [counters[k] EXCEPT !.fails =
                     @ + Cardinality({w \in Leaders : lookup[w].key = k})]]
  /\ UNCHANGED cellOf

Reorg == Oracle!Reorg /\ UNCHANGED <<cellOf, cells, held, counters>>

(* Between two rounds nothing is asked.                                    *)
Rest == (\A w \in Workers : lookup[w].status # "asked") /\ UNCHANGED vars

Task(w) == Fetched(w) \/ FetchFails(w) \/ WaiterTimesOut(w) \/ Wakes(w)

Next ==
  \/ NewRound
  \/ Reorg
  \/ Rest
  \/ \E w \in Workers : Task(w) \/ \E k \in Keys : Lookup(w, k)

Spec == Init /\ [][Next]_vars
-------------------------------------------------------------------------------
(* A call ends or QUOTE_TIMEOUT ends it, and tokio wakes whoever the queue *)
(* has come to.  That a waiter may also be timed out is not counted on.    *)
Fairness ==
  \A w \in Workers : WF_vars(Fetched(w) \/ FetchFails(w)) /\ WF_vars(Wakes(w))

FairSpec == Spec /\ Fairness

-------------------------------------------------------------------------------
(* Properties.                                                             *)

Pending(k) == {w \in Workers : lookup[w].status = "asked" /\ lookup[w].key = k}

TypeOK ==
  /\ anchor \in 1 .. MaxBlock /\ deployed \subseteq ever /\ ever \subseteq Keys
  /\ absentAt \in [Keys -> 0 .. anchor] /\ reorgs \in 0 .. MaxReorgs
  /\ lookup \in [Workers -> [key : Keys, status : Oracle!Statuses \ {"idle"}] \cup {Oracle!Idle}]
  /\ cellOf \in [Keys -> CellIds \cup {NoCell}]
  /\ cells \in [CellIds -> [state : {"empty", "positive", "negative"}, at : Nat,
                              leader : Workers \cup {Nobody}]]
  /\ held \in [Workers -> CellIds \cup {NoCell}]
  /\ counters \in [Keys -> [hits : Nat, misses : Nat, negativeHits : Nat, expired : Nat,
                             calls : Nat, fails : Nat]]

(* Two keys never share a cell, and what a task waits for is the cell of   *)
(* the map: a cell is never replaced while somebody fills it, though the   *)
(* map is unlocked meanwhile.                                              *)
WaitersShareTheCell ==
  /\ \A j, k \in Keys : cellOf[j] = cellOf[k] /\ j # k => cellOf[k] = NoCell
  /\ \A w \in Workers :
       IF lookup[w].status = "asked" THEN held[w] = cellOf[lookup[w].key] /\ held[w] # NoCell
       ELSE held[w] = NoCell

(* Whoever fills a cell waits for it, and a cell is filled once.           *)
OneLeader ==
  \A k \in Keys : cellOf[k] # NoCell =>
    LET cell == cells[cellOf[k]] IN
      cell.leader # Nobody => cell.leader \in Pending(k) /\ cell.state = "empty"

(* What a cell holds was seen on the chain: a contract that was there, or  *)
(* an absence of the block it is dated with, which is this round's if      *)
(* somebody still waits for it.                                            *)
CellsAreTruthful ==
  \A k \in Keys : cellOf[k] # NoCell =>
    LET cell == cells[cellOf[k]] IN
      /\ cell.state = "positive" => k \in ever
      /\ cell.state = "negative" => cell.at > 0 /\ cell.at <= absentAt[k]
      /\ cell.state = "negative" /\ Pending(k) # {} => cell.at = anchor

(* The module's invariant.                                                 *)
CacheInv == TypeOK /\ WaitersShareTheCell /\ OneLeader /\ CellsAreTruthful

(* "Concurrent pair-quote tasks racing for the same metadata collapse into *)
(* at most one real RPC call": beyond the first there is one call for each *)
(* that failed or was dropped, and one for each absence that expired.      *)
AtMostOneCall ==
  \A k \in Keys : counters[k].calls <= 1 + counters[k].fails + counters[k].expired

(* Every lookup is answered, whatever happens to the task in front of it:  *)
(* an error of the one that fetches releases the others.                   *)
LookupsEnd ==
  \A w \in Workers : lookup[w].status = "asked" ~> lookup[w].status # "asked"

(* The cache keeps what MetadataOracle promises: nothing is answered that  *)
(* was never seen, and no absence that is TTL blocks old.                  *)
ImplementsOracle == Oracle!Spec
===============================================================================
