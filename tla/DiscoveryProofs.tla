---------------------------- MODULE DiscoveryProofs ----------------------------
(***************************************************************************)
(* What the search for prices and pools rests on, for any constants.       *)
(*                                                                         *)
(* The cache of identity lookups keeps its cells in order, makes one call  *)
(* at a time for a key, and implements MetadataOracle.  CacheInv is        *)
(* inductive as it stands; what makes it so is its last part: an absence   *)
(* somebody still waits for is dated with this round's anchor, so it cannot*)
(* expire under the waiter, and the cell of a key is never replaced while a*)
(* task holds it.                                                          *)
(*                                                                         *)
(* The radar never starves a pair and never forgets a venue whose breaker  *)
(* is closed.  The two locks are taken in opposite orders by mark_healthy  *)
(* and record_error and a cycle may be cancelled between them; what is     *)
(* known of health and errorCount inside the two sections (SectionsKnow) is*)
(* what makes UnhealthyHasTripped inductive.  For NoPairIsSkippedTwice it  *)
(* is that what a scan did not ask for is missing from the map it leaves   *)
(* (SkippedIsForgotten).                                                   *)
(***************************************************************************)
EXTENDS MetadataCache, Radar, FiniteSetTheorems, TLAPS

-------------------------------------------------------------------------------
(* The cache of identity lookups                                           *)

USE CacheAssumption

Counters == [hits : Nat, misses : Nat, negativeHits : Nat, expired : Nat,
             calls : Nat, fails : Nat]
Cell == [state : {"empty", "positive", "negative"}, at : Nat, leader : Workers \cup {Nobody}]
Request == [key : Keys, status : Oracle!Statuses \ {"idle"}]

(* What an observer of the chain knows: which contracts are there, and     *)
(* that the others are absent as of the anchor.                            *)
Seen == \A k \in Keys : IF k \in deployed THEN k \in ever ELSE absentAt[k] = anchor

LEMMA InitHolds == Init => CacheInv
<1> SUFFICES ASSUME Init PROVE CacheInv
  OBVIOUS
<1>1. TypeOK
  BY DEF Init, Oracle!Init, TypeOK, Oracle!Idle, Oracle!Absence, Empty, Zero
<1>2. WaitersShareTheCell
  BY DEF Init, Oracle!Init, WaitersShareTheCell, Oracle!Idle
<1>3. OneLeader /\ CellsAreTruthful
  BY DEF Init, OneLeader, CellsAreTruthful
<1> QED
  BY <1>1, <1>2, <1>3 DEF CacheInv

(* What a task that is asked about waits for.                              *)
LEMMA Asked ==
  ASSUME CacheInv, NEW w \in Workers, lookup[w].status = "asked"
  PROVE  /\ lookup[w].key \in Keys
         /\ held[w] \in CellIds /\ held[w] = cellOf[lookup[w].key]
         /\ cells[held[w]] \in Cell
         /\ w \in Pending(lookup[w].key)
         /\ lookup[w] \in Request
<1>1. lookup[w] \in Request
  BY DEF CacheInv, TypeOK, Oracle!Idle, Request
<1>2. held[w] = cellOf[lookup[w].key] /\ held[w] # NoCell
  BY DEF CacheInv, WaitersShareTheCell
<1>3. held[w] \in CellIds
  BY <1>2 DEF CacheInv, TypeOK
<1> QED
  BY <1>1, <1>2, <1>3 DEF CacheInv, TypeOK, Request, Cell, Pending

(* The rest of the state while the chain stands still.                     *)
LEMMA StillTyped ==
  ASSUME CacheInv, UNCHANGED World,
         lookup' \in [Workers -> Request \cup {Oracle!Idle}],
         cellOf' \in [Keys -> CellIds \cup {NoCell}],
         cells' \in [CellIds -> Cell],
         held' \in [Workers -> CellIds \cup {NoCell}],
         counters' \in [Keys -> Counters]
  PROVE  TypeOK'
BY DEF CacheInv, TypeOK, World, Request, Cell, Counters

(* A task leaves: it is answered, and its cell becomes `cell'.             *)
LEMMA Leaving ==
  ASSUME CacheInv, NEW w \in Workers, NEW status \in {"found", "absent", "error"},
         lookup[w].status = "asked", Answered(w, status),
         NEW cell \in Cell, cells' = [cells EXCEPT ![held[w]] = cell],
         UNCHANGED <<World, cellOf>>, counters' \in [Keys -> Counters],
         \/ cell.leader = Nobody
         \/ cell.leader = cells[held[w]].leader /\ cell.leader # w /\ cell.state = "empty",
         \/ cell.state = "empty"
         \/ cell.state = "positive" /\ lookup[w].key \in ever
         \/ /\ cell.state = "negative" /\ cell.at = anchor
            /\ cell.at > 0 /\ cell.at <= absentAt[lookup[w].key]
  PROVE  CacheInv'
<1> DEFINE key == lookup[w].key
<1>0. /\ key \in Keys /\ held[w] \in CellIds /\ held[w] = cellOf[key]
      /\ cells[held[w]] \in Cell /\ lookup[w] \in Request
  BY Asked
<1>1. TypeOK'
  <2>1. lookup' \in [Workers -> Request \cup {Oracle!Idle}]
    BY <1>0 DEF CacheInv, TypeOK, Answered, Request, Oracle!Statuses
  <2>2. cells' \in [CellIds -> Cell] /\ held' \in [Workers -> CellIds \cup {NoCell}]
    BY DEF CacheInv, TypeOK, Answered, Cell
  <2>3. cellOf' \in [Keys -> CellIds \cup {NoCell}]
    BY DEF CacheInv, TypeOK
  <2> QED
    BY <2>1, <2>2, <2>3, StillTyped
<1>2. /\ \A v \in Workers : v # w => lookup'[v] = lookup[v] /\ held'[v] = held[v]
      /\ lookup'[w].status = status /\ held'[w] = NoCell
  BY <1>0 DEF CacheInv, TypeOK, Answered, Request
<1>3. WaitersShareTheCell'
  BY <1>2 DEF CacheInv, WaitersShareTheCell
<1>4. \A k \in Keys : Pending(k)' = Pending(k) \ {w}
  BY <1>2 DEF Pending
<1>5. ASSUME NEW k \in Keys, cellOf'[k] # NoCell
      PROVE  /\ k # key => cells'[cellOf'[k]] = cells[cellOf[k]]
             /\ k = key => cells'[cellOf'[k]] = cell
  BY <1>0, <1>5 DEF CacheInv, TypeOK, WaitersShareTheCell
<1>6. OneLeader'
  <2> SUFFICES ASSUME NEW k \in Keys, cellOf'[k] # NoCell,
                      cells'[cellOf'[k]].leader # Nobody
               PROVE  /\ cells'[cellOf'[k]].leader \in Pending(k)'
                      /\ cells'[cellOf'[k]].state = "empty"
    BY DEF OneLeader
  <2>1. CASE k = key
    <3>1. /\ cell.leader = cells[cellOf[k]].leader /\ cell.leader # w
          /\ cell.leader # Nobody /\ cell.state = "empty"
      BY <1>0, <1>5, <2>1
    <3>2. cells[cellOf[k]].leader \in Pending(k)
      BY <3>1 DEF CacheInv, OneLeader
    <3> QED
      BY <1>4, <1>5, <2>1, <3>1, <3>2
  <2>2. CASE k # key
    <3>1. /\ cells[cellOf[k]].leader \in Pending(k)
          /\ cells[cellOf[k]].state = "empty"
      BY <1>5, <2>2 DEF CacheInv, OneLeader
    <3>2. w \notin Pending(k)
      BY <2>2 DEF Pending
    <3> QED
      BY <1>4, <1>5, <2>2, <3>1, <3>2
  <2> QED
    BY <2>1, <2>2
<1>7. CellsAreTruthful'
  BY <1>0, <1>4, <1>5 DEF CacheInv, CellsAreTruthful, World
<1> QED
  BY <1>1, <1>3, <1>6, <1>7 DEF CacheInv

(* What the cell of a task that waits looks like.                          *)
LEMMA CellOfWaiter ==
  ASSUME CacheInv, NEW w \in Workers, lookup[w].status = "asked"
  PROVE  LET cell == cells[held[w]] IN
         /\ cell.leader = Nobody \/ (cell.leader \in Workers /\ cell.state = "empty")
         /\ \/ cell.state = "empty"
            \/ cell.state = "positive" /\ lookup[w].key \in ever
            \/ /\ cell.state = "negative" /\ cell.at = anchor
               /\ cell.at > 0 /\ cell.at <= absentAt[lookup[w].key]
<1> DEFINE key == lookup[w].key
<1>1. /\ key \in Keys /\ cellOf[key] = held[w] /\ cellOf[key] # NoCell
      /\ cells[held[w]] \in Cell /\ Pending(key) # {} /\ Pending(key) \subseteq Workers
  BY Asked DEF CacheInv, WaitersShareTheCell, Pending
<1>2. cells[held[w]].leader # Nobody =>
        cells[held[w]].leader \in Pending(key) /\ cells[held[w]].state = "empty"
  BY <1>1 DEF CacheInv, OneLeader
<1> QED
  BY <1>1, <1>2 DEF CacheInv, CellsAreTruthful, Cell

(* The chain shows a contract, or its absence as of the anchor.            *)
LEMMA WorldSeen ==
  ASSUME CacheInv, NEW k \in Keys, Seen
  PROVE  /\ k \in deployed => k \in ever
         /\ k \notin deployed => absentAt[k] = anchor
         /\ anchor \in Nat /\ anchor > 0
BY DEF CacheInv, TypeOK, Seen

LEMMA FetchedKeeps ==
  ASSUME CacheInv, Seen, NEW w \in Workers, Fetched(w)
  PROVE  CacheInv'
<1> DEFINE key == lookup[w].key
<1>1. lookup[w].status = "asked" /\ key \in Keys
  BY Asked DEF Fetched, Leads
<1>2. /\ cells' = [cells EXCEPT ![held[w]] = Read(key)]
      /\ Answered(w, StatusOf(Read(key)))
      /\ UNCHANGED <<World, cellOf, counters>>
  BY DEF Fetched
<1>3. /\ Read(key) \in Cell /\ Read(key).leader = Nobody
      /\ StatusOf(Read(key)) \in {"found", "absent", "error"}
      /\ \/ Read(key).state = "positive" /\ key \in ever
         \/ /\ Read(key).state = "negative" /\ Read(key).at = anchor
            /\ Read(key).at > 0 /\ Read(key).at <= absentAt[key]
  BY <1>1, WorldSeen DEF Read, StatusOf, Cell
<1>4. counters' \in [Keys -> Counters]
  BY <1>2 DEF CacheInv, TypeOK, Counters
<1> HIDE DEF key
<1> QED
  BY <1>1, <1>2, <1>3, <1>4, Leaving DEF key

LEMMA FetchFailsKeeps ==
  ASSUME CacheInv, NEW w \in Workers, FetchFails(w)
  PROVE  CacheInv'
<1> DEFINE cell == Released(cells[held[w]])
<1>1. /\ lookup[w].status = "asked" /\ lookup[w].key \in Keys
      /\ cells[held[w]] \in Cell /\ cells[held[w]].leader = w
  BY Asked DEF FetchFails, Leads
<1>2. /\ cells' = [cells EXCEPT ![held[w]] = cell]
      /\ Answered(w, "error") /\ UNCHANGED <<World, cellOf>>
      /\ counters' = [counters EXCEPT ![lookup[w].key].fails = @ + 1]
  BY DEF FetchFails
<1>3. /\ cell \in Cell /\ cell.leader = Nobody
      /\ cell.state = cells[held[w]].state /\ cell.at = cells[held[w]].at
  BY <1>1 DEF Released, Cell
<1>4. counters' \in [Keys -> Counters]
  BY <1>1, <1>2 DEF CacheInv, TypeOK, Counters
<1> HIDE DEF cell
<1>5. \/ cell.state = "empty"
      \/ cell.state = "positive" /\ lookup[w].key \in ever
      \/ /\ cell.state = "negative" /\ cell.at = anchor
         /\ cell.at > 0 /\ cell.at <= absentAt[lookup[w].key]
  BY <1>1, <1>3, CellOfWaiter
<1> QED
  BY <1>1, <1>2, <1>3, <1>4, <1>5, Leaving

(* A waiter that gives up, or finds the cell filled, leaves it as it is.   *)
LEMMA LeavesTheCell ==
  ASSUME CacheInv, NEW w \in Workers, NEW status \in {"found", "absent", "error"},
         Waits(w), Answered(w, status), UNCHANGED <<World, cellOf, cells, counters>>
  PROVE  CacheInv'
<1> DEFINE cell == cells[held[w]]
<1>1. /\ lookup[w].status = "asked" /\ held[w] \in CellIds
      /\ cell \in Cell /\ cell.leader # w
  BY Asked DEF Waits
<1>2. cells' = [cells EXCEPT ![held[w]] = cell]
  BY <1>1 DEF CacheInv, TypeOK
<1>3. counters' \in [Keys -> Counters]
  BY DEF CacheInv, TypeOK, Counters
<1>4. /\ cell.leader = Nobody \/ (cell.leader \in Workers /\ cell.state = "empty")
      /\ \/ cell.state = "empty"
         \/ cell.state = "positive" /\ lookup[w].key \in ever
         \/ /\ cell.state = "negative" /\ cell.at = anchor
            /\ cell.at > 0 /\ cell.at <= absentAt[lookup[w].key]
  BY <1>1, CellOfWaiter
<1> HIDE DEF cell
<1> QED
  BY <1>1, <1>2, <1>3, <1>4, Leaving DEF cell

LEMMA WaiterTimesOutKeeps ==
  ASSUME CacheInv, NEW w \in Workers, WaiterTimesOut(w)
  PROVE  CacheInv'
BY LeavesTheCell DEF WaiterTimesOut

(* A task takes the lead of a free cell.                                   *)
LEMMA WakesKeeps ==
  ASSUME CacheInv, NEW w \in Workers, Wakes(w)
  PROVE  CacheInv'
<1> DEFINE cell == cells[held[w]]
           key == lookup[w].key
<1>1. /\ lookup[w].status = "asked" /\ key \in Keys /\ cell \in Cell
      /\ held[w] \in CellIds /\ held[w] = cellOf[key] /\ w \in Pending(key)
  BY Asked DEF Wakes, Waits
<1>2. UNCHANGED <<World, cellOf>>
  BY DEF Wakes
<1>3. CASE cell.state # "empty" /\ Answered(w, StatusOf(cell)) /\ UNCHANGED <<cells, counters>>
  BY <1>2, <1>3, LeavesTheCell DEF Wakes, StatusOf
<1>4. CASE /\ Free(cell)
           /\ cells' = [cells EXCEPT ![held[w]].leader = w]
           /\ counters' = [counters EXCEPT ![lookup[w].key].calls = @ + 1]
           /\ UNCHANGED <<lookup, held>>
  <2>1. \A c \in CellIds : /\ cells'[c].state = cells[c].state /\ cells'[c].at = cells[c].at
                           /\ c # held[w] => cells'[c].leader = cells[c].leader
                           /\ cells'[c] \in Cell
    BY <1>1, <1>4 DEF CacheInv, TypeOK, Cell
  <2>2. /\ cells' \in [CellIds -> Cell] /\ counters' \in [Keys -> Counters]
        /\ cells'[held[w]].leader = w /\ cell.state = "empty"
    <3>1. cells \in [CellIds -> Cell] /\ counters \in [Keys -> Counters]
      BY DEF CacheInv, TypeOK, Cell, Counters
    <3>2. counters' \in [Keys -> Counters]
      BY <1>1, <1>4, <3>1 DEF Counters
    <3>3. cells' \in [CellIds -> Cell] /\ cells'[held[w]].leader = w
      BY <1>1, <1>4, <3>1 DEF Cell
    <3> QED
      BY <1>4, <3>2, <3>3 DEF Free
  <2>3. TypeOK'
    BY <1>2, <1>4, <2>2, StillTyped DEF CacheInv, TypeOK, Request
  <2>4. \A k \in Keys : Pending(k)' = Pending(k)
    BY <1>4 DEF Pending
  <2>5. WaitersShareTheCell'
    BY <1>2, <1>4 DEF CacheInv, WaitersShareTheCell
  <2>6. OneLeader'
    BY <1>1, <1>2, <2>1, <2>2, <2>4 DEF CacheInv, TypeOK, WaitersShareTheCell, OneLeader
  <2>7. CellsAreTruthful'
    BY <1>2, <2>1, <2>4 DEF CacheInv, TypeOK, CellsAreTruthful, World
  <2> QED
    BY <2>3, <2>5, <2>6, <2>7 DEF CacheInv
<1> QED
  BY <1>3, <1>4 DEF Wakes

LEMMA CountedTyped ==
  ASSUME CacheInv, NEW k \in Keys, NEW cell \in Cell, NEW n \in {0, 1}
  PROVE  Counted(k, cell, n) \in [Keys -> Counters]
<1> DEFINE hit == IF cell.state = "empty" THEN 0 ELSE 1
           gone == IF Replaces(k) THEN 1 ELSE 0
           negative == IF cell.state = "negative" THEN 1 ELSE 0
<1>1. hit \in 0 .. 1 /\ gone \in Nat /\ negative \in Nat /\ n \in Nat
  OBVIOUS
<1>2. counters \in [Keys -> Counters]
  BY DEF CacheInv, TypeOK, Counters
<1>3. Counted(k, cell, n) =
        [counters EXCEPT ![k] =
           [hits |-> counters[k].hits + hit, misses |-> counters[k].misses + 1 - hit,
            expired |-> counters[k].expired + gone,
            negativeHits |-> counters[k].negativeHits + negative,
            calls |-> counters[k].calls + n, fails |-> counters[k].fails]]
  BY <1>2 DEF Counted
<1> HIDE DEF hit, gone, negative
<1> QED
  BY <1>1, <1>2, <1>3 DEF Counters

(* The cell a lookup works with: a new one, or the one in the map, unless  *)
(* that holds an absence that has expired.                                 *)
Finds(k, c, cell) ==
  /\ \/ c \in Unused /\ cell = Empty /\ (cellOf[k] = NoCell \/ Replaces(k))
     \/ cellOf[k] = c /\ cell = cells[c] /\ ~Expired(cell) /\ ~Replaces(k)
  /\ \A j \in Keys : j # k => cellOf[j] # c

LEMMA LookupFinds ==
  ASSUME CacheInv, NEW w \in Workers, NEW k \in Keys, Lookup(w, k)
  PROVE  \E c \in CellIds, cell \in Cell : With(w, k, c, cell) /\ Finds(k, c, cell)
<1>1. Empty \in Cell
  BY DEF Empty, Cell
<1>2. CASE cellOf[k] = NoCell \/ Replaces(k)
  <2>1. PICK c \in Unused : With(w, k, c, Empty)
    BY <1>2 DEF Lookup
  <2> QED
    BY <1>1, <1>2, <2>1 DEF Finds, Unused
<1>3. CASE ~(cellOf[k] = NoCell \/ Replaces(k))
  <2>1. cellOf[k] \in CellIds /\ cells[cellOf[k]] \in Cell
    BY <1>3 DEF CacheInv, TypeOK, Cell
  <2>2. With(w, k, cellOf[k], cells[cellOf[k]]) /\ ~Expired(cells[cellOf[k]])
    BY <1>3 DEF Lookup, Replaces
  <2>3. \A j \in Keys : j # k => cellOf[j] # cellOf[k]
    BY <1>3 DEF CacheInv, WaitersShareTheCell
  <2> QED
    BY <1>3, <2>1, <2>2, <2>3 DEF Finds
<1> QED
  BY <1>2, <1>3

LEMMA LookupKeeps ==
  ASSUME CacheInv, NEW w \in Workers, NEW k \in Keys, Lookup(w, k)
  PROVE  CacheInv'
<1>1. lookup[w].status # "asked" /\ UNCHANGED World
  BY DEF Lookup
<1>2. PICK c \in CellIds, cell \in Cell : With(w, k, c, cell) /\ Finds(k, c, cell)
  BY LookupFinds
<1>3. cellOf' = [cellOf EXCEPT ![k] = c]
  BY <1>2 DEF With
<1>4. \A j \in Keys : j # k => cellOf[j] # c
  BY <1>2 DEF Finds
<1>5. \A v \in Workers : lookup[v].status = "asked" =>
        lookup[v].key \in Keys /\ held[v] = cellOf[lookup[v].key] /\ held[v] # NoCell
  BY Asked
<1>6. Pending(k) = {} \/ cellOf[k] = c
  <2>1. ASSUME Pending(k) # {}, c \in Unused, cell = Empty PROVE cellOf[k] = c
    <3>1. PICK v \in Workers : lookup[v].status = "asked" /\ lookup[v].key = k
      BY <2>1 DEF Pending
    <3>2. cellOf[k] # NoCell /\ Pending(k) # {} /\ cells[cellOf[k]] \in Cell
      BY <1>5, <3>1 DEF Pending, CacheInv, TypeOK, Cell
    <3>3. ~Expired(cells[cellOf[k]])
      BY <3>2 DEF Expired, CacheInv, TypeOK, CellsAreTruthful, Cell
    <3>4. ~(cellOf[k] = NoCell \/ Replaces(k))
      BY <3>2, <3>3 DEF Replaces
    <3>5. With(w, k, cellOf[k], cells[cellOf[k]])
      BY <3>4 DEF Lookup
    <3>6. cellOf' = [cellOf EXCEPT ![k] = cellOf[k]]
      BY <3>5 DEF With
    <3> QED
      BY <1>3, <3>6 DEF CacheInv, TypeOK
  <2> QED
    BY <1>2, <2>1 DEF Finds
<1>7. CASE /\ cell.state # "empty"
           /\ lookup' = [lookup EXCEPT ![w] = [key |-> k, status |-> StatusOf(cell)]]
           /\ counters' = Counted(k, cell, 0)
           /\ UNCHANGED <<cells, held>>
  <2>1. cellOf[k] = c /\ cell = cells[c] /\ cellOf' = cellOf
    BY <1>2, <1>3, <1>7 DEF Finds, Empty, CacheInv, TypeOK
  <2>2. /\ lookup' \in [Workers -> Request \cup {Oracle!Idle}]
        /\ counters' \in [Keys -> Counters]
    <3>1. [key |-> k, status |-> StatusOf(cell)] \in Request
      BY DEF StatusOf, Request, Oracle!Statuses
    <3>2. lookup \in [Workers -> Request \cup {Oracle!Idle}] /\ counters \in [Keys -> Counters]
      BY DEF CacheInv, TypeOK, Request, Counters
    <3> QED
      BY <1>7, <3>1, <3>2, CountedTyped
  <2>3. TypeOK'
    BY <1>1, <1>7, <2>1, <2>2, StillTyped DEF CacheInv, TypeOK, Cell
  <2>4. \A v \in Workers :
          /\ v # w => lookup'[v] = lookup[v]
          /\ lookup'[w].status # "asked"
    BY <1>7 DEF CacheInv, TypeOK, StatusOf
  <2>5. \A j \in Keys : Pending(j)' = Pending(j)
    BY <1>1, <2>4 DEF Pending
  <2>6. WaitersShareTheCell'
    BY <1>1, <1>7, <2>1, <2>4 DEF CacheInv, WaitersShareTheCell
  <2>7. OneLeader' /\ CellsAreTruthful'
    BY <1>1, <1>7, <2>1, <2>5 DEF CacheInv, OneLeader, CellsAreTruthful, World
  <2> QED
    BY <2>3, <2>6, <2>7 DEF CacheInv
<1>8. CASE /\ cell.state = "empty"
           /\ lookup' = [lookup EXCEPT ![w] = [key |-> k, status |-> "asked"]]
           /\ held' = [held EXCEPT ![w] = c]
           /\ \/ /\ Free(cell)
                 /\ cells' = [cells EXCEPT ![c] = [Empty EXCEPT !.leader = w]]
                 /\ counters' = Counted(k, cell, 1)
              \/ /\ ~Free(cell)
                 /\ counters' = Counted(k, cell, 0)
                 /\ UNCHANGED cells
  <2>1. /\ lookup' \in [Workers -> Request \cup {Oracle!Idle}]
        /\ counters' \in [Keys -> Counters] /\ cells' \in [CellIds -> Cell]
        /\ held' \in [Workers -> CellIds \cup {NoCell}]
        /\ cellOf' \in [Keys -> CellIds \cup {NoCell}]
    <3>1. [key |-> k, status |-> "asked"] \in Request /\ [Empty EXCEPT !.leader = w] \in Cell
      BY DEF Request, Oracle!Statuses, Empty, Cell
    <3>2. /\ lookup \in [Workers -> Request \cup {Oracle!Idle}] /\ counters \in [Keys -> Counters]
          /\ cells \in [CellIds -> Cell] /\ held \in [Workers -> CellIds \cup {NoCell}]
          /\ cellOf \in [Keys -> CellIds \cup {NoCell}]
      BY DEF CacheInv, TypeOK, Request, Counters, Cell
    <3>3. \A n \in {0, 1} : Counted(k, cell, n) \in [Keys -> Counters]
      BY CountedTyped
    <3> QED
      BY <1>3, <1>8, <3>1, <3>2, <3>3
  <2>2. TypeOK'
    BY <1>1, <2>1, StillTyped
  <2>3. /\ \A v \in Workers : v # w => lookup'[v] = lookup[v] /\ held'[v] = held[v]
        /\ lookup'[w] = [key |-> k, status |-> "asked"] /\ held'[w] = c
    BY <1>8 DEF CacheInv, TypeOK
  <2>4. /\ \A j \in Keys : j # k => Pending(j)' = Pending(j) /\ cellOf'[j] = cellOf[j]
        /\ Pending(k)' = Pending(k) \cup {w} /\ cellOf'[k] = c
    BY <1>1, <1>3, <2>3 DEF Pending, CacheInv, TypeOK
  <2>5. WaitersShareTheCell'
    <3>1. \A i, j \in Keys : cellOf'[i] = cellOf'[j] /\ i # j => cellOf'[i] = NoCell
      BY <1>2, <1>4, <2>4 DEF CacheInv, WaitersShareTheCell
    <3>2. ASSUME NEW v \in Workers
          PROVE  IF lookup'[v].status = "asked"
                 THEN held'[v] = cellOf'[lookup'[v].key] /\ held'[v] # NoCell
                 ELSE held'[v] = NoCell
      <4>1. CASE v = w
        BY <2>3, <2>4, <4>1
      <4>2. CASE v # w /\ lookup[v].status = "asked" /\ lookup[v].key = k
        BY <1>5, <1>6, <2>3, <2>4, <4>2 DEF Pending
      <4>3. CASE v # w /\ ~(lookup[v].status = "asked" /\ lookup[v].key = k)
        BY <1>5, <2>3, <2>4, <4>3 DEF CacheInv, WaitersShareTheCell
      <4> QED
        BY <4>1, <4>2, <4>3
    <3> QED
      BY <3>1, <3>2 DEF WaitersShareTheCell
  <2>6. /\ \A j \in Keys : j # k /\ cellOf[j] # NoCell => cells'[cellOf[j]] = cells[cellOf[j]]
        /\ cells'[c].state = "empty"
        /\ \/ cells'[c].leader = w
           \/ cellOf[k] = c /\ cells'[c] = cells[c]
    <3>1. \A d \in CellIds : d # c => cells'[d] = cells[d]
      BY <1>8 DEF CacheInv, TypeOK
    <3>2. CASE Free(cell)
      BY <1>4, <1>8, <3>1, <3>2 DEF CacheInv, TypeOK, Empty
    <3>3. CASE ~Free(cell)
      BY <1>2, <1>8, <3>3 DEF Finds, Free, Empty
    <3> QED
      BY <3>2, <3>3
  <2>7. OneLeader'
    <3> SUFFICES ASSUME NEW j \in Keys, cellOf'[j] # NoCell, cells'[cellOf'[j]].leader # Nobody
                 PROVE  /\ cells'[cellOf'[j]].leader \in Pending(j)'
                        /\ cells'[cellOf'[j]].state = "empty"
      BY DEF OneLeader
    <3>1. CASE j # k
      BY <2>4, <2>6, <3>1 DEF CacheInv, OneLeader
    <3>2. CASE j = k
      BY <1>2, <2>4, <2>6, <3>2 DEF CacheInv, OneLeader
    <3> QED
      BY <3>1, <3>2
  <2>8. CellsAreTruthful'
    BY <1>1, <2>4, <2>6 DEF CacheInv, CellsAreTruthful, World
  <2> QED
    BY <2>2, <2>5, <2>7, <2>8 DEF CacheInv
<1> QED
  BY <1>2, <1>7, <1>8 DEF With

-------------------------------------------------------------------------------
(* The chain moves.                                                        *)

LEMMA BecomesKeeps ==
  ASSUME CacheInv, Seen, NEW a \in Nat, a >= anchor, a \in 1 .. MaxBlock,
         NEW d \in SUBSET Keys, Oracle!Becomes(a, d)
  PROVE  /\ Seen' /\ anchor' = a /\ deployed' \subseteq ever' /\ ever' \subseteq Keys
         /\ absentAt' \in [Keys -> 0 .. a]
         /\ ever \subseteq ever' /\ \A k \in Keys : absentAt'[k] >= absentAt[k]
<1>1. /\ anchor' = a /\ deployed' = d /\ ever' = ever \cup d
      /\ absentAt' = [k \in Keys |-> IF k \in d THEN absentAt[k] ELSE a]
  BY DEF Oracle!Becomes, Oracle!Absence
<1>2. absentAt \in [Keys -> 0 .. anchor] /\ anchor \in Nat
  BY DEF CacheInv, TypeOK
<1> QED
  BY <1>1, <1>2 DEF Seen, CacheInv, TypeOK

LEMMA ReorgKeeps ==
  ASSUME CacheInv, Seen, Reorg
  PROVE  CacheInv' /\ Seen'
<1>1. PICK d \in SUBSET Keys : Oracle!Becomes(anchor, d)
  BY DEF Reorg, Oracle!Reorg
<1>2. /\ reorgs' = reorgs + 1 /\ reorgs < MaxReorgs
      /\ UNCHANGED <<lookup, cellOf, cells, held, counters>>
  BY DEF Reorg, Oracle!Reorg
<1>3. anchor \in Nat /\ anchor \in 1 .. MaxBlock
  BY DEF CacheInv, TypeOK
<1>4. /\ Seen' /\ anchor' = anchor /\ deployed' \subseteq ever' /\ ever' \subseteq Keys
      /\ absentAt' \in [Keys -> 0 .. anchor]
      /\ ever \subseteq ever' /\ \A k \in Keys : absentAt'[k] >= absentAt[k]
  BY <1>1, <1>3, BecomesKeeps
<1>5. TypeOK'
  BY <1>2, <1>4 DEF CacheInv, TypeOK
<1>6. \A k \in Keys : Pending(k)' = Pending(k)
  BY <1>2 DEF Pending
<1>7. WaitersShareTheCell' /\ OneLeader'
  BY <1>2, <1>6 DEF CacheInv, WaitersShareTheCell, OneLeader
<1>8. CellsAreTruthful'
  <2> SUFFICES ASSUME NEW k \in Keys, cellOf[k] # NoCell
               PROVE  LET cell == cells[cellOf[k]] IN
                        /\ cell.state = "positive" => k \in ever'
                        /\ cell.state = "negative" => cell.at > 0 /\ cell.at <= absentAt'[k]
                        /\ cell.state = "negative" /\ Pending(k) # {} => cell.at = anchor
    BY <1>2, <1>4, <1>6 DEF CellsAreTruthful
  <2>1. cells[cellOf[k]] \in Cell /\ absentAt[k] \in Nat /\ absentAt'[k] \in Nat
    BY <1>3, <1>4 DEF CacheInv, TypeOK, Cell
  <2> QED
    BY <1>4, <2>1 DEF CacheInv, CellsAreTruthful, Cell
<1> QED
  BY <1>4, <1>5, <1>7, <1>8 DEF CacheInv

LEMMA NewRoundKeeps ==
  ASSUME CacheInv, Seen, NewRound
  PROVE  CacheInv' /\ Seen'
<1>1. PICK a \in anchor + 1 .. MaxBlock, d \in SUBSET Keys : Oracle!Becomes(a, d)
  BY DEF NewRound, Oracle!NewRound
<1>2. /\ lookup' = [w \in Workers |-> Oracle!Idle] /\ UNCHANGED <<reorgs, cellOf>>
      /\ cells' = [c \in CellIds |-> Released(cells[c])]
      /\ held' = [w \in Workers |-> NoCell]
      /\ counters' = [k \in Keys |-> [counters[k] EXCEPT !.fails =
                         @ + Cardinality({w \in Leaders : lookup[w].key = k})]]
  BY DEF NewRound, Oracle!NewRound
<1>3. /\ anchor \in Nat /\ a \in Nat /\ a >= anchor /\ a \in 1 .. MaxBlock
      /\ absentAt \in [Keys -> 0 .. anchor]
  BY DEF CacheInv, TypeOK
<1>4. /\ Seen' /\ anchor' = a /\ deployed' \subseteq ever' /\ ever' \subseteq Keys
      /\ absentAt' \in [Keys -> 0 .. a]
      /\ ever \subseteq ever' /\ \A k \in Keys : absentAt'[k] >= absentAt[k]
  BY <1>1, <1>3, BecomesKeeps
<1>5. counters' \in [Keys -> Counters]
  <2>1. \A k \in Keys : Cardinality({w \in Leaders : lookup[w].key = k}) \in Nat
    <3> TAKE k \in Keys
    <3>1. {w \in Leaders : lookup[w].key = k} \subseteq Workers
      BY DEF Leaders
    <3> QED
      BY <3>1, FS_Subset, FS_CardinalityType
  <2>2. counters \in [Keys -> Counters]
    BY DEF CacheInv, TypeOK, Counters
  <2> QED
    BY <1>2, <2>1, <2>2 DEF Counters
<1>6. \A c \in CellIds : /\ cells'[c] \in Cell /\ cells'[c].leader = Nobody
                         /\ cells'[c].state = cells[c].state /\ cells'[c].at = cells[c].at
  BY <1>2 DEF CacheInv, TypeOK, Cell, Released
<1>7. TypeOK'
  <2>1. lookup' \in [Workers -> Request \cup {Oracle!Idle}] /\ cells' \in [CellIds -> Cell]
    BY <1>2, <1>6
  <2> QED
    BY <1>2, <1>3, <1>4, <1>5, <2>1 DEF CacheInv, TypeOK, Request, Cell, Counters
<1>8. \A w \in Workers : lookup'[w].status # "asked" /\ held'[w] = NoCell
  BY <1>2 DEF Oracle!Idle
<1>9. \A k \in Keys : Pending(k)' = {}
  BY <1>8 DEF Pending
<1>10. WaitersShareTheCell' /\ OneLeader'
  BY <1>2, <1>6, <1>8, <1>9 DEF CacheInv, TypeOK, WaitersShareTheCell, OneLeader
<1>11. CellsAreTruthful'
  <2> SUFFICES ASSUME NEW k \in Keys, cellOf[k] # NoCell
               PROVE  LET cell == cells'[cellOf[k]] IN
                        /\ cell.state = "positive" => k \in ever'
                        /\ cell.state = "negative" => cell.at > 0 /\ cell.at <= absentAt'[k]
    BY <1>2, <1>9 DEF CellsAreTruthful
  <2>1. /\ cellOf[k] \in CellIds /\ cells[cellOf[k]] \in Cell
        /\ absentAt[k] \in Nat /\ absentAt'[k] \in Nat
    BY <1>3, <1>4 DEF CacheInv, TypeOK, Cell
  <2> QED
    BY <1>4, <1>6, <2>1 DEF CacheInv, CellsAreTruthful, Cell
<1> QED
  BY <1>4, <1>7, <1>10, <1>11 DEF CacheInv

-------------------------------------------------------------------------------
LEMMA StepKeeps == CacheInv /\ Seen /\ [Next]_vars => CacheInv' /\ Seen'
<1> SUFFICES ASSUME CacheInv, Seen, [Next]_vars PROVE CacheInv' /\ Seen'
  OBVIOUS
<1>1. CASE NewRound
  BY <1>1, NewRoundKeeps
<1>2. CASE Reorg
  BY <1>2, ReorgKeeps
<1>3. CASE Rest \/ UNCHANGED vars
  BY <1>3 DEF Rest, vars, World, CacheInv, TypeOK, WaitersShareTheCell, OneLeader,
              CellsAreTruthful, Pending, Seen
<1>4. CASE \E w \in Workers : Task(w)
  <2>1. PICK w \in Workers : Fetched(w) \/ FetchFails(w) \/ WaiterTimesOut(w) \/ Wakes(w)
    BY <1>4 DEF Task
  <2>2. CacheInv'
    BY <2>1, FetchedKeeps, FetchFailsKeeps, WaiterTimesOutKeeps, WakesKeeps
  <2>3. UNCHANGED World
    BY <2>1 DEF Fetched, FetchFails, WaiterTimesOut, Wakes
  <2> QED
    BY <2>2, <2>3 DEF World, Seen
<1>5. CASE \E w \in Workers, k \in Keys : Lookup(w, k)
  BY <1>5, LookupKeeps DEF Lookup, World, Seen
<1> QED
  BY <1>1, <1>2, <1>3, <1>4, <1>5 DEF Next

LEMMA SeenAtFirst == Init => Seen
BY DEF Init, Oracle!Init, Oracle!Absence, Seen

(* Cells, waiters and leaders belong together, whatever the chain does.    *)
THEOREM CacheInvariant == Spec => []CacheInv
<1>1. Init => CacheInv /\ Seen
  BY InitHolds, SeenAtFirst
<1>2. CacheInv /\ Seen /\ [Next]_vars => (CacheInv /\ Seen)'
  BY StepKeeps
<1> QED
  BY <1>1, <1>2, PTL DEF Spec

-------------------------------------------------------------------------------
(* One call at a time.                                                     *)

(* Somebody fetches the cell of the key, or has filled it.                 *)
Taken(k) ==
  /\ cellOf[k] # NoCell
  /\ cells[cellOf[k]].state # "empty" \/ cells[cellOf[k]].leader # Nobody

(* Every call but the one that took the cell has failed, was dropped, or   *)
(* found an absence that has expired since.                                *)
CallsAccounted ==
  \A k \in Keys :
    counters[k].calls <= counters[k].fails + counters[k].expired + (IF Taken(k) THEN 1 ELSE 0)

LEMMA TakenStays ==
  ASSUME CacheInv, CallsAccounted, UNCHANGED counters,
         \A k \in Keys : Taken(k) => Taken(k)'
  PROVE  CallsAccounted'
<1>1. \A k \in Keys : counters[k] \in Counters
  BY DEF CacheInv, TypeOK, Counters
<1> QED
  BY <1>1 DEF CallsAccounted, Counters

LEMMA CallsAtFirst == Init => CallsAccounted
BY DEF Init, CallsAccounted, Zero

LEMMA LookupCalls ==
  ASSUME CacheInv, CallsAccounted, NEW w \in Workers, NEW k \in Keys, Lookup(w, k)
  PROVE  CallsAccounted'
<1>1. PICK c \in CellIds, cell \in Cell : With(w, k, c, cell) /\ Finds(k, c, cell)
  BY LookupFinds
<1>2. /\ cellOf' = [cellOf EXCEPT ![k] = c]
      /\ \/ cell.state # "empty" /\ cells' = cells /\ counters' = Counted(k, cell, 0)
         \/ /\ Free(cell) /\ counters' = Counted(k, cell, 1)
            /\ cells' = [cells EXCEPT ![c] = [Empty EXCEPT !.leader = w]]
         \/ /\ cell.state = "empty" /\ ~Free(cell)
            /\ cells' = cells /\ counters' = Counted(k, cell, 0)
  BY <1>1 DEF With
<1>3. /\ counters \in [Keys -> Counters] /\ cellOf \in [Keys -> CellIds \cup {NoCell}]
      /\ cells \in [CellIds -> Cell]
  BY DEF CacheInv, TypeOK, Counters, Cell
<1> SUFFICES ASSUME NEW j \in Keys
             PROVE  counters'[j].calls <= counters'[j].fails + counters'[j].expired
                                            + (IF Taken(j)' THEN 1 ELSE 0)
  BY DEF CallsAccounted
<1>4. CASE j # k
  <2>1. counters'[j] = counters[j] /\ counters[j] \in Counters
    BY <1>2, <1>3, <1>4 DEF Counted
  <2>2. Taken(j)' = Taken(j)
    BY <1>1, <1>2, <1>3, <1>4 DEF Taken, Finds
  <2> QED
    BY <2>1, <2>2 DEF CallsAccounted, Counters
<1>5. CASE j = k
  <2> DEFINE gone == IF Replaces(k) THEN 1 ELSE 0
  <2>1. /\ counters[k] \in Counters /\ gone \in {0, 1}
        /\ \A n \in {0, 1} :
             counters' = Counted(k, cell, n) =>
               /\ counters'[k].calls = counters[k].calls + n
               /\ counters'[k].fails = counters[k].fails
               /\ counters'[k].expired = counters[k].expired + gone
    BY <1>3 DEF Counted
  <2> HIDE DEF gone
  <2>2. counters[k].calls <= counters[k].fails + counters[k].expired + (IF Taken(k) THEN 1 ELSE 0)
    BY DEF CallsAccounted
  <2>3. CASE cell.state # "empty" /\ cells' = cells /\ counters' = Counted(k, cell, 0)
    <3>1. Taken(k)'
      BY <1>1, <1>2, <1>3, <2>3 DEF Taken, Finds, Empty
    <3> QED
      BY <1>5, <2>1, <2>2, <2>3, <3>1 DEF Counters
  <2>4. CASE /\ Free(cell) /\ counters' = Counted(k, cell, 1)
             /\ cells' = [cells EXCEPT ![c] = [Empty EXCEPT !.leader = w]]
    <3>1. Taken(k)'
      BY <1>2, <1>3, <2>4 DEF Taken, Empty
    <3>2. ~Taken(k) \/ gone = 1
      BY <1>1, <1>3, <2>4 DEF Taken, Finds, Free, gone
    <3> QED
      BY <1>5, <2>1, <2>2, <2>4, <3>1, <3>2 DEF Counters
  <2>5. CASE /\ cell.state = "empty" /\ ~Free(cell)
             /\ cells' = cells /\ counters' = Counted(k, cell, 0)
    <3>1. Taken(k)'
      BY <1>1, <1>2, <1>3, <2>5 DEF Taken, Finds, Empty, Free
    <3> QED
      BY <1>5, <2>1, <2>2, <2>5, <3>1 DEF Counters
  <2> QED
    BY <1>2, <2>3, <2>4, <2>5
<1> QED
  BY <1>4, <1>5

LEMMA TaskCalls ==
  ASSUME CacheInv, CallsAccounted, NEW w \in Workers, Task(w)
  PROVE  CallsAccounted'
<1>1. PICK key \in Keys :
        /\ lookup[w].key = key /\ lookup[w].status = "asked" /\ held[w] \in CellIds
        /\ held[w] = cellOf[key] /\ cells[held[w]] \in Cell /\ held[w] # NoCell
  BY Asked DEF Task, Fetched, FetchFails, WaiterTimesOut, Wakes, Leads, Waits
<1>2. /\ counters \in [Keys -> Counters] /\ cells \in [CellIds -> Cell]
  BY DEF CacheInv, TypeOK, Counters, Cell
<1>3. \A k \in Keys : k # key => cellOf[k] # held[w]
  BY <1>1 DEF CacheInv, WaitersShareTheCell
<1>4. cellOf' = cellOf
  BY DEF Task, Fetched, FetchFails, WaiterTimesOut, Wakes
<1>5. CASE Fetched(w)
  <2>1. cells' = [cells EXCEPT ![held[w]] = Read(key)] /\ counters' = counters
    BY <1>1, <1>5 DEF Fetched
  <2>2. Read(key).state # "empty"
    BY DEF Read
  <2>3. \A k \in Keys : Taken(k) => Taken(k)'
    BY <1>1, <1>2, <1>3, <1>4, <2>1, <2>2 DEF Taken
  <2> QED
    BY <2>1, <2>3, TakenStays
<1>6. CASE FetchFails(w)
  <2>1. /\ cells' = [cells EXCEPT ![held[w]] = Released(@)]
        /\ counters' = [counters EXCEPT ![key].fails = @ + 1]
    BY <1>1, <1>6 DEF FetchFails
  <2>2. /\ counters'[key].calls = counters[key].calls
        /\ counters'[key].fails = counters[key].fails + 1
        /\ counters'[key].expired = counters[key].expired
        /\ \A k \in Keys : k # key => counters'[k] = counters[k]
    BY <1>1, <1>2, <2>1 DEF Counters
  <2>3. \A k \in Keys : k # key => Taken(k)' = Taken(k)
    BY <1>1, <1>2, <1>3, <1>4, <2>1 DEF Taken
  <2> SUFFICES ASSUME NEW k \in Keys
               PROVE  counters'[k].calls <= counters'[k].fails + counters'[k].expired
                                              + (IF Taken(k)' THEN 1 ELSE 0)
    BY DEF CallsAccounted
  <2>4. /\ counters[k].calls <= counters[k].fails + counters[k].expired
                                  + (IF Taken(k) THEN 1 ELSE 0)
        /\ counters[k] \in Counters
    BY <1>2 DEF CallsAccounted
  <2> QED
    BY <2>2, <2>3, <2>4 DEF Counters
<1>7. CASE WaiterTimesOut(w)
  <2>1. cells' = cells /\ counters' = counters
    BY <1>7 DEF WaiterTimesOut
  <2> QED
    BY <1>4, <2>1, TakenStays DEF Taken
<1>8. CASE Wakes(w)
  <2>1. CASE UNCHANGED <<cells, counters>>
    BY <1>4, <2>1, TakenStays DEF Taken
  <2>2. CASE /\ Free(cells[held[w]])
             /\ cells' = [cells EXCEPT ![held[w]].leader = w]
             /\ counters' = [counters EXCEPT ![key].calls = @ + 1]
    <3>1. /\ counters'[key].calls = counters[key].calls + 1
          /\ counters'[key].fails = counters[key].fails
          /\ counters'[key].expired = counters[key].expired
          /\ \A k \in Keys : k # key => counters'[k] = counters[k]
      BY <1>1, <1>2, <2>2 DEF Counters
    <3>2. \A k \in Keys : k # key => Taken(k)' = Taken(k)
      BY <1>1, <1>2, <1>3, <1>4, <2>2 DEF Taken
    <3>3. ~Taken(key) /\ Taken(key)'
      BY <1>1, <1>2, <1>4, <2>2 DEF Taken, Free, Cell
    <3> SUFFICES ASSUME NEW k \in Keys
                 PROVE  counters'[k].calls <= counters'[k].fails + counters'[k].expired
                                                + (IF Taken(k)' THEN 1 ELSE 0)
      BY DEF CallsAccounted
    <3>4. /\ counters[k].calls <= counters[k].fails + counters[k].expired
                                    + (IF Taken(k) THEN 1 ELSE 0)
          /\ counters[k] \in Counters
      BY <1>2 DEF CallsAccounted
    <3> QED
      BY <3>1, <3>2, <3>3, <3>4 DEF Counters
  <2> QED
    BY <1>1, <1>8, <2>1, <2>2 DEF Wakes
<1> QED
  BY <1>5, <1>6, <1>7, <1>8 DEF Task

(* The round's end drops every task that fetches, and counts it.           *)
LEMMA NewRoundCalls ==
  ASSUME CacheInv, CallsAccounted, NewRound
  PROVE  CallsAccounted'
<1> DEFINE dropped(k) == Cardinality({w \in Leaders : lookup[w].key = k})
<1>1. /\ cells' = [c \in CellIds |-> Released(cells[c])] /\ cellOf' = cellOf
      /\ counters' = [k \in Keys |-> [counters[k] EXCEPT !.fails = @ + dropped(k)]]
  BY DEF NewRound
<1>2. /\ counters \in [Keys -> Counters] /\ cells \in [CellIds -> Cell]
      /\ cellOf \in [Keys -> CellIds \cup {NoCell}]
  BY DEF CacheInv, TypeOK, Counters, Cell
<1> SUFFICES ASSUME NEW k \in Keys
             PROVE  counters'[k].calls <= counters'[k].fails + counters'[k].expired
                                            + (IF Taken(k)' THEN 1 ELSE 0)
  BY DEF CallsAccounted
<1>3. /\ counters'[k].calls = counters[k].calls
      /\ counters'[k].fails = counters[k].fails + dropped(k)
      /\ counters'[k].expired = counters[k].expired
  BY <1>1, <1>2 DEF Counters
<1>4. /\ counters[k].calls <= counters[k].fails + counters[k].expired
                                + (IF Taken(k) THEN 1 ELSE 0)
      /\ counters[k] \in Counters
  BY <1>2 DEF CallsAccounted
<1> DEFINE those == {w \in Leaders : lookup[w].key = k}
<1>5. IsFiniteSet(those) /\ dropped(k) \in Nat
  <2>1. those \subseteq Workers
    BY DEF Leaders
  <2> QED
    BY <2>1, FS_Subset, FS_CardinalityType
<1>6. CASE Taken(k)' \/ ~Taken(k)
  <2> HIDE DEF dropped
  <2> QED
    BY <1>3, <1>4, <1>5, <1>6 DEF Counters
<1>7. CASE Taken(k) /\ ~Taken(k)'
  <2>1. /\ cellOf[k] # NoCell /\ cells[cellOf[k]].leader # Nobody
    BY <1>1, <1>2, <1>7 DEF Taken, Released, Cell
  <2>2. cells[cellOf[k]].leader \in Pending(k)
    BY <2>1 DEF CacheInv, OneLeader
  <2>3. PICK w \in Workers : /\ lookup[w].status = "asked" /\ lookup[w].key = k
                             /\ cells[cellOf[k]].leader = w
    BY <2>2 DEF Pending
  <2>4. held[w] = cellOf[k]
    BY <2>3, Asked
  <2>5. w \in those
    BY <2>3, <2>4 DEF Leaders, Leads
  <2>6. dropped(k) # 0
    BY <1>5, <2>5, FS_EmptySet
  <2> HIDE DEF dropped
  <2> QED
    BY <1>3, <1>4, <1>5, <2>6 DEF Counters
<1> QED
  BY <1>6, <1>7

(* Tasks racing for one key make one call, and one more for each that      *)
(* failed, was dropped, or found an absence that has expired since.        *)
THEOREM OneCallAtATime == Spec => []AtMostOneCall
<1>1. Init => CacheInv /\ Seen /\ CallsAccounted
  BY InitHolds, SeenAtFirst, CallsAtFirst
<1>2. ASSUME CacheInv, CallsAccounted, [Next]_vars PROVE CallsAccounted'
  <2>1. CASE NewRound
    BY <1>2, <2>1, NewRoundCalls
  <2>2. CASE Reorg \/ Rest \/ UNCHANGED vars
    <3>1. UNCHANGED <<cellOf, cells, counters>>
      BY <2>2 DEF Reorg, Rest, vars
    <3> QED
      BY <1>2, <3>1, TakenStays DEF Taken
  <2>3. CASE \E w \in Workers : Task(w)
    BY <1>2, <2>3, TaskCalls
  <2>4. CASE \E w \in Workers, k \in Keys : Lookup(w, k)
    BY <1>2, <2>4, LookupCalls
  <2> QED
    BY <1>2, <2>1, <2>2, <2>3, <2>4 DEF Next
<1>3. CacheInv /\ Seen /\ CallsAccounted /\ [Next]_vars => (CacheInv /\ Seen /\ CallsAccounted)'
  BY <1>2, StepKeeps
<1>4. CacheInv /\ CallsAccounted => AtMostOneCall
  <2>1. CacheInv => \A k \in Keys : counters[k] \in Counters
    BY DEF CacheInv, TypeOK, Counters
  <2> QED
    BY <2>1 DEF CallsAccounted, AtMostOneCall, Counters
<1> QED
  BY <1>1, <1>3, <1>4, PTL DEF Spec

-------------------------------------------------------------------------------
(* The cache implements the oracle.                                        *)

(* An absence that has not expired is one the oracle may report.           *)
LEMMA NotExpired ==
  ASSUME CacheInv, NEW k \in Keys, cellOf[k] # NoCell, ~Expired(cells[cellOf[k]]),
         cells[cellOf[k]].state # "empty"
  PROVE  Oracle!Truthful(k, StatusOf(cells[cellOf[k]]))
<1> DEFINE cell == cells[cellOf[k]]
<1>1. /\ cell \in Cell /\ anchor \in Nat /\ TTL \in Nat
      /\ absentAt[k] \in Nat
  BY DEF CacheInv, TypeOK, Cell
<1>2. /\ cell.state = "positive" => k \in ever
      /\ cell.state = "negative" => cell.at > 0 /\ cell.at <= absentAt[k]
  BY DEF CacheInv, CellsAreTruthful
<1>3. cell.state = "negative" => anchor - cell.at < TTL
  BY <1>1 DEF Expired, Cell
<1>4. cell.state \in {"positive", "negative"}
  BY <1>1 DEF Cell
<1> HIDE DEF cell
<1>5. StatusOf(cell) \in {"found", "absent"}
      /\ (StatusOf(cell) = "found" => k \in ever)
      /\ (StatusOf(cell) = "absent" => absentAt[k] > 0 /\ anchor - absentAt[k] < TTL)
  BY <1>1, <1>2, <1>3, <1>4 DEF StatusOf, Cell
<1> QED
  BY <1>5 DEF Oracle!Truthful, cell

LEMMA LookupIsAsked ==
  ASSUME CacheInv, NEW w \in Workers, NEW k \in Keys, Lookup(w, k)
  PROVE  Oracle!Ask(w, k) \/ Oracle!AskAndAnswer(w, k)
<1>1. PICK c \in CellIds, cell \in Cell : With(w, k, c, cell) /\ Finds(k, c, cell)
  BY LookupFinds
<1>2. lookup[w].status # "asked" /\ UNCHANGED World
  BY DEF Lookup
<1>3. CASE lookup' = [lookup EXCEPT ![w] = [key |-> k, status |-> "asked"]]
  BY <1>2, <1>3 DEF Oracle!Ask, World, Oracle!World
<1>4. CASE /\ cell.state # "empty"
           /\ lookup' = [lookup EXCEPT ![w] = [key |-> k, status |-> StatusOf(cell)]]
  <2>1. cellOf[k] = c /\ cell = cells[c] /\ ~Expired(cell) /\ c # NoCell
    BY <1>1, <1>4 DEF Finds, Empty
  <2>2. Oracle!Truthful(k, StatusOf(cell)) /\ StatusOf(cell) \in {"found", "absent"}
    BY <1>4, <2>1, NotExpired DEF StatusOf
  <2> QED
    BY <1>2, <1>4, <2>2 DEF Oracle!AskAndAnswer, World, Oracle!World
<1> QED
  BY <1>1, <1>3, <1>4 DEF With

LEMMA TaskIsAnswer ==
  ASSUME CacheInv, Seen, NEW w \in Workers, Task(w)
  PROVE  Oracle!Answer(w) \/ UNCHANGED Oracle!vars
<1> DEFINE key == lookup[w].key
<1>1. /\ lookup[w].status = "asked" /\ key \in Keys /\ held[w] = cellOf[key]
      /\ held[w] \in CellIds /\ cells[held[w]] \in Cell
  BY Asked DEF Task, Fetched, FetchFails, WaiterTimesOut, Wakes, Leads, Waits
<1>2. UNCHANGED World
  BY DEF Task, Fetched, FetchFails, WaiterTimesOut, Wakes
<1>3. ASSUME NEW status \in {"found", "absent", "error"}, Answered(w, status),
             Oracle!Truthful(key, status)
      PROVE  Oracle!Answer(w)
  BY <1>1, <1>2, <1>3 DEF Answered, Oracle!Answer, World, Oracle!World
<1>4. CASE Fetched(w)
  <2>1. Answered(w, StatusOf(Read(key)))
    BY <1>4 DEF Fetched
  <2>2. /\ key \in deployed => key \in ever
        /\ key \notin deployed => absentAt[key] = anchor
        /\ anchor \in Nat /\ anchor > 0
    BY <1>1, WorldSeen
  <2>3. StatusOf(Read(key)) \in {"found", "absent"}
        /\ Oracle!Truthful(key, StatusOf(Read(key)))
    <3>1. CASE key \in deployed
      BY <2>2, <3>1 DEF Read, StatusOf, Oracle!Truthful
    <3>2. CASE key \notin deployed
      BY <2>2, <3>2 DEF Read, StatusOf, Oracle!Truthful
    <3> QED
      BY <3>1, <3>2
  <2> QED
    BY <1>3, <2>1, <2>3
<1>5. CASE FetchFails(w) \/ WaiterTimesOut(w)
  <2>1. Answered(w, "error") /\ Oracle!Truthful(key, "error")
    BY <1>5 DEF FetchFails, WaiterTimesOut, Oracle!Truthful
  <2> QED
    BY <1>3, <2>1
<1>6. CASE Wakes(w)
  <2>1. CASE cells[held[w]].state # "empty" /\ Answered(w, StatusOf(cells[held[w]]))
    <3>1. ~Expired(cells[held[w]])
      <4>1. cells[held[w]].state = "negative" => cells[held[w]].at = anchor
        BY <1>1, CellOfWaiter
      <4> QED
        BY <1>1, <4>1 DEF Expired, CacheInv, TypeOK
    <3>2. Oracle!Truthful(key, StatusOf(cells[held[w]]))
      BY <1>1, <2>1, <3>1, NotExpired
    <3>3. StatusOf(cells[held[w]]) \in {"found", "absent", "error"}
      BY DEF StatusOf
    <3> QED
      BY <1>3, <2>1, <3>2, <3>3
  <2>2. CASE UNCHANGED <<lookup, held>>
    BY <1>2, <2>2 DEF World, Oracle!vars
  <2> QED
    BY <1>6, <2>1, <2>2 DEF Wakes
<1> QED
  BY <1>4, <1>5, <1>6 DEF Task

(* Whatever the tasks, the failures and the chain do, a lookup is answered *)
(* as MetadataOracle promises: nothing that was never there, no absence    *)
(* that is TTL blocks old.                                                 *)
THEOREM CacheImplementsOracle == Spec => ImplementsOracle
<1>1. Init => Oracle!Init
  BY DEF Init
<1>2. ASSUME CacheInv, Seen, [Next]_vars PROVE [Oracle!Next]_(Oracle!vars)
  <2>1. CASE NewRound \/ Reorg
    BY <2>1 DEF NewRound, Reorg, Oracle!Next
  <2>2. CASE Rest \/ UNCHANGED vars
    BY <2>2 DEF Rest, vars, World, Oracle!vars
  <2>3. CASE \E w \in Workers : Task(w)
    BY <1>2, <2>3, TaskIsAnswer DEF Oracle!Next
  <2>4. CASE \E w \in Workers, k \in Keys : Lookup(w, k)
    BY <1>2, <2>4, LookupIsAsked DEF Oracle!Next
  <2> QED
    BY <1>2, <2>1, <2>2, <2>3, <2>4 DEF Next
<1>3. Init => CacheInv /\ Seen
  BY InitHolds, SeenAtFirst
<1>4. CacheInv /\ Seen /\ [Next]_vars => (CacheInv /\ Seen)'
  BY StepKeeps
<1> QED
  BY <1>1, <1>2, <1>3, <1>4, PTL DEF Spec, ImplementsOracle, Oracle!Spec

HIDE CacheAssumption

-------------------------------------------------------------------------------
(* The radar                                                               *)

USE VenuesAssumption, NumbersAssumption

(* What holds inside the section that each of the locks guards.            *)
SectionsKnow ==
  /\ \A v \in Venues :
       /\ task[v] = "okErrors" => health[v]
       /\ task[v] = "errHealth" => errorCount[v] >= Threshold
       /\ radar = "snapshot" => task[v] \in {"off", "breaker"}
  /\ checker \in {"resetHealth", "resetAgain"} => \E v \in Venues : resetting = {v}

(* A scan asks for what the filter lets through, and nothing else is in    *)
(* its map; so what the last scan skipped has no price in `previous'.      *)
SkippedIsForgotten ==
  /\ \A v \in Venues : \A p \in skippedBefore[v] : previous[v][p] = 0
  /\ radar = "join" =>
       \A v \in Venues :
         /\ task[v] # "off" => asked[v] = Analyzed(v)
         /\ \A p \in Pairs \ asked[v] : quoted[v][p] = 0

RadarTypes ==
  /\ health \in [Venues -> BOOLEAN] /\ errorCount \in [Venues -> 0 .. Threshold]
  /\ healthLock \in Venues \cup {Checker, NoOne}
  /\ errorLock \in Venues \cup {Checker, NoOne}
  /\ checker \in CheckerPlaces /\ resetting \subseteq Venues
  /\ radar \in RadarPlaces /\ task \in [Venues -> TaskPlaces]
  /\ asked \in [Venues -> SUBSET Pairs] /\ quoted \in Maps /\ previous \in Maps
  /\ channel \in 0 .. ChannelSize /\ skippedBefore \in [Venues -> SUBSET Pairs]

(* A guard is held by whoever stands in the section it opens.              *)
RadarGuards ==
  /\ healthLock = Checker <=> checker = "resetAgain"
  /\ errorLock = Checker <=> checker \in {"resetHealth", "resetAgain"}
  /\ \A v \in Venues : /\ healthLock = v <=> task[v] = "okErrors"
                       /\ errorLock = v <=> task[v] = "errHealth"
  /\ radar \notin {"snapshot", "join"} => task = NoTasks

LEMMA InvInParts == RadarInv <=> RadarTypes /\ RadarGuards
BY DEF RadarInv, RadarTypes, RadarGuards, Place, TaskPlaces, CheckerPlaces

RadarIInv == RadarTypes /\ RadarGuards /\ SectionsKnow /\ UnhealthyHasTripped /\ SkippedIsForgotten

LEMMA RadarInitHolds == RadarInit => RadarIInv
<1> SUFFICES ASSUME RadarInit PROVE RadarIInv
  OBVIOUS
<1>1. RadarTypes
  BY DEF RadarInit, RadarTypes, Maps, NoPrices, NoPairs, NoTasks, CheckerPlaces, RadarPlaces, TaskPlaces
<1>2. RadarGuards /\ SectionsKnow /\ UnhealthyHasTripped
  BY DEF RadarInit, RadarGuards, SectionsKnow, UnhealthyHasTripped, NoTasks
<1>3. SkippedIsForgotten
  BY DEF RadarInit, SkippedIsForgotten, NoPairs
<1> QED
  BY <1>1, <1>2, <1>3 DEF RadarIInv

-------------------------------------------------------------------------------
(* The radar's own steps.                                                  *)

(* Steps that only move the radar about outside a scan.                    *)
LEMMA IdleStepKeeps ==
  ASSUME RadarIInv,
         radar \notin {"snapshot", "join"}, radar' \in RadarPlaces \ {"snapshot", "join"},
         UNCHANGED <<managerVars, checkerVars, scanVars, skippedBefore, previous>>,
         channel' \in 0 .. ChannelSize
  PROVE  RadarIInv'
<1>1. RadarTypes'
  BY DEF RadarIInv, RadarTypes, managerVars, checkerVars, scanVars
<1>2. RadarGuards' /\ SectionsKnow' /\ UnhealthyHasTripped'
  BY DEF RadarIInv, RadarGuards, SectionsKnow, UnhealthyHasTripped, managerVars, checkerVars, scanVars
<1>3. SkippedIsForgotten'
  BY DEF RadarIInv, SkippedIsForgotten
<1> QED
  BY <1>1, <1>2, <1>3 DEF RadarIInv

LEMMA SubscribeKeeps == ASSUME RadarIInv, Subscribe PROVE RadarIInv'
<1>1. RadarTypes'
  BY DEF RadarIInv, RadarTypes, Subscribe, managerVars, checkerVars, scanVars, Maps, NoPrices, NoPairs,
         RadarPlaces
<1>2. RadarGuards' /\ SectionsKnow' /\ UnhealthyHasTripped'
  BY DEF RadarIInv, RadarGuards, SectionsKnow, UnhealthyHasTripped, Subscribe, managerVars, checkerVars,
         scanVars
<1>3. SkippedIsForgotten'
  BY DEF SkippedIsForgotten, Subscribe, NoPairs
<1> QED
  BY <1>1, <1>2, <1>3 DEF RadarIInv

LEMMA HealthyAdaptersKeeps == ASSUME RadarIInv, HealthyAdapters PROVE RadarIInv'
<1>1. /\ radar = "healthy" /\ radar' = "snapshot" /\ task = NoTasks
      /\ task' = [v \in Venues |-> IF health[v] THEN "breaker" ELSE "off"]
      /\ UNCHANGED <<managerVars, checkerVars, asked, quoted, previous, channel, skippedBefore>>
  BY DEF HealthyAdapters, RadarIInv, RadarGuards
<1>2. RadarTypes'
  BY <1>1 DEF RadarIInv, RadarTypes, managerVars, checkerVars, RadarPlaces, TaskPlaces
<1>3. RadarGuards' /\ SectionsKnow' /\ UnhealthyHasTripped'
  BY <1>1 DEF RadarIInv, RadarGuards, SectionsKnow, UnhealthyHasTripped, managerVars, checkerVars, NoTasks
<1>4. SkippedIsForgotten'
  BY <1>1 DEF RadarIInv, SkippedIsForgotten
<1> QED
  BY <1>2, <1>3, <1>4 DEF RadarIInv

LEMMA SnapshotKeeps == ASSUME RadarIInv, Snapshot PROVE RadarIInv'
<1>1. /\ radar = "snapshot" /\ radar' = "join" /\ quoted' = NoPrices
      /\ asked' = [v \in Venues |-> IF task[v] = "off" THEN {} ELSE Analyzed(v)]
      /\ task' = [v \in Venues |-> IF task[v] # "off" /\ asked'[v] = {} THEN "done" ELSE task[v]]
      /\ UNCHANGED <<managerVars, checkerVars, previous, channel, skippedBefore>>
  BY DEF Snapshot
<1>2. \A v \in Venues : task[v] \in {"off", "breaker"} /\ task'[v] \in {"off", "breaker", "done"}
  BY <1>1 DEF RadarIInv, SectionsKnow
<1>3. RadarTypes'
  <2>1. \A v \in Venues : Analyzed(v) \subseteq Pairs
    BY DEF Analyzed
  <2> QED
    BY <1>1, <1>2, <2>1 DEF RadarIInv, RadarTypes, managerVars, checkerVars, RadarPlaces, TaskPlaces, Maps,
       NoPrices
<1>4. RadarGuards' /\ SectionsKnow' /\ UnhealthyHasTripped'
  BY <1>1, <1>2 DEF RadarIInv, RadarGuards, SectionsKnow, UnhealthyHasTripped, managerVars, checkerVars
<1>5. SkippedIsForgotten'
  <2>1. \A v \in Venues : Analyzed(v)' = Analyzed(v)
    BY <1>1 DEF Analyzed, ShouldAnalyze, Others, AtMedian, Smallest
  <2>2. \A v \in Venues : task'[v] # "off" => asked'[v] = Analyzed(v)
    BY <1>1
  <2> QED
    BY <1>1, <2>1, <2>2 DEF RadarIInv, SkippedIsForgotten, NoPrices
<1> QED
  BY <1>3, <1>4, <1>5 DEF RadarIInv

LEMMA SnapshotFailsKeeps == ASSUME RadarIInv, SnapshotFails PROVE RadarIInv'
<1>1. /\ radar = "snapshot" /\ radar' = "wait" /\ task' = NoTasks
      /\ UNCHANGED <<managerVars, checkerVars, asked, quoted, previous, channel, skippedBefore>>
  BY DEF SnapshotFails
<1>2. RadarTypes'
  BY <1>1 DEF RadarIInv, RadarTypes, managerVars, checkerVars, RadarPlaces, TaskPlaces, NoTasks
<1>3. RadarGuards' /\ SectionsKnow' /\ UnhealthyHasTripped'
  BY <1>1 DEF RadarIInv, RadarGuards, SectionsKnow, UnhealthyHasTripped, managerVars, checkerVars, NoTasks
<1>4. SkippedIsForgotten'
  BY <1>1 DEF RadarIInv, SkippedIsForgotten
<1> QED
  BY <1>2, <1>3, <1>4 DEF RadarIInv

LEMMA JoinedKeeps == ASSUME RadarIInv, Joined PROVE RadarIInv'
<1>1. /\ radar = "join" /\ radar' \in {"wait", "send"}
      /\ \A v \in Venues : task[v] \in {"off", "done"}
      /\ previous' = quoted /\ skippedBefore' = Skipped
      /\ task' = NoTasks /\ asked' = NoPairs /\ quoted' = NoPrices
      /\ UNCHANGED <<managerVars, checkerVars, channel>>
  BY DEF Joined, Remember
<1>2. RadarTypes'
  BY <1>1 DEF RadarIInv, RadarTypes, managerVars, checkerVars, RadarPlaces, TaskPlaces, NoTasks, NoPairs,
     NoPrices, Maps, Skipped
<1>3. RadarGuards' /\ SectionsKnow' /\ UnhealthyHasTripped'
  BY <1>1 DEF RadarIInv, RadarGuards, SectionsKnow, UnhealthyHasTripped, managerVars, checkerVars, NoTasks
<1>4. SkippedIsForgotten'
  BY <1>1 DEF RadarIInv, SkippedIsForgotten, Skipped
<1> QED
  BY <1>2, <1>3, <1>4 DEF RadarIInv

(* The time limit: the guards of the dropped tasks open.                   *)
LEMMA CycleTimeoutKeeps == ASSUME RadarIInv, CycleTimeout PROVE RadarIInv'
<1>1. /\ radar' = "down" /\ task' = NoTasks /\ asked' = NoPairs /\ quoted' = NoPrices
      /\ healthLock' = (IF healthLock \in Venues THEN NoOne ELSE healthLock)
      /\ errorLock' = (IF errorLock \in Venues THEN NoOne ELSE errorLock)
      /\ UNCHANGED <<health, errorCount, checkerVars, previous, channel, skippedBefore>>
  BY DEF CycleTimeout, Cancelled
<1>2. RadarTypes'
  BY <1>1 DEF RadarIInv, RadarTypes, checkerVars, RadarPlaces, TaskPlaces, NoTasks, NoPairs, NoPrices, Maps
<1>3. RadarGuards' /\ SectionsKnow' /\ UnhealthyHasTripped'
  BY <1>1 DEF RadarIInv, RadarTypes, RadarGuards, SectionsKnow, UnhealthyHasTripped, checkerVars, NoTasks
<1>4. SkippedIsForgotten'
  BY <1>1 DEF RadarIInv, SkippedIsForgotten
<1> QED
  BY <1>2, <1>3, <1>4 DEF RadarIInv

-------------------------------------------------------------------------------
(* The tasks.                                                              *)

(* The filter's books do not change while tasks run.                       *)
LEMMA ScanKeeps ==
  ASSUME RadarIInv, radar = "join", NEW v \in Venues, task[v] # "off", NEW place \in TaskPlaces \ {"off"},
         Goto(v, place), UNCHANGED <<radar, asked, quoted, previous, skippedBefore>>
  PROVE  SkippedIsForgotten'
<1>1. \A u \in Venues : Analyzed(u)' = Analyzed(u)
  BY DEF Analyzed, ShouldAnalyze, Others, AtMedian, Smallest
<1>2. \A u \in Venues : task'[u] # "off" => task[u] # "off"
  BY DEF RadarIInv, RadarTypes, Goto
<1> QED
  BY <1>1, <1>2 DEF RadarIInv, SkippedIsForgotten

(* A task moves to a place outside both sections, from one outside.        *)
LEMMA BreakerKeeps ==
  ASSUME RadarIInv, NEW v \in Venues, Breaker(v) \/ Multicall(v)
  PROVE  RadarIInv'
<1>1. PICK place \in {"done", "multicall", "okHealth", "errCount"} : Goto(v, place)
  BY DEF Breaker, Multicall
<1>2. /\ radar = "join" /\ task[v] \in {"breaker", "multicall"}
      /\ UNCHANGED <<managerVars, checkerVars, radar, asked, quoted, previous, channel,
                     skippedBefore>>
  BY DEF Breaker, Multicall, At
<1>3. RadarTypes'
  BY <1>1, <1>2 DEF RadarIInv, RadarTypes, managerVars, checkerVars, Goto, TaskPlaces
<1>4. RadarGuards' /\ SectionsKnow' /\ UnhealthyHasTripped'
  BY <1>1, <1>2 DEF RadarIInv, RadarTypes, RadarGuards, SectionsKnow, UnhealthyHasTripped, managerVars,
     checkerVars, Goto
<1>5. SkippedIsForgotten'
  BY <1>1, <1>2, ScanKeeps DEF TaskPlaces
<1> QED
  BY <1>3, <1>4, <1>5 DEF RadarIInv

LEMMA OkHealthKeeps == ASSUME RadarIInv, NEW v \in Venues, OkHealth(v) PROVE RadarIInv'
<1>1. /\ radar = "join" /\ task[v] = "okHealth" /\ healthLock = NoOne /\ healthLock' = v
      /\ health' = [health EXCEPT ![v] = TRUE] /\ task' = [task EXCEPT ![v] = "okErrors"]
      /\ UNCHANGED <<errorCount, errorLock, checkerVars, radar, asked, quoted, previous, channel,
                     skippedBefore>>
  BY DEF OkHealth, At, Goto
<1>2. RadarTypes'
  BY <1>1 DEF RadarIInv, RadarTypes, checkerVars, TaskPlaces
<1>3. RadarGuards'
  BY <1>1 DEF RadarIInv, RadarTypes, RadarGuards, checkerVars
<1>4. SectionsKnow' /\ UnhealthyHasTripped'
  BY <1>1 DEF RadarIInv, RadarTypes, SectionsKnow, UnhealthyHasTripped, checkerVars
<1>5. SkippedIsForgotten'
  BY <1>1, ScanKeeps DEF TaskPlaces, Goto
<1> QED
  BY <1>2, <1>3, <1>4, <1>5 DEF RadarIInv

LEMMA OkErrorsKeeps == ASSUME RadarIInv, NEW v \in Venues, OkErrors(v) PROVE RadarIInv'
<1>1. /\ radar = "join" /\ task[v] = "okErrors" /\ errorLock = NoOne /\ healthLock' = NoOne
      /\ errorCount' = [errorCount EXCEPT ![v] = 0] /\ task' = [task EXCEPT ![v] = "gate"]
      /\ UNCHANGED <<health, errorLock, checkerVars, radar, asked, quoted, previous, channel,
                     skippedBefore>>
  BY DEF OkErrors, At, Goto
<1>2. RadarTypes'
  BY <1>1 DEF RadarIInv, RadarTypes, checkerVars, TaskPlaces
<1>3. RadarGuards'
  BY <1>1 DEF RadarIInv, RadarTypes, RadarGuards, checkerVars
<1>4. SectionsKnow' /\ UnhealthyHasTripped'
  BY <1>1 DEF RadarIInv, RadarTypes, RadarGuards, SectionsKnow, UnhealthyHasTripped, checkerVars
<1>5. SkippedIsForgotten'
  BY <1>1, ScanKeeps DEF TaskPlaces, Goto
<1> QED
  BY <1>2, <1>3, <1>4, <1>5 DEF RadarIInv

LEMMA ErrCountKeeps == ASSUME RadarIInv, NEW v \in Venues, ErrCount(v) PROVE RadarIInv'
<1>1. /\ radar = "join" /\ task[v] = "errCount" /\ errorLock = NoOne
      /\ errorCount' = [errorCount EXCEPT ![v] = IF @ < Threshold THEN @ + 1 ELSE @]
      /\ \/ /\ errorCount[v] + 1 >= Threshold /\ errorLock' = v
            /\ task' = [task EXCEPT ![v] = "errHealth"]
         \/ errorLock' = errorLock /\ task' = [task EXCEPT ![v] = "gate"]
      /\ UNCHANGED <<health, healthLock, checkerVars, radar, asked, quoted, previous, channel,
                     skippedBefore>>
  BY DEF ErrCount, Trips, At, Goto
<1>2. RadarTypes'
  BY <1>1 DEF RadarIInv, RadarTypes, checkerVars, TaskPlaces
<1>3. RadarGuards'
  BY <1>1 DEF RadarIInv, RadarTypes, RadarGuards, checkerVars
<1>4. SectionsKnow' /\ UnhealthyHasTripped'
  BY <1>1 DEF RadarIInv, RadarTypes, RadarGuards, SectionsKnow, UnhealthyHasTripped, checkerVars
<1>5. SkippedIsForgotten'
  BY <1>1, ScanKeeps DEF TaskPlaces, Goto
<1> QED
  BY <1>2, <1>3, <1>4, <1>5 DEF RadarIInv

LEMMA ErrHealthKeeps == ASSUME RadarIInv, NEW v \in Venues, ErrHealth(v) PROVE RadarIInv'
<1>1. /\ radar = "join" /\ task[v] = "errHealth" /\ healthLock = NoOne /\ errorLock' = NoOne
      /\ health' = [health EXCEPT ![v] = FALSE] /\ task' = [task EXCEPT ![v] = "gate"]
      /\ UNCHANGED <<errorCount, healthLock, checkerVars, radar, asked, quoted, previous, channel,
                     skippedBefore>>
  BY DEF ErrHealth, At, Goto
<1>2. RadarTypes'
  BY <1>1 DEF RadarIInv, RadarTypes, checkerVars, TaskPlaces
<1>3. RadarGuards'
  BY <1>1 DEF RadarIInv, RadarTypes, RadarGuards, checkerVars
<1>4. SectionsKnow' /\ UnhealthyHasTripped'
  BY <1>1 DEF RadarIInv, RadarTypes, RadarGuards, SectionsKnow, UnhealthyHasTripped, checkerVars
<1>5. SkippedIsForgotten'
  BY <1>1, ScanKeeps DEF TaskPlaces, Goto
<1> QED
  BY <1>2, <1>3, <1>4, <1>5 DEF RadarIInv

LEMMA GateKeeps == ASSUME RadarIInv, NEW v \in Venues, Gate(v) PROVE RadarIInv'
<1>1. PICK prices \in [Pairs -> Levels \cup {0}] :
        /\ \A p \in Pairs \ asked[v] : prices[p] = 0
        /\ quoted' = [quoted EXCEPT ![v] = prices]
  BY DEF Gate
<1>2. /\ radar = "join" /\ task[v] = "gate" /\ task' = [task EXCEPT ![v] = "done"]
      /\ UNCHANGED <<managerVars, checkerVars, radar, asked, previous, channel, skippedBefore>>
  BY DEF Gate, At, Goto
<1>3. RadarTypes'
  BY <1>1, <1>2 DEF RadarIInv, RadarTypes, managerVars, checkerVars, TaskPlaces, Maps
<1>4. RadarGuards' /\ SectionsKnow' /\ UnhealthyHasTripped'
  BY <1>2 DEF RadarIInv, RadarTypes, RadarGuards, SectionsKnow, UnhealthyHasTripped, managerVars, checkerVars
<1>5. SkippedIsForgotten'
  <2>1. \A u \in Venues : Analyzed(u)' = Analyzed(u)
    BY <1>2 DEF Analyzed, ShouldAnalyze, Others, AtMedian, Smallest
  <2>2. \A u \in Venues : task'[u] # "off" => task[u] # "off"
    BY <1>2 DEF RadarIInv, RadarTypes
  <2>3. \A u \in Venues : \A p \in Pairs \ asked[u] : quoted'[u][p] = 0
    BY <1>1, <1>2 DEF RadarIInv, RadarTypes, Maps, SkippedIsForgotten
  <2> QED
    BY <1>2, <2>1, <2>2, <2>3 DEF RadarIInv, SkippedIsForgotten
<1> QED
  BY <1>3, <1>4, <1>5 DEF RadarIInv

-------------------------------------------------------------------------------
(* The health checker.                                                     *)

LEMMA CheckerKeeps == ASSUME RadarIInv, CheckerStep PROVE RadarIInv'
<1>1. UNCHANGED <<radar, scanVars, previous, channel, skippedBefore>>
  BY DEF CheckerStep, ListUnhealthy, ResetErrors, ResetHealth
<1>2. SkippedIsForgotten'
  <2>1. \A u \in Venues : Analyzed(u)' = Analyzed(u)
    BY <1>1 DEF Analyzed, ShouldAnalyze, Others, AtMedian, Smallest
  <2> QED
    BY <1>1, <2>1 DEF RadarIInv, SkippedIsForgotten, scanVars
<1>3. CASE ListUnhealthy
  <2>1. /\ checker = "sleep" /\ checker' \in {"sleep", "resetErrors"}
        /\ resetting' \subseteq Venues /\ UNCHANGED managerVars
    BY <1>3 DEF ListUnhealthy
  <2>2. RadarTypes'
    BY <1>1, <2>1 DEF RadarIInv, RadarTypes, managerVars, scanVars, CheckerPlaces
  <2>3. RadarGuards' /\ SectionsKnow' /\ UnhealthyHasTripped'
    BY <1>1, <2>1 DEF RadarIInv, RadarGuards, SectionsKnow, UnhealthyHasTripped, managerVars, scanVars
  <2> QED
    BY <1>2, <2>2, <2>3 DEF RadarIInv
<1>4. ASSUME NEW v \in Venues, ResetErrors(v) PROVE RadarIInv'
  <2>1. /\ checker = "resetErrors" /\ errorLock = NoOne /\ errorLock' = Checker
        /\ errorCount' = [errorCount EXCEPT ![v] = 0] /\ resetting' = {v}
        /\ checker' = "resetHealth" /\ UNCHANGED <<health, healthLock>>
    BY <1>4 DEF ResetErrors
  <2>2. RadarTypes'
    BY <1>1, <2>1 DEF RadarIInv, RadarTypes, scanVars, CheckerPlaces
  <2>3. RadarGuards'
    BY <1>1, <2>1 DEF RadarIInv, RadarTypes, RadarGuards, scanVars
  <2>4. SectionsKnow' /\ UnhealthyHasTripped'
    BY <1>1, <2>1 DEF RadarIInv, RadarTypes, RadarGuards, SectionsKnow, UnhealthyHasTripped, scanVars
  <2> QED
    BY <1>2, <2>2, <2>3, <2>4 DEF RadarIInv
<1>5. ASSUME NEW v \in Venues, ResetHealth(v) PROVE RadarIInv'
  <2>1. /\ checker = "resetHealth" /\ healthLock = NoOne /\ healthLock' = Checker
        /\ v \in resetting /\ health' = [health EXCEPT ![v] = TRUE]
        /\ checker' = "resetAgain" /\ UNCHANGED <<errorCount, errorLock, resetting>>
    BY <1>5 DEF ResetHealth
  <2>2. RadarTypes'
    BY <1>1, <2>1 DEF RadarIInv, RadarTypes, scanVars, CheckerPlaces
  <2>3. RadarGuards'
    BY <1>1, <2>1 DEF RadarIInv, RadarTypes, RadarGuards, scanVars
  <2>4. SectionsKnow' /\ UnhealthyHasTripped'
    BY <1>1, <2>1 DEF RadarIInv, RadarTypes, RadarGuards, SectionsKnow, UnhealthyHasTripped, scanVars
  <2> QED
    BY <1>2, <2>2, <2>3, <2>4 DEF RadarIInv
<1> QED
  BY <1>3, <1>4, <1>5 DEF CheckerStep

-------------------------------------------------------------------------------
LEMMA RadarStepKeeps == RadarIInv /\ [RadarNext]_radarVars => RadarIInv'
<1> SUFFICES ASSUME RadarIInv, [RadarNext]_radarVars PROVE RadarIInv'
  OBVIOUS
<1>1. CASE Subscribe
  BY <1>1, SubscribeKeeps
<1>2. CASE Block \/ StreamLost \/ Send \/ (Receive /\ radar \notin {"snapshot", "join"})
  <2>1. radar \notin {"snapshot", "join"} /\ radar' \in RadarPlaces \ {"snapshot", "join"}
    BY <1>2 DEF Block, StreamLost, Send, Receive, RadarPlaces, RadarIInv, RadarTypes
  <2>2. /\ UNCHANGED <<managerVars, checkerVars, scanVars, skippedBefore, previous>>
        /\ channel' \in 0 .. ChannelSize
    BY <1>2 DEF Block, StreamLost, Send, Receive, RadarIInv, RadarTypes
  <2> QED
    BY <2>1, <2>2, IdleStepKeeps
<1>3. CASE (Receive /\ radar \in {"snapshot", "join"}) \/ UNCHANGED radarVars
  <2>1. /\ UNCHANGED <<managerVars, checkerVars, radar, scanVars, previous, skippedBefore>>
        /\ channel' \in 0 .. ChannelSize
    BY <1>3 DEF Receive, radarVars, RadarIInv, RadarTypes
  <2>2. \A u \in Venues : Analyzed(u)' = Analyzed(u)
    BY <2>1 DEF Analyzed, ShouldAnalyze, Others, AtMedian, Smallest
  <2>3. RadarTypes' /\ RadarGuards'
    BY <2>1 DEF RadarIInv, RadarTypes, RadarGuards, managerVars, checkerVars, scanVars
  <2>4. SectionsKnow' /\ UnhealthyHasTripped'
    BY <2>1 DEF RadarIInv, SectionsKnow, UnhealthyHasTripped, managerVars, checkerVars, scanVars
  <2>5. SkippedIsForgotten'
    BY <2>1, <2>2 DEF RadarIInv, SkippedIsForgotten, scanVars
  <2> QED
    BY <2>3, <2>4, <2>5 DEF RadarIInv
<1>4. CASE HealthyAdapters
  BY <1>4, HealthyAdaptersKeeps
<1>5. CASE Snapshot \/ SnapshotFails
  BY <1>5, SnapshotKeeps, SnapshotFailsKeeps
<1>6. CASE Joined
  BY <1>6, JoinedKeeps
<1>7. CASE CycleTimeout
  BY <1>7, CycleTimeoutKeeps
<1>8. CASE \E v \in Venues : TaskStep(v)
  BY <1>8, BreakerKeeps, OkHealthKeeps, OkErrorsKeeps, ErrCountKeeps, ErrHealthKeeps, GateKeeps
     DEF TaskStep
<1>9. CASE CheckerStep
  BY <1>9, CheckerKeeps
<1> QED
  BY <1>1, <1>2, <1>3, <1>4, <1>5, <1>6, <1>7, <1>8, <1>9 DEF RadarNext, RadarStep

LEMMA RadarInductive == RadarSpec => []RadarIInv
BY RadarInitHolds, RadarStepKeeps, PTL DEF RadarSpec

(* RadarTypes, and the locks belong to whoever stands in their sections.        *)
THEOREM RadarInvariant == RadarSpec => []RadarInv
<1>1. RadarIInv => RadarInv
  BY InvInParts DEF RadarIInv
<1> QED
  BY <1>1, RadarInductive, PTL

(* No cancelled cycle, and no order in which tasks and checker take the    *)
(* two locks, leaves a venue with a closed breaker out of the scans.       *)
THEOREM ClosedBreakerIsScanned == RadarSpec => []UnhealthyHasTripped
<1>1. RadarIInv => UnhealthyHasTripped
  BY DEF RadarIInv
<1> QED
  BY <1>1, RadarInductive, PTL

(* The filter never skips a pair of a venue in two scans running.          *)
THEOREM NoPairStarves == RadarSpec => []NoPairIsSkippedTwice
<1>1. RadarIInv => NoPairIsSkippedTwice
  <2> SUFFICES ASSUME RadarIInv, radar = "join", NEW v \in Venues, task[v] # "off",
                      NEW p \in Pairs \ asked[v], p \in skippedBefore[v]
               PROVE  FALSE
    BY DEF NoPairIsSkippedTwice
  <2>1. p \notin Analyzed(v) /\ previous[v][p] = 0
    BY DEF RadarIInv, SkippedIsForgotten
  <2> QED
    BY <2>1 DEF Analyzed, ShouldAnalyze
<1> QED
  BY <1>1, RadarInductive, PTL

===============================================================================
