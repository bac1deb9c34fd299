--------------------------------- MODULE Radar ---------------------------------
(***************************************************************************)
(* The price radar: start_high_hit_rate_radar, execute_radar_cycle and     *)
(* collect_dex_prices of src/dex/radar.rs around the DexManager of         *)
(* src/dex/manager.rs, whose health map and error counts every venue's     *)
(* task and the health checker write under two asynchronous locks.         *)
(*                                                                         *)
(* A cycle starts at each block and runs under CYCLE_TIMEOUT (15 s).  When *)
(* it fires, the cycle's future is dropped wherever it awaits and with it  *)
(* the JoinSet: the tasks stop where they are and their guards open.  The  *)
(* manager's own MULTICALL_TOTAL_TIMEOUT (30 s) cannot fire inside a cycle.*)
(*                                                                         *)
(* Readers of the locks hold them for no await, so only writers are kept.  *)
(* A price is 0 (no usable quote) or a level: two levels differ by the     *)
(* filter's minimum spread or more.  Pairs are directional.                *)
(***************************************************************************)
EXTENDS Integers, FiniteSets

CONSTANTS
  Venues,        \* the adapters DexManager::new could build
  Pairs,         \* the pairs of generate_full_pair_list
  Levels,        \* distinguishable prices
  Threshold,     \* CIRCUIT_BREAKER_THRESHOLD
  FilterEnabled, \* optimization.quick_filter_enabled
  ChannelSize,   \* capacity of the price channel
  Checker, NoOne \* the health checker as a holder of a lock; no holder

ASSUME VenuesAssumption ==
  /\ IsFiniteSet(Venues) /\ Checker \notin Venues /\ NoOne \notin Venues
  /\ Checker # NoOne
ASSUME NumbersAssumption ==
  /\ Threshold \in Nat \ {0} /\ ChannelSize \in Nat \ {0}
  /\ Levels \subseteq Nat \ {0} /\ FilterEnabled \in BOOLEAN

VARIABLES
  health,       \* DexManager.health
  errorCount,   \* DexManager.error_count, saturating at Threshold
  healthLock,   \* who holds health for writing
  errorLock,    \* who holds error_count for writing
  checker,      \* the health checker's await
  resetting,    \* the venue it resets and those it has left
  radar,        \* the radar's await
  task,         \* the await of each venue's task
  asked,        \* the pairs its filter let through
  quoted,       \* the map it returns
  previous,     \* the map of the last scan
  channel,      \* maps waiting in the price channel
  skippedBefore \* ghost: pairs the filter dropped in the scan of `previous'

managerVars == <<health, errorCount, healthLock, errorLock>>
checkerVars == <<checker, resetting>>
scanVars == <<task, asked, quoted>>
radarVars == <<managerVars, checkerVars, radar, scanVars, previous, channel, skippedBefore>>

RadarPlaces == {"down", "wait", "healthy", "snapshot", "join", "send"}
TaskPlaces == {"off", "breaker", "multicall", "okHealth", "okErrors",
               "errCount", "errHealth", "gate", "done"}
CheckerPlaces == {"sleep", "list", "resetErrors", "resetHealth", "resetAgain"}
Maps == [Venues -> [Pairs -> Levels \cup {0}]]
NoPrices == [v \in Venues |-> [p \in Pairs |-> 0]]
NoPairs == [v \in Venues |-> {}]
NoTasks == [v \in Venues |-> "off"]

RadarInit ==
  /\ health = [v \in Venues |-> TRUE]
  /\ errorCount = [v \in Venues |-> 0]
  /\ healthLock = NoOne /\ errorLock = NoOne
  /\ checker = "sleep" /\ resetting = {}
  /\ radar = "down"
  /\ task = NoTasks /\ asked = NoPairs /\ quoted = NoPrices
  /\ previous = NoPrices
  /\ channel = 0
  /\ skippedBefore = NoPairs

-------------------------------------------------------------------------------
(* The radar's loop                                                        *)

(* The stream is subscribed and the loop entered with nothing remembered.  *)
Subscribe ==
  /\ radar = "down"
  /\ radar' = "wait"
  /\ previous' = NoPrices /\ skippedBefore' = NoPairs
  /\ UNCHANGED <<managerVars, checkerVars, scanVars, channel>>

Block ==
  /\ radar = "wait"
  /\ radar' = "healthy"
  /\ UNCHANGED <<managerVars, checkerVars, scanVars, previous, channel, skippedBefore>>

(* The stream closes, or BLOCK_TIMEOUT goes by without a block: Err, and   *)
(* the supervisor starts the radar again.                                  *)
StreamLost ==
  /\ radar = "wait"
  /\ radar' = "down"
  /\ UNCHANGED <<managerVars, checkerVars, scanVars, previous, channel, skippedBefore>>

(* DexManager::get_healthy_adapters                                        *)
HealthyAdapters ==
  /\ radar = "healthy" /\ healthLock = NoOne
  /\ radar' = "snapshot"
  /\ task' = [v \in Venues |-> IF health[v] THEN "breaker" ELSE "off"]
  /\ UNCHANGED <<managerVars, checkerVars, asked, quoted, previous, channel, skippedBefore>>

(* HighHitRateFilter::should_analyze_dex_pair: a pair is left out when the *)
(* venue and others quoted it last time and its price is at their median,  *)
(* the mean of the two middle ones when they are even in number.           *)
Others(v, p) == {w \in Venues \ {v} : previous[w][p] # 0}
Smallest(v, p, k) ==
  CHOOSE m \in Levels :
    /\ Cardinality({w \in Others(v, p) : previous[w][p] < m}) < k
    /\ Cardinality({w \in Others(v, p) : previous[w][p] <= m}) >= k
AtMedian(v, p) ==
  LET n == Cardinality(Others(v, p)) IN
  2 * previous[v][p] = Smallest(v, p, (n + 1) \div 2) + Smallest(v, p, n \div 2 + 1)
ShouldAnalyze(v, p) ==
  ~FilterEnabled \/ previous[v][p] = 0 \/ Others(v, p) = {} \/ ~AtMedian(v, p)
Analyzed(v) == {p \in Pairs : ShouldAnalyze(v, p)}

(* The block of the snapshot is read; each healthy venue's task starts with*)
(* what its filter lets through and ends at once when that is nothing.     *)
(* When the read fails the cycle ends in an error that is only logged.     *)
Snapshot ==
  /\ radar = "snapshot"
  /\ radar' = "join"
  /\ asked' = [v \in Venues |-> IF task[v] = "off" THEN {} ELSE Analyzed(v)]
  /\ task' = [v \in Venues |-> IF task[v] # "off" /\ asked'[v] = {} THEN "done" ELSE task[v]]
  /\ quoted' = NoPrices
  /\ UNCHANGED <<managerVars, checkerVars, previous, channel, skippedBefore>>

SnapshotFails ==
  /\ radar = "snapshot"
  /\ radar' = "wait"
  /\ task' = NoTasks
  /\ UNCHANGED <<managerVars, checkerVars, asked, quoted, previous, channel, skippedBefore>>

(* Every task has been joined: `previous' takes the scan's map before the  *)
(* channel does, and an empty map is not sent.                             *)
Skipped == [v \in Venues |-> IF task[v] = "off" THEN {} ELSE Pairs \ asked[v]]

(* Mutant: the map of the scan is laid over the one before.                *)
RememberBoth(map) ==
  previous' = [v \in Venues |-> [p \in Pairs |-> IF map[v][p] # 0 THEN map[v][p] ELSE previous[v][p]]]

Remember(map) == previous' = map
Joined ==
  /\ radar = "join"
  /\ \A v \in Venues : task[v] \in {"off", "done"}
  /\ Remember(quoted)
  /\ skippedBefore' = Skipped
  /\ radar' = IF quoted = NoPrices THEN "wait" ELSE "send"
  /\ task' = NoTasks /\ asked' = NoPairs /\ quoted' = NoPrices
  /\ UNCHANGED <<managerVars, checkerVars, channel>>

Send ==
  /\ radar = "send" /\ channel < ChannelSize
  /\ channel' = channel + 1
  /\ radar' = "wait"
  /\ UNCHANGED <<managerVars, checkerVars, scanVars, previous, skippedBefore>>

(* CYCLE_TIMEOUT, at any await of the cycle.                               *)
Cancelled(lock) == IF lock \in Venues THEN NoOne ELSE lock
Interruptible == {"healthy", "snapshot", "join", "send"}
CycleTimeout ==
  /\ radar \in Interruptible
  /\ radar' = "down"
  /\ task' = NoTasks /\ asked' = NoPairs /\ quoted' = NoPrices
  /\ healthLock' = Cancelled(healthLock) /\ errorLock' = Cancelled(errorLock)
  /\ UNCHANGED <<health, errorCount, checkerVars, previous, channel, skippedBefore>>

(* The executor takes a map; nothing says when.                            *)
Receive ==
  /\ channel > 0
  /\ channel' = channel - 1
  /\ UNCHANGED <<managerVars, checkerVars, radar, scanVars, previous, skippedBefore>>

-------------------------------------------------------------------------------
(* The task of a venue: DexManager::get_prices_multicall, then the         *)
(* liquidity gate and the price window of collect_dex_prices               *)

Goto(v, place) == task' = [task EXCEPT ![v] = place]
At(v, place) == radar = "join" /\ task[v] = place

(* should_circuit_break: an open breaker yields no prices and no error.    *)
Breaker(v) ==
  /\ At(v, "breaker") /\ errorLock = NoOne
  /\ Goto(v, IF errorCount[v] >= Threshold THEN "done" ELSE "multicall")
  /\ UNCHANGED <<managerVars, checkerVars, radar, asked, quoted, previous, channel, skippedBefore>>

(* The adapter's multicall; it may also never return.                      *)
Multicall(v) ==
  /\ At(v, "multicall")
  /\ Goto(v, "okHealth") \/ Goto(v, "errCount")
  /\ UNCHANGED <<managerVars, checkerVars, radar, asked, quoted, previous, channel, skippedBefore>>

(* mark_healthy takes health, then error_count.                            *)
OkHealth(v) ==
  /\ At(v, "okHealth") /\ healthLock = NoOne
  /\ healthLock' = v
  /\ health' = [health EXCEPT ![v] = TRUE]
  /\ Goto(v, "okErrors")
  /\ UNCHANGED <<errorCount, errorLock, checkerVars, radar, asked, quoted, previous, channel, skippedBefore>>

OkErrors(v) ==
  /\ At(v, "okErrors") /\ errorLock = NoOne
  /\ errorCount' = [errorCount EXCEPT ![v] = 0]
  /\ healthLock' = NoOne
  /\ Goto(v, "gate")
  /\ UNCHANGED <<health, errorLock, checkerVars, radar, asked, quoted, previous, channel, skippedBefore>>

(* record_error takes error_count and, at the threshold, keeps it while it *)
(* waits for health.                                                       *)
Trips(count) == count >= Threshold
ErrCount(v) ==
  /\ At(v, "errCount") /\ errorLock = NoOne
  /\ errorCount' = [errorCount EXCEPT ![v] = IF @ < Threshold THEN @ + 1 ELSE @]
  /\ IF Trips(errorCount[v] + 1)
     THEN errorLock' = v /\ Goto(v, "errHealth")
     ELSE errorLock' = errorLock /\ Goto(v, "gate")
  /\ UNCHANGED <<health, healthLock, checkerVars, radar, asked, quoted, previous, channel, skippedBefore>>

(* mark_unhealthy                                                          *)
ErrHealth(v) ==
  /\ At(v, "errHealth") /\ healthLock = NoOne
  /\ health' = [health EXCEPT ![v] = FALSE]
  /\ errorLock' = NoOne
  /\ Goto(v, "gate")
  /\ UNCHANGED <<errorCount, healthLock, checkerVars, radar, asked, quoted, previous, channel, skippedBefore>>

(* After the multicall's prices, or the ones get_prices_fallback asked for *)
(* one by one, any of the pairs asked for may have a price left: a quote   *)
(* may be missing, the pool too thin or the price outside the window.      *)
Gate(v) ==
  /\ At(v, "gate")
  /\ \E prices \in [Pairs -> Levels \cup {0}] :
       /\ \A p \in Pairs \ asked[v] : prices[p] = 0
       /\ quoted' = [quoted EXCEPT ![v] = prices]
  /\ Goto(v, "done")
  /\ UNCHANGED <<managerVars, checkerVars, radar, asked, previous, channel, skippedBefore>>

-------------------------------------------------------------------------------
(* start_health_checker, every HEALTH_CHECK_INTERVAL                       *)

ListUnhealthy ==
  /\ checker = "sleep" /\ healthLock = NoOne
  /\ resetting' = {v \in Venues : ~health[v]}
  /\ checker' = IF resetting' = {} THEN "sleep" ELSE "resetErrors"
  /\ UNCHANGED <<managerVars, radar, scanVars, previous, channel, skippedBefore>>

(* reset_circuit_breaker writes error_count and keeps its guard ...        *)
ResetErrors(v) ==
  /\ checker = "resetErrors" /\ errorLock = NoOne /\ v \in resetting
  /\ errorLock' = Checker
  /\ errorCount' = [errorCount EXCEPT ![v] = 0]
  /\ resetting' = {v}
  /\ checker' = "resetHealth"
  /\ UNCHANGED <<health, healthLock, radar, scanVars, previous, channel, skippedBefore>>

(* ... while mark_healthy writes health and keeps that guard ...           *)
ResetHealth(v) ==
  /\ checker = "resetHealth" /\ healthLock = NoOne /\ v \in resetting
  /\ healthLock' = Checker
  /\ health' = [health EXCEPT ![v] = TRUE]
  /\ checker' = "resetAgain"
  /\ UNCHANGED <<errorCount, errorLock, resetting, radar, scanVars, previous, channel, skippedBefore>>

(* ... and waits for error_count, which its own caller holds.  The lock is *)
(* not reentrant: nothing of the checker follows.                          *)

-------------------------------------------------------------------------------
TaskStep(v) ==
  \/ Breaker(v) \/ Multicall(v) \/ OkHealth(v) \/ OkErrors(v)
  \/ ErrCount(v) \/ ErrHealth(v) \/ Gate(v)

CheckerStep == ListUnhealthy \/ \E v \in Venues : ResetErrors(v) \/ ResetHealth(v)

RadarStep ==
  \/ Subscribe \/ Block \/ HealthyAdapters \/ Snapshot \/ Joined \/ Send

RadarNext ==
  \/ RadarStep \/ StreamLost \/ SnapshotFails \/ CycleTimeout \/ Receive
  \/ \E v \in Venues : TaskStep(v)
  \/ CheckerStep

RadarSpec == RadarInit /\ [][RadarNext]_radarVars

-------------------------------------------------------------------------------
(* Types and the shape of the locks: a guard is held exactly by the task   *)
(* or the checker that stands inside the section it opens, and tasks run   *)
(* only inside a cycle.                                                    *)
Place(h) == IF h = Checker THEN checker ELSE task[h]
RadarInv ==
  /\ health \in [Venues -> BOOLEAN] /\ errorCount \in [Venues -> 0 .. Threshold]
  /\ healthLock \in Venues \cup {Checker, NoOne}
  /\ errorLock \in Venues \cup {Checker, NoOne}
  /\ checker \in CheckerPlaces /\ resetting \subseteq Venues
  /\ radar \in RadarPlaces /\ task \in [Venues -> TaskPlaces]
  /\ asked \in [Venues -> SUBSET Pairs] /\ quoted \in Maps /\ previous \in Maps
  /\ channel \in 0 .. ChannelSize /\ skippedBefore \in [Venues -> SUBSET Pairs]
  /\ \A h \in Venues \cup {Checker} :
       /\ healthLock = h <=> Place(h) \in {"okErrors", "resetAgain"}
       /\ errorLock = h <=> Place(h) \in {"errHealth", "resetHealth", "resetAgain"}
  /\ radar \notin {"snapshot", "join"} => task = NoTasks

(* A pair whose price stood still is dropped from the scan, and so from    *)
(* `previous', which is what makes the filter let it through next time: no *)
(* venue goes two scans in a row without quoting a pair it serves, however *)
(* scans fail, time out and restart in between                             *)
(* (HighHitRateFilter and the `*previous = out' of execute_radar_cycle).   *)
NoPairIsSkippedTwice ==
  radar = "join" =>
    \A v \in Venues : task[v] # "off" => (Pairs \ asked[v]) \cap skippedBefore[v] = {}

(* A venue is taken off the radar's list only while its breaker is open or *)
(* the health checker is resetting it: no cancelled cycle and no order of  *)
(* mark_healthy, record_error and reset leaves a venue with a closed       *)
(* breaker out of the scans.                                               *)
UnhealthyHasTripped ==
  \A v \in Venues : ~health[v] =>
    errorCount[v] >= Threshold \/ (v \in resetting /\ checker = "resetHealth")

===============================================================================
