-------------------------------- MODULE Pipeline -------------------------------
(***************************************************************************)
(* From the pools to the routes: what a scan of Venues delivers is the     *)
(* price map that Finder searches (radar.rs, run_radar_cycle), with the fee*)
(* tiers the scan has left in the directional cache.                       *)
(*                                                                         *)
(* A behaviour begins with a scan, or with one of the price maps of Finder,*)
(* which are wider than what the pools of a small instance can quote.      *)
(***************************************************************************)
EXTENDS Venues, Finder

pipelineVars == <<scanVars, vars>>

NotScanned ==
  /\ market = CHOOSE m \in Markets : TRUE
  /\ direct = FALSE /\ stage = "apart" /\ scan = 0 /\ at = 1 /\ got = {}
  /\ priceMap = [v \in Range(Adapters) |-> {}]
  /\ feeTiers = << >> /\ legTiers = << >> /\ poolCache = << >>
  /\ faults = 0 /\ touched = {}

Unsearched ==
  /\ phase = "scan"
  /\ quotes = <<>> /\ untiered = {}
  /\ found = {} /\ result = {} /\ cycles = {} /\ edges = {}

PipelineInit == (NotScanned /\ Init) \/ (ScanInit /\ Unsearched)

Scan ==
  /\ phase = "scan"
  /\ ScanNext
  /\ UNCHANGED vars

(* The prices of the scan as a price map, in one order or the other.       *)
LegsOf(v) == {Leg(v, p.from, p.to, p.gain) : p \in priceMap[v]}
Delivered == FlattenSeq([i \in DOMAIN Adapters |-> SetToSeq(LegsOf(Adapters[i]))])

(* HighHitRateFilter has nothing to say of a first scan; the pairs without *)
(* a directional tier are those of the V3 venues it was never cached for.  *)
HandOver ==
  /\ stage = "delivered" /\ phase = "scan" /\ phase' = "edges"
  /\ quotes' \in {Delivered, Reverse(Delivered)}
  /\ untiered' = {<<v, d[1], d[2]>> : v \in {w \in Range(Adapters) : Kind(w) = "V3"},
                                      d \in {e \in Asked : legTiers[e] = 0}}
  /\ UNCHANGED <<scanVars, found, result, cycles, edges>>

Search ==
  /\ phase # "scan"
  /\ Next
  /\ UNCHANGED scanVars

PipelineNext == Scan \/ HandOver \/ Search

PipelineSpec == PipelineInit /\ [][PipelineNext]_pipelineVars

================================================================================
