-------------------------------- MODULE Finder --------------------------------
(***************************************************************************)
(* The search for routes: find_arbitrage_opportunities of                  *)
(* src/core/arbitrage.rs with its direct, triangular and Bellman-Ford      *)
(* strategies (src/core/bf_graph.rs), its deduplication and the conversion *)
(* to a cycle on a stable token; and extract_edges of src/dex/radar.rs,    *)
(* which reports round trips over the same price map.                      *)
(*                                                                         *)
(* Rates are taken in logarithms, as bf_graph.rs does, in basis points, and*)
(* relative to the tokens' reference prices: a route multiplies rates, so  *)
(* here it adds gains, and 0 is break-even.  Costs, spreads and profits are*)
(* basis points of the amount traded.                                      *)
(*                                                                         *)
(* The price map is a hash map: `quotes' lists its entries in the order it *)
(* happens to be iterated in.  One price map is searched per behaviour.    *)
(***************************************************************************)
EXTENDS Integers, Sequences, FiniteSets, SequencesExt, FiniteSetsExt

CONSTANTS
  Tokens, Stables,    \* Stables: is_usd_stable_symbol
  Midcaps, Anchors,   \* triangular.midcaps and the anchors that are no stables
  Venues,
  PriceMaps,          \* the price maps searched, as sequences of quotes
  Untiered,           \* legs <<venue, in, out>> of those without an executable tier
  CrossDex,           \* the values of ~ triangular.intra_dex_only
  Plausible,          \* is_realistic_price: largest deviation from the reference
  MinSpread, MaxSpread, \* min_spread_percent, MAX_REALISTIC_SPREAD
  MaxHops,            \* MAX_HOPS_FOR_EXECUTION
  GasPerHop, Premium, \* gas and flash-loan premium
  MinProfit,          \* min_profit_threshold_usd
  MinTriangleProfit,  \* triangular.min_triangle_profit
  SlippageCap,        \* max_slippage_bps, or its cap without a private relay
  HopIncrease,        \* hop_slippage_increase_bps
  EdgeMargin,         \* edge_safety_margin_bps
  PublicEdge,         \* public_mempool_min_edge_bps, 0 with a private relay
  RouteLimit,         \* route_validation.max_cumulative_slippage
  MinSlippage,        \* MIN_SLIPPAGE_BPS
  Before(_, _)        \* the order of two tokens' names

ASSUME TokensAssumption == Stables \subseteq Tokens /\ Midcaps \cup Anchors \subseteq Tokens
(* No exchange quotes a token against itself.                              *)
ASSUME PriceMapsAssumption ==
  \A m \in PriceMaps : m \in Seq(Range(m)) /\ \A q \in Range(m) : q.from # q.to /\ q.gain \in Int
ASSUME HopsAssumption == MaxHops \in Nat /\ MaxHops >= 2 /\ GasPerHop \in Nat
ASSUME SpreadAssumption == MinSpread \in Nat /\ MaxSpread \in Nat /\ MinSlippage \in Nat
ASSUME GatesAssumption ==
  /\ {Premium, MinProfit, SlippageCap, HopIncrease, EdgeMargin, PublicEdge, RouteLimit} \subseteq Nat
  /\ Plausible \in Nat

VARIABLES
  phase,     \* what the search does next
  quotes,    \* the price map
  untiered,  \* V3 legs <<venue, in, out>> with no executable fee tier cached
  found,     \* all_opportunities
  result,    \* usdt_opportunities
  cycles,    \* adj_cycles of extract_edges, deduplicated
  edges      \* edges of extract_edges

vars == <<phase, quotes, untiered, found, result, cycles, edges>>

None == "none"
Quoted == Range(quotes)
Leg(v, a, b, g) == [venue |-> v, from |-> a, to |-> b, gain |-> g]
Total(numbers) == MapThenSumSet(LAMBDA i : numbers[i], DOMAIN numbers)
GainOf(legs) == Total([i \in DOMAIN legs |-> legs[i].gain])
Route(label, path, legs) ==
  [label |-> label, path |-> path, buy |-> legs[1].venue, sell |-> Last(legs).venue,
   gain |-> GainOf(legs), legs |-> legs]
Widest(routes) == {r \in routes : \A s \in routes : s.gain <= r.gain}
BestOf(routes) == IF Widest(routes) = {} THEN {} ELSE {CHOOSE r \in Widest(routes) : TRUE}
Realistic(q) == q.gain \in -Plausible .. Plausible

Init ==
  /\ phase = "edges"
  /\ quotes \in PriceMaps /\ untiered = Untiered
  /\ found = {} /\ result = {} /\ cycles = {} /\ edges = {}

-------------------------------------------------------------------------------
(* extract_edges                                                           *)

(* best_two_hop: every round trip over two venues, and the best of them.   *)
RoundTrips(a, b) ==
  {t \in Quoted \X Quoted :
     /\ t[1].from = a /\ t[1].to = b /\ t[2].from = b /\ t[2].to = a
     /\ t[1].venue # t[2].venue}

BestTwoHop(a, b) == BestOf({Route("pair", <<a, b, a>>, t) : t \in RoundTrips(a, b)})

(* A pair is evaluated when two venues quote it; its best round trip is    *)
(* kept when it gains and is no dust.                                      *)
QuotedTwice(a, b) == Cardinality({q \in Quoted : q.from = a /\ q.to = b}) >= 2
AdjCycles ==
  {c \in UNION {BestTwoHop(p[1], p[2]) : p \in {t \in Tokens \X Tokens : QuotedTwice(t[1], t[2])}} :
     c.gain > 0 /\ c.gain <= MaxSpread}

(* adj_canonical_key: a cycle and its mirror share it; the better stays.   *)
CanonicalKey(c) == <<{c.buy, c.sell}, {c.path[1], c.path[2]}>>
Deduped(all) ==
  UNION {BestOf({c \in all : CanonicalKey(c) = key}) : key \in {CanonicalKey(c) : c \in all}}

(* An edge is reported in the pair's canonical direction only, from a      *)
(* basis point on.                                                         *)
EdgesOf(all) == {c \in all : Before(c.path[1], c.path[2]) /\ c.gain >= 1}

ExtractEdges ==
  /\ phase = "edges" /\ phase' = "direct"
  /\ cycles' = Deduped(AdjCycles)
  /\ edges' = EdgesOf(AdjCycles)
  /\ UNCHANGED <<quotes, untiered, found, result>>

-------------------------------------------------------------------------------
(* The strategies                                                          *)

(* Mutant: the widest round trip is chosen before the range is looked at.  *)
EvaluateWidest(a, b) ==
  {r \in BestOf({Route("pair", <<a, b, a>>, t) : t \in RoundTrips(a, b)}) :
     r.gain <= MaxSpread /\ r.gain > MinSpread}

(* evaluate_direct, for a pair some venue quotes: the best round trip over *)
(* two venues among the realistic ones in the range of spreads.            *)
DirectTrips(a, b) ==
  {r \in {Route("pair", <<a, b, a>>, t) :
           t \in {s \in RoundTrips(a, b) : Realistic(s[1]) /\ Realistic(s[2])}} :
     r.gain <= MaxSpread /\ r.gain > MinSpread}
EvaluateDirect(a, b) == BestOf(DirectTrips(a, b))

FindDirect ==
  /\ phase = "direct" /\ phase' = "triangular"
  /\ found' = UNION {EvaluateDirect(a, b) : a \in Tokens, b \in Tokens}
  /\ UNCHANGED <<quotes, untiered, result, cycles, edges>>

HopIsExecutable(q) == <<q.venue, q.from, q.to>> \notin untiered
Triangles(a, b, c) ==
  {t \in Quoted \X Quoted \X Quoted :
     /\ t[1].from = a /\ t[1].to = b /\ t[2].from = b /\ t[2].to = c
     /\ t[3].from = c /\ t[3].to = a
     /\ \A i \in 1 .. 3 : Realistic(t[i]) /\ HopIsExecutable(t[i])
     /\ GainOf(t) <= MaxSpread}
Routes(triangles) == {Route("path", <<t[1].from, t[2].from, t[3].from, t[1].from>>, t) : t \in triangles}

(* try_cross_dex_cycle_exhaustive: the best of all choices of venues.      *)
CrossTriangle(s, m, h) ==
  {r \in BestOf(Routes(Triangles(s, m, h))) : r.gain >= MinSpread}

(* try_intra_dex_cycle, in one venue and both orders of the middle legs.   *)
IntraTriangle(v, s, m, h) ==
  {r \in Routes({t \in Triangles(s, m, h) \cup Triangles(s, h, m) :
                  \A i \in 1 .. 3 : t[i].venue = v}) : r.gain >= MinSpread}

(* Both searches go over stable -> midcap -> anchor -> stable, and drop    *)
(* what would earn less than the least profit of a triangle.               *)
Middles == {p \in Midcaps \X Anchors : p[1] # p[2]}
Worthwhile(triangles) == {r \in triangles : r.gain >= MinTriangleProfit}
CrossSearch ==
  Worthwhile(UNION {CrossTriangle(s, p[1], p[2]) : s \in Stables, p \in Middles})
IntraSearch ==
  Worthwhile(UNION {IntraTriangle(v, s, p[1], p[2]) : v \in Venues, s \in Stables, p \in Middles})

FindTriangular ==
  /\ phase = "triangular" /\ phase' = "bellman-ford"
  /\ \E cross \in CrossDex : found' = found \cup (IF cross THEN CrossSearch ELSE IntraSearch)
  /\ UNCHANGED <<quotes, untiered, result, cycles, edges>>

-------------------------------------------------------------------------------
(* find_arbitrage_cycles of bf_graph.rs.  Every start vertex repeats the   *)
(* same relaxation, so the starts differ only in the cycles already seen.  *)

Vertices == {q.from : q \in Quoted} \cup {q.to : q \in Quoted}
Unrelaxed == [dist |-> [t \in Vertices |-> 0], pred |-> [t \in Vertices |-> None]]
Shortens(s, e) == s.dist[e.from] - e.gain < s.dist[e.to]
Relax(s, e) ==
  IF Shortens(s, e)
  THEN [dist |-> [s.dist EXCEPT ![e.to] = s.dist[e.from] - e.gain],
        pred |-> [s.pred EXCEPT ![e.to] = e.from]]
  ELSE s
Relaxed ==
  LET round[k \in Nat] == IF k = 0 THEN Unrelaxed ELSE FoldLeft(Relax, round[k - 1], quotes)
  IN round[Cardinality(Vertices) - 1]

(* The predecessors of a vertex, up to one without any or to a repetition. *)
Walk(pred, start, stop) ==
  LET walk[k \in 0 .. Cardinality(Vertices)] ==
        IF k = 0 THEN <<start>>
        ELSE LET w == walk[k - 1]  p == pred[Last(w)] IN
             IF p = None \/ p \in Range(w) \/ p = stop THEN w ELSE Append(w, p)
  IN walk[Cardinality(Vertices)]

(* The first repeated vertex; when the walk ends instead, its own start.   *)
CycleStart(pred, from) ==
  LET end == pred[Last(Walk(pred, from, None))] IN IF end = None THEN from ELSE end
CyclePath(pred, from) ==
  LET s == CycleStart(pred, from)
      w == Walk(pred, s, s)
  IN <<s>> \o Reverse(Tail(w)) \o <<s>>

(* The rate of a leg is the first entry of the map in its direction; when  *)
(* there is none, the inverse of the first in the other.                   *)
FirstQuote(a, b) ==
  LET at == {i \in DOMAIN quotes : quotes[i].from = a /\ quotes[i].to = b}
  IN IF at = {} THEN {} ELSE {quotes[Min(at)]}
BfLeg(a, b) ==
  IF FirstQuote(a, b) # {} THEN FirstQuote(a, b)
  ELSE {Leg(q.venue, a, b, -q.gain) : q \in FirstQuote(b, a)}
BfRoute(path) ==
  LET legs == [i \in 1 .. Len(path) - 1 |-> BfLeg(path[i], path[i + 1])]
  IN IF \E i \in DOMAIN legs : legs[i] = {} THEN {}
     ELSE {Route("path", path, [i \in DOMAIN legs |-> CHOOSE l \in legs[i] : TRUE])}

(* Of the edges that still shorten a distance, in their order: each set of *)
(* vertices is tried once, and at most one cycle is kept per start vertex. *)
BfCycles ==
  LET s == Relaxed
      open == SelectSeq(quotes, LAMBDA e : Shortens(s, e))
      paths == [i \in DOMAIN open |-> CyclePath(s.pred, open[i].from)]
      firsts == {i \in DOMAIN open :
                  /\ Len(paths[i]) > 2
                  /\ \A j \in 1 .. i - 1 : Range(paths[j]) # Range(paths[i])}
      kept == {i \in firsts : \E r \in BfRoute(paths[i]) : r.gain >= MinSpread /\ r.gain <= MaxSpread}
  IN UNION {BfRoute(paths[i]) :
             i \in {k \in kept : Cardinality({j \in kept : j < k}) < Cardinality(Vertices)}}

FindBfCycles ==
  /\ phase = "bellman-ford" /\ phase' = "select"
  /\ found' = found \cup BfCycles
  /\ UNCHANGED <<quotes, untiered, result, cycles, edges>>

-------------------------------------------------------------------------------
(* Deduplication, conversion and the gates                                 *)

(* Of the routes with the same label and outer venues the widest stays.    *)
DedupKey(r) == <<r.label, r.path, r.buy, r.sell>>
Select ==
  /\ phase = "select" /\ phase' = "convert"
  /\ found' = {r \in UNION {BestOf({r \in found : DedupKey(r) = key}) :
                             key \in {DedupKey(r) : r \in found}} : r.gain >= MinSpread}
  /\ UNCHANGED <<quotes, untiered, result, cycles, edges>>

StableCentric(path) == path[1] = Last(path) /\ path[1] \in Stables

(* Mutant: the path is turned and the legs are not.                        *)
ConvertedPathOnly(r) ==
  IF StableCentric(r.path) /\ Len(r.legs) <= MaxHops THEN {r}
  ELSE IF Len(r.legs) = 2 /\ r.path[1] \notin Stables /\ r.path[2] \in Stables
  THEN {Route("path", <<r.path[2], r.path[1], r.path[2]>>, r.legs)}
  ELSE {}

(* convert_to_usdt_centric: a cycle on a stable stays, one of two legs over*)
(* a stable is turned to begin there, any other is dropped.                *)
Converted(r) ==
  IF StableCentric(r.path) /\ Len(r.legs) <= MaxHops THEN {r}
  ELSE IF Len(r.legs) = 2 /\ r.path[1] \notin Stables /\ r.path[2] \in Stables
  THEN {Route("path", <<r.path[2], r.path[1], r.path[2]>>, <<r.legs[2], r.legs[1]>>)}
  ELSE {}

NetOf(r) == r.gain - GasPerHop * Len(r.legs) - Premium

(* slippage_allowed_total_bps; the limit per route leaves room for the     *)
(* least slippage of each hop.                                             *)
Allowed(r) ==
  Min({SlippageCap, NetOf(r) - EdgeMargin, Max({RouteLimit, MinSlippage * Len(r.legs)})})

(* max_slippage_bps_for_edge                                               *)
BaseSlippage(r) == Max({MinSlippage, Min({SlippageCap, NetOf(r) \div Len(r.legs)})})

(* Mutant: nothing is kept for the hops that follow.                       *)
NothingKept(r, used, k) == Allowed(r) - used

(* The loop of calculate_slippage_protection: a hop is given the base and  *)
(* an increase, within what is allowed once the hops after it are given    *)
(* the minimum, and never less than the minimum itself.                    *)
Room(r, used, k) == Allowed(r) - used - (Len(r.legs) - k) * MinSlippage
HopSlippage(r, used, k) ==
  Max({MinSlippage, Min({BaseSlippage(r) + (k - 1) * HopIncrease, Room(r, used, k)})})
SlippagePlan(r) ==
  LET plan[k \in 0 .. Len(r.legs)] ==
        IF k = 0 THEN <<>> ELSE Append(plan[k - 1], HopSlippage(r, Total(plan[k - 1]), k))
  IN plan[Len(r.legs)]

(* recalculate_profitability, validate_opportunity and the last filter.    *)
Approved(r) ==
  /\ r.gain >= MinSpread
  /\ NetOf(r) > MinProfit
  /\ NetOf(r) > EdgeMargin /\ NetOf(r) >= PublicEdge
  /\ Total(SlippagePlan(r)) <= Allowed(r)

Convert ==
  /\ phase = "convert" /\ phase' = "done"
  /\ result' = {r \in UNION {Converted(f) : f \in found} : Approved(r)}
  /\ UNCHANGED <<quotes, untiered, found, cycles, edges>>

Done == phase = "done" /\ UNCHANGED vars

Next ==
  ExtractEdges \/ FindDirect \/ FindTriangular \/ FindBfCycles \/ Select \/ Convert \/ Done

Spec == Init /\ [][Next]_vars

-------------------------------------------------------------------------------
(* Properties                                                              *)

(* What is handed to the executor can be traded with a flash loan of a     *)
(* stable: its legs lead from token to token along its path and back to the*)
(* stable it starts from, through conversion and rotation, and it passes no*)
(* token twice on the way.                                                 *)
RoutesAreClosedChains ==
  \A r \in result :
    /\ StableCentric(r.path)
    /\ Len(r.legs) \in 2 .. MaxHops
    /\ \A i \in DOMAIN r.legs : r.legs[i].from = r.path[i] /\ r.legs[i].to = r.path[i + 1]
    /\ IsInjective(Tail(r.path))

TripsAreTraded ==
  \A s \in Stables, t \in Tokens : \A r \in DirectTrips(s, t) :
    Approved(r) => \E q \in result : Range(q.path) = {s, t} /\ q.gain >= r.gain
EdgesAreTraded ==
  \A e \in edges : \A r \in Converted(e) :
    Approved(r) /\ (\A i \in DOMAIN e.legs : Realistic(e.legs[i])) /\ r.gain > MinSpread =>
      \E q \in result : Range(q.path) = Range(e.path) /\ q.gain >= e.gain

(* No gain is lost on the way.  When a round trip over two venues from a   *)
(* stable is in the range of spreads and passes the gates, or the radar    *)
(* reports an edge of plausible quotes that passes them once it is turned  *)
(* to a stable, an executable route over its tokens that gains no less     *)
(* comes out, whatever strategies, deduplication and conversion keep.      *)
NoTripIsLost == phase = "done" => TripsAreTraded /\ EdgesAreTraded

(* The assertion at the end of calculate_slippage_protection fires only for*)
(* want of edge: when what is allowed covers the least slippage of every   *)
(* hop, the plan fits, however the increases per hop fall and wherever they*)
(* are cut.                                                                *)
PlanFitsItsAllowance ==
  \A f \in found : \A r \in Converted(f) :
    Allowed(r) >= Len(r.legs) * MinSlippage =>
      /\ Total(SlippagePlan(r)) <= Allowed(r)
      /\ \A i \in DOMAIN r.legs : SlippagePlan(r)[i] >= MinSlippage

===============================================================================
