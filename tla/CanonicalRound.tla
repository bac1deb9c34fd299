---------------------------- MODULE CanonicalRound -----------------------------
(***************************************************************************)
(* One round of the canonical discovery: CanonicalDiscoveryService::       *)
(* discover_at (src/core/canonical_discovery.rs).  CanonicalQuotes quotes  *)
(* the pools; the quotes are the edges of a graph, the triangles of the    *)
(* graph are ranked, and the best are quoted again, leg by leg, by         *)
(* concurrent tasks that share a cache of quotes.  What holds together     *)
(* becomes evidence.                                                       *)
(*                                                                         *)
(* Tokens and pools are numbers, so that the keys of the routes have their *)
(* order.                                                                  *)
(***************************************************************************)
EXTENDS CanonicalQuotes

CONSTANTS
  Cost,              \* gas_cost_ppb and flashloan_cost_ppb of the input
  MaxRoutes,         \* CANONICAL_MAX_ROUTES_PER_ROUND
  Concurrency        \* CANONICAL_REQUOTE_CONCURRENCY

ASSUME RoundAssumption ==
  /\ IsFiniteSet(Tokens) /\ IsFiniteSet(Pools) /\ Tokens \cup Pools \subseteq 1 .. 9
  /\ \A p \in Pools : Sides(p) \in SUBSET Tokens /\ Cardinality(Sides(p)) = 2
  /\ MaxRoutes \in Nat \ {0} /\ Concurrency \in Nat \ {0} /\ PairConcurrency \in Nat \ {0}
  /\ Cost \in Nat /\ MaxBranches \in Nat /\ MaxLost \in Nat

VARIABLES
  task,    \* the ranked routes, and how far each one's requote is
  cache,   \* requote_cache
  evidence, positive, rejected \* what CanonicalDiscoveryResult holds

roundVars == <<quoteVars, task, cache, evidence, positive, rejected>>

Results == <<evidence, positive, rejected>>
PhaseA == <<branch, known, pair, graph, context, lost>>

Over == phase \in {"done", "failed"}

RoundInit ==
  /\ QuotesInit
  /\ task = <<>> /\ cache = <<>>
  /\ evidence = {} /\ positive = {} /\ rejected = {}

-------------------------------------------------------------------------------
(* The anchor.                                                             *)

(* The block at the anchor's height is replaced; reads go by its number.   *)
Replaced ==
  /\ ~Over /\ branch < MaxBranches
  /\ branch' = branch + 1
  /\ UNCHANGED <<phase, known, pair, graph, context, faults, lost, task, cache, Results>>

(* Every call of discover_at_inner outside the two pools of tasks, and its *)
(* time limit and that of the caller.                                      *)
Fails ==
  /\ ~Over
  /\ phase' = "failed"
  /\ UNCHANGED <<PhaseA, faults, task, cache, Results>>

CheckAnchor ==
  /\ phase = "anchor"
  /\ phase' = IF branch = 0 THEN "tokens" ELSE "failed"
  /\ UNCHANGED <<PhaseA, faults, task, cache, Results>>

Quotes == QuotesNext /\ UNCHANGED <<task, cache, Results>>

-------------------------------------------------------------------------------
(* Triangles and their rank.                                               *)

(* find_structural_cycles with three hops, from every token: a closed walk *)
(* and its rotations are different routes.                                 *)
Triangles ==
  {r \in graph \X graph \X graph :
     /\ r[1].leg.tout = r[2].leg.tin /\ r[2].leg.tout = r[3].leg.tin /\ r[3].leg.tout = r[1].leg.tin
     /\ r[1].leg.tout # r[1].leg.tin /\ r[2].leg.tout # r[1].leg.tin}

Legs(r) == <<r[1].leg, r[2].leg, r[3].leg>>

(* gross_multiplier_avg as a fraction.                                     *)
Gain(r) == r[1].out * r[2].out * r[3].out
Base(r) == Input(r[1].leg.tin) * Input(r[2].leg.tin) * Input(r[3].leg.tin)

(* CANONICAL_ROUTE_RANK_MIN_MULTIPLIER and _MAX_: 0.5 to 1.2.              *)
Sane(r) == 2 * Gain(r) >= Base(r) /\ 10 * Gain(r) <= 12 * Base(r)

(* structural_cycle_key, as a number: tokens and pools leg by leg.         *)
KeyOf(legs) ==
  LET digits(l) == l.tin * 100 + l.tout * 10 + l.pool IN
  digits(legs[1]) * 1000000 + digits(legs[2]) * 1000 + digits(legs[3])

RanksBefore(q, r) ==
  \/ Sane(q) /\ ~Sane(r)
  \/ /\ Sane(q) = Sane(r)
     /\ \/ Gain(q) * Base(r) > Gain(r) * Base(q)
        \/ Gain(q) * Base(r) = Gain(r) * Base(q) /\ KeyOf(Legs(q)) < KeyOf(Legs(r))

Ranked == {Legs(r) : r \in {r \in Triangles : Cardinality({q \in Triangles : RanksBefore(q, r)}) < MaxRoutes}}

(* The graph is not read again.                                            *)
Rank ==
  /\ phase = "rank"
  /\ task' = [r \in Ranked |-> [at |-> "queued", quotes |-> <<>>]]
  /\ graph' = {}
  /\ phase' = "requote"
  /\ UNCHANGED <<branch, known, pair, context, faults, lost, cache, Results>>

-------------------------------------------------------------------------------
(* Phase B: the shared cache.                                              *)

Tried == DOMAIN task
Tasks(place) == {r \in Tried : task[r].at = place}

(* buffer_unordered starts the routes in the order of their keys.          *)
Start(r) ==
  /\ phase = "requote" /\ r \in Tasks("queued")
  /\ \A q \in Tasks("queued") : KeyOf(r) <= KeyOf(q)
  /\ Cardinality(Tasks("look") \cup Tasks("fetch")) < Concurrency
  /\ task' = [task EXCEPT ![r].at = "look"]
  /\ UNCHANGED <<phase, PhaseA, faults, cache, Results>>

NextLeg(r) == r[Len(task[r].quotes) + 1]
AmountIn(r, quotes) == IF quotes = <<>> THEN Input(r[1].tin) ELSE quotes[Len(quotes)].out
Amount(r) == AmountIn(r, task[r].quotes)

CacheKey(leg, amount) == <<leg.pool, amount>>
Insert(key, quote) == [k \in DOMAIN cache \cup {key} |-> IF k = key THEN quote ELSE cache[k]]

(* validate_leg_quote_sequence.  A quote is known by what was asked and    *)
(* answered; the anchor's hash is the label all of them carry.             *)
Chained(r, quotes) ==
  /\ Len(quotes) = Len(r)
  /\ \A i \in 1 .. Len(quotes) :
       /\ quotes[i].amountIn = AmountIn(r, SubSeq(quotes, 1, i - 1))
       /\ quotes[i].out > 0
       /\ \A j \in 1 .. i - 1 : quotes[j] # quotes[i]

(* The leg has its quote, from the cache or from the pool.                 *)
With(r, quote) ==
  LET quotes == Append(task[r].quotes, quote) IN
  task' = [task EXCEPT ![r] =
             [at |-> IF Len(quotes) < Len(r) THEN "look" ELSE IF Chained(r, quotes) THEN "ok" ELSE "bad",
              quotes |-> quotes]]

LookUp(r) ==
  /\ phase = "requote" /\ r \in Tasks("look")
  /\ LET key == CacheKey(NextLeg(r), Amount(r)) IN
       IF key \in DOMAIN cache THEN With(r, cache[key])
       ELSE task' = [task EXCEPT ![r].at = "fetch"]
  /\ UNCHANGED <<phase, PhaseA, faults, cache, Results>>

Quote(b, leg, amount) ==
  [leg |-> leg, amountIn |-> amount, out |-> Out(b, leg.pool, leg.tin, amount)]

(* requote_leg, with what phase A has pinned of the pool; an answer of     *)
(* zero is no answer.                                                      *)
Answer(r) == Quote(branch, NextLeg(r), Amount(r))
Answers(r) == NextLeg(r).pool \in DOMAIN context /\ Answer(r).out > 0
Fetched(r) ==
  /\ phase = "requote" /\ r \in Tasks("fetch") /\ Answers(r)
  /\ cache' = Insert(CacheKey(NextLeg(r), Amount(r)), Answer(r))
  /\ With(r, Answer(r))
  /\ UNCHANGED <<phase, PhaseA, faults, Results>>

(* LEG_QUOTE_CHAIN_INCOMPLETE.                                             *)
FetchFails(r) ==
  /\ phase = "requote" /\ r \in Tasks("fetch")
  /\ IF Answers(r) THEN faults > 0 /\ faults' = faults - 1 ELSE UNCHANGED faults
  /\ task' = [task EXCEPT ![r].at = "bad"]
  /\ UNCHANGED <<phase, PhaseA, cache, Results>>

-------------------------------------------------------------------------------
(* Materialisation and economics.                                          *)

(* StatefulRouteEvaluator: no pool is met twice in a triangle, so the legs *)
(* are worth their quotes.                                                 *)
Net(r) == task[r].quotes[Len(r)].out - Input(r[1].tin) - Cost

Evidence(r) == [route |-> r, quotes |-> task[r].quotes, net |-> Net(r)]

(* Mutant of IsPositive. *)
GrossIsPositive(e) == e.net + Cost > 0

IsPositive(e) == e.net > 0

(* materialize: the legs are chained, and each one's tokens and pool are   *)
(* in the execution context.                                               *)
Materializes(r) ==
  \A i \in DOMAIN r :
    /\ {r[i].tin, r[i].tout} \subseteq known /\ r[i].pool \in DOMAIN context
    /\ i > 1 => r[i - 1].tout = r[i].tin

(* CanonicalExecutionContext::build takes no part of the context empty.    *)
(* What else it asks, that tokens have code and decimals and all carry the *)
(* anchor's number, is so of what phase A keeps.                           *)
Placeholder(tokens, pools) == tokens = {} \/ pools = {}
HasContext == ~Placeholder(known, DOMAIN context)

(* Without a context the round is over with what the requotes rejected.    *)
Evaluate ==
  /\ phase = "requote" /\ \A r \in Tried : task[r].at \in {"ok", "bad"}
  /\ evidence' = {Evidence(r) : r \in {r \in Tasks("ok") : HasContext /\ Materializes(r)}}
  /\ positive' = {e.route : e \in {f \in evidence' : IsPositive(f)}}
  /\ rejected' = {r \in Tried : task[r].at = "bad" \/ (HasContext /\ ~Materializes(r))}
  /\ phase' = "done"
  /\ UNCHANGED <<PhaseA, faults, task, cache>>

Rest == Over /\ UNCHANGED roundVars

Requote(r) == Start(r) \/ LookUp(r) \/ Fetched(r) \/ FetchFails(r)

RoundNext ==
  \/ Replaced \/ Fails
  \/ CheckAnchor
  \/ Quotes
  \/ Rank
  \/ \E r \in Tried : Requote(r)
  \/ Evaluate
  \/ Rest

RoundSpec == RoundInit /\ [][RoundNext]_roundVars

-------------------------------------------------------------------------------
(* Properties.                                                             *)

(* Every route that was ranked is evidence or rejected, never both and     *)
(* never neither, and only when every task is over.                        *)
EveryRouteIsAnswered ==
  IF phase = "done" THEN {e.route : e \in evidence} \cup rejected = Tried
                         /\ {e.route : e \in evidence} \cap rejected = {}
  ELSE evidence = {} /\ rejected = {}

(* The trade itself on the block of the anchor: leg after leg, each in its *)
(* direction, with what the one before returned.                           *)
Ideal(r) ==
  LET q1 == Quote(0, r[1], Input(r[1].tin))
      q2 == Quote(0, r[2], q1.out)
  IN <<q1, q2, Quote(0, r[3], q2.out)>>

(* Another route goes through one of r's pools the other way with the same *)
(* amount.                                                                 *)
Collides(r) ==
  \E q \in Tried : \E i, j \in 1 .. 3 :
    /\ q[i].pool = r[j].pool /\ q[i].tin # r[j].tin
    /\ Ideal(q)[i].amountIn = Ideal(r)[j].amountIn

(* What the comments say of phase B: leg[n].amount_in is leg[n-1]'s        *)
(* amount_out "with real adapter output".  Evidence is the trade itself.   *)
LegsAreQuotedTheirWay ==
  branch = 0 => \A e \in evidence : e.quotes = Ideal(e.route)

(* What holds of the code: every route that was ranked is answered, and    *)
(* when no route collides with another one the evidence is the trade       *)
(* itself, however the tasks interleave and whatever they share, and a     *)
(* route is called positive exactly if the trade is.                       *)
EvidenceIsGenuine ==
  /\ EveryRouteIsAnswered
  /\ \A e \in evidence :
       branch = 0 /\ (\A r \in Tried : ~Collides(r)) =>
         /\ e.quotes = Ideal(e.route)
         /\ e.route \in positive <=> Ideal(e.route)[3].out > Input(e.route[1].tin) + Cost

===============================================================================
