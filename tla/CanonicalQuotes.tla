---------------------------- MODULE CanonicalQuotes ----------------------------
(***************************************************************************)
(* Phase A of a canonical round (src/core/canonical_discovery.rs and       *)
(* canonical_adapters.rs): every ordered pair of tokens has a task that    *)
(* resolves its pools, reads their state in one Multicall3 call, puts each *)
(* pool's words together again with what is cached about it, and quotes    *)
(* the pools one by one.  CanonicalRound goes on from the graph and the    *)
(* context that the tasks leave.                                           *)
(*                                                                         *)
(* The lookups of addresses and code are MetadataCache's: here they answer *)
(* or fail.  Every read goes by the anchor's number, so after a            *)
(* reorganisation it answers for another branch.                           *)
(***************************************************************************)
EXTENDS Integers, FiniteSets, Sequences, SequencesExt

CONSTANTS
  Tokens, Pools,     \* config.tokens, and the pools of the venues, in the order they are asked
  Sides(_),          \* the two tokens of a pool
  Protocol(_),       \* "V2" or "V3"
  Out(_, _, _, _),   \* external: branch, pool, token in and amount to amount out
  Input(_),          \* NOTIONAL_USD in units of the token
  PairConcurrency,   \* CANONICAL_QUOTE_CONCURRENCY
  MaxBranches, MaxLost \* bounds: reorganisations, and calls of a round that fail

VARIABLES
  phase,   \* how far discover_at_inner is
  branch,  \* external: which block the node has at the anchor's height, 0 is the anchor
  known,   \* token_meta: the tokens whose code was read
  pair,    \* the tasks: how far, the pools found, the words read, the states, the next quote
  graph,   \* ExecutableEdgeGraph
  context, \* PoolContext: a pool's state, whose it is and of which branch
  faults,  \* bound: calls that may still fail
  lost     \* ghost: the pools of which a pair lost a call

quoteVars == <<phase, branch, known, pair, graph, context, faults, lost>>

(* Some of these calls get no answer.                                      *)
Unanswered(calls) == {s \in SUBSET calls : Cardinality(s) <= faults}
Spend(calls) == faults' = faults - Cardinality(calls)

QuotesInit ==
  /\ phase = "anchor" /\ branch = 0
  /\ known = {} /\ pair = <<>> /\ graph = {} /\ context = <<>>
  /\ faults = MaxLost /\ lost = {}

(* Tokens whose code cannot be read are left out, and so are their pairs.  *)
Waiting == [at |-> "wait", reqs |-> <<>>, reads |-> <<>>, states |-> <<>>, next |-> 1, edges |-> {}]
ReadTokens ==
  /\ phase = "tokens"
  /\ \E unread \in Unanswered(Tokens) :
       /\ Spend(unread)
       /\ known' = Tokens \ unread
  /\ pair' = [p \in {q \in known' \X known' : q[1] # q[2]} |-> Waiting]
  /\ phase' = "quote"
  /\ UNCHANGED <<branch, graph, context, lost>>

-------------------------------------------------------------------------------
(* One pair's task, from await to await.                                   *)

Pairs == DOMAIN pair
At(p, place) == phase = "quote" /\ p \in Pairs /\ pair[p].at = place
Earlier(p, q) == p[1] < q[1] \/ (p[1] = q[1] /\ p[2] < q[2])
Running == {p \in Pairs : pair[p].at \notin {"wait", "done"}}

(* buffer_unordered takes the pairs in their order.                        *)
Begin(p) ==
  /\ At(p, "wait")
  /\ \A q \in Pairs : Earlier(q, p) => pair[q].at # "wait"
  /\ Cardinality(Running) < PairConcurrency
  /\ pair' = [pair EXCEPT ![p].at = "resolve"]
  /\ UNCHANGED <<phase, branch, known, graph, context, faults, lost>>

Between(p) == {q \in Pools : Sides(q) = {p[1], p[2]}}
LosePools(p, pools) == lost' = lost \cup {<<p, q>> : q \in pools}

(* The requests are in the order of the venues, and of the tiers.          *)
Requests(found) ==
  CHOOSE s \in [1 .. Cardinality(found) -> found] :
    ToSet(s) = found /\ \A i, j \in DOMAIN s : i < j => s[i] < s[j]

(* resolve_v2_edge and resolve_v3_edge, venue by venue and tier by tier.   *)
Resolve(p) ==
  /\ At(p, "resolve")
  /\ \E missed \in Unanswered(Between(p)) :
       LET found == Requests(Between(p) \ missed) IN
       /\ Spend(missed) /\ LosePools(p, missed)
       /\ pair' = [pair EXCEPT ![p].reqs = found, ![p].at = IF found = <<>> THEN "done" ELSE "read"]
  /\ UNCHANGED <<phase, branch, known, graph, context>>

(* StateSubcall: what a pool's state is read by.                           *)
Subcalls(q) == IF Protocol(q) = "V2" THEN <<"reserves">> ELSE <<"slot0", "liquidity", "fee">>
Packed(reqs) ==
  FlattenSeq([i \in DOMAIN reqs |-> [k \in DOMAIN Subcalls(reqs[i]) |-> [pool |-> reqs[i], kind |-> Subcalls(reqs[i])[k]]]])

(* StateRead, or nothing: a subcall that reverts or does not decode fails  *)
(* alone.  Reserves or a price of zero are read and rejected later.        *)
NoRead == [kind |-> "none"]
Read(call) == [kind |-> call.kind, of |-> call.pool, at |-> branch]

ReadStates(p) ==
  /\ At(p, "read")
  /\ LET calls == Packed(pair[p].reqs) IN
     \E missed \in Unanswered(DOMAIN calls) :
       /\ Spend(missed) /\ LosePools(p, {calls[i].pool : i \in missed})
       /\ pair' = [pair EXCEPT ![p].at = "assemble",
                     ![p].reads = [i \in DOMAIN calls |-> IF i \in missed THEN NoRead ELSE Read(calls[i])]]
  /\ UNCHANGED <<phase, branch, known, graph, context>>

(* MULTICALL_BATCH_FAILED: all pools of the pair go.                       *)
BatchFails(p) ==
  /\ At(p, "read") /\ faults > 0
  /\ faults' = faults - 1
  /\ LosePools(p, ToSet(pair[p].reqs))
  /\ pair' = [pair EXCEPT ![p].at = "assemble", ![p].reads = [i \in DOMAIN Packed(pair[p].reqs) |-> NoRead]]
  /\ UNCHANGED <<phase, branch, known, graph, context>>

(* Mutant of SubcallIndex. *)
SkipsTheMissing(reqs, reads, i) ==
  1 + Len(SelectSeq(SubSeq(reads, 1, Len(Packed(SubSeq(reqs, 1, i - 1)))), LAMBDA r : r # NoRead))

(* subcall_idx when the walk over the requests comes to the i-th.          *)
SubcallIndex(reqs, reads, i) == 1 + Len(Packed(SubSeq(reqs, 1, i - 1)))

(* assemble_v2_pool_state and assemble_v3_pool_state: each word has to be  *)
(* of the kind that is expected in its place.                              *)
WordsOf(t, i) ==
  LET first == SubcallIndex(t.reqs, t.reads, i) IN
  SubSeq(t.reads, first, first + Len(Subcalls(t.reqs[i])) - 1)
Fits(t, i) ==
  LET words == WordsOf(t, i) IN
  /\ Len(words) = Len(Subcalls(t.reqs[i]))
  /\ \A k \in DOMAIN words : words[k].kind = Subcalls(t.reqs[i])[k]
State(t, i) == [of |-> WordsOf(t, i)[1].of, at |-> WordsOf(t, i)[1].at]

(* The tokens of the pool and the code of pool and router come from the    *)
(* cache or the chain; zero reserves or a zero price end here too.         *)
Unusable(pools) == Unanswered(pools)

Assemble(p) ==
  /\ At(p, "assemble")
  /\ LET t == pair[p]
         whole == {i \in DOMAIN t.reqs : Fits(t, i)} IN
     \E missed \in Unusable({t.reqs[i] : i \in whole}) :
       LET kept == {i \in whole : t.reqs[i] \notin missed} IN
       /\ Spend(missed) /\ LosePools(p, missed)
       /\ pair' = [pair EXCEPT ![p].at = "quote", ![p].reads = <<>>,
                     ![p].states = [q \in {t.reqs[i] : i \in kept} |-> State(t, CHOOSE i \in kept : t.reqs[i] = q)]]
  /\ UNCHANGED <<phase, branch, known, graph, context>>

Leg(q, tin, tout) == [pool |-> q, tin |-> tin, tout |-> tout]

(* An edge keeps what the leg was quoted at with the notional amount.      *)
Edge(leg) == [leg |-> leg, out |-> Out(branch, leg.pool, leg.tin, Input(leg.tin))]

Turn(p) == pair[p].reqs[pair[p].next]
Advance(p, edges) ==
  pair' = [pair EXCEPT ![p].edges = edges, ![p].next = pair[p].next + 1,
             ![p].at = IF pair[p].next = Len(pair[p].reqs) THEN "done" ELSE "quote"]

(* quote_v2_edge_from_state and quote_v3_edge_from_state.  A zero amount   *)
(* is no quote.                                                            *)
Quoted(p) ==
  /\ At(p, "quote") /\ Turn(p) \in DOMAIN pair[p].states
  /\ LET edge == Edge(Leg(Turn(p), p[1], p[2])) IN
       IF edge.out > 0 THEN Advance(p, pair[p].edges \cup {edge}) /\ UNCHANGED lost
       ELSE Advance(p, pair[p].edges) /\ LosePools(p, {Turn(p)})
  /\ UNCHANGED <<phase, branch, known, graph, context, faults>>

NotQuoted(p) ==
  /\ At(p, "quote")
  /\ IF Turn(p) \in DOMAIN pair[p].states
     THEN faults > 0 /\ faults' = faults - 1 /\ LosePools(p, {Turn(p)})
     ELSE UNCHANGED <<faults, lost>>
  /\ Advance(p, pair[p].edges)
  /\ UNCHANGED <<phase, branch, known, graph, context>>

-------------------------------------------------------------------------------
(* The results are taken in the order of the pairs: of a pool that several *)
(* pairs have quoted the last one's state stays.                           *)
QuotedPools(p) == {e.leg.pool : e \in pair[p].edges}
LastToQuote(q) == CHOOSE p \in Pairs : q \in QuotedPools(p) /\ \A r \in Pairs : q \in QuotedPools(r) => ~Earlier(p, r)
Collect ==
  /\ phase = "quote" /\ \A p \in Pairs : pair[p].at = "done"
  /\ graph' = UNION {pair[p].edges : p \in Pairs}
  /\ context' = [q \in UNION {QuotedPools(p) : p \in Pairs} |-> pair[LastToQuote(q)].states[q]]
  /\ pair' = <<>> /\ lost' = {}
  /\ phase' = "rank"
  /\ UNCHANGED <<branch, known, faults>>

QuotePair(p) == Begin(p) \/ Resolve(p) \/ ReadStates(p) \/ BatchFails(p) \/ Assemble(p) \/ Quoted(p) \/ NotQuoted(p)

QuotesNext == ReadTokens \/ (\E p \in Pairs : QuotePair(p)) \/ Collect

-------------------------------------------------------------------------------
(* Properties.                                                             *)

(* One call carries the reads of all pools of a pair, and they are told    *)
(* apart by their place in it.  A pair's quoted pools are exactly those    *)
(* none of whose own calls went wrong, and no pool is judged by another's  *)
(* words.                                                                  *)
PoolsStandAlone ==
  /\ \A p \in Pairs : /\ pair[p].at = "done" => QuotedPools(p) = {q \in Between(p) : <<p, q>> \notin lost}
                      /\ \A q \in DOMAIN pair[p].states : pair[p].states[q].of = q
  /\ \A q \in DOMAIN context : context[q].of = q

===============================================================================
