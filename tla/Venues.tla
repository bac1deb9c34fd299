-------------------------------- MODULE Venues ---------------------------------
(***************************************************************************)
(* Where the prices of a scan come from: the adapters of src/dex/adapters  *)
(* (Uniswap V3, the V2 forks, Curve) behind the DexManager, the liquidity  *)
(* gate of src/dex/liquidity.rs, the caches of fee tiers and pools, their  *)
(* warm-up, and the pruning of src/dex/radar.rs.                           *)
(*                                                                         *)
(* A price is the gain over the tokens' reference price in basis points;   *)
(* a pool offers less the more is traded.  Any read may fail: a step fails *)
(* in at most one way, and a behaviour in at most MaxFaults steps.  The    *)
(* venues of a scan run in tasks of their own, which share nothing but the *)
(* caches, and those are kept by venue: they are taken one after the other.*)
(* Breaker, filter and time limits are those of Radar.                     *)
(***************************************************************************)
EXTENDS Integers, Sequences, FiniteSets, SequencesExt, FiniteSetsExt

CONSTANTS
  Adapters,      \* the venues, in their order
  Kind(_),       \* "V3", "V2" or "Curve"
  Directions,    \* generate_full_pair_list: a sequence of <<from, to>>
  PoolTokens,    \* the coins of the Curve pool
  Markets,       \* pool -> its gain per direction, its slope, and what it holds of each token
  BatchSize,     \* MULTICALL_BATCH_SIZE
  Threshold(_),  \* liquidity_threshold_usd of a venue, <<>> if it has none
  MinLiquidity,  \* arbitrage.min_liquidity
  MinPerHop,     \* route_validation.min_liquidity_per_hop
  Pegged,        \* the stables that have a price without the feed
  Deviation,     \* price_deviation_limit
  Extreme,       \* what calculate_price_from_decimals takes for a price
  Reciprocity,   \* RECIPROCITY_MIN .. RECIPROCITY_MAX, as gains
  MaxScans, MaxFaults  \* bounds

ASSUME VenuesAssumption ==
  /\ Adapters \in Seq(Range(Adapters)) /\ Adapters # <<>>
  /\ \A v \in Range(Adapters) : Kind(v) \in {"V3", "V2", "Curve"}
  /\ Directions \in Seq(Range(Directions)) /\ \A d \in Range(Directions) : d = <<d[1], d[2]>>
  /\ Extreme \in Nat /\ MaxFaults \in Nat

(* A venue has one adapter, and one of the exchanges is Uniswap V3.        *)
ASSUME AdaptersAssumption ==
  \A i, j \in DOMAIN Adapters :
    Adapters[i] = Adapters[j] \/ (Kind(Adapters[i]) = "V3" /\ Kind(Adapters[j]) = "V3") => i = j

(* A pool is known by the pair it is asked about, and no exchange has one  *)
(* of a token with itself.  What it gives is a number.                     *)
ASSUME PoolsAssumption ==
  \A m \in Markets : \A p \in DOMAIN m :
    /\ Cardinality(p.pair) = 2
    /\ m[p].slope \in Int /\ m[p].value \in Int
    /\ \A d \in Range(Directions) : {d[1], d[2]} = p.pair => m[p].gain[d] \in Int

VARIABLES
  market,     \* the pools and their prices
  direct,     \* disable_multicall
  stage,      \* what the scan does next
  scan,       \* number of the scan (bound)
  at,         \* the adapter it is at
  got,        \* the prices of that adapter so far
  priceMap,   \* what each adapter has delivered in this scan
  feeTiers,   \* FEE_TIER_CACHE: pair -> tier, 0 where absent
  legTiers,   \* DIRECTIONAL_FEE_TIER_CACHE: <<in, out>> -> tier, 0 where absent
  poolCache,  \* POOL_ADDR_CACHE: [venue, pair, fee] -> tier of the pool
  faults,     \* steps that may still fail
  touched     \* <<venue, direction>> some failed read was about (history)

scanVars == <<market, direct, stage, scan, at, got, priceMap, feeTiers, legTiers,
              poolCache, faults, touched>>

QuoteTiers == <<100, 500, 3000, 10000>>
ExecutableTiers == <<500, 3000, 10000>>
IsExecutable(tier) == tier \in Range(ExecutableTiers)
(* A tenth of the notional, all of it, twice it: more slope per step.       *)
Sizes == <<0, 1, 2>>
DefaultFee == 3000    \* TokenPairPrice::new
CurveFee == 4

Asked == Range(Directions)
PairOf(d) == {d[1], d[2]}
Venue == Adapters[at]
Pool(v, d, tier) == [venue |-> v, pair |-> PairOf(d), tier |-> tier]
Exists(v, d, tier) == Pool(v, d, tier) \in DOMAIN market
Price(d, gain, fee, pool) == [from |-> d[1], to |-> d[2], gain |-> gain, fee |-> fee, pool |-> pool]

(* A fault: nothing, or what the one failed read of a step was about.      *)
NoFault == [kind |-> "none"]
TokenFaults == {[kind |-> "token", token |-> t] : t \in UNION {PairOf(d) : d \in Asked}}
ReadFaults == {[kind |-> "read", dir |-> d, tier |-> t] : d \in Asked, t \in Range(QuoteTiers) \cup {CurveFee}}
AmountFaults == {[kind |-> "amount", token |-> t] : t \in UNION {PairOf(d) : d \in Asked}}
SizeFaults == {[kind |-> "size", dir |-> d, size |-> s] : d \in Asked, s \in Range(Sizes)}
BatchFaults == {[kind |-> "batch", batch |-> b] : b \in 0 .. Len(Directions)}
Fails(fault) == IF fault = NoFault THEN faults' = faults ELSE faults > 0 /\ faults' = faults - 1

ScanInit ==
  /\ market \in Markets
  /\ direct \in BOOLEAN
  /\ stage = "warm" /\ scan = 1 /\ at = 1 /\ got = {}
  /\ priceMap = [v \in Range(Adapters) |-> {}]
  /\ feeTiers = [p \in {PairOf(d) : d \in Asked} |-> 0]
  /\ legTiers = [d \in Asked |-> 0]
  /\ poolCache = << >>
  /\ faults = MaxFaults
  /\ touched = {}

-------------------------------------------------------------------------------
(* Fee tiers                                                               *)

Beats(offers, t, u) == offers[u] < offers[t] \/ (offers[u] = offers[t] /\ t <= u)

(* select_executable_v3_best_out: a later tier must offer more.            *)
SelectExecutable(offers) ==
  {t \in DOMAIN offers :
     IsExecutable(t) /\ \A u \in DOMAIN offers : IsExecutable(u) => Beats(offers, t, u)}

(* Mutant: what was chosen for the pair counts in both directions.         *)
PairTier(prices, d) ==
  {p.pool : p \in {q \in prices : {q.from, q.to} = PairOf(d) /\ IsExecutable(q.pool)}}

(* cache_fee_tier: what a direction was quoted at, and never a tier the    *)
(* executor refuses.                                                       *)
LegTier(prices, d) ==
  {p.pool : p \in {q \in prices : <<q.from, q.to>> = d /\ IsExecutable(q.pool)}}
LastQuoted(prices, pair) ==
  {i \in DOMAIN Directions : PairOf(Directions[i]) = pair /\ LegTier(prices, Directions[i]) # {}}

(* The prices of a V3 venue are cached in the order they were asked for: a *)
(* direction has one, of a pair's two the later one stays.                 *)
Cached(prices) ==
  /\ legTiers' = [d \in DOMAIN legTiers |->
       IF LegTier(prices, d) = {} THEN legTiers[d] ELSE CHOOSE t \in LegTier(prices, d) : TRUE]
  /\ feeTiers' = [pair \in DOMAIN feeTiers |->
       LET last == LastQuoted(prices, pair) IN
       IF last = {} THEN feeTiers[pair]
       ELSE CHOOSE t \in LegTier(prices, Directions[Max(last)]) : TRUE]

-------------------------------------------------------------------------------
(* Quotes                                                                  *)

Offer(v, d, tier, size) ==
  LET p == market[Pool(v, d, tier)] IN p.gain[d] - p.slope * size
IsPrice(gain) == gain \in -Extreme .. Extreme     \* normalize_price

(* Of the sorted prices the one in the middle, the upper one of two.       *)
Middle(prices) ==
  LET half == Cardinality(DOMAIN prices) \div 2 IN
  {m \in Range(prices) :
     /\ Cardinality({x \in DOMAIN prices : prices[x] < m}) <= half
     /\ Cardinality({x \in DOMAIN prices : prices[x] <= m}) > half}
Diverges(prices) ==
  \E x \in DOMAIN prices, m \in Middle(prices) : prices[x] - m \notin -Deviation .. Deviation

(* price_deviation_limit over the executable tiers that answered.          *)
TiersDiverge(offers) ==
  LET tiers == {t \in DOMAIN offers : IsExecutable(t) /\ IsPrice(offers[t])}
  IN Cardinality(tiers) >= 2 /\ Diverges([t \in tiers |-> offers[t]])

(* The tiers of a direction that answer, with what they offer for the      *)
(* notional; the other venues have one pool for a pair.                    *)
TiersOf(v) ==
  CASE Kind(v) = "V3" -> Range(QuoteTiers) [] Kind(v) = "V2" -> {DefaultFee} [] Kind(v) = "Curve" -> {CurveFee}
Offers(v, d, lost) ==
  [t \in {u \in TiersOf(v) : Exists(v, d, u) /\ [kind |-> "read", dir |-> d, tier |-> u] # lost} |->
     Offer(v, d, t, 1)]

(* The directions a call is prepared for: tokens resolved with their       *)
(* decimals, and for Curve two different coins of its pool.                *)
Unresolved(d, fault) == fault.kind = "token" /\ fault.token \in PairOf(d)

Coins(d) == PairOf(d) \subseteq PoolTokens

(* quote_amount_for_usd: without a price of the token there is no amount to*)
(* quote.                                                                  *)
Unsized(d, fault) == fault.kind = "amount" /\ fault.token = d[1]

(* Mutant: one token without decimals and nothing is asked.                *)
ResolvedOrNothing(fault) == IF fault.kind = "token" THEN {} ELSE Asked

(* prepare_call_data of the V3 and the V2 adapters, where a token without  *)
(* an amount is an error of the whole venue (QuoteFails); Curve leaves its *)
(* directions out.                                                         *)
Resolved(fault) == {d \in Asked : ~Unresolved(d, fault)}
Prepared(v, fault) ==
  CASE Kind(v) = "V3" -> Resolved(fault)
    [] Kind(v) = "V2" -> Resolved(fault)
    [] Kind(v) = "Curve" -> {d \in Asked : Coins(d) /\ ~Unsized(d, fault)}

(* The V3 adapter sends its calls in batches and skips one that fails; the *)
(* others send one, whose failure is the venue's.                          *)
Batch(v, fault, d) ==
  LET calls == SelectSeq(Directions, LAMBDA e : e \in Prepared(v, fault))
  IN (Min({i \in DOMAIN calls : calls[i] = d}) - 1) \div BatchSize
Answered(v, fault) ==
  {d \in Prepared(v, fault) : fault.kind = "batch" => Batch(v, fault, d) # fault.batch}

(* get_prices_multicall of the adapters, for one direction.                *)
V3Quote(v, d, fault) ==
  LET offers == Offers(v, d, fault)
  IN IF TiersDiverge(offers) THEN {}
     ELSE {Price(d, offers[t], t, t) : t \in {u \in SelectExecutable(offers) : IsPrice(offers[u])}}
V2Quote(v, d, fault) ==
  LET offers == Offers(v, d, fault)
  IN {Price(d, offers[t], DefaultFee, t) : t \in {u \in DOMAIN offers : IsPrice(offers[u])}}
CurveQuote(v, d, fault) ==
  LET offers == Offers(v, d, fault)
  IN {Price(d, offers[t], CurveFee, t) : t \in {u \in DOMAIN offers : IsPrice(offers[u])}}
QuoteOf(v, d, fault) ==
  CASE Kind(v) = "V3" -> V3Quote(v, d, fault)
    [] Kind(v) = "V2" -> V2Quote(v, d, fault)
    [] Kind(v) = "Curve" -> CurveQuote(v, d, fault)
PricesFor(v, directions, fault) == UNION {QuoteOf(v, d, fault) : d \in directions}
MulticallPrices(v, fault) == PricesFor(v, Answered(v, fault), fault)

(* get_price of V3: some pool, the best executable tier for the notional,  *)
(* and the middle of its prices for three amounts, if two of them answer   *)
(* and they agree.                                                         *)
Sampled(v, d, tier, fault) ==
  [s \in {x \in Range(Sizes) : /\ fault # [kind |-> "size", dir |-> d, size |-> x]
                               /\ IsPrice(Offer(v, d, tier, x))} |-> Offer(v, d, tier, s)]
Sound(prices) == Cardinality(DOMAIN prices) >= 2 /\ ~Diverges(prices)
V3Price(v, d, fault) ==
  UNION {{Price(d, m, DefaultFee, t) : m \in Middle(Sampled(v, d, t, fault))} :
          t \in {u \in SelectExecutable(Offers(v, d, fault)) : Sound(Sampled(v, d, u, fault))}}

V2Price(v, d, fault) == V2Quote(v, d, fault)
CurvePrice(v, d, fault) ==
  {[p EXCEPT !.fee = DefaultFee] : p \in {q \in CurveQuote(v, d, fault) : Coins(d)}}

(* get_price, for one direction: without a fee tier of its own.  The coins *)
(* of the Curve pool have known decimals.                                  *)
PriceOf(v, d, fault) ==
  IF Unsized(d, fault) \/ (Kind(v) # "Curve" /\ Unresolved(d, fault)) THEN {}
  ELSE CASE Kind(v) = "V3" -> V3Price(v, d, fault)
         [] Kind(v) = "V2" -> V2Price(v, d, fault)
         [] Kind(v) = "Curve" -> CurvePrice(v, d, fault)
DirectPrices(v, fault) == UNION {PriceOf(v, d, fault) : d \in Asked}

-------------------------------------------------------------------------------
(* Pools                                                                   *)

(* get_pool_address_for_liquidity: the tier asked for, else the first of   *)
(* the executable ones, else the first of any; both lists ascend.  A lookup*)
(* that fails passes on to the next.                                       *)
There(v, d, tiers) == {t \in tiers : Exists(v, d, t)}
V3LookUp(v, d, hint, lost) ==
  LET executable == There(v, d, Range(ExecutableTiers) \ {lost})
      any == There(v, d, Range(QuoteTiers))
  IN IF hint \in executable THEN {hint}
     ELSE IF executable # {} THEN {Min(executable)}
     ELSE IF any # {} THEN {Min(any)}
     ELSE {}
V2LookUp(v, d, lost) == {t \in {DefaultFee} : Exists(v, d, t) /\ t # lost}
CurveLookUp == {CurveFee}
LookUp(v, d, hint, lost) ==
  CASE Kind(v) = "V3" -> V3LookUp(v, d, hint, lost)
    [] Kind(v) = "V2" -> V2LookUp(v, d, lost)
    [] Kind(v) = "Curve" -> CurveLookUp

(* Mutant: the fee tier is no part of the key.                             *)
PairKey(v, d, fee) == [venue |-> v, pair |-> PairOf(d), fee |-> 0]
PoolKey(v, d, fee) == [venue |-> v, pair |-> PairOf(d), fee |-> fee]

(* warm_monitor_metadata: for every monitored pair and adapter with some   *)
(* pool, one under each executable tier.  A token that is not what the     *)
(* configuration says ends the warm-up before the first pool.              *)
WarmKeys == {<<v, d, f>> : v \in Range(Adapters), d \in Asked, f \in Range(ExecutableTiers)}
WarmPool(k, fault) ==
  LET lost == IF fault.kind = "lookup" /\ fault.venue = k[1] /\ fault.pair = PairOf(k[2]) /\ fault.hint = k[3]
              THEN fault.tier ELSE 0
  IN IF LookUp(k[1], k[2], DefaultFee, 0) = {} THEN {} ELSE LookUp(k[1], k[2], k[3], lost)
LookUpFaults ==
  {[kind |-> "lookup", venue |-> v, pair |-> PairOf(d), hint |-> h, tier |-> t] :
     v \in Range(Adapters), d \in Asked, h \in Range(ExecutableTiers), t \in Range(ExecutableTiers)}
LostPair(fault) == {<<fault.venue, d>> : d \in {e \in Asked : PairOf(e) = fault.pair}}

WarmUp ==
  \E fault \in {NoFault} \cup LookUpFaults :
    LET keys == {k \in WarmKeys : WarmPool(k, fault) # {}} IN
    /\ Fails(fault)
    /\ poolCache' = [key \in {PoolKey(k[1], k[2], k[3]) : k \in keys} |->
                      CHOOSE t \in UNION {WarmPool(k, fault) : k \in {j \in keys : PoolKey(j[1], j[2], j[3]) = key}} : TRUE]
    /\ touched' = IF fault = NoFault THEN {} ELSE LostPair(fault)
WarmUpFails ==
  /\ Fails([kind |-> "token"])
  /\ UNCHANGED <<poolCache, touched>>
Warm ==
  /\ stage = "warm" /\ stage' = "quote"
  /\ WarmUp \/ WarmUpFails
  /\ UNCHANGED <<market, direct, scan, at, got, priceMap, feeTiers, legTiers>>

-------------------------------------------------------------------------------
(* A scan                                                                  *)

(* The directions a failed read of the adapter is about.                   *)
TouchedBy(v, fault) ==
  CASE fault.kind = "none" -> {}
    [] fault.kind = "token" -> {<<v, d>> : d \in {e \in Asked : Unresolved(e, fault)}}
    [] fault.kind = "amount" -> {<<v, d>> : d \in {e \in Asked : Unsized(e, fault)}}
    [] fault.kind \in {"read", "size"} -> {<<v, fault.dir>>}
    [] fault.kind = "batch" -> {<<v, d>> : d \in {e \in Prepared(v, fault) : Batch(v, fault, e) = fault.batch}}

(* The multicall answers, except for what one fault takes away.            *)
MulticallFaults(v) ==
  {NoFault} \cup TokenFaults \cup ReadFaults
    \cup (CASE Kind(v) = "V3" -> BatchFaults [] Kind(v) = "V2" -> {} [] Kind(v) = "Curve" -> AmountFaults)
Remembered(v, prices) == IF Kind(v) = "V3" THEN Cached(prices) ELSE UNCHANGED <<legTiers, feeTiers>>
Quote ==
  /\ stage = "quote" /\ ~(direct /\ Kind(Venue) = "V3")
  /\ \E fault \in MulticallFaults(Venue) :
       /\ Fails(fault)
       /\ got' = MulticallPrices(Venue, fault)
       /\ touched' = touched \cup TouchedBy(Venue, fault)
  /\ Remembered(Venue, got')
  /\ stage' = "gate"
  /\ UNCHANGED <<market, direct, scan, at, priceMap, poolCache>>

(* An error or no answer in time: get_prices_fallback asks pair by pair.   *)
(* The batches a V3 venue had answered by then have left their tiers.      *)
AnsweredBefore(v, k) == {d \in Prepared(v, NoFault) : Batch(v, NoFault, d) < k}
QuoteFails ==
  /\ stage = "quote" /\ ~(direct /\ Kind(Venue) = "V3")
  /\ Fails([kind |-> "venue"])
  /\ \E k \in 0 .. Len(Directions) \div BatchSize :
       Remembered(Venue, PricesFor(Venue, AnsweredBefore(Venue, k), NoFault))
  /\ stage' = "fallback"
  /\ UNCHANGED <<market, direct, scan, at, got, priceMap, poolCache, touched>>

(* Without multicall the V3 adapter asks pair by pair from the start.      *)
DirectFaults == {NoFault} \cup TokenFaults \cup AmountFaults \cup ReadFaults \cup SizeFaults
Fallback ==
  /\ stage = "fallback" \/ (stage = "quote" /\ direct /\ Kind(Venue) = "V3")
  /\ \E fault \in DirectFaults :
       /\ Fails(fault)
       /\ got' = DirectPrices(Venue, fault)
       /\ touched' = touched \cup TouchedBy(Venue, fault)
  /\ Remembered(Venue, got')
  /\ stage' = "gate"
  /\ UNCHANGED <<market, direct, scan, at, priceMap, poolCache>>

(* min_pool_liquidity_usd_for_dex.                                         *)
MinValue(v) ==
  Max({IF Threshold(v) = <<>> THEN MinLiquidity ELSE Threshold(v)[1], MinPerHop})

(* What a pool holds of the two tokens, in dollars; a token without a price*)
(* counts nothing, and without any price nothing is measured.              *)
Unpriced(t, fault) == fault.kind = "feed" /\ t \in fault.tokens \ Pegged
PricedOf(d, fault) == {t \in PairOf(d) : ~Unpriced(t, fault)}
Tvl(v, d, tier, fault) == market[Pool(v, d, tier)].value * Cardinality(PricedOf(d, fault))

(* filter_token_prices_by_liquidity: the pool measured is the cached one  *)
(* of the price's fee, or looked up and cached; a price that cannot be     *)
(* measured stays, and one whose pool holds less than the minimum goes.    *)
KeyOf(v, p) == PoolKey(v, <<p.from, p.to>>, p.fee)
Measured(v, p, lost) ==
  IF KeyOf(v, p) \in DOMAIN poolCache THEN {poolCache[KeyOf(v, p)]}
  ELSE LookUp(v, <<p.from, p.to>>, p.fee, lost)
IsThin(v, p, tier, fault) ==
  /\ Exists(v, <<p.from, p.to>>, tier) /\ PricedOf(<<p.from, p.to>>, fault) # {}
  /\ Tvl(v, <<p.from, p.to>>, tier, fault) < MinValue(v)
Lost(v, p, fault) ==
  IF fault.kind = "lookup" /\ fault.venue = v /\ fault.pair = {p.from, p.to} /\ fault.hint = p.fee
  THEN fault.tier ELSE 0
Passes(v, p, fault) ==
  \/ fault.kind = "balances"
  \/ fault.kind = "price" /\ fault.price = p
  \/ \A tier \in Measured(v, p, Lost(v, p, fault)) : ~IsThin(v, p, tier, fault)
LookedUp(v, fault) ==
  LET found == {p \in got : KeyOf(v, p) \notin DOMAIN poolCache /\ Measured(v, p, Lost(v, p, fault)) # {}}
  IN [key \in DOMAIN poolCache \cup {KeyOf(v, p) : p \in found} |->
       IF key \in DOMAIN poolCache THEN poolCache[key]
       ELSE CHOOSE t \in UNION {Measured(v, p, Lost(v, p, fault)) : p \in {q \in found : KeyOf(v, q) = key}} : TRUE]

(* prune_non_reciprocal: both directions of a pair whose round trip in the *)
(* venue is no round trip of a pool.                                       *)
Reciprocal(prices, p) ==
  \A q \in prices : q.from = p.to /\ q.to = p.from => p.gain + q.gain \in Reciprocity
Pruned(prices) == {p \in prices : Reciprocal(prices, p)}

FeedFaults == {[kind |-> "feed", tokens |-> T] : T \in SUBSET (UNION {PairOf(d) : d \in Asked} \ Pegged) \ {{}}}
Misjudged(v, fault) ==
  CASE fault.kind = "lookup" -> LostPair(fault)
    [] fault.kind = "feed" -> {<<v, d>> : d \in {e \in Asked : PricedOf(e, fault) # PairOf(e)}}
    [] OTHER -> {}
GateFaults(v) ==
  FeedFaults \cup {NoFault, [kind |-> "balances"]} \cup {[kind |-> "price", price |-> p] : p \in got}
    \cup {f \in LookUpFaults : f.venue = v}
NextVenue ==
  IF at < Len(Adapters) THEN stage' = "quote" /\ at' = at + 1 ELSE stage' = "delivered" /\ at' = at
Gate ==
  /\ stage = "gate"
  /\ \E fault \in GateFaults(Venue) :
       /\ Fails(fault)
       /\ priceMap' = [priceMap EXCEPT ![Venue] = Pruned({p \in got : Passes(Venue, p, fault)})]
       /\ poolCache' = IF MinValue(Venue) = 0 THEN poolCache ELSE LookedUp(Venue, fault)
       /\ touched' = touched \cup Misjudged(Venue, fault)
  /\ got' = {}
  /\ NextVenue
  /\ UNCHANGED <<market, direct, scan, feeTiers, legTiers>>

(* A new block with other prices, and the next scan; entries of the pool   *)
(* cache live for an hour.                                                 *)
NextScan ==
  /\ stage = "delivered" /\ scan < MaxScans
  /\ market' \in Markets
  /\ poolCache' \in {poolCache, << >>}
  /\ scan' = scan + 1 /\ at' = 1 /\ stage' = "quote"
  /\ priceMap' = [v \in Range(Adapters) |-> {}]
  /\ UNCHANGED <<direct, got, feeTiers, legTiers, faults, touched>>

ScanNext == Warm \/ Quote \/ QuoteFails \/ Fallback \/ Gate \/ NextScan

-------------------------------------------------------------------------------
(* Properties                                                              *)

(* The tier a step is built with is the tier its price was quoted at, also *)
(* after scans in which another tier was the better one, and one the       *)
(* executor accepts (create_step reads DIRECTIONAL_FEE_TIER_CACHE).        *)
TierIsTheQuoted ==
  stage = "delivered" =>
    \A v \in Range(Adapters) : Kind(v) = "V3" =>
      \A p \in priceMap[v] :
        IsExecutable(p.pool) /\ legTiers[<<p.from, p.to>>] = p.pool

(* While every read has answered, what comes out of a scan by multicall was*)
(* quoted by a pool that holds its venue's minimum, whatever pools were    *)
(* cached for other tiers, directions or earlier blocks (PoolsStay).       *)
ThinPoolsAreCut ==
  stage = "delivered" /\ faults = MaxFaults =>
    \A v \in Range(Adapters) : ~(direct /\ Kind(v) = "V3") =>
      \A p \in priceMap[v] : ~IsThin(v, p, p.pool, NoFault)

(* An entry of the pool cache lives for an hour.  For a fee without a pool *)
(* it holds another one, and that would be measured for a pool created in  *)
(* the meantime: here no pool is.                                          *)
PoolsStay ==
  \A m, n \in Markets : \A p \in DOMAIN m : IsExecutable(p.tier) => p \in DOMAIN n

(* What a scan without any failure would deliver for a venue.              *)
Nominal(v) ==
  Pruned({p \in MulticallPrices(v, NoFault) : ~IsThin(v, p, p.pool, NoFault)})

(* A failed read costs the prices it is about and no others: a token       *)
(* without decimals, a lost call or batch, a lost lookup or a whole        *)
(* multicall that fails hides no pair of a venue that could be quoted      *)
(* without it.  (V3 asked pair by pair judges its prices in another way.)  *)
NoPairIsHiddenByAnother ==
  stage = "delivered" =>
    \A v \in Range(Adapters) : Kind(v) # "V3" =>
      \A p \in Nominal(v) :
        \/ <<v, <<p.from, p.to>>>> \in touched
        \/ \E q \in priceMap[v] : q.from = p.from /\ q.to = p.to

================================================================================
