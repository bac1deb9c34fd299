------------------------------- MODULE PriceFeed -------------------------------
(***************************************************************************)
(* infra/price_feed.rs: CachedPriceFeed.  One process-wide cache of USD    *)
(* prices and one process-wide FETCH_LOCK: a miss waits for the lock, looks*)
(* again, and only then asks Coingecko.  An answer that is no price, and   *)
(* no answer, put the table's price in the cache, for a shorter time.      *)
(*                                                                         *)
(* Instants are ages in ticks that stop growing once they cannot matter.   *)
(***************************************************************************)
EXTENDS Naturals, FiniteSets

CONSTANTS
    Symbols,
    Readers,        \* tasks that size a quote or a pool (quote_amount_for_usd, token_price_usd)
    MarketTtls,     \* what ttl_with_jitter makes of the 120 s
    TableTtls,      \* and of the 15 s
    OldestPrice,    \* ages above it are all the same
    NoReader

ASSUME PriceFeedAssumption ==
    /\ MarketTtls \subseteq Nat \ {0} /\ TableTtls \subseteq Nat \ {0}
    /\ OldestPrice \in Nat /\ \A t \in MarketTtls \cup TableTtls : t <= OldestPrice
    /\ NoReader \notin Readers

VARIABLES
    price,          \* symbol -> Absent, or what CACHE holds
    lookup,             \* task -> where it is in get_price
    asked,             \* task -> the symbol it asked for
    fetching        \* the holder of FETCH_LOCK

feedVars == <<price, lookup, asked, fetching>>

Absent == [from |-> "nowhere"]
FeedInit(tasks) ==
    /\ price = [s \in Symbols |-> Absent]
    /\ lookup = [r \in tasks |-> "idle"] /\ asked = [r \in tasks |-> CHOOSE s \in Symbols : TRUE]
    /\ fetching = NoReader

(* read_fresh_cache                                                        *)
Fresh(s) == price[s] # Absent /\ price[s].age < price[s].ttl

(* get_price: a fresh entry is the answer; a miss waits for the lock.      *)
Miss(r, s) ==
    /\ lookup[r] = "idle" /\ ~Fresh(s)
    /\ lookup' = [lookup EXCEPT ![r] = "queueing"] /\ asked' = [asked EXCEPT ![r] = s]
    /\ UNCHANGED <<price, fetching>>

AskAnyway(s) == TRUE
StillMissing(s) == ~Fresh(s)

(* Under the lock the cache is read again: only a miss goes to the network.*)
Recheck(r) ==
    /\ lookup[r] = "queueing" /\ fetching = NoReader
    /\ IF StillMissing(asked[r])
       THEN lookup' = [lookup EXCEPT ![r] = "asking"] /\ fetching' = r
       ELSE lookup' = [lookup EXCEPT ![r] = "idle"] /\ UNCHANGED fetching
    /\ UNCHANGED <<price, asked>>

(* fetch_from_coingecko ended: a price, or the table's in its place.       *)
PriceAnswers ==
    {[from |-> "market", age |-> 0, ttl |-> t] : t \in MarketTtls} \cup
    {[from |-> "table", age |-> 0, ttl |-> t] : t \in TableTtls}

PriceAnswered(r) ==
    /\ lookup[r] = "asking"
    /\ \E entry \in PriceAnswers : price' = [price EXCEPT ![asked[r]] = entry]
    /\ lookup' = [lookup EXCEPT ![r] = "idle"] /\ fetching' = NoReader
    /\ UNCHANGED asked

(* get_price_strict: no request, and the entry's own ttl plays no part.    *)
Strict(s, maxStale) ==
    /\ price[s].from = "market"
    /\ maxStale > 0 => price[s].age <= maxStale

FeedTick == price' = [s \in Symbols |->
    IF price[s] = Absent \/ price[s].age > OldestPrice THEN price[s]
    ELSE [price[s] EXCEPT !.age = @ + 1]]

FeedStep(r) == (\E s \in Symbols : Miss(r, s)) \/ Recheck(r) \/ PriceAnswered(r)

-------------------------------------------------------------------------------
(* Properties *)

(* Single flight: at most one request is under way, and while it is the    *)
(* cache holds no price of its symbol that is still fresh, so two requests *)
(* for a symbol are at least a ttl apart whoever asks (get_price).         *)
SingleFlight ==
    \A r \in DOMAIN lookup : lookup[r] = "asking" =>
        /\ fetching = r /\ ~Fresh(asked[r])
        /\ \A q \in DOMAIN lookup : lookup[q] = "asking" => q = r
=============================================================================
