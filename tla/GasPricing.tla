------------------------------ MODULE GasPricing -------------------------------
(***************************************************************************)
(* What a transaction will cost: GasEstimator (core/gas.rs) over a feed.   *)
(* The executor prices a route and fills its transactions; the nonce reaper*)
(* fills its replacements with the same estimator and the same caches.     *)
(*                                                                         *)
(* A fee is the age of the reading it was computed from: nothing else of it*)
(* is compared.  Default is the configured price, which no reading backs.  *)
(***************************************************************************)
EXTENDS PriceFeed

CONSTANTS
    Executor, Reaper,
    Native,         \* WMATIC
    Ttl,            \* gas.cache_ttl
    MaxStale,       \* native_price_max_stale_secs
    Default         \* default_gas_price_gwei

ASSUME PricingAssumption ==
    /\ Native \in Symbols /\ Ttl \in Nat \ {0} /\ MaxStale \in Nat
    /\ Default \notin Nat /\ Executor # Reaper /\ {Executor, Reaper} \cap Readers = {}
    /\ NoReader \notin {Executor, Reaper}

VARIABLES
    oracleOn,       \* gas.use_polygon_oracle
    strictOn,       \* gas.require_fresh_native_price
    gas,            \* gas_cache:      EmptyCache or [fee, age]
    base,           \* base_fee_cache: EmptyCache or [fee, age]
    oracle,         \* oracle_cache:   EmptyCache or [fee, age]
    task,           \* estimator task -> where it is
    strict          \* the executor's snapshot of strictOn

pricingVars == <<oracleOn, strictOn, gas, base, oracle, task, strict>>
gasVars == <<feedVars, pricingVars>>

Estimators == {Executor, Reaper}
PriceTasks == Readers \cup {Executor}
EmptyCache == [fee |-> Default, age |-> Ttl]         \* nothing in the cache, or too old
Valid(cache) == cache.age < Ttl
Reading(fee) == [fee |-> fee, age |-> 0]
Grown(fee) == IF fee = Default THEN Default ELSE fee + 1
Later(cache) == IF ~Valid(cache) \/ cache.age + 1 = Ttl THEN EmptyCache
                ELSE [fee |-> Grown(cache.fee), age |-> cache.age + 1]

PricingInit ==
    /\ FeedInit(PriceTasks)
    /\ oracleOn \in BOOLEAN /\ strictOn \in BOOLEAN
    /\ gas = EmptyCache /\ base = EmptyCache /\ oracle = EmptyCache
    /\ task = [e \in Estimators |-> "idle"] /\ strict = strictOn

Goto(e, p) == task' = [task EXCEPT ![e] = p]

(* populate_dynamic_gas, until it waits for somebody: its own cache, the   *)
(* oracle's, and if the oracle is off the base fee's.                      *)
BaseHitRenewed == gas' = Reading(base.fee) /\ base' = Reading(base.fee)
BaseHit == gas' = Reading(base.fee) /\ UNCHANGED base
Populate(e, done) ==
    IF Valid(gas) THEN Goto(e, done) /\ UNCHANGED <<gas, base, oracle>>
    ELSE IF oracleOn /\ Valid(oracle)
         THEN /\ gas' = Reading(oracle.fee) /\ base' = Reading(oracle.fee)
              /\ Goto(e, done) /\ UNCHANGED oracle
    ELSE IF oracleOn THEN Goto(e, "oracle") /\ UNCHANGED <<gas, base, oracle>>
    ELSE IF Valid(base) THEN BaseHit /\ Goto(e, done) /\ UNCHANGED oracle
    ELSE Goto(e, "node") /\ UNCHANGED <<gas, base, oracle>>

(* What follows populate_dynamic_gas: the executor goes on to the base fee.*)
AfterFees(e) == IF e = Executor THEN "base" ELSE "idle"

Begin(e) ==
    /\ task[e] \in {"idle", "priced", "refused"}
    /\ Populate(e, AfterFees(e))
    /\ strict' = IF e = Executor THEN strictOn ELSE strict
    /\ UNCHANGED <<feedVars, oracleOn, strictOn>>

(* fetch_polygon_oracle_ttl: an answer fills three caches; without one the *)
(* node is asked, through the base fee's cache.                            *)
OracleAnswers(e) ==
    /\ task[e] = "oracle"
    /\ oracle' = Reading(0) /\ gas' = Reading(0) /\ base' = Reading(0)
    /\ Goto(e, AfterFees(e))
    /\ UNCHANGED <<feedVars, oracleOn, strictOn, strict>>

OracleFails(e) ==
    /\ task[e] = "oracle"
    /\ IF Valid(base) THEN BaseHit /\ Goto(e, AfterFees(e))
       ELSE Goto(e, "node") /\ UNCHANGED <<gas, base>>
    /\ UNCHANGED <<feedVars, oracleOn, strictOn, oracle, strict>>

(* latest_base_fee within populate_dynamic_gas: no answer is not cached,   *)
(* but the fees made of the default are.                                   *)
NodeAnswers(e) ==
    /\ task[e] = "node"
    /\ \/ base' = Reading(0) /\ gas' = Reading(0)
       \/ UNCHANGED base /\ gas' = Reading(Default)
    /\ Goto(e, AfterFees(e))
    /\ UNCHANGED <<feedVars, oracleOn, strictOn, oracle, strict>>

(* get_cached_base_fee of the estimate.                                    *)
BaseFee ==
    /\ task[Executor] = "base"
    /\ Goto(Executor, IF Valid(base) THEN "native" ELSE "asking base")
    /\ UNCHANGED <<feedVars, oracleOn, strictOn, gas, base, oracle, strict>>

BaseAnswers ==
    /\ task[Executor] = "asking base"
    /\ base' \in {Reading(0), base}
    /\ Goto(Executor, "native")
    /\ UNCHANGED <<feedVars, oracleOn, strictOn, gas, oracle, strict>>

(* The native token's price: strictly from the cache, which ends the       *)
(* estimate with a cost or with an error; or as everybody else gets it.    *)
StrictPrice ==
    /\ task[Executor] = "native" /\ strict
    /\ Goto(Executor, IF Strict(Native, MaxStale) THEN "priced" ELSE "refused")
    /\ UNCHANGED <<feedVars, oracleOn, strictOn, gas, base, oracle, strict>>

AnyPrice ==
    /\ task[Executor] = "native" /\ ~strict /\ lookup[Executor] = "idle"
    /\ IF Fresh(Native)
       THEN Goto(Executor, "priced") /\ UNCHANGED feedVars
       ELSE Miss(Executor, Native) /\ UNCHANGED task
    /\ UNCHANGED <<oracleOn, strictOn, gas, base, oracle, strict>>

(* reload_config                                                           *)
GasReload ==
    /\ oracleOn' \in BOOLEAN /\ strictOn' \in BOOLEAN
    /\ UNCHANGED <<feedVars, gas, base, oracle, task, strict>>

GasTick ==
    /\ FeedTick
    /\ gas' = Later(gas) /\ base' = Later(base) /\ oracle' = Later(oracle)
    /\ UNCHANGED <<lookup, asked, fetching, oracleOn, strictOn, task, strict>>

EstimatorStep(e) == Begin(e) \/ OracleAnswers(e) \/ OracleFails(e) \/ NodeAnswers(e)
PricingNext ==
    \/ \E e \in Estimators : EstimatorStep(e)
    \/ BaseFee \/ BaseAnswers \/ StrictPrice \/ AnyPrice
    \/ \E r \in Readers : FeedStep(r) /\ UNCHANGED pricingVars
    \/ (Recheck(Executor) \/ PriceAnswered(Executor)) /\ UNCHANGED pricingVars
    \/ GasReload \/ GasTick

PricingSpec == PricingInit /\ [][PricingNext]_gasVars

-------------------------------------------------------------------------------
(* Properties *)

(* Caches feed caches: the fees of populate_dynamic_gas may be made of a   *)
(* cached base fee or of the oracle's cached answer and are then cached    *)
(* themselves.  Still no fee that is served was read longer than two       *)
(* lifetimes ago, through failures, reloads and the reaper's own calls.    *)
FeesAreRecent ==
    Valid(gas) => gas.fee = Default \/ gas.fee <= 2 * (Ttl - 1)
=============================================================================
