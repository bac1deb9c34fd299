# A TLA+ model of the DEX arbitrage bot

The bot watches pools on Polygon, looks for cycles of swaps that end with more
than they began with, and executes them through a contract, with a flash loan
or with its own capital. Next to that path runs a second, read-only one, the
canonical discovery, which quotes whole rounds at one block. This directory
holds TLA+ modules for both, TLC configurations that check them on small
instances, and proofs, checked by TLAPS, of the properties that matter most.

Paths below are relative to the repository root; `src/` is the Rust crate,
`contracts/` the Solidity sources, `config.toml` the shipped configuration.

## 1. The system

| Part | State | Operations | Works with |
|---|---|---|---|
| Process (`src/main.rs`, `tui.rs`, `emergency_shutdown.rs`) | the broadcast of shutdowns, the armed flag, the tasks and threads | start up step by step, supervise radar and executor, hear a request to stop, drain, force the exit | everything |
| Radar (`dex/radar.rs`) | last prices per venue and pair, the filter's memory, the channel of price maps | subscribe to blocks, scan under `CYCLE_TIMEOUT`, filter pairs, deliver | manager, executor |
| DEX manager and adapters (`dex/manager.rs`, `dex/adapters/*`, `dex/liquidity.rs`, `dex/metadata_warm.rs`) | health and error counts under two locks, caches of tiers and pools | quote by multicall or one by one, gate thin pools, warm up | radar, price feed, rate limiter |
| Finder (`core/arbitrage.rs`, `core/bf_graph.rs`) | none between calls | adjacent pairs, direct trips, triangles, Bellman-Ford; deduplicate, rotate, approve | radar, executor |
| Arbitrage client (`core/flashloan.rs`, `core/bot.rs`) | the batch, fee caches, ledger and reaper behind mutexes, the shared configuration | select, judge, build, simulate, gates, reap, reserve a nonce, send, replace, confirm, account | node, ledger, reaper, contract |
| Nonce reaper (`core/nonce_reaper.rs`) | `in_flight` (nonce to instant), failures, kill switch | `note_broadcast`, `verdict`, `note_canceled`, `record_failure`, `record_success` | arbitrage client |
| Profit ledger (`core/profit_ledger.rs`) | trades by hash, provisory and final profit, run of losses, breaker | `record_included`, `promote`, `revert`, `detect_reorg` | arbitrage client |
| Executor contract (`contracts/FlashloanExecutor.sol`) | lock, pause, roles, counters, balances, allowances | `executeDirect`, `executeFlashloan`, `executeOperation` (callback), administration, withdrawals | Aave pool, routers, wrapper |
| Wrapper contract (`contracts/FlashloanCaller.sol`) | the executor's address | `triggerFlashloan` | Aave pool, executor contract |
| Canonical discovery (`core/canonical_*`, `core/phase2d_anchor.rs`) | the round's anchor, its quotes, the metadata cache with single flight | quote all pools at one block, find and rank triangles, quote them again, make evidence | node |
| Canonical worker (`main.rs` `run_canonical_mode`, `core/c2b_shadow_service.rs`, `core/stability.rs`) | windows per route, the last anchor | run rounds, judge stability, assess, simulate | discovery |
| RPC transport (`infra/rotating_http_client.rs`, `infra/rpc_provider.rs`) | the shared index of the current endpoint | request, classify, rotate, back off | everything that asks the chain |
| Services (`dex/rate_limiter.rs`, `utils/price_feed.rs`, `core/gas.rs`, `core/gas_oracle.rs`, cooldowns of `config/mod.rs`, `core/paper_validation.rs`) | lists, caches, averages, a queue | admit, look up, learn, record | client, adapters |
| MEV engine (`execution/*`) | local nonce, resync flag, cooldown per pair | next nonce, resync, send a bundle | relay; not wired: `ArbitrageBot::new` passes `None` |
| Offline tools (`core/replay_*`, `core/c2b_orchestrator.rs`, `core/c2b_fork_stages.rs`, `core/fork_*`) | rows, reports, a local fork | replay past blocks; execute a route on a fork | archive node, anvil |

What is hard here: a send may fail for its caller and still reach the network;
a transaction that was replaced or evicted may still be the one that is mined;
the executor and the radar's cycle may be cancelled at any `await`; tasks share
two locks in two orders; the chain may reorganise below what the ledger has
recorded, and in the middle of a round; the configuration is reloaded between
any two reads of it; a venue, a tier or a price may be missing while the others
answer; the contract is re-entered by the pool in the middle of its own
transaction, and a `try` block undoes half of one.

What makes each part correct:

* process — no failure ends the bot, a request to stop does, whatever hangs;
* radar — no venue and no pair is left out for ever by a filter or a breaker;
* quotes — a tier that is recorded is the one that was quoted, a thin pool is
  cut, a pair that one venue cannot quote is not lost for the others;
* finder — every route is a closed chain, no profitable trip is dropped for a
  reason other than the code's own, a plan stays within its allowance;
* preparation — what is sent covers its costs and was rehearsed;
* send path — a logical attempt is executed at most once; what it reports is
  true; closed gates let nothing out; retries and replacements are bounded; the
  batch ends;
* ledger — totals are the sums of the trades; final is deep enough; only
  realized final losses trip the breaker;
* contract — its own holdings are never spent; counters tell the truth; nobody
  loses by an execution; stopped means stopped;
* discovery and worker — evidence is what the trade would give; one call per
  lookup and no answer older than its time to live; an approval rests on three
  spaced anchors that gained;
* transport — one endpoint that stays up is enough;
* services — no more requests in a window than allowed, one fetch at a time, no
  fee older than its tolerance, no sample lost, no nonce given twice.

`PROJECT.json` lists every component with its status, and under `hazards`
where in the code each of these difficulties bites.

## 2. The modules

    Venues                adapters, gate, tier caches, warm-up, pruning
    Finder                the four searches and what becomes of their routes
      Pipeline            Venues + Finder: a scan is the map that is searched
        Preparation       + selection, judgement, building,
                            simulation                            PreparationProofs
    Radar                 scans as tasks, breaker and filter      DiscoveryProofs
    Runtime               the life of the process                 ServicesProofs
    Transport             rotation over endpoints                 ServicesProofs
    TradeAttempts         what the executor owes to who reads its
                            results (abstract)
    NonceReaper           reaper state and calls
      SendAndConfirm      + the send path, the node, the chain,
                            which implement TradeAttempts         SendAndConfirmProofs
    ProfitLedger          ledger, every call in any order
      ConfirmedTrades     + the executor that drives it, a chain
                            with reorganisations                  ProfitLedgerProofs
    FlashloanExecutor     executor contract, pool, wrapper        FlashloanExecutorProofs
    MetadataOracle        what the metadata cache promises (abstract)
      MetadataCache       the cells that implement it             DiscoveryProofs
    CanonicalQuotes       phase A of a round: tasks, pools, quotes
      CanonicalRound      + graph, ranking, phase B, evidence     CanonicalLoopProofs
    CanonicalLoop         the worker over many rounds             CanonicalLoopProofs
    RateLimiter, Paper, ExecutionEngine, Cooldowns                ServicesProofs
    PriceFeed
      GasPricing          + the estimator over the feed           ServicesProofs
    ForkValidation        a candidate executed on a fork          ServicesProofs
    ReplayScan            past blocks quoted and simulated again  ServicesProofs
    GasCalibration        what receipts teach of gas              ServicesProofs
    SumTheorems           sums over finite sets, filters of
                            sequences, lists laid end to end, and
                            the induction for all of them
    MC*                   constants for TLC

Each module is parameterised by CONSTANTS with named assumptions, has one action
per operation (from one `await` to the next where tasks interleave) and no
RECURSIVE operator. The modules meet where the code does: Pipeline makes the
prices of a scan the price map of the finder, with the tiers the scan has left
in the global cache; Preparation continues from the finder's routes to the call
of `send_and_confirm_transaction`, where SendAndConfirm begins; ConfirmedTrades
takes the receipts on to the ledger. CanonicalLoop takes a round as one step
whose outcomes CanonicalRound shows to be possible. Radar and Runtime abstract
what a scan and a batch do; the composition of all of them in one state space
is out of TLC's reach and would tell nothing that the borders do not.

### Venues, Finder, Pipeline

A rate is taken in logarithms and relative to the tokens' reference prices, in
basis points, so a route adds gains and 0 is break-even (`bf_graph.rs` itself
works on logarithms; the other searches multiply and compare with limits, which
a monotone scale keeps, up to the product of small percentages). Pools have a
gain per direction, a slope (the more is traded the less they give) and a dollar
value. `ScanNext` walks the venues one by one: they run in tasks of their own
but share only caches that are keyed by venue. A step may lose one read, and a
behaviour `MaxFaults` of them: a token's address, one quote, one amount, one
size, a whole multicall batch, the dollar prices of any set of tokens, the
balances of a pool, a lookup. What then becomes of the rest of the step is the
code's answer: V2 and V3 give up the batch where Curve skips the pair, a failed
V3 batch still counts as a success, `Fallback` quotes one by one. Thin pools are
cut by `Gate`, in whose value a token without a price counts nothing.

The finder is one function of a price map, so its searches are operators, and
its actions are the steps in which the code hands sets on: the map is iterated in
hash order, so `quotes` lists its entries in any order. `Convert` rotates a cycle
to a stable token and plans its slippage hop by hop.

### Preparation

`select_opportunities` either observes or ranks and cuts to `top_n`; each ranked
route then passes the guards of `execute_opportunity` in their order. The
configuration is read anew by every function, and `Reload` may come between any
two of them. Fees of gas and of the loan are read from the node and may fail or
be stale. Amounts are whole units of a token worth `Tick` basis points, so the
minimum profit is rounded as the code rounds it.

### Radar

The radar's cycle, one task per venue and the health checker share the health
map and the error counts under two asynchronous locks. `CycleTimeout` drops the
cycle and its tasks at any await; guards open, what was written stays. Readers
hold a lock for no await and are part of the step that reads. A price is nothing
or a level; two levels differ by the filter's spread.

### NonceReaper and SendAndConfirm

An `op` is a logical attempt: one opportunity sent. The executor is one
sequential task; `pc` names the await it is at and each action runs from one
await to the next, with all branches of the code in between:

| pc | code | leaves by |
|---|---|---|
| `prepare` | `execute_opportunity_standalone`, `execute_opportunity`, the strategies | `Refuse`, `ApproveSent`, `ApproveNotSent`, `PassGates` |
| `approve`, `simulate` | `approve_token_for_execution`, what follows it in `execute_direct` | `Approved`, `RefuseApproved`, `PassGates` |
| `reap`, `reapFresh`, `cancel` | `reap_stuck_nonces`, `reap_decide` | `ReapBlind`, `ReapLook`, `ReapFresh`, `CancelSent`, `CancelFailed` |
| `fetch`, `populate` | the nonce and `populate_dynamic_gas` | `FetchNonce`, `Populate` and their failures |
| `send` | one turn of the retry loop | `SendAccepted`, `SendUnderpriced`, `SendNonceTooLow`, `SendAlreadyKnown`, `SendFails`, `SendTimesOut` |
| `confirm`, `recheck`, `account` | the wait for the receipt and its outcomes | `ReceiptOk`, `ReceiptReverted`, `ReceiptNone`, `ConfirmFails`, `Recheck`, `Account` |

`Abandon` is `EXEC_TIMEOUT` dropping the future at any of those. `Finish` is the
return to the batch with `should_try_next_opp`. The node is external and
modelled by the answers the code distinguishes: a count of pending nonces,
"nonce too low", "already known", "underpriced" (a replacement must pay a tenth
more), accepted; any request may fail with or without having had its effect.
`Evict` empties a slot of the mempool; `Mine` mines any transaction that was
ever broadcast with the next nonce. Fees are small integers, the multiplier is
in percent as in the code. The age of a reservation is "fresh" or "stalled".
`consecutive_failures` saturates at the threshold, above which nothing depends
on it. The economics before the send are Preparation's; here they only refuse.

### TradeAttempts

What the batch and the ledger rely on, without any of the machinery: an attempt
has a fate (unmined, executed, failed), an outcome (`BundleResult`) that is given
once, and is booked or not. A trade is mined at most once, and never when it was
said to be left alone; an outcome is true of the fate when it is given; what is
booked was confirmed. Its two actions are `Mine` and `Conclude`.
`ImplementsTrades` maps SendAndConfirm to it: fate is read from the chain, the
rest by name; every turn of the retry loop, the reaper, the mempool and the fees
are stutters.

### ProfitLedger and ConfirmedTrades

The ledger sits behind one mutex, so a call is one step. `promote` is the
exception: it walks the keys of a `HashMap` in an arbitrary order that decides
what the loss breaker sees. It is `PromoteBegin`, then one `PromoteTrade` per
key in any order, with every other call disabled meanwhile (`MutexFree`).
`Pending` is never constructed and is left out; dollars are integers, which the
totals and comparisons cannot tell apart. `detect_reorg` reads only.
ConfirmedTrades is the ledger as its only caller drives it: for each confirmed
transaction the receipt's logs become a profit (realized when the event is
there, estimated less gas when it is not), the head is read or its read fails,
the ledger is promoted and the trade recorded. The chain grows and may replace
its last `MaxReorg` blocks.

### FlashloanExecutor

Transactions are serial; within one, a step goes from one external call to the
next. `world` is what a revert restores; `saved` is the stack of worlds to go
back to: the start of the transaction, and of the `try` block of
`executeFlashloan`. The pool lends, calls back, and collects; each of these may
fail, and `RevertAll` or `FlashloanFails` may happen at any point (out of gas, a
router, a transfer). `gain`, `pool`, `stash` and `doneIn` are history: what each
account got out of executions, what the pool is up, what the contract was
given, how many executions of a block were not reverted. A swap returns any
amount of a set that satisfies the step's minimum. Amounts are far from 2^256,
and Solidity 0.8 reverts on overflow, which is one of the ways to fail.

### MetadataOracle and MetadataCache

The oracle says what a lookup may answer: what the chain has at the anchor, an
absence seen within the time to live, or an error. It has no cells. MetadataCache
is the code: a map of once-cells, the first comer fetches while the others wait
for its permit, a failed or dropped fetch hands the permit on, an expired absence
gets a new cell while old waiters keep theirs. `ImplementsOracle` maps it to the
oracle by the shared variables and hides the cells.

### CanonicalQuotes, CanonicalRound, CanonicalLoop

A round pins every read to its anchor's NUMBER, so after a reorganisation the
reads answer for another branch. Pairs are quoted by concurrent tasks over one
context, which keeps the words of the last pair that read a pool; the triangles
are ranked and the best requoted by concurrent tasks that share one cache, keyed
by pool and amount. CanonicalLoop follows the evidence of many rounds: windows of
three spaced anchors per route, the risk assessment, the simulation, and the
shutdown that may come at any of its awaits.

### Runtime and Transport

Runtime is the process: seven start-up steps each raced with a subscription to
the shutdown broadcast, three tasks, two signal listeners, the terminal's
thread and the watchdog. A receiver hears only what was sent since it
subscribed (`since`). Instead of the tasks, the process may replay past blocks
(`ReplayBegins`, `ReplayEnds`) and end. Transport is the HTTP client: requests share the index
`current`, an endpoint may hang, fail in the ways the client tells apart, come
and go; only a hanging one costs time, measured against the caller's limit.

### The services

Nine components that share no state while they run; `MCServices` puts one of
them, the `subject`, into each behaviour. RateLimiter keeps ages of requests
instead of instants, and so do PriceFeed, GasPricing and Cooldowns: an age stops
growing when it no longer matters, so time need not be bounded. GasCalibration
holds the two averages that one receipt teaches. Paper is the hub with its queue,
writer and file. ExecutionEngine has concurrent calls around the counter of
nonces and its resync. ReplayScan and ForkValidation are the two tools that
decide what evidence is: rows and summaries of past blocks, once the settings, the
windows, the tokens and Curve's pool let the replay start, and the stages of a
route on a fork. The stages have no production caller that resets the fork; the
reset is taken as possibly forgotten or failed, and only the block number tells.
In GasPricing `Populate` never meets a fresh `oracle_cache`: it is written just
before the other cache and has the same time to live.

## 3. What the runs check

| Run | Question | Bounds |
|---|---|---|
| `finder` | From pools to what is sent. `ThinPoolsAreCut`, `NoPairIsHiddenByAnother`, `TierIsTheQuoted` on the scans; `RoutesAreClosedChains`, `NoTripIsLost`, `PlanFitsItsAllowance` on what becomes of every round trip and triangle; `SentCoversItsCosts`, `SentWasRehearsed` on what may be sent | 3 tokens (stable, midcap, anchor), a venue of each kind in two markets, two scans with one failed read; every price map of 4 entries over the gains that separate the thresholds; six configurations with one reload, the best 2 routes |
| `radar` | `NoPairIsSkippedTwice` | 2 venues, 1 pair, 2 price levels, threshold 2, channel of 1 |
| `send` | `ExecutedAtMostOnce`, `AbortedMeansNothingSent`, `ImplementsTrades`, and `CycleEnds` under fairness | 2 attempts, nonces 0..3, 3 tries, 2 replacements, base fees {1, 2}, multiplier 150 %, ceiling 3; every setting with a closed gate, and open gates with own capital, where an approval may be needed or not, so that it does all that flash loans do |
| `ledger` | `BooksBalance`, `BreakerCountsRealizedFinalLosses`, `FinalIsDeepInChain`; the executor drives the ledger over a chain, or its calls come in any order at any head | 4 hashes: two realized losses (symmetric), a gain, an estimated loss; 5 blocks, reorganisations of 1, 2 confirmations, threshold 2 |
| `executor` | `OwnHoldingsUntouched`, `BooksAreTrue`, `NobodyLoses`, `ProfitGoesToOwner` | 2 tokens and MATIC, 2 accounts, 1 wrapper, 2 money transactions, 2 blocks, routes of 1 and 2 hops |
| `metadata` | `AtMostOneCall`, `LookupsEnd` under fairness, `ImplementsOracle` | 1 key, 3 tasks, 4 cells, 4 lookups, time to live 2 of 3 blocks, 1 reorganisation |
| `round` | `EvidenceIsGenuine`, `PoolsStandAlone` | 3 tokens, 4 pools of both protocols, the best 3 routes, two tasks in each phase, 2 lost calls, 1 reorganisation |
| `wrong_way_quote` | `LegsAreQuotedTheirWay`, refuted (below) | the same |
| `loop` | `ApprovedGainedThrice`, and `ShutdownStops` under fairness | 1 route, a round every 2 blocks, anchors at most 3 old, 7 blocks, 1 reorganisation, both floors |
| `transport` | `OneGoodEndpointIsEnough` | 3 endpoints, 2 requests with limits 5 and 4, requests time out after 2 |
| `runtime` | `TasksOutliveFailures`, and `StopIsHeard` under fairness | one process; one request to stop of each kind, any failure |
| `services` | `RateIsKept`, `AcquireEnds` (limiter); `SingleFlight`, `FeesAreRecent` (feed and estimator); `LearnedIsCovered` (calibration); `SamplesAreKept` (paper); `NoncesAreUnique` (engine); `MinuteLimitHolds` (cooldowns); `ReplayAddsUp` (replay); `ForkEvidenceStandsAlone` (fork) | two concurrent callers or tasks where there are any; the numbers are in `MCServices.cfg` |

Why the bounds are enough for the questions. With two attempts the second can
meet a transaction of the first that is pending, evicted, replaced or mined
late, and with three tries and two replacements every branch of the last turn
and of those before it is taken; nonces up to 3 leave room for an approval and a
cancellation. Two losses reach the threshold, a third hash makes the order of
the walk matter, the fourth is the kind of loss that must not count. Two money
transactions give a deposit or an earlier trade before the one that could spend
it. Two venues take the radar's two locks in opposite orders; the filter speaks
of single pairs. Price maps of four entries hold a round trip of two venues
beside a better one, a triangle with a second quote for one leg, and the
smallest maps with a phantom leg. One failed read is what single failures are;
two scans let a cache written in the first mislead the second. Three tasks on a
cell are a leader, a waiter and one who arrives in between; seven blocks hold
three spaced anchors, an orphaned one and a round that comes too late. Two
endpoints that hang after one another are the worst that one good one among
three can meet.

Next to some definitions stand variants of them, unused in the specifications,
as a plausible mistake in the code would make them; `PROJECT.json` lists them
under `mutants`, and each property of a passing run is violated by its variant.

Bounds that no code has: `MaxNonce`, `MaxOps` (SendAndConfirm), `MaxReverts`,
`MaxLosses`, `Blocks` (ProfitLedger), `MaxBlock`, `MaxReorg` (ConfirmedTrades),
`MaxBlock`, `MaxTxs` (FlashloanExecutor), `MaxScans`, `MaxFaults` (Venues),
`MaxReloads` (Preparation), `MaxBlock`, `MaxReorgs`, `MaxLookups`, `CellIds`
(MetadataOracle, MetadataCache), `MaxBranches`, `MaxLost` (CanonicalQuotes),
`MaxBlock`, `MaxReorgs` (CanonicalLoop), `MaxReceipts` (GasCalibration),
`MaxSamples` (Paper), `MaxNonce` (ExecutionEngine), `MaxBlock` (Cooldowns),
`MaxPolls`, `MaxRoutes` (ForkValidation). Where the model stops and the system
would not, a self-loop says so (`BoundReached`, `Done`, `Over`, `Stopped`); TLC
checks deadlock in every run.

### Where the code differs from its documentation

`wrong_way_quote` refutes one sentence with a trace. `canonical_discovery.rs:1711`
caches the quotes of phase B under pool and amount, without the direction, while
`:1668-1673` and `executable_opportunity.rs:76-77` promise the real output of
each leg. When two routes of a round go through one pool in opposite directions
with the same amount, the second takes the first one's quote for its own,
`validate_leg_quote_sequence` compares amounts and ids only, and a trade that
loses becomes evidence with a gain. The comment at `main.rs:585-592` looks for
such glitches in "stale block / race" conditions. Where no two routes collide,
`EvidenceIsGenuine` holds.

The following was met while modelling. The modules do what the code does; no run
is spent on these.

*Send path.* Only `rbf_bump_gas` compares a fee with `gas_ceiling_gwei`, so the
first send may exceed it (`config/mod.rs:1777`: never). The kill switch of the
reaper is logged and not asked (`nonce_reaper.rs:20`: the caller stops). The
reaper looks only at a reservation of the node's pending count, so what is stuck
in the mempool stays (`nonce_reaper.rs:12`). With `mev.enabled` and a relay of
one's own, which is not wired, sends go public without the opt-in
(`config/mod.rs:535`). Refusals by the economics carry no outcome and end the
batch (`config/mod.rs:1830`, `bot.rs:448`: the next is tried); so does a direct
or Bellman-Ford opportunity, whose `token_price_usd` stays `None`
(`arbitrage.rs:1571`, `:2130`, `flashloan.rs:924-931`). `Dropped` is reported for
a transaction that is in the mempool or mined (`types.rs:17`). `EXEC_TIMEOUT`
between a send and its outcome leaves none (`types.rs:9`). The direct strategy
approves before the gates and the simulation (`flashloan.rs:1951`). A reload to
`dry_run` between the gate and the signature does not stop the send.
`gas.rs:362-365` says a stale native price rejects the opportunity;
`flashloan.rs:919` falls back to the finder's cost. The risk gate of
`flashloan.rs:1002` never runs: nothing initialises its manager.

*Ledger.* Nothing calls `revert` or `detect_reorg`, so a trade that left the
chain stays (`profit_ledger.rs:24`). The run of losses follows the order of a
hash map, not of blocks (`:27`), and its breaker is logged and stops nothing
(`:28`). Only the next confirmation promotes, so the last trades stay
provisory. A loan whose failure the contract catches mines with status 1 and no
event, and is booked as an estimated profit (`flashloan.rs:2192-2232`).

*Contract.* `executeFlashloan` and `executeOperation` share one lock, so the
callback of a loan taken through `executeFlashloan` always reverts and the
function always returns false, after the loan was started (`flashloan.rs:1897`:
false means it was not). Only the wrapper's loans succeed.

*Radar and venues.* `mark_healthy` takes health before errors, `record_error`
errors before health; two venues can wait for each other until `CYCLE_TIMEOUT`
cancels both, and a cancellation can leave a venue healthy with its errors at the
threshold. `MULTICALL_TOTAL_TIMEOUT` (30 s) is above `CYCLE_TIMEOUT` (15 s), so a
hung venue never counts an error. `auto_recovery` locks what it holds
(`manager.rs:282`; it has no caller). The fallback quotes at the latest block
(`manager.rs:396`: a snapshot). A token without a dollar price counts zero in a
pool's value although the gate is called fail-open (`liquidity.rs:185-193`). The
directional tier cache is global: the step of one scan may read a tier of the
next. The pool of another tier may be cached under a fee when `getPool` fails.

*Finder.* Conversion leaves duplicates that a comment says are gone; a
Bellman-Ford cycle that starts at a non-stable and has three hops is dropped;
phantom legs survive (`bf_graph.rs:244-260`); the best trip above
`MAX_REALISTIC_SPREAD` hides smaller valid ones in `extract_edges`.

*Discovery.* Reads are pinned by number and the hash is compared only at the
start. The production configuration sets floor and retention to zero, so the
minimum profit is always zero and the strategy always `Skip`: the worker can
approve nothing there, and `Floors` holds the test's floor as well. The pending
simulation is told that the head is the anchor, so `StaleAnchor` never fires. A
round that fails is not retried, and a round without a route does not break its
window.

*Process.* Start-up steps subscribe anew, so a shutdown sent in between is lost;
one that comes during the "ready" alert is lost as well and arms no watchdog
(`main.rs:1897-1907`). The watchdog's 30 s are below the drain's 180 s, so `q`
ends in a forced exit. A start-up error leaves the terminal raw.

*Transport.* `is_provider_error` matches "-32000", so errors of a method rotate
through all endpoints although they should fail hard. A raw transaction that
timed out is sent again and answered "already known".

*Services.* Each receipt teaches both calibrations of gas and both are applied
(`gas_oracle.rs`: "sem overhead/base"). A paper validation that ends in an error
is recorded with a realized profit of zero and enters the error statistics.
`max_concurrent_executions` is a limit per minute and, as check and record are
two calls, exceeded by the number of tasks less one. The engine's resync asks
the node, which knows no bundles, so the nonce of an accepted bundle is given
again; `NoncesAreUnique` says what is left. The preflight of a symbolic route
always ends `BUILD_FAILED`.

### Fairness

* `CycleEnds`: weak fairness of the executor's actions as a whole. Each of its
  awaits is bounded by its own timeout or by the HTTP client's, and the task is
  never starved. Neither `Mine` nor `Abandon` need be fair.
* `LookupsEnd`: weak fairness per task of its fetch ending, well or not (every
  call has a time limit), and of waking when it is given the cell.
* `ShutdownStops`: weak fairness of hearing the shutdown and of the worker's own
  next step; rounds need not end, because the select drops them.
* `StopIsHeard`: weak fairness of the timers (watchdog, drain), of the tasks that
  pass a request on, and of main's own steps once it returns. Radar, executor
  and all I/O may hang.
* `AcquireEnds`: weak fairness per caller of taking the lock it waits for and of
  waking, and of time. Tokio's mutex is first come, first served.

## 4. What is proved

For every value of the constants, under the named assumptions of the modules:

| Theorem | Says |
|---|---|
| `LedgerInvariant`, `TradesInvariant` | types; a promotion walks only trades of the map; the driven ledger holds only trades the executor saw confirmed, with their blocks |
| `BreakerSound` | `BreakerCountsRealizedFinalLosses` |
| `FinalityHolds` | `FinalIsIrrevocable`: promotions and reverts leave final trades as they are |
| `FinalsAreDeep` | `FinalIsDeep`; the `ledger` run checks the same as `FinalIsDeepInChain`, in the behaviours with a chain |
| `StreakIsBacked` | `StreakIsBackedByLosses`: the run of losses is at most the number of final realized losses |
| `BooksAlwaysBalance` | `BooksBalance`: provisory and final profit are the sums over the trades in each state |
| `FinalsAreDeepForTheExecutor` | `FinalIsDeepInChain` itself, of the specification TLC runs |
| `SendInvariant` | `SendInv`, see below |
| `OneNonce`, `AtMostOnce` | `OneNoncePerAttempt`, `ExecutedAtMostOnce` |
| `AbortedSentNothing`, `OneSender` | `AbortedMeansNothingSent`; at most one opportunity of a batch reaches the network |
| `GatesAreTight` | `ClosedGatesSendNothing`: in dry and paper mode nothing is sent, behind a closed relay gate no trade and no cancellation |
| `ReplacementsAreBounded` | `ReplacementsBounded`: no more replacements than allowed, none above the ceiling |
| `ReceiptsTellTheTruth` | `ReceiptsAreTruthful`: confirmed means mined, successful and booked; reverted means mined and failed; nothing else is booked |
| `SendPathImplementsTrades` | SendAndConfirm implements TradeAttempts: the initial states correspond, every step is a step of TradeAttempts or a stutter |
| `ExecutorInvariant`, `OwnHoldings`, `NoLosses` | `ExecutorInv`, `OwnHoldingsUntouched`, `NobodyLoses` |
| `StoppedPaysNobody`, `OnePerBlock` | stopped means stopped; one kept trade per block |
| `OwnerIsPaid` | `ProfitGoesToOwner`: no step changes what another account has gained |
| `TheBooksAreTrue` | `BooksAreTrue`: the pool has its loans back with the premiums counted, the total profit is the sum of all gains |
| `CacheInvariant`, `OneCallAtATime` | `CacheInv`, `AtMostOneCall` |
| `CacheImplementsOracle` | MetadataCache implements MetadataOracle: every step is a step of the oracle or a stutter |
| `RoutesClose` | `RoutesAreClosedChains`, of the scans, the searches and what follows them |
| `SendingPays`, `SendingIsRehearsed` | `SentCoversItsCosts`, `SentWasRehearsed` |
| `NoTripLost`, `PlansFit` | `NoTripIsLost`, `PlanFitsItsAllowance`: for every price map, market and order the map is iterated in, and any number of hops |
| `TiersAreQuoted`, `NoneHidesAnother` | `TierIsTheQuoted`, `NoPairIsHiddenByAnother`: for any pools, directions, batches and failures |
| `ThinAreCut` | `ThinPoolsAreCut`, if no pool appears between two scans (`PoolsStay`) |
| `RadarInvariant`, `ClosedBreakerIsScanned`, `NoPairStarves` | `RadarInv`; a venue left out of a scan has its errors at the threshold; `NoPairIsSkippedTwice` |
| `TransportShape`, `OneIsEnough` | types; `OneGoodEndpointIsEnough` |
| `LoopInvariant`, `ApprovalsAreEarned` | `LoopInv`; `ApprovedGainedThrice` |
| `PoolsAreTheirOwn` | `PoolsStandAlone`: for any pools, tokens, lost calls and interleaving of the pairs |
| `EvidenceIsTheTrade` | `EvidenceIsGenuine`: for any pools, answers and interleaving of the requotes, amounts being integers (`AmountsAreNumbers`) |
| `RuntimeInvariant`, `TasksLive` | who has told whom to stop; `TasksOutliveFailures` |
| `RateStaysKept` | `RateIsKept` |
| `MinuteLimitStays` | `MinuteLimitHolds` |
| `ForkEvidenceIsItsOwn` | `ForkEvidenceStandsAlone` |
| `OneFlight`, `FeesStayRecent` | `SingleFlight`, `FeesAreRecent` |
| `SamplesStayKept` | `SamplesAreKept` |
| `ReplayIsCounted` | `ReplayAddsUp` |
| `CalibrationCovers` | `LearnedIsCovered`: for any profile, route and receipts |
| `NoncesStayUnique` | `NoncesAreUnique` |

A property that no run repeats (`SendInv`, `OneSenderPerBatch`,
`ReceiptsAreTruthful`, …) is proved for
all values of the constants, so a run of a small instance would add nothing; TLC
checked each of them before it was proved.

**Send path.** None of the properties is inductive: that all transactions
of an attempt carry one nonce says nothing about the nonce the next send will
use. `AttemptsInOrder` adds what the code arranges: nothing is broadcast under
an attempt that has not begun; the current attempt has broadcast nothing before
its send loop and only its own nonce in it; an attempt with an outcome is over.
`ChainOfBroadcasts` adds that the i-th mined transaction was broadcast and has
nonce i - 1. `SendInv` is their conjunction with the types and is preserved by
every action. `AtMostOnce` needs no induction of its own: two mined transactions
of one attempt have one nonce, hence one place in the chain. `OneSender` goes
through `EarlierWereAborted`: the attempts of the batch before the current one
were aborted, and an aborted attempt has sent nothing. `GatesAreTight` rests on
`ClosedGatesStop`, which says where the executor can be while a gate is closed:
before the loop that sends, or at an approval. `ReplacementsAreBounded` rests on
`FewFees`: the current attempt has broadcast at most one fee per replacement and
one more, the latest is the highest, and all but the first are under the
ceiling; it needs `Multiplier >= 100`, without which a bump would lower the fee.

`ReceiptsTellTheTruth` needs to know what the executor has in hand: while it
stands at `account`, the transaction it holds is the current attempt's and mined
with success, and nothing that is mined is ever taken from the chain.

For the refinement, every action is sorted by what it does to `chain`, `outcome`
and `booked`. Most touch none of them and are stutters. `Mine` of a trade changes
the fate of one attempt, from unmined because an attempt is mined at most once,
and only of one that is not left alone because those have sent nothing: the two
main invariants are what the refinement rests on. `Mine` of an approval or a
no-op changes no fate. Every way to finish gives the current attempt, which has
no outcome yet, one that its fate agrees with.

**Contract.** `OwnHoldingsUntouched` speaks of the idle contract only.
`HoldingsAccounted` says of every step what the contract holds beyond its own:
the loan in the callback, the current amount of the route in the token it has
reached, what is owed while the pool collects. A swap keeps that because the
route is a chain (`RouteLeadsBack`), the settlement because the chain ends at
the token of the trade, the MATIC branch because the balance read before the
trade was the contract's own (`NativeIsWrapped`), a revert because the saved
worlds were quiet (`SavedAreQuiet`). The pool pulls exactly the allowance
(`AllowanceAccounted`), which needs that no allowance was left before. `NoLosses`
and the two after it use that invariant once per settlement. `OwnerIsPaid` is an
action property: the only step that pays is a settlement, to the owner for a
loan and to the sender for a direct trade.

`BooksAreTrue` speaks of the idle contract too. In between, `BooksInv` says what
is missing: the pool is short of the loan of this call, token by token; the sum
over its tokens is what the contract has counted, less the loan or what is
still owed; the sum of all gains is the counted profit, less the sender's capital
while it is swapped; and each world to go back to balances by itself. A transfer
between two accounts moves an amount within one sum (`SumMoves`), a settlement
adds the same to a sum and to a counter (`SumUpdate`). The sums are over finitely
many tokens and accounts, which `FinitenessAssumption` says.

**Ledger.** The action properties follow from the type invariant action by
action; only `PromoteTrade` can lengthen the run or trip the breaker. For the
driven ledger `DrivenInv` adds that every trade is one the executor saw
confirmed, with its block, that no block is past the head, and the two
properties themselves: a promotion that counts a loss makes it final.

`BooksBalance` is about sums over the trades of a state, which a promotion moves
from one sum to the other, one trade at a time.

**Sums, filters, induction.** The library states induction for an operator
parameter, which no installed prover instantiates. SumTheorems states it for
sets: a set of numbers that holds 0 and with n also n + 1 holds all
(`SetInduction`, from the least counterexample), a family of subsets that holds
the empty set and is closed under adding one element holds every finite set
(`FiniteInduction`). That is enough to show that the fold of the community
modules is a sum that does not depend on its order (`SumIs`), hence what adding,
changing or moving an amount does to it. For sequences, `Occur(s, S)` counts the
places of s that hold a member of S, and a filter is known by its recursion
(`IsFilter`): what it keeps, and how many (`FilterIs`, `FilterKeeps`).
RateLimiter and Cooldowns write their filters as recursive functions for that.

**From the pools to the network.** One invariant follows the data through
Venues, Finder and Preparation. What a venue quotes is finite and leads from one
token to another (`ScanInv`): a pool has two tokens (`PoolsAssumption`), of which
a failed read may hide any part. The lists made of it, the laying end to end and
the turning round keep that (`Listing`, `FlattenKeeps`, `ReverseKeeps`), so the
map that is handed over has no entry from a token to itself. With such a map
every search makes chains (`RoutesInv`): two and three legs because each was
chosen to fit the one before; the cycles of Bellman-Ford because the walk over
the predecessors takes a vertex only once (`Trail`, `WalkIsATrail`). Nothing is
needed of the relaxation: whatever it leaves as predecessors, the path that is
read out of them returns to its start and passes no vertex twice, and the leg
from one vertex to the next is looked up by its two tokens. Recursive functions
are shown to exist step by step before anything is said of them (`StepsExist`).
Conversion keeps a chain, turned or not, and lets only those on a stable through.

`AttemptInv` then says what an attempt has settled at each of its places: the
premium once it is read, gas and net profit once it is judged, the transaction
once it is built, the rehearsal before it is sent. Only what execute_opportunity
read in one hold of the lock is in it (`Taken`), so a reload disturbs none of it;
the minimum the contract will insist on covers gas and profit because the
conversion to its unit rounds up (`RawCovers`).

That no trip is lost rests on numbers. A gain is at most `MaxSpread`, so among
the routes of a token there is a best one (`BestExists`), and `GainsInv` follows
it: for every direct trip worth its costs, a route over the same path that
gains no less is found by the radar, survives the deduplication and is turned
and converted. The plan of slippage is a recursive function over the hops;
`PlanIs` says of every prefix that each hop has its minimum and that what is
used leaves room for the minimum of the others, which is why the sum stays
within what the gain allows. It needs the limits to be naturals
(`GatesAssumption`).

The three properties of the venues have an invariant each, and all of them hold
from venue to venue and from scan to scan. `TiersInv`: of the tiers quoted for
a direction one is the best, and what the global cache holds for it is that one
(`OneTier`); there is one V3 venue, and prices are cleared before tiers are
cached anew. `HiddenInv`: a V2 or Curve venue has one pool for a pair, so the
pool cache holds no other (`CacheFits`); a multicall that lost a read answers as
it would have, less the directions the read was about (`Answers`), and what the
gate and the pruning then take, they would have taken anyway (`Covered`).
`ThinInv`: while nothing has failed, an entry of the pool cache is the pool of
its own fee wherever there is one (`CacheIsExact`), so the gate measures the
pool a price was quoted by (`QuotedBy`). The last one is true only if no pool
appears between two scans: an entry lives for an hour, for a fee without a pool
it holds another pool of the pair, and a pool created in the meantime would be
judged by that one's balances. With markets that break `PoolsStay` TLC finds
that behaviour; `MCFinder` assumes it of its own, and the theorem of any.

**Metadata cache.** `CacheInv` says that the tasks that wait for a key hold its
cell (`WaitersShareTheCell`), that only a task that asked for the key leads it
(`OneLeader`), and that what a cell holds was true of the chain
(`CellsAreTruthful`). The last is what makes it inductive: an absence somebody
still waits for is dated with this round's anchor, so it cannot expire under the
waiter and no cell is replaced while a task holds it. The oracle's actions are
then matched one by one.

**Radar.** The filter forgets a pair it skipped (`SkippedIsForgotten`), which
must be known of every venue's task in the middle of a scan, through timeouts.

**Transport.** `OneIsEnough` is conditional. A request's own retries reach every
endpoint (`AllAreMet`), but its caller may give up first: `OthersFit` asks for
`RequestTimeout * (N - 1) < Deadline`, all other endpoints hanging in turn. The
shipped configurations do not fulfil it at start-up (`network.timeout_ms` is 5 or
8 s, the limit in `rpc_provider.rs:119` 5 s), so there one hanging endpoint is
enough to fail.

**A round.** `PoolsStandAlone` is about places: one call carries the reads of
all pools of a pair, and each pool's words are found again by counting those of
the pools before. `QuotesInv` says of every task, stage by stage, that what the
pair has lost and what it has quoted add up (`TaskFits`): before the reads, what
is missing was not found; after them, a pool is missing if one of its own words
is; then state by state and quote by quote. The step in the middle needs that
lists laid end to end keep each element in its place (`FlattenPlaces`), so the
words looked at for a pool are its own and of its kinds (`FitsIs`). A pair's
requests are in the order of their venues, so no pool is met twice. The context
takes a pool's state from the last pair that quoted it; only a pair and its
reverse can have, so there is a last one (`LastExists`).

For the evidence, `RoundInv` adds that every leg of the graph goes through a pool
of the context, between its two tokens, and that a task's quotes are the first
ones of the ideal trade while the cache holds quotes of ideal trades only
(`TasksAreIdeal`), as long as the node still has the anchor's block and no two
routes collide. That is inductive though the tasks share the cache: an entry is
known by pool and amount, two legs with both in common go through the pool the
same way or the routes collide, and a leg the same way with the same amount has
the same quote (`CachedIsIdeal`). What remains of the race is which of them
asks. A replaced block ends the claim, for good. Without the condition on
collisions the property is false, which `wrong_way_quote` shows.

**Worker.** `seen` keeps all evidence of a route; the window is its newest three
entries, and the invariant keeps them spaced (`Apart`) through reorganisations,
which move the chain and not what was seen.

**Runtime.** A loop ends only after a message it could hear, and the only
senders are those the operator asked (`HeardWasSent`).

**Limiter.** That a window admits no more than `MaxRequests`, but for those the
code lets through by force, is not inductive: the list loses an entry once it is
older than the window of its caller's own clock. `RateInv` therefore counts by
age. For every age a up to the window: the callers that passed within the last a
ticks are at most the excused ones of that time and the entries of the list that
are at most a old. Time shifts all three by one (`SumShifts`); a prune by a
caller removes no entry within the window (`RetainedIs`); an admission adds one
to both sides. With a the whole window and a list no longer than `MaxRequests`
the property follows.

**Cooldowns.** Check and record are two calls, so several tasks may hold a
permission at once. `MinuteInv` adds them to the executions of the last minute:
together they stay below the limit plus the number of tasks. A check that passes
has counted the records of the last minute, and for every age there are at least
as many records as executions, though the records are pruned. The window may not
be empty and no longer than records are kept (`CooldownAssumption`), as in the
code (60 s and 300 s), and the tasks are finitely many.

**Price feed, estimator, hub, engine.** The feed's lock has one holder, who is
the only one to ask and found nothing fresh (`FeedInv`). The oracle's answer is
never older in the cache than the fees made of it, so only a base fee is cached
a second time, and a fee is served at an age of less than two lifetimes
(`FeesInv`). The hub's samples stand in one line, in order: aggregated, in the
writer's hands, in the queue; the rows of the file are among the aggregated
ones (`PaperInv`). A nonce is taken in one step, so whoever holds one that was
taken since the counter was last set holds one below it, and no two the same
(`NonceInv`).

**Fork.** One fork serves many routes, and the code never looks at who put a
transaction on it. `ForkInv` says how far the route is, stage by stage. Between
the legs, the fork holds the approval and the swap of each leg before, at what
the one before that gave, and the places of those swaps are the ones the job
holds; after the last leg that passed, all of them; at the trace, the record
holds their places and the wallet is above the input by the amount in hand. It
begins at `AtAnchor`: the calls of `readonly_eth_call` answer only when nothing
is mined since the reset, and no stage before the first leg mines anything. So
the reset, which is the caller's, need not be trusted. The operators it is made
of (`Executed`, `LegDone`, `Given`) take the list of transactions as a parameter,
and one lemma (`OneMoreLeg`) says what a longer list keeps. The assumption is
that a plan's legs are between tokens of the fork and its input is an amount.

**Replay.** `ReplayInv` says that the rows of the current window and the blocks
still to scan are its list of blocks, cut in two (`RowsFollow`), and that every
row is of one kind of outcome: a success was simulated, and what was simulated is
neither an archive error nor quoted only (`RowFits`). So the places of the rows of
each kind lie apart, and their numbers add up (`SummaryAddsUp`). The calls are the
sum over the summaries and those of the rows since; laid end to end the windows'
rows have the sum of the calls and the sum of the lengths (`AggregateFits`, by
induction over the windows), and if all windows are full the latter is the sum of
the ranges. That a window is full whenever the step is one follows from its list
(`ListFits`). The assumptions are those of the module: the configured windows are
pairs of numbers, and the chain is older than a day, so that there was a working
day before the latest block.

**Calibration.** As long as every receipt was the same amount `a`, the averages in
memory and on disk carry the share of `a` of each venue that has any sample, and
the multiplier is at least one or at least what `a` alone calls for
(`CalibrationInv`); a restart keeps both, since it reads averages that carry `a`
too and starts the multiplier at one. Why that covers `a` depends on `a`. If it is
not below the profile, the averages do it alone: each hop's share with its 15%
makes up for what two divisions drop, and the sum over the hops is at least `a`
(`CalibratedIsAbove`). If it is below, the estimate is never under the profile and
the multiplier never under `a`'s ratio to it. The divisions cost 2.15 units
of a hundred gas per hop at most, which the 15% cover because no swap of the profile is
below 100,000 units: that is the assumption on `SwapUnits`, and `swap_gas_units`
begins at 105,000.

Only model-checked: the liveness properties (`CycleEnds`, `LookupsEnd`,
`ShutdownStops`, `StopIsHeard`, `AcquireEnds`), which are beyond the prover.

## 5. What is not modelled

* The DEX circuit breaker (`dex/circuit_breaker.rs`): its calls have no
  production caller; the manager's own maps, which do the work, are in Radar.
* The last-route and pool-state caches: no production caller.
* The opportunity history: a log nothing decides by.
* Within the modelled parts: floating point (rates and dollars are scaled
  integers), encoding and decoding of calls, logs, telegram and terminal output,
  parsing of the configuration, reports of the comparators and counters, the
  search for a WebSocket endpoint at start, `prune_included`, `updateExecutor`,
  `slippageConfigs`, V3 fee data and router allowances of the contract.

`PROJECT.json` gives the status of each component with the reason.
