------------------------------ MODULE Preparation ------------------------------
(***************************************************************************)
(* From the routes to the network: what the finder returns is ranked or    *)
(* only observed (select_opportunities of src/core/bot.rs), and each ranked*)
(* opportunity is judged, built, simulated and handed to                   *)
(* send_and_confirm_transaction (execute_opportunity and the execute_*     *)
(* functions of src/core/flashloan.rs).                                    *)
(*                                                                         *)
(* The configuration is shared and reloaded from its file while this goes  *)
(* on: every function takes its lock anew, so one attempt may see several. *)
(* Amounts are basis points of the notional, as in Finder: the notional is *)
(* 10 000, and an on-chain unit of the token is worth `Tick' of them.      *)
(***************************************************************************)
EXTENDS Pipeline

CONSTANTS
  Configs,      \* loan, wrapper: the strategy; dry, paper, quiet: execution.dry_run,
                \* paper_enabled, dry_run_only; min: min_profit_absolute; cap:
                \* max_premium_bps; fee: flashloan.fee_pct; simulate; hops:
                \* max_path_length; alternate: block_same_dex_consecutive;
                \* strict: require_fresh_native_price
  Supported(_), \* executor_dex_supported
  TopN, ObserveMax,
  Fees,         \* what a unit of gas may cost
  LoanOverhead, \* the gas of a flash loan, in hops
  Premiums,     \* what FLASHLOAN_PREMIUM_TOTAL may answer
  Adverse,      \* adverse_move_bps
  Tick,
  MaxReloads    \* bound on the reloads during a batch

ASSUME PreparationAssumption ==
  /\ Tick \in Nat \ {0} /\ TopN \in Nat \ {0} /\ ObserveMax \in Nat /\ Adverse \in Nat
  /\ LoanOverhead \in Nat /\ Fees \subseteq Nat
  /\ Configs # {} /\ \A c \in Configs : c.min \in Int

VARIABLES
  config, reloads,
  step,        \* where the attempt on the first of the batch stands
  batch,       \* the opportunities still to be tried, the current one first
  held,        \* what execute_opportunity read of the configuration, and its costs
  call,        \* the transaction built
  sent,        \* what went out of send_and_confirm_transaction's gates
  feeCache,    \* flashloan_fee_cache, or Unread
  samples      \* results of observed opportunities

attemptVars == <<step, batch, held, call, sent, samples>>
preparationVars == <<pipelineVars, config, reloads, attemptVars, feeCache>>

Nothing == [strategy |-> None]
Unread == -1

PreparationInit ==
  /\ PipelineInit
  /\ config = (CHOOSE c \in Configs : TRUE) /\ reloads = 0
  /\ step = "search" /\ batch = <<>> /\ held = Nothing /\ call = Nothing
  /\ sent = Nothing /\ samples = {} /\ feeCache = Unread

-------------------------------------------------------------------------------
(* The shared configuration                                                *)

(* reload_config replaces the whole configuration under its lock.          *)
Reload ==
  /\ step \notin {"search", "over"} /\ reloads < MaxReloads
  /\ reloads' = reloads + 1
  /\ config' \in Configs \ {config}
  /\ UNCHANGED <<pipelineVars, attemptVars, feeCache>>

ObservationActive(c) == c.paper \/ c.quiet \/ c.dry
SendsForbidden(c) == ObservationActive(c)

-------------------------------------------------------------------------------
(* select_opportunities                                                    *)

(* A direct round trip keeps the missing price it was created with, a      *)
(* Bellman-Ford cycle too; rotated and triangular ones carry a price.      *)
Priced(r) == IF r.label = "pair" THEN {FALSE} ELSE BOOLEAN

(* extract_and_convert_opp_data: a step needs its DexType, and a V3 one an *)
(* executable tier (build_extra_data_for_step).                            *)
DexType(leg) == IF Supported(leg.venue) THEN {leg.venue} ELSE {}
ExtraData(leg) == IF HopIsExecutable(leg) THEN {"data"} ELSE {}
Converts(r) == \A i \in DOMAIN r.legs : DexType(r.legs[i]) # {} /\ ExtraData(r.legs[i]) # {}

(* What the steps from here on tell apart of an opportunity.               *)
Opportunity(r, priced) ==
  [hops |-> Len(r.legs), gain |-> r.gain, net |-> NetOf(r), priced |-> priced,
   supported |-> \A i \in DOMAIN r.legs : Supported(r.legs[i].venue),
   repeats |-> \E i \in 2 .. Len(r.legs) : r.legs[i].venue = r.legs[i - 1].venue,
   converts |-> Converts(r)]
Opportunities == UNION {{Opportunity(r, p) : p \in Priced(r)} : r \in result}

Least(m, n) == IF m < n THEN m ELSE n
Orders(n) ==
  {s \in SeqOf(Opportunities, n) : IsInjective(s) /\ Len(s) = Least(n, Cardinality(Opportunities))}

(* The best TopN by net profit, the best first.                            *)
Top ==
  {s \in Orders(TopN) :
     /\ \A i, j \in DOMAIN s : i < j => s[i].net >= s[j].net
     /\ \A o \in Opportunities \ Range(s) : \A i \in DOMAIN s : s[i].net >= o.net}

(* While nothing may be sent the supported ones are observed, in the order *)
(* they come; none is returned for execution.                              *)
Observed == {s \in Orders(ObserveMax) : \A i \in DOMAIN s : s[i].supported}

Forget ==
  /\ quotes' = <<>> /\ untiered' = {} /\ found' = {} /\ result' = {} /\ cycles' = {} /\ edges' = {}
  /\ market' = CHOOSE m \in Markets : TRUE
  /\ direct' = FALSE /\ stage' = "apart" /\ scan' = 0 /\ at' = 1 /\ got' = {}
  /\ priceMap' = [v \in Range(Adapters) |-> {}]
  /\ feeTiers' = << >> /\ legTiers' = << >> /\ poolCache' = << >>
  /\ faults' = 0 /\ touched' = {}

(* The configuration is whatever it has become since the last batch.       *)
SelectOpportunities ==
  /\ step = "search" /\ phase = "done" /\ phase' = "handed"
  /\ config' \in Configs
  /\ IF ObservationActive(config')
     THEN step' = "observe" /\ batch' \in Observed
     ELSE step' = "next" /\ batch' \in Top
  /\ Forget
  /\ UNCHANGED <<reloads, held, call, sent, samples, feeCache>>

-------------------------------------------------------------------------------
(* Observation: paper_observe_opportunity                                  *)

(* paper_validate_at_block: what the call against a block says; a route    *)
(* that cannot be encoded, or a block whose state is gone, gives an error. *)
PaperValidate(o) ==
  {"paper_error"} \cup (IF o.converts THEN {"sim_ok", "sim_failed"} ELSE {})

(* It looks at the configuration again; without a price there is no sample,*)
(* and with one there is, also for an error.                               *)
ObserveResult(o) ==
  IF ~ObservationActive(config) THEN {"refused"}
  ELSE IF o.priced THEN PaperValidate(o) ELSE {"missing_token_price"}

Observe ==
  /\ step = "observe" /\ batch # <<>>
  /\ \E r \in ObserveResult(Head(batch)) : samples' = samples \cup {r}
  /\ batch' = Tail(batch)
  /\ UNCHANGED <<pipelineVars, config, reloads, step, held, call, sent, feeCache>>

ObservationEnds ==
  /\ step = "observe" /\ batch = <<>> /\ step' = "over"
  /\ UNCHANGED <<pipelineVars, config, reloads, batch, held, call, sent, samples, feeCache>>

-------------------------------------------------------------------------------
(* execute_opportunity                                                     *)

Current == Head(batch)

(* The attempt ends: aborted before the broadcast, the next is tried;      *)
(* with any other outcome, or none, the batch is over.                     *)
Abort ==
  /\ step' = "next" /\ batch' = Tail(batch) /\ held' = Nothing /\ call' = Nothing
  /\ UNCHANGED <<config, reloads, sent>>
End ==
  /\ step' = "over" /\ batch' = <<>> /\ held' = Nothing /\ call' = Nothing
  /\ UNCHANGED <<config, reloads, sent>>
Go(to) ==
  /\ step' = to
  /\ UNCHANGED <<config, reloads, batch, sent>>

Strategy(c) == IF ~c.loan THEN "direct" ELSE IF c.wrapper THEN "wrapper" ELSE "flashloan"

(* The strategy and the limits are read once, in one hold of the lock; the *)
(* premium of an hour ago is forgotten.                                    *)
Take ==
  /\ step = "next" /\ batch # <<>>
  /\ IF ~Current.supported THEN Abort
     ELSE /\ held' = [strategy |-> Strategy(config), min |-> config.min, cap |-> config.cap,
                      fee |-> config.fee, premium |-> 0, gas |-> 0]
          /\ Go("premium") /\ UNCHANGED call
  /\ feeCache' \in {feeCache, Unread}
  /\ UNCHANGED <<pipelineVars, samples>>

(* current_flashloan_fee_pct: the cache, the pool, or what is configured.  *)
ReadPremium ==
  /\ step = "premium"
  /\ \E answer \in Premiums \cup {Unread} :
       LET premium == IF held.strategy = "direct" THEN 0
                      ELSE IF feeCache # Unread THEN feeCache
                      ELSE IF answer # Unread THEN answer ELSE held.fee
       IN  /\ feeCache' = IF held.strategy # "direct" /\ feeCache = Unread THEN answer ELSE feeCache
           /\ IF premium > held.cap THEN End
              ELSE held' = [held EXCEPT !.premium = premium] /\ Go("gas") /\ UNCHANGED call
  /\ UNCHANGED <<pipelineVars, samples>>

(* Each hop costs the same here, the flash loan as much as LoanOverhead.   *)
GasUnits(o, strategy) == o.hops + (IF strategy = "direct" THEN 0 ELSE LoanOverhead)

(* populate_dynamic_gas: from its cache, the oracle or the node.           *)
GasPrice == Fees

(* estimate_gas_usd_for_route, or, when it fails, the finder's figure.     *)
GasOf(o, strategy) ==
  {price * GasUnits(o, strategy) : price \in GasPrice} \cup {GasPerHop * o.hops}

NetAfter(h, o) == o.gain - h.gas - h.premium - Adverse

(* validate_profit_after_fees_e8                                           *)
Profitable(h, o) == NetAfter(h, o) > 0

(* The economic gate: a price, a profit after all costs, and the minimum.  *)
Judge ==
  /\ step = "gas"
  /\ \E gas \in GasOf(Current, held.strategy) :
       LET h == [held EXCEPT !.gas = gas]
       IN  IF Current.priced /\ Profitable(h, Current) /\ NetAfter(h, Current) >= held.min
           THEN held' = h /\ Go("paper") /\ UNCHANGED call
           ELSE End
  /\ UNCHANGED <<pipelineVars, feeCache, samples>>

(* Paper mode is looked up again: validated instead of executed, and an    *)
(* error of that is the attempt's.                                         *)
PaperGate ==
  /\ step = "paper"
  /\ IF config.paper
     THEN End /\ \E r \in PaperValidate(Current) : samples' = samples \cup ({r} \ {"paper_error"})
     ELSE Go("debounce") /\ UNCHANGED <<held, call, samples>>
  /\ UNCHANGED <<pipelineVars, feeCache>>

(* debounce_same_block: another execution in this block, or no answer.     *)
Debounce ==
  /\ step = "debounce"
  /\ \/ End
     \/ Go("build") /\ UNCHANGED <<held, call>>
  /\ UNCHANGED <<pipelineVars, feeCache, samples>>

-------------------------------------------------------------------------------
(* execute_direct, execute_flashloan, execute_wrapper                      *)

RedeterminedStrategy == Strategy(config)   \* mutant: decided again when it is dispatched
DispatchedStrategy == held.strategy

FitsTheFilters(o) == o.hops <= config.hops /\ ~(config.alternate /\ o.repeats)

MinimumProfitRaw(usd) == (usd + Tick - 1) \div Tick

SimulateAsConfigured(o) == config.simulate   \* mutant: long routes are not forced
SimulateRoute(o) == config.simulate \/ o.hops > 1

(* One more hold of the lock: what is built is built from what the         *)
(* configuration is now.                                                   *)
Build ==
  /\ step = "build"
  /\ IF ~Current.converts THEN End
     ELSE IF ~FitsTheFilters(Current) THEN Abort
     ELSE /\ call' = [strategy |-> DispatchedStrategy, hops |-> Current.hops,
                      minRaw |-> MinimumProfitRaw(held.gas + config.min),
                      floor |-> held.gas + config.min, dry |-> config.dry,
                      rehearse |-> SimulateRoute(Current), rehearsed |-> FALSE]
          /\ Go(CASE DispatchedStrategy = "direct" -> "approve"
                  [] DispatchedStrategy = "wrapper" -> "recipient"
                  [] OTHER -> "simulate")
          /\ UNCHANGED held
  /\ UNCHANGED <<pipelineVars, feeCache, samples>>

(* assert_profit_recipient_matches_owner                                   *)
Recipient ==
  /\ step = "recipient"
  /\ \/ Abort
     \/ Go("simulate") /\ UNCHANGED <<held, call>>
  /\ UNCHANGED <<pipelineVars, feeCache, samples>>

(* approve_token_for_execution: nothing to do in a dry run or while sends  *)
(* are forbidden; else the allowance is there, or granted, or not.         *)
Approve ==
  /\ step = "approve"
  /\ \/ Go("simulate") /\ UNCHANGED <<held, call>>
     \/ ~call.dry /\ ~SendsForbidden(config) /\ Abort
  /\ UNCHANGED <<pipelineVars, feeCache, samples>>

(* The call is made against the pending state; a dry run ends here.        *)
Simulate ==
  /\ step = "simulate"
  /\ \/ call.rehearse /\ Abort
     \/ call.dry /\ End
     \/ ~call.dry /\ call' = [call EXCEPT !.rehearsed = call.rehearse] /\ Go("send") /\ UNCHANGED held
  /\ UNCHANGED <<pipelineVars, feeCache, samples>>

(* The gate of send_and_confirm_transaction (see SendAndConfirm).          *)
Send ==
  /\ step = "send"
  /\ IF SendsForbidden(config) THEN End
     ELSE /\ sent' = [strategy |-> call.strategy, route |-> Current, call |-> call, held |-> held]
          /\ step' = "over" /\ batch' = <<>> /\ held' = Nothing /\ call' = Nothing
          /\ UNCHANGED <<config, reloads>>
  /\ UNCHANGED <<pipelineVars, feeCache, samples>>

(* EXEC_TIMEOUT drops the batch at whatever await it is.                   *)
ExecTimeout ==
  /\ step \notin {"search", "over"}
  /\ End
  /\ UNCHANGED <<pipelineVars, feeCache, samples>>

BatchEnds ==
  /\ step = "next" /\ batch = <<>> /\ End
  /\ UNCHANGED <<pipelineVars, feeCache, samples>>

FindRoutes ==
  /\ step = "search" /\ PipelineNext
  /\ UNCHANGED <<config, reloads, attemptVars, feeCache>>

(* Bound: one batch.                                                       *)
Over == step = "over" /\ UNCHANGED preparationVars

Prepare == Take \/ ReadPremium \/ Judge \/ PaperGate \/ Debounce \/ Build \/ Recipient
             \/ Approve \/ Simulate \/ Send \/ BatchEnds

PreparationNext ==
  FindRoutes \/ SelectOpportunities \/ Observe \/ ObservationEnds \/ Prepare
    \/ ExecTimeout \/ Reload \/ Over
PreparationSpec == PreparationInit /\ [][PreparationNext]_preparationVars

-------------------------------------------------------------------------------
(* Properties                                                              *)

(* What is sent pays for itself in the form it is sent in: with the gas it *)
(* was judged by, the adverse move, and, exactly when it borrows, the      *)
(* premium the pool asked or the configured one (execute_opportunity); and *)
(* the profit the contract will insist on is not below the gas and the     *)
(* minimum it was built for (minimum_profit_raw), whatever was reloaded in *)
(* between.                                                                *)
SentCoversItsCosts ==
  sent # Nothing =>
    /\ NetAfter(sent.held, sent.route) >= sent.held.min
    /\ sent.held.premium \in IF sent.strategy = "direct" THEN {0} ELSE Premiums \cup {sent.held.fee}
    /\ sent.call.minRaw * Tick >= sent.call.floor

(* A route of several hops is sent only after it was simulated as a whole, *)
(* and never by a configuration that was a dry run when it was built (the  *)
(* `simulate' flags of the execute functions).                             *)
SentWasRehearsed ==
  sent # Nothing => (sent.call.hops > 1 => sent.call.rehearsed) /\ ~sent.call.dry
===============================================================================
