------------------------------ MODULE MCServices ------------------------------
(***************************************************************************)
(* The services beside the trading path, none of which shares state with   *)
(* another: a behaviour is about one of them, the others rest.             *)
(***************************************************************************)
EXTENDS RateLimiter, GasPricing, GasCalibration, Paper, ExecutionEngine, Cooldowns, ReplayScan,
        ForkValidation

VARIABLE subject

servicesVars == <<subject, limiterVars, gasVars, calibrationVars, paperVars, engineVars, cooldownVars,
                  replayVars, forkVars>>

Subjects == {"limiter", "pricing", "calibration", "paper", "engine", "cooldowns", "replay", "fork"}

-------------------------------------------------------------------------------
(* Values *)

MCSwapUnits == [k \in Kinds |-> IF k = "v2" THEN 1050 ELSE 1650]
MCHops == <<"v2", "v3">>

(* "A/B" and "B-A" are one pair to normalize_pair_key.                     *)
MCKey == [l \in Labels |-> "ab"]

(* A token cache as it should be, one with other decimals, one without a   *)
(* midcap; a pool on either side of the gate.                              *)
MCDecimals == "usdc" :> 6 @@ "usdt" :> 6 @@ "dai" :> 18
MCBooks == {"wmatic" :> 18 @@ MCDecimals, "usdc" :> 18 @@ "wmatic" :> 18 @@ MCDecimals, MCDecimals}
MCPoolBalances == {[s \in Stables |-> 1], [s \in Stables |-> 2]}

(* One leg of Curve and the legs of the others that close a triangle, the  *)
(* best of them at a tier that cannot execute.                             *)
Leg(venue, in, out, tier, rate) ==
    [venue |-> venue, in |-> in, out |-> out, tier |-> tier, rate |-> rate]
MCQuotes == {{Leg("curve", "usdc", "usdt", 0, 3), Leg("quick", "usdt", "dai", 0, -1),
              Leg("uni", "dai", "usdc", 500, -1), Leg("uni", "dai", "usdc", 3000, -3),
              Leg("uni", "dai", "usdc", 100, 5), Leg("quick", "usdc", "usdt", 0, -1)}}
MCSameModel == {{}, {[rate |-> 1, executable |-> TRUE]}, {[rate |-> 1, executable |-> FALSE]},
                {[rate |-> -1, executable |-> TRUE]}}

(* Two windows, one of them backwards, and a zeroed one; a range; half a   *)
(* range; the session of the last working day.                             *)
MCConfigs ==
    {[windows |-> <<<<5, 4>>, <<0, 0>>, <<8, 8>>>>, from |-> 0, to |-> 0, auto |-> FALSE],
     [windows |-> <<>>, from |-> 9, to |-> 7, auto |-> FALSE],
     [windows |-> <<>>, from |-> 9, to |-> 0, auto |-> FALSE],
     [windows |-> <<>>, from |-> 0, to |-> 0, auto |-> TRUE]}

(* Two routes of two legs; the second has one leg without a fee tier whose *)
(* string form is symbolic.                                                *)
Hop(venue, in, out, router, fee, addressed) ==
    [venue |-> venue, in |-> in, out |-> out, router |-> router, pool |-> "pool", fee |-> fee,
     addressed |-> addressed]
MCPlans ==
    "whole" :> [legs |-> <<Hop("UniswapV3", "usdc", "usdt", "v3", TRUE, TRUE),
                           Hop("QuickSwap", "usdt", "usdc", "v2", FALSE, TRUE)>>,
                quotes |-> <<2, 2>>, input |-> 1]
    @@ "symbolic" :> [legs |-> <<Hop("SushiSwap", "usdc", "usdt", "v2", FALSE, TRUE),
                                 Hop("QuickSwap", "usdt", "usdc", "v2", FALSE, FALSE)>>,
                      quotes |-> <<2, 2>>, input |-> 1]
    @@ "curve" :> [legs |-> <<Hop("Curve", "usdc", "usdt", "curve", FALSE, TRUE),
                              Hop("QuickSwap", "usdt", "usdc", "v2", FALSE, TRUE)>>,
                   quotes |-> <<2, 2>>, input |-> 1]
Seen(key, profile, shape, round) ==
    [key |-> key, profile |-> profile, shape |-> shape, round |-> round, size |-> 1, net |-> TRUE]
Twice(key, profile) == {Seen(key, profile, 1, 1), Seen(key, profile, 1, 2)}
MCEvaluations ==
    {Twice(k, "base") : k \in {"whole", "symbolic", "curve"}}
    \cup {Twice("whole", "base") \cup {Seen("symbolic", "base", 1, 1), Seen("whole", "liquid", 1, 1)},
          Twice("whole", "base") \cup {Seen("whole", "liquid", 2, 1)},
          Twice("whole", "base") \cup Twice("symbolic", "base")}

(* A swap as it should be, and one that calls out of the route and has a   *)
(* revert inside.                                                          *)
Frame(to, error) == [type |-> "CALL", to |-> to, value |-> 0, callback |-> FALSE, error |-> error]
MCTraces == {{Frame("v2", FALSE), Frame("pool", FALSE)}, {Frame("elsewhere", FALSE), Frame("usdt", TRUE)}}

-------------------------------------------------------------------------------
ServicesInit ==
    /\ subject \in Subjects
    /\ LimiterInit /\ CalibrationInit /\ EngineInit /\ CooldownInit /\ ReplayInit
    /\ PricingInit /\ (subject # "pricing" => oracleOn /\ strictOn)
    /\ PaperInit /\ (subject # "paper" => observing)
    /\ ForkInit /\ (subject # "fork" => endpoint = "localhost")

LimiterTurn ==
    /\ subject = "limiter" /\ LimiterNext
    /\ UNCHANGED <<subject, gasVars, calibrationVars, paperVars, engineVars, cooldownVars,
                   replayVars, forkVars>>
PricingTurn ==
    /\ subject = "pricing" /\ PricingNext
    /\ UNCHANGED <<subject, limiterVars, calibrationVars, paperVars, engineVars, cooldownVars,
                   replayVars, forkVars>>
CalibrationTurn ==
    /\ subject = "calibration" /\ CalibrationNext
    /\ UNCHANGED <<subject, limiterVars, gasVars, paperVars, engineVars, cooldownVars,
                   replayVars, forkVars>>
PaperTurn ==
    /\ subject = "paper" /\ PaperNext
    /\ UNCHANGED <<subject, limiterVars, gasVars, calibrationVars, engineVars, cooldownVars,
                   replayVars, forkVars>>
EngineTurn ==
    /\ subject = "engine" /\ EngineNext
    /\ UNCHANGED <<subject, limiterVars, gasVars, calibrationVars, paperVars, cooldownVars,
                   replayVars, forkVars>>
CooldownTurn ==
    /\ subject = "cooldowns" /\ CooldownNext
    /\ UNCHANGED <<subject, limiterVars, gasVars, calibrationVars, paperVars, engineVars,
                   replayVars, forkVars>>
ReplayTurn ==
    /\ subject = "replay" /\ ReplayNext
    /\ UNCHANGED <<subject, limiterVars, gasVars, calibrationVars, paperVars, engineVars, cooldownVars,
                   forkVars>>

ForkTurn ==
    /\ subject = "fork" /\ ForkNext
    /\ UNCHANGED <<subject, limiterVars, gasVars, calibrationVars, paperVars, engineVars, cooldownVars,
                   replayVars>>

(* The replay is a command, whose process is over at its end; the routes   *)
(* of a fork are, too.                                                     *)
Over ==
    /\ \/ subject = "replay" /\ phase \in {"ended", "failed"}
       \/ subject = "fork" /\ ForkOver
    /\ UNCHANGED <<subject, limiterVars, gasVars, calibrationVars, paperVars, engineVars, cooldownVars,
                   replayVars, forkVars>>

ServicesNext ==
    \/ LimiterTurn \/ PricingTurn \/ CalibrationTurn \/ PaperTurn
    \/ EngineTurn \/ CooldownTurn \/ ReplayTurn \/ ForkTurn \/ Over

ServicesSpec ==
    /\ ServicesInit /\ [][ServicesNext]_servicesVars
    /\ subject = "limiter" => LimiterFairness
===============================================================================
