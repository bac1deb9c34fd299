---------------------------- MODULE GasCalibration -----------------------------
(***************************************************************************)
(* How the estimate of a route's gas learns from receipts: one multiplier  *)
(* for every route (gas.rs, next_gas_multiplier) and one moving average per*)
(* kind of venue (gas_oracle.rs), which alone is kept on disk.  Both are   *)
(* taught by the same receipt and both are applied to the same estimate.   *)
(*                                                                         *)
(* Gas is in units of 100, the multiplier in basis points, and an estimate *)
(* in basis points of its units: the code does not round it.               *)
(***************************************************************************)
EXTENDS Naturals, Integers, Sequences, Functions

CONSTANTS
    Kinds,          \* kinds of venue
    SwapUnits,      \* kind -> swap_gas_units
    Hops,           \* the kinds along the route
    BaseGas, CalldataGas, Overhead,
    MinSamples,
    Receipts,       \* gas_used the chain may report for the route
    MaxReceipts     \* bound on the receipts of a behaviour

(* The least of the profile is 105_000 units of gas (swap_gas_units).      *)
ASSUME CalibrationAssumption ==
    /\ SwapUnits \in [Kinds -> Nat] /\ \A k \in Kinds : SwapUnits[k] >= 1000
    /\ Hops \in Seq(Kinds) /\ Hops # <<>>
    /\ {BaseGas, CalldataGas, Overhead} \subseteq Nat
    /\ MinSamples \in Nat \ {0} /\ Receipts \subseteq Nat \ {0}

VARIABLES multiplier, venues, disk, taught

calibrationVars == <<multiplier, venues, disk, taught>>

One == 10000
Clamped(x, lo, hi) == IF x < lo THEN lo ELSE IF x > hi THEN hi ELSE x
NoSamples == [k \in Kinds |-> [mean |-> 0, n |-> 0]]

CalibrationInit ==
    /\ multiplier = One /\ venues = NoSamples /\ disk = NoSamples /\ taught = <<>>

Along(units) == FoldFunction(+, 0, [i \in DOMAIN Hops |-> units[Hops[i]]])
Units(swap) == BaseGas + Overhead + Along([k \in Kinds |-> swap[k] + CalldataGas])

(* estimate_gas_units: the static profile.                                 *)
Static == Units(SwapUnits)

(* p75, swap_gas_estimate: the mean and 15%, never below the profile, and  *)
(* nothing before MIN_SAMPLES.                                             *)
SwapEstimate ==
    [k \in Kinds |->
        LET p75 == (venues[k].mean * 115) \div 100
        IN  IF venues[k].n < MinSamples \/ p75 < SwapUnits[k] THEN SwapUnits[k] ELSE p75]

(* estimate_gas_units_calibrated, times the multiplier.                    *)
Estimate == Units(SwapEstimate) * multiplier

(* VenueEwma::record, once for each hop of the kind.                       *)
SampledFromZero(ewma, x) == [mean |-> (ewma.mean * 85 + x * 15) \div 100,
                             n |-> IF ewma.n = MinSamples THEN MinSamples ELSE ewma.n + 1]
Sampled(ewma, x) == [mean |-> IF ewma.n = 0 THEN x ELSE (ewma.mean * 85 + x * 15) \div 100,
                      n |-> IF ewma.n = MinSamples THEN MinSamples ELSE ewma.n + 1]

(* record_route: the WHOLE of the receipt is shared out among the swaps,   *)
(* hop by hop.                                                             *)
Share(actual, k) == (actual * SwapUnits[k]) \div Along(SwapUnits)
Learned(actual) ==
    LET after[i \in 0..Len(Hops)] ==
          IF i = 0 THEN venues
          ELSE [after[i - 1] EXCEPT ![Hops[i]] = Sampled(@, Share(actual, Hops[i]))]
    IN  after[Len(Hops)]

(* next_gas_multiplier                                                     *)
Ratio(actual) == Clamped((actual * One) \div Static, One \div 2, 2 * One)
NextMultiplier(actual) == Clamped((multiplier * 8 + Ratio(actual) * 2) \div 10, 8000, 15000)

(* observe_gas_used: a confirmed receipt teaches both, and the averages are*)
(* written down.                                                           *)
ObserveGasUsed(actual) ==
    /\ Len(taught) < MaxReceipts
    /\ multiplier' = NextMultiplier(actual)
    /\ venues' = Learned(actual) /\ disk' \in {disk, Learned(actual)}
    /\ taught' = Append(taught, actual)

(* A restart reads the averages back, the multiplier starts anew.          *)
CalibrationRestart ==
    /\ multiplier' = One /\ venues' \in {disk, NoSamples}
    /\ UNCHANGED <<disk, taught>>

CalibrationNext == (\E actual \in Receipts : ObserveGasUsed(actual)) \/ CalibrationRestart

CalibrationSpec == CalibrationInit /\ [][CalibrationNext]_calibrationVars

-------------------------------------------------------------------------------
(* Properties *)

(* A route whose receipts are always the same is not underestimated once   *)
(* its venues are calibrated, whatever was lost in restarts in between: the*)
(* average carries the receipt even when the multiplier has forgotten it.  *)
(* The multiplier is rounded down here, so by up to one basis point more   *)
(* than it says (observe_gas_used, record_route, swap_gas_estimate).       *)
LearnedIsCovered ==
    \A actual \in Receipts :
        /\ \A i \in DOMAIN taught : taught[i] = actual
        /\ \A i \in DOMAIN Hops : venues[Hops[i]].n = MinSamples
        => Estimate + Units(SwapEstimate) >= actual * One
=============================================================================
