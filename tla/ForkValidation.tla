----------------------------- MODULE ForkValidation -----------------------------
(***************************************************************************)
(* core/c2b_orchestrator.rs over core/c2b_fork_stages.rs: one candidate    *)
(* route is judged, built, called read-only and then really executed on a  *)
(* local fork of the chain, and what that fork did is the evidence.  A     *)
(* stage runs only if the one before it passed.                            *)
(*                                                                         *)
(* One fork serves all the routes of an anchor.  The caller is asked to    *)
(* reset it before each route; here it may forget to, or the reset may     *)
(* fail, and only the block number tells the stages.                       *)
(***************************************************************************)
EXTENDS Naturals, Integers, Sequences, SequencesExt, FiniteSets, FiniteSetsExt

CONSTANTS
    Plans,          \* key |-> [legs, quotes, input]: RoutePlan; a leg is
                    \* [venue, in, out, router, pool, fee, addressed]
    Evaluations,    \* sets of the rows of which the candidate is made
    ExpectedRounds,
    Traces,         \* what a call of a swap may turn out to do: sets of frames
    ForkTokens, Probe, MaxOut,
    Endpoints,      \* the kinds of host of the fork's URL
    MaxPolls, MaxRoutes,
    NoRoute

ASSUME ForkAssumption ==
    /\ NoRoute \notin DOMAIN Plans /\ {Probe, MaxOut, MaxPolls, MaxRoutes, ExpectedRounds} \subseteq Nat
    /\ \A k \in DOMAIN Plans :
         /\ Len(Plans[k].quotes) = Len(Plans[k].legs) /\ Plans[k].legs # <<>>
         /\ Plans[k].legs \in Seq(Range(Plans[k].legs)) /\ Plans[k].input \in Nat
         /\ \A leg \in Range(Plans[k].legs) : {leg.in, leg.out} \subseteq ForkTokens

VARIABLES
    endpoint,       \* the host the stages are told to use, by its kind
    anvil,          \* [wallet, mined]: the fork since its last reset
    polls,          \* eth_blockNumber calls still allowed to anvil's start
    job,            \* [at, key, leg, amount, results, txs]: the stage that is next
    workingCalls,   \* RealForkStages::working_calls
    evidence,       \* per route, what is recorded of it
    verdict,        \* the evidence execute_route returned: [key, delta]
    routesLeft

forkVars == <<endpoint, anvil, polls, job, workingCalls, evidence, verdict, routesLeft>>

-------------------------------------------------------------------------------
(* Candidates (fork_candidate_dedup.rs): the rows of the same physical     *)
(* route under several profiles are one candidate, if they agree on it.    *)
RowsOf(rows, key) == {r \in rows : r.key = key}
AllRounds(group, holds(_)) ==
    /\ Cardinality({r.round : r \in group}) >= ExpectedRounds
    /\ \A r \in group : holds(r)
Diverges(rows) ==
    \E r, s \in rows : r.key = s.key /\ r.profile # s.profile /\ r.shape # s.shape
PositiveSizes(rows) ==
    {r.size : r \in {x \in rows :
        AllRounds({y \in rows : y.profile = x.profile /\ y.size = x.size}, LAMBDA y : y.net)}}
DedupCandidates(rows) ==
    IF Diverges(rows) THEN {}
    ELSE {[key |-> k, positive |-> PositiveSizes(RowsOf(rows, k))] : k \in {r.key : r \in rows}}

(* The key of the only candidate with a positive size; none if there are   *)
(* several, or none.                                                       *)
SinglePhysicalCandidate(rows) ==
    LET found == {c \in DedupCandidates(rows) : c.positive # {}}
    IN  IF Cardinality(found) = 1 THEN {c.key : c \in found} ELSE {}

(* Builders (executable_call.rs): a call needs an amount, the addresses of *)
(* two tokens, and what its venue asks for: a fee tier, or the indices of  *)
(* Curve, which the stages never give.                                     *)
Common(leg, amount, typed) == amount > 0 /\ (typed \/ leg.addressed) /\ leg.in # leg.out
V2Venues == {"QuickSwap", "SushiSwap"}
BuildsV3(leg) == leg.venue = "UniswapV3" /\ leg.fee
BuildsCurve(leg) == FALSE
CanBuild(leg, amount, typed) ==
    /\ Common(leg, amount, typed)
    /\ BuildsV3(leg) \/ leg.venue \in V2Venues \/ BuildsCurve(leg)
Planned(plan, i) == IF i = 1 THEN plan.input ELSE plan.quotes[i - 1]

(* Traces (fork_trace_validation.rs): all frames of the tree are walked.   *)
Allowlist(plan) == UNION {{l.router, l.pool, l.in, l.out} : l \in Range(plan.legs)}
Anomalous(frame, plan) ==
    \/ frame.type = "SELFDESTRUCT" \/ frame.value > 0 \/ frame.error
    \/ /\ frame.to \notin Allowlist(plan)
       /\ ~(frame.callback /\ \E l \in Range(plan.legs) : l.fee)
CleanTrace(frames, plan) == \A f \in frames : ~Anomalous(f, plan)

-------------------------------------------------------------------------------
Blank == [economics |-> "none", error |-> FALSE, readonly |-> 0, results |-> <<>>, txs |-> <<>>,
          gross |-> 0, loss |-> FALSE]
Job(at, key) == [at |-> at, key |-> key, leg |-> 0, amount |-> 0, results |-> <<>>, txs |-> <<>>]
NoJob(at) == Job(at, NoRoute)
NoVerdict == [key |-> NoRoute, delta |-> 0]
Pristine == [wallet |-> [t \in ForkTokens |-> 0], mined |-> <<>>]

(* validate_loopback_endpoint: not an empty or unparseable URL, not one    *)
(* without a host, not another machine.                                    *)
Loopback(host) == host \in {"localhost", "127.0.0.0/8", "::1"}

ForkInit ==
    /\ endpoint \in Endpoints /\ anvil = Pristine /\ polls = MaxPolls /\ job = NoJob("starting")
    /\ workingCalls = <<>> /\ evidence = [k \in DOMAIN Plans |-> Blank]
    /\ verdict = NoVerdict /\ routesLeft = MaxRoutes

(* wait_for_anvil_ready, of the process spawn_anvil started.               *)
WaitForAnvil ==
    /\ job.at = "starting"
    /\ \/ job' = NoJob("resting") /\ UNCHANGED polls
       \/ /\ polls' = IF polls = 0 THEN 0 ELSE polls - 1
          /\ job' = IF polls = 0 THEN NoJob("off") ELSE job
    /\ UNCHANGED <<endpoint, anvil, workingCalls, evidence, verdict, routesLeft>>

Plan == Plans[job.key]
GoOn(at, leg, amount) == job' = [job EXCEPT !.at = at, !.leg = leg, !.amount = amount]
Reject == job' = NoJob("resting")
Record(record) == evidence' = [evidence EXCEPT ![job.key] = record]
Failed == [evidence[job.key] EXCEPT !.error = TRUE]

(* execute_route, called for a candidate, on a fork that is reset or not.  *)
ExecuteRoute ==
    /\ job.at = "resting" /\ routesLeft > 0 /\ routesLeft' = routesLeft - 1
    /\ anvil' \in {anvil, Pristine}
    /\ \E rows \in Evaluations : \E key \in SinglePhysicalCandidate(rows) : \E rejected \in BOOLEAN :
            job' = IF rejected \/ key \notin DOMAIN Plans THEN NoJob("resting")
                   ELSE Job("economics", key)
    /\ verdict' = NoVerdict
    /\ UNCHANGED <<endpoint, polls, workingCalls, evidence>>

StatefulEconomics ==
    /\ job.at = "economics"
    /\ \/ GoOn("build", 0, 0) /\ Record([evidence[job.key] EXCEPT !.economics = "positive"])
       \/ Reject /\ Record([evidence[job.key] EXCEPT !.economics = "negative"])
       \/ Reject /\ Record(Failed)
    /\ UNCHANGED <<endpoint, anvil, polls, workingCalls, verdict, routesLeft>>

(* With the typed legs, at the planned amounts; the caller's own amount is *)
(* only looked at when all is built.                                       *)
Refused == {i \in DOMAIN Plan.legs : ~CanBuild(Plan.legs[i], Planned(Plan, i), TRUE)}
BuiltUpTo(n) == [i \in 1..n |-> [key |-> job.key, leg |-> i, amount |-> Planned(Plan, i)]]
BuildExecutableCall ==
    /\ job.at = "build"
    /\ IF Refused = {}
       THEN /\ workingCalls' = BuiltUpTo(Len(Plan.legs)) /\ UNCHANGED evidence
            /\ \E amountIn \in {0, Plan.input} :
                  IF amountIn = 0 THEN Reject ELSE GoOn("readonly", 0, amountIn)
       ELSE workingCalls' = BuiltUpTo(Min(Refused) - 1) /\ Reject /\ Record(Failed)
    /\ UNCHANGED <<endpoint, anvil, polls, verdict, routesLeft>>

(* verify (executable_readonly.rs): only at the anchor, where a target has *)
(* code, does the call of a leg give an amount or revert.                  *)
\* Mutant: the block number is not compared with the anchor.
AtAnyBlock == TRUE
AtAnchor == anvil.mined = <<>>
Verified == IF AtAnchor THEN {"error", "revert", "nothing", "amount"} ELSE {"error"}
ReadonlyEthCall ==
    /\ job.at = "readonly"
    /\ IF ~Loopback(endpoint) THEN Reject /\ UNCHANGED evidence
       ELSE \E result \in [DOMAIN workingCalls -> Verified] :
            LET answered == {i \in DOMAIN workingCalls : result[i] # "error"}
                amounts == {i \in answered : result[i] # "revert"}
                last == result[Len(workingCalls)]
            IN  /\ Record([evidence[job.key] EXCEPT !.readonly = Cardinality(answered)])
                /\ IF amounts = DOMAIN workingCalls /\ last = "amount" THEN GoOn("fund", 0, 0) ELSE Reject
    /\ UNCHANGED <<endpoint, anvil, polls, workingCalls, verdict, routesLeft>>

(* run_preflight, up to the first leg: the slot of the balance is looked   *)
(* for by writing a probe, then the wallet is given the route's input.     *)
Start == Plan.legs[1].in
Funded(amount) == [anvil EXCEPT !.wallet[Start] = amount]
Fund ==
    /\ job.at = "fund"
    /\ \/ anvil' = Funded(Plan.input) /\ GoOn("approve", 1, Plan.input) /\ UNCHANGED evidence
       \/ anvil' \in {anvil, Funded(Probe), Funded(Plan.input)} /\ Reject /\ Record(Failed)
    /\ UNCHANGED <<endpoint, polls, workingCalls, verdict, routesLeft>>

Mined(kind, ok, out, frames) ==
    Append(anvil.mined, [key |-> job.key, leg |-> job.leg, kind |-> kind, ok |-> ok,
                         in |-> job.amount, out |-> out, frames |-> frames])

(* A leg is built again, at the amount its predecessor really gave and     *)
(* from the string legs, and the router is approved.                       *)
Approve ==
    /\ job.at = "approve"
    /\ \/ /\ CanBuild(Plan.legs[job.leg], job.amount, FALSE)
          /\ anvil' = [anvil EXCEPT !.mined = Mined("approve", TRUE, 0, {})]
          /\ GoOn("swap", job.leg, job.amount) /\ UNCHANGED evidence
       \/ /\ anvil' = [anvil EXCEPT !.mined = Mined("approve", FALSE, 0, {})] \/ UNCHANGED anvil
          /\ Reject /\ Record(Failed)
    /\ UNCHANGED <<endpoint, polls, workingCalls, verdict, routesLeft>>

Out == Plan.legs[job.leg].out
In == Plan.legs[job.leg].in
SignedDelta(before, after) == after - before
ActualOutput(before, after) == SignedDelta(before[Out], after[Out])
Swapped(out, frames) ==
    [wallet |-> [anvil.wallet EXCEPT ![In] = @ - job.amount, ![Out] = @ + out],
     mined |-> Mined("swap", TRUE, out, frames)]
(* A swap is known by its place on the fork, as the code knows its hash.   *)
SwapDone(ok, at, leg) ==
    job' = [job EXCEPT !.at = at, !.leg = leg, !.results = Append(@, ok),
                       !.txs = Append(@, Len(anvil'.mined)),
                       !.amount = IF ok THEN ActualOutput(anvil.wallet, anvil'.wallet) ELSE 0]

(* The legs are over: after the last of them, or after one that gave       *)
(* nothing.                                                                *)
SwapLeg ==
    /\ job.at = "swap"
    /\ \/ \E out \in 0..MaxOut, frames \in Traces :
            /\ anvil.wallet[In] >= job.amount
            /\ anvil' = Swapped(out, frames)
            /\ IF out = 0 \/ job.leg = Len(Plan.legs) THEN SwapDone(TRUE, "balance", job.leg)
               ELSE SwapDone(TRUE, "approve", job.leg + 1)
            /\ UNCHANGED evidence
       \/ /\ anvil' = [anvil EXCEPT !.mined = Mined("swap", FALSE, 0, {})]
          /\ SwapDone(FALSE, "balance", job.leg) /\ UNCHANGED evidence
       \/ /\ anvil' \in {anvil} \cup {Swapped(out, {}) : out \in 0..MaxOut}    \* no receipt
          /\ anvil.wallet[In] >= job.amount
          /\ Reject /\ Record(Failed)
    /\ UNCHANGED <<endpoint, polls, workingCalls, verdict, routesLeft>>

(* What the wallet gained in the start token, if every swap passed.        *)
AllPass == Len(job.results) = Len(Plan.legs) /\ \A i \in DOMAIN job.results : job.results[i]
FinalBalance ==
    /\ job.at = "balance"
    /\ LET record == evidence[job.key]
           gross == SignedDelta(Plan.input, anvil.wallet[Start])
           loss == gross <= 0
       IN  \/ /\ Record([record EXCEPT !.results = job.results, !.txs = job.txs,
                                   !.gross = gross, !.loss = loss])
              /\ IF AllPass /\ job.amount > 0 /\ ~loss THEN GoOn("trace", 0, gross)
                 ELSE Reject
           \/ Reject /\ Record(Failed)
    /\ UNCHANGED <<endpoint, anvil, polls, workingCalls, verdict, routesLeft>>

FramesOf(place) == anvil.mined[place].frames
ValidateTrace ==
    /\ job.at = "trace"
    /\ verdict' \in {NoVerdict} \cup
            (IF \A i \in DOMAIN evidence[job.key].txs : CleanTrace(FramesOf(evidence[job.key].txs[i]), Plan)
             THEN {[key |-> job.key, delta |-> job.amount]} ELSE {})
    /\ Reject
    /\ UNCHANGED <<endpoint, anvil, polls, workingCalls, evidence, routesLeft>>

ForkNext ==
    \/ WaitForAnvil \/ ExecuteRoute \/ StatefulEconomics \/ BuildExecutableCall \/ ReadonlyEthCall
    \/ Fund \/ Approve \/ SwapLeg \/ FinalBalance \/ ValidateTrace
ForkSpec == ForkInit /\ [][ForkNext]_forkVars
ForkOver == job.at = "off" \/ (job.at = "resting" /\ routesLeft = 0)

-------------------------------------------------------------------------------
(* When execute_route returns evidence, the fork holds that route and      *)
(* nothing else: since its reset no other route put a transaction on it,   *)
(* each of its legs was approved and swapped once, in order, at what the   *)
(* leg before gave, with no call outside the route, and the wallet ends    *)
(* above the input by the very delta in the evidence, whatever the routes  *)
(* before it did and whether the caller reset the fork or not.             *)
ForkEvidenceStandsAlone ==
    verdict # NoVerdict =>
        LET plan == Plans[verdict.key]
            Swap(i) == anvil.mined[2 * i]
        IN  /\ Len(anvil.mined) = 2 * Len(plan.legs)
            /\ \A i \in DOMAIN anvil.mined : anvil.mined[i].key = verdict.key
            /\ \A i \in DOMAIN plan.legs :
                 /\ anvil.mined[2 * i - 1].kind = "approve" /\ Swap(i).kind = "swap"
                 /\ Swap(i).leg = i /\ Swap(i).ok /\ CleanTrace(Swap(i).frames, plan)
                 /\ Swap(i).in = IF i = 1 THEN plan.input ELSE Swap(i - 1).out
            /\ verdict.delta > 0
            /\ anvil.wallet[plan.legs[1].in] = plan.input + verdict.delta
            /\ \A i \in DOMAIN workingCalls : workingCalls[i].key = verdict.key

===============================================================================
