----------------------------- MODULE CanonicalLoop -----------------------------
(***************************************************************************)
(* The canonical worker: run_canonical_mode (src/main.rs) and what it does *)
(* with a round's evidence, CanonicalC2BOpportunitySource                  *)
(* (src/core/c2b_shadow_service.rs), the three-anchor windows              *)
(* (src/core/stability.rs), the risk assessment and the choice of a        *)
(* strategy, and the pending simulation.                                   *)
(*                                                                         *)
(* A round itself is CanonicalRound's: here it ends with an error, runs out*)
(* of time, or says of each route that it has no evidence, or evidence of  *)
(* a loss, of a gain, or of a gain too good for the operator's sanity      *)
(* bounds.  Heights are numbers; the block at a height is named by the     *)
(* reorganisation that produced it.                                        *)
(***************************************************************************)
EXTENDS Integers, FiniteSets, Sequences

CONSTANTS
  Routes,       \* StabilityKey: route, start token, amount and profile
  EveryN,       \* [c2b_shadow].shadow_every_n_blocks
  MaxAnchorAge, \* CanonicalRiskConfig::max_anchor_age_blocks
  Floors,       \* absolute_min_profit_floor_raw: 0 in main.rs, 1 in its test
  MaxBlock, MaxReorgs \* bounds of the chain

ASSUME LoopAssumption ==
  /\ IsFiniteSet(Routes) /\ EveryN \in Nat \ {0} /\ MaxAnchorAge \in Nat
  /\ Floors \subseteq Nat /\ Floors # {} /\ MaxBlock \in Nat \ {0} /\ MaxReorgs \in Nat

VARIABLES
  chain,    \* external: the blocks of the node, by height
  reorgs,   \* external: reorganisations so far
  asked,    \* a shutdown was broadcast
  floor,    \* absolute_min_profit_floor_raw
  at,       \* where the worker is
  anchor,   \* the block it read: its number and hash, 0 for none
  last,     \* last_scheduled
  found,    \* the evidence of the round
  windows,  \* StableOpportunityAggregator
  todo,     \* stable opportunities of the round not yet assessed
  approved, \* ghost: the opportunities approved so far
  seen      \* ghost: the evidence every accepted round gave, by route

vars == <<chain, reorgs, asked, floor, at, anchor, last, found, windows, todo, approved, seen>>

World == <<chain, reorgs>>
Ghosts == <<approved, seen>>
Worker == <<floor, at, anchor, last, found, windows, todo, approved, seen>>

Tip == Len(chain)
Block(n) == [number |-> n, hash |-> chain[n]]
None == [number |-> 0, hash |-> 0]
Kinds == {"none", "loss", "gain", "glitch"}

Init ==
  /\ chain = <<0>> /\ reorgs = 0 /\ asked = FALSE
  /\ floor \in Floors
  /\ at = "wait" /\ anchor = None /\ last = None
  /\ found = [r \in Routes |-> "none"]
  /\ windows = [r \in Routes |-> <<>>]
  /\ todo = {} /\ approved = {}
  /\ seen = [r \in Routes |-> <<>>]

-------------------------------------------------------------------------------
(* The chain and the operator.                                             *)

Mine ==
  /\ Tip < MaxBlock
  /\ chain' = Append(chain, reorgs)
  /\ UNCHANGED <<reorgs, asked, Worker>>

(* Blocks from a height on are replaced by one.                            *)
Reorg ==
  /\ reorgs < MaxReorgs
  /\ reorgs' = reorgs + 1
  /\ \E n \in 2 .. Tip : chain' = Append(SubSeq(chain, 1, n - 1), reorgs')
  /\ UNCHANGED <<asked, Worker>>

Shutdown ==
  /\ ~asked
  /\ asked' = TRUE
  /\ UNCHANGED <<World, Worker>>

-------------------------------------------------------------------------------
(* The worker: a tick, the block's number, the block, and the schedule.    *)

Goto(place) == at' = place /\ UNCHANGED <<World, asked, floor>>

(* Mutant of Listening: "the outer branch cannot interrupt an in-flight discovery". *)
OnlyBetweenRounds == {"wait", "number", "block"}

Listening == {"wait", "number", "block", "round"}

(* Every select of the loop but the outer one looks at the shutdown first. *)
Biased == at \in Listening \ {"wait"} /\ asked

Stop ==
  /\ at \in Listening /\ asked
  /\ Goto("stopped")
  /\ UNCHANGED <<anchor, last, found, windows, todo, Ghosts>>

Tick ==
  /\ at = "wait" /\ Goto("number")
  /\ UNCHANGED <<anchor, last, found, windows, todo, Ghosts>>

PollFails ==
  /\ at \in {"number", "block"} /\ ~Biased /\ Goto("wait")
  /\ UNCHANGED <<anchor, last, found, windows, todo, Ghosts>>

GotNumber ==
  /\ at = "number" /\ ~Biased /\ Goto("block")
  /\ anchor' = [number |-> Tip, hash |-> 0]
  /\ UNCHANGED <<last, found, windows, todo, Ghosts>>

Reorged(block) == block.number = last.number /\ block.hash # last.hash

ShouldSchedule(block) ==
  /\ ~Reorged(block)
  /\ \/ last = None
     \/ block.number > last.number /\ block.number - last.number >= EveryN

(* get_block finds a block at that height, or none any more.               *)
GotBlock ==
  /\ at = "block" /\ ~Biased
  /\ LET n == anchor.number block == Block(n) IN
       IF n <= Tip /\ ShouldSchedule(block)
       THEN /\ Goto("round")
            /\ anchor' = block /\ last' = block
       ELSE Goto("wait") /\ UNCHANGED <<anchor, last>>
  /\ UNCHANGED <<found, windows, todo, Ghosts>>

(* An error, or round_timeout: the round is lost, and its anchor with it.  *)
RoundFails ==
  /\ at = "round" /\ ~Biased /\ Goto("wait")
  /\ UNCHANGED <<anchor, last, found, windows, todo, Ghosts>>

(* discovery's positives against those the operator's table shows.         *)
Consistent(result) == \A r \in Routes : result[r] # "glitch"

RoundEnds ==
  /\ at = "round" /\ ~Biased /\ Goto("evidence")
  /\ \E result \in [Routes -> Kinds] :
       found' = IF Consistent(result) THEN result ELSE [r \in Routes |-> "none"]
  /\ UNCHANGED <<anchor, last, windows, todo, Ghosts>>

-------------------------------------------------------------------------------
(* run_evidence_round.                                                     *)

Entry(r) == [anchor |-> anchor, gain |-> found[r] = "gain"]

Newest(s, n) == IF Len(s) <= n THEN s ELSE SubSeq(s, Len(s) - n + 1, Len(s))

(* Mutants of Pushed. *)
KeepsGainsOnly(r) ==
  IF found[r] # "gain" THEN windows[r] ELSE Newest(Append(windows[r], Entry(r)), 3)
Pushed(r) == IF found[r] = "none" THEN windows[r] ELSE Newest(Append(windows[r], Entry(r)), 3)

(* is_stable. *)
Stable(window) ==
  /\ Len(window) = 3
  /\ Cardinality({window[i].anchor.number : i \in 1 .. 3}) = 3
  /\ Cardinality({window[i].anchor : i \in 1 .. 3}) = 3
  /\ \A i \in 1 .. 3 : window[i].gain

Push ==
  /\ at = "evidence" /\ Goto("assess")
  /\ windows' = [r \in Routes |-> Pushed(r)]
  /\ todo' = {r \in Routes : found[r] # "none" /\ Stable(windows'[r])}
  /\ seen' = [r \in Routes |-> IF found[r] = "none" THEN seen[r] ELSE Append(seen[r], Entry(r))]
  /\ UNCHANGED <<anchor, last, found, approved>>

(* assess_executable_opportunity: the head it is told is the anchor.       *)
RiskApproves(r) ==
  LET stable == windows[r] IN
  /\ anchor.number - stable[3].anchor.number <= MaxAnchorAge
  /\ stable[1].anchor.number < stable[2].anchor.number
  /\ stable[2].anchor.number < stable[3].anchor.number

(* determine_execution_strategy_canonical: Skip without a minimum profit.  *)
Skips == floor = 0

(* It may refuse for the gas as well, which is an amount of the start token.*)
Assess(r) ==
  /\ at = "assess" /\ r \in todo
  /\ todo' = todo \ {r}
  /\ \/ /\ RiskApproves(r)
        /\ approved' = approved \cup {[route |-> r, window |-> windows[r]]}
        /\ Goto(IF Skips THEN "assess" ELSE "simulate")
     \/ Goto("assess") /\ UNCHANGED approved
  /\ UNCHANGED <<anchor, last, found, windows, seen>>

(* simulate_pending, leg by leg: it returns, reverts or times out.         *)
Simulated ==
  /\ at = "simulate" /\ Goto("assess")
  /\ UNCHANGED <<anchor, last, found, windows, todo, Ghosts>>

(* The result is stored and the next tick is waited for.                   *)
Persist ==
  /\ at = "assess" /\ todo = {} /\ Goto("wait")
  /\ found' = [r \in Routes |-> "none"]
  /\ UNCHANGED <<anchor, last, windows, todo, Ghosts>>

Stopped == at = "stopped" /\ UNCHANGED vars

Next ==
  \/ Mine \/ Reorg \/ Shutdown
  \/ Stop \/ Tick \/ PollFails \/ GotNumber \/ GotBlock
  \/ RoundFails \/ RoundEnds \/ Push
  \/ \E r \in Routes : Assess(r)
  \/ Simulated \/ Persist
  \/ Stopped

Spec == Init /\ [][Next]_vars

(* The worker's own steps are taken, and a simulation has its time limit.  *)
(* Nothing is assumed of the node: a call of its may never return.         *)
Fairness ==
  /\ WF_vars(Stop)
  /\ WF_vars(Push \/ Persist \/ \E r \in Routes : Assess(r))
  /\ WF_vars(Simulated)

FairSpec == Spec /\ Fairness
-------------------------------------------------------------------------------
(* Properties.                                                             *)

Good(window, r) ==
  /\ Len(window) = 3
  /\ \A i \in 1 .. 3 : window[i].gain
  /\ \A i \in 1 .. 2 : window[i + 1].anchor.number - window[i].anchor.number >= EveryN

TypeOK ==
  /\ Tip \in 1 .. MaxBlock + 1 /\ reorgs \in 0 .. MaxReorgs /\ floor \in Floors
  /\ at \in {"wait", "number", "block", "round", "evidence", "assess", "simulate", "stopped"}
  /\ found \in [Routes -> Kinds] /\ todo \subseteq Routes

(* A window holds the newest evidence of its route: the tail of all that   *)
(* was accepted, three entries at most, at anchors EveryN apart, none of   *)
(* them later than the last one scheduled.                                 *)
WindowsAreRecent ==
  \A r \in Routes :
    /\ windows[r] = Newest(seen[r], 3)
    /\ \A i \in 1 .. Len(windows[r]) - 1 :
         windows[r][i + 1].anchor.number - windows[r][i].anchor.number >= EveryN
    /\ \A i \in 1 .. Len(windows[r]) : windows[r][i].anchor.number <= last.number

(* The module's invariant.                                                 *)
LoopInv == TypeOK /\ WindowsAreRecent

(* "All three independent anchors carry complete, profitable evidence":    *)
(* whatever is approved gained at three anchors that lie EveryN blocks     *)
(* apart, and no evidence of that route in between said otherwise.         *)
ApprovedGainedThrice ==
  \A a \in approved :
    /\ Good(a.window, a.route)
    /\ \A i \in 1 .. Len(seen[a.route]) :
         LET entry == seen[a.route][i] IN
           entry.anchor.number \in a.window[1].anchor.number .. a.window[3].anchor.number => entry.gain

(* The worker stops when it is told to, though the node never answers      *)
(* again: in the middle of a poll or of a round too.                       *)
ShutdownStops == asked ~> at = "stopped"
===============================================================================
