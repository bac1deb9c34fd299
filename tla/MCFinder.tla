-------------------------------- MODULE MCFinder -------------------------------
(* A stable, a midcap and an anchor in two venues: price maps of up to four*)
(* entries for round trips and triangles, and maps of one venue between    *)
(* three tokens for the search with Bellman-Ford.  And scans of a V3, a V2 *)
(* and a Curve venue in two markets: in the first V3's best tier is one the*)
(* executor refuses, in the second the tiers change places and a pool of   *)
(* little value quotes best.                                               *)
EXTENDS Preparation, TLC

CONSTANTS S, M, H, v1, v2, v3

MCTokens == {S, M, H}
MCVenues == {v1, v2}
MCAllVenues == {v1, v2, v3}
MCStables == {S}
MCMidcaps == {M}
MCAnchors == {H}
Order == <<S, M, H>>
MCBefore(a, b) == \E i, j \in 1 .. 3 : i < j /\ Order[i] = a /\ Order[j] = b

(* A hash map has one entry for a venue and a direction.                   *)
Entries(Candidates, n) ==
  {s \in [1 .. n -> Candidates] :
     \A i, j \in 1 .. n : i # j => <<s[i].venue, s[i].from, s[i].to>> # <<s[j].venue, s[j].from, s[j].to>>}

Candidates(venues, directions, gains) ==
  {Leg(v, d[1], d[2], g) : v \in venues, d \in directions, g \in gains}

MCUntiered == {<<v2, M, H>>}

TwoVenues ==
  Entries(Candidates(MCVenues, {<<S, M>>, <<M, S>>}, {-30, 40, 60, 90}), 4)
    \cup Entries(Candidates({v1}, {<<S, M>>, <<M, S>>}, {-30, 90})
                   \cup Candidates(MCVenues, {<<M, H>>, <<H, S>>}, {-30, 40}), 4)

OneVenue ==
  Entries(Candidates({v1}, {d \in MCTokens \X MCTokens : d[1] # d[2]}, {-30, 0, 30}), 4)

MCPriceMaps == TwoVenues \cup OneVenue

(* The pools of the scans.                                                 *)
MCAdapters == <<v1, v2, v3>>
MCKind(v) == IF v = v1 THEN "V3" ELSE IF v = v2 THEN "V2" ELSE "Curve"
MCDirections == <<<<S, M>>, <<M, S>>, <<S, H>>, <<H, S>>>>
MCPoolTokens == {S, H}
MCThreshold(v) == IF v = v1 THEN <<3>> ELSE IF v = v2 THEN <<>> ELSE <<0>>
MCReciprocity == -500 .. 100
P(v, a, b, t) == [venue |-> v, pair |-> {a, b}, tier |-> t]
Two(a, b, g, h, s, value) == [gain |-> (<<a, b>> :> g @@ <<b, a>> :> h), slope |-> s, value |-> value]
Shared == P(v2, S, M, 3000) :> Two(S, M, 60, -70, 0, 3)
    @@ P(v3, S, H, 4) :> Two(S, H, -5, -5, 0, 9)
Market1 == Shared
    @@ P(v1, S, M, 100) :> Two(S, M, 30, 20, 0, 9)
    @@ P(v1, S, M, 500) :> Two(S, M, 20, -60, 2, 3)
    @@ P(v1, S, M, 3000) :> Two(S, M, -10, 10, 1, 3)
    @@ P(v1, S, H, 500) :> Two(S, H, -2, -2, 0, 1)
    @@ P(v1, S, H, 10000) :> Two(S, H, -12, -12, 0, 1)
Market2 == Shared
    @@ P(v1, S, M, 500) :> Two(S, M, -40, 15, 0, 9)
    @@ P(v1, S, M, 3000) :> Two(S, M, 30, -35, 20, 1)
    @@ P(v1, S, H, 500) :> Two(S, H, -8, 8, 0, 5)
    @@ P(v1, S, H, 10000) :> Two(S, H, -90, -90, 0, 1)
MCMarkets == {Market1, Market2}

(* The markets change prices and not the pools the executor can use.       *)
ASSUME PoolsOfTheMarketsStay == PoolsStay

(* What is sent: a loan, through the wrapper, with own capital; the same   *)
(* with a higher minimum; and the ways in which nothing may be sent.       *)
Loan == [loan |-> TRUE, wrapper |-> FALSE, dry |-> FALSE, paper |-> FALSE, quiet |-> FALSE,
         min |-> 2, cap |-> 9, fee |-> 5, simulate |-> FALSE, hops |-> 3, alternate |-> FALSE]
MCConfigs == {Loan, [Loan EXCEPT !.wrapper = TRUE, !.simulate = TRUE, !.alternate = TRUE],
              [Loan EXCEPT !.loan = FALSE, !.min = 7, !.hops = 2], [Loan EXCEPT !.dry = TRUE],
              [Loan EXCEPT !.paper = TRUE, !.loan = FALSE], [Loan EXCEPT !.quiet = TRUE]}
MCSupported(v) == v # v3
================================================================================
