------------------------------ MODULE ReplayScan ------------------------------
(***************************************************************************)
(* core/replay_scan.rs with replay_cross_model.rs: blocks of the past are  *)
(* quoted again on an archive node, one after another and window after     *)
(* window, and the best triangle of each is simulated there, up to a limit *)
(* that all windows share.  Whatever fails at a block, the block has its   *)
(* row, and the summaries are made of the rows.                            *)
(*                                                                         *)
(* A rate is its logarithm in basis points: legs add up, and a cycle has an*)
(* edge when it is above zero.                                             *)
(***************************************************************************)
EXTENDS Naturals, Integers, Sequences, SequencesExt, FiniteSets, FiniteSetsExt, Functions

CONSTANTS
    Configs,        \* [windows, from, to, auto]: validation.replay
    LatestBlock, LatestTime,            \* of the chain, in half hours
    BlocksPerTick,                      \* POLYGON_BLOCK_SECS, per half hour
    Step, MaxEthCalls,
    Stables, Venues, Curve,             \* Curve is the venue without a DexType
    V3, ExecutableTiers,
    StableDecimals,     \* expected_stable_decimals
    Midcaps, Anchors,   \* of arbitrage.triangular
    Books,          \* what the token cache may hold: functions from symbols to decimals
    PoolBalances,   \* what Curve's pool may hold: functions from stables to dollars
    MinLiquidity,
    Quotes,         \* what the node may say of a block: sets of [venue, in, out, rate, tier]
    SameModel       \* what the finder may make of it: sets of at most one [rate, executable]

ASSUME ReplayAssumption ==
    /\ Step \in Nat /\ MaxEthCalls \in Nat /\ {LatestBlock, LatestTime, BlocksPerTick} \subseteq Nat
    /\ LatestTime >= 48     \* the chain is older than a day
    /\ \A c \in Configs : c.windows \in Seq(Nat \X Nat) /\ {c.from, c.to} \subseteq Nat
    /\ {Curve, V3} \subseteq Venues /\ V3 # Curve /\ Cardinality(Stables) = 3
    /\ MinLiquidity \in Nat /\ PoolBalances \subseteq [Stables -> Nat]

VARIABLES
    phase,          \* "starting", "scanning", "ended", "failed"
    windows,        \* those still to scan, the current one first
    curveLiquid,    \* did the pool of Curve pass the gate at the latest block?
    blocks,         \* the blocks of the current window still to scan
    samples,        \* its rows
    ethCalls,       \* simulations that gave an answer, over all windows
    firstCsv, csv,  \* is the header still to be written; the lines of the file
    summaries,      \* of the windows done
    overall       \* <<>> or <<what run returns>>

replayVars == <<phase, windows, curveLiquid, blocks, samples, ethCalls, firstCsv, csv, summaries, overall>>

(***************************************************************************)
(* Windows: the configured ones without the zeroed, else one range, else   *)
(* the last working day's session from 14:30 to 17:30, estimated from the  *)
(* latest block.                                                           *)
(***************************************************************************)
Ordered(a, b) == IF a <= b THEN <<a, b>> ELSE <<b, a>>
Weekday(day) == (day + 4) % 7       \* day 0 of the epoch is a Thursday, 0 a Sunday
SessionDay == Max({d \in 0..(LatestTime \div 48 - 1) : Weekday(d) \in 1..5})
BlockAt(time) == Max({1, LatestBlock - (LatestTime - time) * BlocksPerTick})
Session == Ordered(BlockAt(SessionDay * 48 + 29), BlockAt(SessionDay * 48 + 35))

ResolveWindows(c) ==
    IF c.windows # <<>>
    THEN FlattenSeq([i \in DOMAIN c.windows |->
                       IF c.windows[i] = <<0, 0>> THEN <<>>
                       ELSE <<Ordered(c.windows[i][1], c.windows[i][2])>>])
    ELSE IF c.from > 0 /\ c.to > 0 THEN <<Ordered(c.from, c.to)>>
    ELSE IF c.auto THEN <<Session>> ELSE <<>>

Stride == IF Step < 1 THEN 1 ELSE Step
SampleBlockList(w) == [i \in 1..((w[2] - w[1]) \div Stride + 1) |-> w[1] + (i - 1) * Stride]

(***************************************************************************)
(* find_best_stable_cycle: the best triangle of the stables with legs of   *)
(* both models.                                                            *)
(***************************************************************************)
IsCross(legs) == \E i, j \in 1..3 : legs[i].venue = Curve /\ legs[j].venue # Curve
IsCycle(legs) ==
    /\ \A i \in 1..3 : legs[i].out = legs[(i % 3) + 1].in
    /\ Cardinality({legs[i].in : i \in 1..3}) = 3
Gross(legs) == legs[1].rate + legs[2].rate + legs[3].rate
CrossCycles(index) == {legs \in [1..3 -> index] : IsCycle(legs) /\ IsCross(legs)}
BestCross(index) ==
    LET found == CrossCycles(index) IN IF found = {} THEN {} ELSE {Max({Gross(l) : l \in found})}

(* What a venue may answer: nothing, if its batch failed, or its quotes, of*)
(* V3 the executable tier of a pair that gives most; Curve is asked call by*)
(* call, and only if it is liquid.                                         *)
OfVenue(index, venue) == {q \in index : q.venue = venue}
V2Answers(index) == {{q \in index : q.venue \in up} : up \in SUBSET (Venues \ {V3, Curve})}
Executable(index) == {q \in OfVenue(index, V3) : q.tier \in ExecutableTiers}
V3Answers(index) ==
    {{}, {q \in Executable(index) :
            \A r \in Executable(index) : r.in = q.in /\ r.out = q.out => r.rate <= q.rate}}
CurveAnswers(index) ==
    IF curveLiquid THEN SUBSET OfVenue(index, Curve) ELSE {{}}
(* build_quotes_at_block; an archive error instead fails the whole block.  *)
QuotesAnswered(index) ==
    {v3 \cup v2 \cup curve :
        v3 \in V3Answers(index), v2 \in V2Answers(index), curve \in CurveAnswers(index)}

-------------------------------------------------------------------------------
ReplayInit ==
    /\ phase = "starting" /\ windows = <<>> /\ curveLiquid = FALSE /\ blocks = <<>> /\ samples = <<>>
    /\ ethCalls = 0 /\ firstCsv = TRUE /\ csv = <<"old">> /\ summaries = <<>> /\ overall = <<>>

(* Before the first window: the stables have the decimals the amounts are  *)
(* computed with, Curve's pool is asked for its balances once, and both    *)
(* tokens of every pair are known.                                         *)
DecimalsHold(book) == \A s \in Stables : s \in DOMAIN book /\ book[s] = StableDecimals[s]
CurveIsLiquid(balances) == MapThenSumSet(LAMBDA s : balances[s], Stables) >= MinLiquidity
TriangularPairs ==
    {p \in (Midcaps \X Anchors) \cup (Anchors \X Midcaps) \cup (Anchors \X Anchors)
             \cup (Stables \X Stables) : p[1] # p[2]}
PairsPrepared(book) == \A p \in TriangularPairs : {p[1], p[2]} \subseteq DOMAIN book

StartReplay ==
    /\ phase = "starting" /\ phase' = "scanning"
    /\ \E c \in Configs, book \in Books, balances \in PoolBalances :
         /\ ResolveWindows(c) # <<>> /\ DecimalsHold(book) /\ PairsPrepared(book)
         /\ windows' = ResolveWindows(c)
         /\ blocks' = SampleBlockList(ResolveWindows(c)[1])
         /\ curveLiquid' = CurveIsLiquid(balances)
    /\ csv' = <<>>
    /\ UNCHANGED <<samples, ethCalls, firstCsv, summaries, overall>>

(* What else ends run there: it is not allowed or sends are not forbidden, *)
(* no block, no window, wrong decimals, no answer of Curve, a token without*)
(* an address or a price.                                                  *)
ReplayFails ==
    /\ phase = "starting" /\ phase' = "failed"
    /\ UNCHANGED <<windows, curveLiquid, blocks, samples, ethCalls, firstCsv, csv, summaries, overall>>

(* A row, and what a quoted block puts into it.                            *)
BlockRow(block) == [block |-> block, same |-> {}, cross |-> {}, quoteOnly |-> FALSE,
               simulated |-> FALSE, ok |-> FALSE, archive |-> FALSE, reason |-> FALSE]
Edge(rates) == \E r \in rates : r > 0
Quoted(block, same, cross) ==
    [BlockRow(block) EXCEPT !.same = {o.rate : o \in same}, !.cross = cross, !.quoteOnly = (cross # {})]

(* The simulation of the same-model route; the row may show the other one. *)
CallSpeaks(row, ok) == [row EXCEPT !.simulated = TRUE, !.ok = ok, !.reason = ~ok]
Simulated(row, ok) == [CallSpeaks(row, ok) EXCEPT !.quoteOnly = FALSE]

ShouldCall(row, same) ==
    Edge(row.same) /\ ethCalls < MaxEthCalls /\ \A o \in same : o.executable

(* Without a call: an edge with a leg of Curve is marked as quoted only.   *)
NotCalled(row, same) ==
    IF Edge(row.cross) /\ (row.quoteOnly \/ same = {})
    THEN [row EXCEPT !.quoteOnly = TRUE, !.reason = TRUE] ELSE row

Push(row, calls) ==
    /\ samples' = Append(samples, row) /\ blocks' = Tail(blocks) /\ ethCalls' = ethCalls + calls
    /\ csv' \in {csv, csv \o (IF firstCsv THEN <<"header", "row">> ELSE <<"row">>)}
    /\ firstCsv' = FALSE
    /\ UNCHANGED <<phase, windows, curveLiquid, summaries, overall>>

Scanning == phase = "scanning" /\ blocks # <<>>

QuotesFail ==
    /\ Scanning
    /\ \E archive \in BOOLEAN :
         Push([BlockRow(Head(blocks)) EXCEPT !.archive = archive, !.reason = ~archive], 0)

ScanBlock ==
    /\ Scanning
    /\ \E index \in UNION {QuotesAnswered(q) : q \in Quotes}, same \in SameModel :
         LET row == Quoted(Head(blocks), same, BestCross(index)) IN
         IF same # {} /\ ShouldCall(row, same)
         THEN \/ \E ok \in BOOLEAN : Push(Simulated(row, ok), 1)
              \/ Push([row EXCEPT !.archive = TRUE], 0)
              \/ Push([row EXCEPT !.reason = TRUE], 0)
         ELSE Push(NotCalled(row, same), 0)

(* from_samples, with the groups of the two models.                        *)
HowMany(rows, P(_)) == Quantify(DOMAIN rows, LAMBDA i : P(rows[i]))
Simulations(rows) == HowMany(rows, LAMBDA s : s.simulated)
SummaryOf(rows, w, full) ==
    [n |-> Len(rows), from |-> w[1], to |-> w[2], range |-> w[2] - w[1] + 1, full |-> full,
     calls |-> Simulations(rows), oks |-> HowMany(rows, LAMBDA s : s.ok),
     reverts |-> HowMany(rows, LAMBDA s : s.simulated /\ ~s.ok),
     archived |-> HowMany(rows, LAMBDA s : s.archive),
     sameCalls |-> HowMany(rows, LAMBDA s : s.simulated /\ ~s.quoteOnly),
     sameEdges |-> HowMany(rows, LAMBDA s : Edge(s.same)),
     crossEdges |-> HowMany(rows, LAMBDA s : Edge(s.cross)),
     quoteOnlyEdges |-> HowMany(rows, LAMBDA s : Edge(s.cross) /\ s.quoteOnly),
     rows |-> rows]

SumOver(counts) == FoldFunction(+, 0, counts)
(* Of several windows, the summary of all their rows.                      *)
Aggregate(sums) ==
    LET all == FlattenSeq([i \in DOMAIN sums |-> sums[i].rows])
        span == <<Min({sums[i].from : i \in DOMAIN sums}), Max({sums[i].to : i \in DOMAIN sums})>>
    IN  [SummaryOf(all, span, \A i \in DOMAIN sums : sums[i].full)
           EXCEPT !.range = SumOver([i \in DOMAIN sums |-> sums[i].range])]

EndWindow ==
    /\ phase = "scanning" /\ blocks = <<>>
    /\ LET w == windows[1] IN
       summaries' = Append(summaries, SummaryOf(samples, w, Step <= 1 /\ Len(samples) = w[2] - w[1] + 1))
    /\ samples' = <<>> /\ windows' = Tail(windows)
    /\ IF Len(windows) > 1
       THEN blocks' = SampleBlockList(windows[2]) /\ UNCHANGED <<phase, overall>>
       ELSE /\ phase' = "ended" /\ UNCHANGED blocks
            /\ overall' = IF Len(summaries') = 1 THEN summaries' ELSE <<Aggregate(summaries')>>
    /\ UNCHANGED <<curveLiquid, ethCalls, firstCsv, csv>>

ReplayNext == StartReplay \/ ReplayFails \/ QuotesFail \/ ScanBlock \/ EndWindow

ReplaySpec == ReplayInit /\ [][ReplayNext]_replayVars

-------------------------------------------------------------------------------
(* Properties *)

(* The summaries account for every block and every simulation whatever     *)
(* failed on the way: one row for each block of a window in its order, each*)
(* call under the limit that the windows share in exactly one summary, in  *)
(* its same-model group, and as a success or as a revert; an archive error *)
(* is neither; and with a step of one every summary, that of all windows   *)
(* too, is of every block of its range (scan_window, run,                  *)
(* ReplayScanSummary::from_samples).                                       *)
Complete(s) == (s.full <=> Step <= 1) /\ (s.full => s.n = s.range)
ReplayAddsUp ==
    /\ ethCalls <= MaxEthCalls
    /\ ethCalls = SumOver([i \in DOMAIN summaries |-> summaries[i].calls]) + Simulations(samples)
    /\ \A i \in DOMAIN summaries :
         LET s == summaries[i] IN
         /\ [j \in DOMAIN s.rows |-> s.rows[j].block] = SampleBlockList(<<s.from, s.to>>)
         /\ s.sameCalls = s.calls /\ s.calls = s.oks + s.reverts /\ s.calls + s.archived <= s.n
         /\ Complete(s)
    /\ \A i \in DOMAIN overall : overall[i].calls = ethCalls /\ Complete(overall[i])
=============================================================================
