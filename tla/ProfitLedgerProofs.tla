-------------------------- MODULE ProfitLedgerProofs --------------------------
(***************************************************************************)
(* Theorems about the profit ledger, for every set of hashes, profits and  *)
(* blocks and every number of confirmations and every threshold: first     *)
(* whatever calls it receives, then as the executor drives it.             *)
(***************************************************************************)
EXTENDS MCProfitLedger, SumTheorems

LEMMA DepthType ==
  ASSUME NEW b \in Nat, NEW inclusionBlock \in Nat
  PROVE  Depth(b, inclusionBlock) \in Nat
BY DEF Depth

LEMMA PromotedStateType ==
  ASSUME NEW entry, NEW b
  PROVE  PromotedState(entry, b) \in {"Included", "Confirmed", "Final"}
BY DEF PromotedState

(* The breaker, looking at a trade that became final, counts a realized    *)
(* loss, and nothing else.                                                 *)
LEMMA CountFinalCases ==
  ASSUME NEW entry \in Entry, CountFinal(entry), consecutiveFinalLosses \in Nat,
         breakerTripped \in BOOLEAN
  PROVE  /\ consecutiveFinalLosses' \in Nat
         /\ breakerTripped' \in BOOLEAN
         /\ \/ UNCHANGED <<consecutiveFinalLosses, breakerTripped>>
            \/ consecutiveFinalLosses' = 0 /\ UNCHANGED breakerTripped
            \/ /\ entry.source = "Realized" /\ entry.profit < 0
               /\ consecutiveFinalLosses' = consecutiveFinalLosses + 1
               /\ breakerTripped' = (breakerTripped \/ consecutiveFinalLosses' >= Threshold)
<1>1. CASE entry.source = "Estimated"
  BY <1>1 DEF CountFinal
<1>2. CASE entry.source # "Estimated" /\ entry.profit < 0
  <2>1. /\ consecutiveFinalLosses' = consecutiveFinalLosses + 1
        /\ breakerTripped' = (breakerTripped \/ consecutiveFinalLosses' >= Threshold)
    BY <1>2 DEF CountFinal
  <2>2. breakerTripped' \in BOOLEAN
    BY <2>1, Zenon
  <2>3. entry.source = "Realized"
    BY <1>2 DEF Entry, Source
  <2>4. consecutiveFinalLosses' \in Nat
    BY <2>1
  <2> QED
    BY <1>2, <2>1, <2>2, <2>3, <2>4
<1>3. CASE entry.source # "Estimated" /\ ~(entry.profit < 0)
  BY <1>3 DEF CountFinal
<1> QED
  BY <1>1, <1>2, <1>3

(* Each call keeps the invariant.                                          *)
LEMMA RecordKeeps ==
  ASSUME LedgerInv, NEW h \in Hash, NEW b \in Blocks, NEW profit \in Profits,
         NEW source \in Source, RecordIncluded(h, b, profit, source)
  PROVE  LedgerInv'
<1> USE DEF LedgerInv, LedgerTypeOK
<1>1. b \in Nat /\ profit \in Int
  BY BlocksAssumption, ProfitsAssumption
<1>2. trades' \in [Hash -> Entry]
  BY <1>1 DEF RecordIncluded, Entry
<1>3. Booked(h, ProvisoryTrades) \in Int /\ Booked(h, FinalTrades) \in Int
  BY DEF Booked, Entry
<1>4. provisoryProfit' \in Int /\ finalProfit' \in Int
  BY <1>1, <1>3 DEF RecordIncluded
<1>5. toPromote' = {}
  BY DEF RecordIncluded, MutexFree
<1> QED
  BY <1>2, <1>4, <1>5 DEF RecordIncluded, WalkIsOfTrades

LEMMA PromoteBeginKeeps ==
  ASSUME LedgerInv, NEW b \in Blocks, PromoteBegin(b)
  PROVE  LedgerInv'
BY BlocksAssumption DEF LedgerInv, LedgerTypeOK, PromoteBegin, Recorded, WalkIsOfTrades

LEMMA PromoteTradeKeeps ==
  ASSUME LedgerInv, NEW h \in Hash, PromoteTrade(h)
  PROVE  LedgerInv'
<1> USE DEF LedgerInv, LedgerTypeOK
<1> DEFINE state == PromotedState(trades[h], promoteBlock)
<1>1. trades[h] \in Entry /\ trades[h].profit \in Int
  BY DEF Entry
<1>2. trades' \in [Hash -> Entry]
  BY <1>1, PromotedStateType DEF PromoteTrade, Entry
<1>3. WalkIsOfTrades'
  <2>1. trades' = [trades EXCEPT ![h].state = state] /\ state # "Absent"
    BY PromotedStateType DEF PromoteTrade
  <2> HIDE DEF state
  <2>2. Recorded \subseteq Recorded'
    BY <2>1 DEF Recorded, Entry
  <2> QED
    BY <2>2 DEF PromoteTrade, WalkIsOfTrades
<1>4. CASE state = "Final" /\ trades[h].state # "Final"
  <2>1. provisoryProfit' \in Int /\ finalProfit' \in Int
    BY <1>1, <1>4 DEF PromoteTrade, BecomesFinal
  <2>2. consecutiveFinalLosses' \in Nat /\ breakerTripped' \in BOOLEAN
    BY <1>1, <1>4, CountFinalCases DEF PromoteTrade, BecomesFinal
  <2> QED
    BY <1>2, <1>3, <2>1, <2>2 DEF PromoteTrade, BecomesFinal
<1>5. CASE ~(state = "Final" /\ trades[h].state # "Final")
  BY <1>2, <1>3, <1>5 DEF PromoteTrade, BecomesFinal
<1> QED
  BY <1>4, <1>5

LEMMA RevertKeeps ==
  ASSUME LedgerInv, NEW h \in Hash, Revert(h)
  PROVE  LedgerInv'
BY DEF LedgerInv, LedgerTypeOK, Revert, NoTrade, Entry, Source, MutexFree, WalkIsOfTrades

LEMMA LedgerInitHolds == LedgerInit => LedgerInv
<1>1. NoTrade \in Entry
  BY DEF NoTrade, Entry, Source
<1>2. LedgerInit => trades \in [Hash -> Entry]
  BY <1>1 DEF LedgerInit
<1>3. LedgerInit => WalkIsOfTrades
  BY DEF LedgerInit, WalkIsOfTrades
<1>4. LedgerInit => breakerTripped \in BOOLEAN
  BY DEF LedgerInit
<1> QED
  BY <1>2, <1>3, <1>4 DEF LedgerInit, LedgerInv, LedgerTypeOK

(* The inductive invariant: the ledger keeps its shape and a promotion     *)
(* walks only trades that are in the map.  The second part is what makes a *)
(* trade that becomes final one that was provisory.                        *)
THEOREM LedgerInvariant == LedgerSpec => []LedgerInv
<1>1. LedgerInv /\ [LedgerNext]_ledgerVars => LedgerInv'
  <2>1. LedgerInv /\ UNCHANGED ledgerVars => LedgerInv'
    BY DEF ledgerVars, LedgerInv, LedgerTypeOK, WalkIsOfTrades, Recorded
  <2> QED
    BY <2>1, RecordKeeps, PromoteBeginKeeps, PromoteTradeKeeps, RevertKeeps DEF LedgerNext
<1> QED
  BY <1>1, LedgerInitHolds, PTL DEF LedgerSpec

(* The ledger keeps its shape.                                             *)
THEOREM LedgerType == LedgerSpec => []LedgerTypeOK
BY LedgerInvariant, PTL DEF LedgerInv

(* Only a provisory trade with a realized loss that becomes final lengthens*)
(* the run of losses, and only such a step, at the threshold, trips the    *)
(* loss breaker: estimates and provisory losses never do.                  *)
THEOREM BreakerSound == LedgerSpec => BreakerCountsRealizedFinalLosses
<1> DEFINE Sound ==
      /\ consecutiveFinalLosses' > consecutiveFinalLosses =>
           /\ consecutiveFinalLosses' = consecutiveFinalLosses + 1
           /\ \E h \in ProvisoryTrades : h \in FinalTrades' /\ RealizedLoss(h)
      /\ breakerTripped' # breakerTripped =>
           /\ breakerTripped'
           /\ consecutiveFinalLosses' >= Threshold
           /\ consecutiveFinalLosses' > consecutiveFinalLosses
<1>1. LedgerInv /\ [LedgerNext]_ledgerVars => [Sound]_ledgerVars
  <2> SUFFICES ASSUME LedgerInv, LedgerNext
               PROVE  Sound
    BY DEF ledgerVars
  <2> USE DEF LedgerInv, LedgerTypeOK
  <2>1. CASE UNCHANGED <<consecutiveFinalLosses, breakerTripped>>
    BY <2>1
  <2>2. CASE consecutiveFinalLosses' = 0 /\ UNCHANGED breakerTripped
    BY <2>2
  <2>3. ASSUME NEW h \in Hash, PromoteTrade(h),
               ~UNCHANGED <<consecutiveFinalLosses, breakerTripped>>,
               ~(consecutiveFinalLosses' = 0 /\ UNCHANGED breakerTripped)
        PROVE  Sound
    <3>1. /\ trades[h].state # "Final"
          /\ trades' = [trades EXCEPT ![h].state = "Final"]
          /\ CountFinal(trades[h])
      BY <2>3 DEF PromoteTrade, BecomesFinal
    <3>2. /\ trades[h].source = "Realized" /\ trades[h].profit < 0
          /\ consecutiveFinalLosses' = consecutiveFinalLosses + 1
          /\ breakerTripped' = (breakerTripped \/ consecutiveFinalLosses' >= Threshold)
      BY <2>3, <3>1, CountFinalCases
    <3>3. RealizedLoss(h)
      BY <3>2 DEF RealizedLoss
    <3>4. h \in FinalTrades'
      BY <3>1 DEF FinalTrades
    <3>5. h \in ProvisoryTrades
      BY <2>3, <3>1 DEF PromoteTrade, BecomesFinal, WalkIsOfTrades, Recorded, ProvisoryTrades, Entry
    <3>6. breakerTripped' # breakerTripped => breakerTripped' /\ consecutiveFinalLosses' >= Threshold
      BY <3>2, Zenon
    <3> QED
      BY <3>2, <3>3, <3>4, <3>5, <3>6
  <2> QED
    BY <2>1, <2>2, <2>3 DEF LedgerNext, RecordIncluded, PromoteBegin, Revert
<1> QED
  BY <1>1, LedgerInvariant, PTL DEF LedgerSpec, BreakerCountsRealizedFinalLosses

(* Nothing but a new record of the same hash takes a final trade back.     *)
THEOREM FinalityHolds == LedgerSpec => FinalIsIrrevocable
<1> DEFINE Kept ==
      \A h \in FinalTrades :
        \/ trades'[h] = trades[h]
        \/ MutexFree /\ trades'[h].state = "Included"
<1>1. LedgerInv /\ [LedgerNext]_ledgerVars => [Kept]_ledgerVars
  <2> SUFFICES ASSUME LedgerInv, LedgerNext, NEW h \in FinalTrades
               PROVE  \/ trades'[h] = trades[h]
                      \/ MutexFree /\ trades'[h].state = "Included"
    BY DEF ledgerVars
  <2> USE DEF LedgerInv, LedgerTypeOK
  <2>0. h \in Hash /\ trades[h].state = "Final"
    BY DEF FinalTrades
  <2>1. ASSUME NEW k \in Hash, NEW b \in Blocks, NEW profit \in Profits,
               NEW source \in Source, RecordIncluded(k, b, profit, source)
        PROVE  \/ trades'[h] = trades[h]
               \/ MutexFree /\ trades'[h].state = "Included"
    BY <2>0, <2>1 DEF RecordIncluded
  <2>2. ASSUME NEW k \in Hash, PromoteTrade(k)
        PROVE  trades'[h] = trades[h]
    <3>1. trades' = [trades EXCEPT ![k].state = PromotedState(trades[k], promoteBlock)]
      BY <2>2 DEF PromoteTrade
    <3>2. k = h => PromotedState(trades[k], promoteBlock) = "Final"
      BY <2>0 DEF PromotedState
    <3> QED
      BY <2>0, <3>1, <3>2 DEF Entry
  <2>3. ASSUME NEW k \in Hash, Revert(k)
        PROVE  trades'[h] = trades[h]
    BY <2>0, <2>3 DEF Revert, ProvisoryTrades
  <2> QED
    BY <2>0, <2>1, <2>2, <2>3 DEF LedgerNext, PromoteBegin
<1> QED
  BY <1>1, LedgerInvariant, PTL DEF LedgerSpec, FinalIsIrrevocable

-------------------------------------------------------------------------------
(* The books: the totals are sums over the trades of each side.            *)

ProfitIn(t, S) == SumOf([h \in S |-> t[h].profit], S)

ByTrade(t, S) ==
  CHOOSE g : g = [s \in SUBSET S |-> IF s = {} THEN 0
                    ELSE LET x == CHOOSE x \in s : TRUE IN t[x].profit + g[s \ {x}]]

LEMMA ByTradeIsProfitIn ==
  ASSUME NEW t, NEW S
  PROVE  ByTrade(t, S)[S] = ProfitIn(t, S)
<1> DEFINE f == [h \in S |-> t[h].profit]
           Step(g) == [s \in SUBSET S |-> IF s = {} THEN 0
                         ELSE LET x == CHOOSE x \in s : TRUE IN t[x].profit + g[s \ {x}]]
           SumStep(g) == [s \in SUBSET S |-> IF s = {} THEN 0
                            ELSE LET x == CHOOSE x \in s : TRUE IN f[x] + g[s \ {x}]]
<1>1. ASSUME NEW g PROVE Step(g) = SumStep(g)
  <2>1. ASSUME NEW s \in SUBSET S, s # {}
        PROVE  (CHOOSE x \in s : TRUE) \in S
    BY <2>1
  <2> QED BY <2>1
<1>2. ProfitIn(t, S) = (CHOOSE g : g = SumStep(g))[S]
  BY DEF ProfitIn, SumOf
<1>3. ByTrade(t, S) = CHOOSE g : g = Step(g)
  BY DEF ByTrade
<1> HIDE DEF Step, SumStep
<1>4. (CHOOSE g : g = Step(g)) = (CHOOSE g : g = SumStep(g))
  BY <1>1
<1> QED BY <1>2, <1>3, <1>4

LEMMA BooksAreSums ==
  BooksBalance <=> /\ provisoryProfit = ProfitIn(trades, ProvisoryTrades)
                   /\ finalProfit = ProfitIn(trades, FinalTrades)
<1>1. BooksBalance <=> /\ provisoryProfit = ByTrade(trades, ProvisoryTrades)[ProvisoryTrades]
                       /\ finalProfit = ByTrade(trades, FinalTrades)[FinalTrades]
  BY DEF BooksBalance, MapThenSumSet, MapThenFoldSet, ByTrade
<1> QED BY <1>1, ByTradeIsProfitIn

LEMMA BooksAreSumsNext ==
  BooksBalance' <=> /\ provisoryProfit' = ProfitIn(trades', ProvisoryTrades')
                    /\ finalProfit' = ProfitIn(trades', FinalTrades')
<1>1. BooksBalance' <=> /\ provisoryProfit' = ByTrade(trades', ProvisoryTrades')[ProvisoryTrades']
                        /\ finalProfit' = ByTrade(trades', FinalTrades')[FinalTrades']
  BY DEF BooksBalance, MapThenSumSet, MapThenFoldSet, ByTrade
<1> QED BY <1>1, ByTradeIsProfitIn

LEMMA ProfitInType ==
  ASSUME NEW t, NEW S, IsFiniteSet(S), \A h \in S : t[h].profit \in Int
  PROVE  ProfitIn(t, S) \in Int
<1> DEFINE f == [h \in S |-> t[h].profit]
<1>1. \A h \in S : f[h] \in Int
  OBVIOUS
<1>2. ProfitIn(t, S) = SumOf(f, S)
  BY DEF ProfitIn
<1> HIDE DEF f
<1> QED BY <1>1, <1>2, SumType

(* A trade joins one side, or leaves it; the others keep their profit.     *)
LEMMA ProfitWith ==
  ASSUME NEW t, NEW u, NEW S, IsFiniteSet(S), \A h \in S : t[h].profit \in Int,
         \A h \in S : u[h].profit = t[h].profit, NEW x, x \notin S, u[x].profit \in Int
  PROVE  ProfitIn(u, S \cup {x}) = ProfitIn(t, S) + u[x].profit
<1> DEFINE f == [h \in S |-> t[h].profit]
           g == [h \in S \cup {x} |-> u[h].profit]
<1>1. ProfitIn(t, S) = SumOf(f, S) /\ ProfitIn(u, S \cup {x}) = SumOf(g, S \cup {x})
  BY DEF ProfitIn
<1>2. /\ \A h \in S : f[h] \in Int /\ g[h] = f[h] /\ g[h] \in Int
      /\ g[x] = u[x].profit /\ g[x] \in Int
  OBVIOUS
<1> HIDE DEF f, g
<1>3. SumOf(g, S \cup {x}) = g[x] + SumOf(g, S)
  BY <1>2, SumWith
<1>4. SumOf(g, S) = SumOf(f, S) /\ SumOf(f, S) \in Int
  BY <1>2, SumSame, SumType
<1> QED BY <1>1, <1>2, <1>3, <1>4

LEMMA ProfitWithout ==
  ASSUME NEW t, NEW u, NEW S, IsFiniteSet(S), \A h \in S : t[h].profit \in Int, NEW x \in S,
         \A h \in S \ {x} : u[h].profit = t[h].profit
  PROVE  ProfitIn(u, S \ {x}) = ProfitIn(t, S) - t[x].profit
<1>1. PICK R : R = S \ {x}
  OBVIOUS
<1>2. IsFiniteSet(R) /\ R \cup {x} = S /\ x \notin R
  BY <1>1, FS_RemoveElement
<1>3. t[x].profit \in Int /\ \A h \in R : u[h].profit \in Int /\ t[h].profit = u[h].profit
  BY <1>1
<1>4. ProfitIn(t, R \cup {x}) = ProfitIn(u, R) + t[x].profit
  BY <1>2, <1>3, ProfitWith
<1>5. ProfitIn(u, R) \in Int
  BY <1>2, <1>3, ProfitInType
<1>6. ProfitIn(t, S) = ProfitIn(u, R) + t[x].profit
  BY <1>2, <1>4
<1> QED BY <1>1, <1>3, <1>5, <1>6

LEMMA ProfitSame ==
  ASSUME NEW t, NEW u, NEW S, IsFiniteSet(S), \A h \in S : t[h].profit \in Int,
         \A h \in S : u[h].profit = t[h].profit
  PROVE  ProfitIn(u, S) = ProfitIn(t, S)
<1> DEFINE f == [h \in S |-> t[h].profit]
           g == [h \in S |-> u[h].profit]
<1>1. f = g
  OBVIOUS
<1> QED BY <1>1 DEF ProfitIn

(* What a hash was booked for is its share of the side it is on.           *)
LEMMA BooksRecord ==
  ASSUME LedgerInv, BooksBalance, NEW h \in Hash, NEW b \in Blocks, NEW profit \in Profits,
         NEW source \in Source, RecordIncluded(h, b, profit, source)
  PROVE  BooksBalance'
<1>0. /\ provisoryProfit = ProfitIn(trades, ProvisoryTrades)
      /\ finalProfit = ProfitIn(trades, FinalTrades)
  BY BooksAreSums
<1>1. /\ trades \in [Hash -> Entry] /\ \A k \in Hash : trades[k].profit \in Int
      /\ IsFiniteSet(ProvisoryTrades) /\ IsFiniteSet(FinalTrades)
      /\ ProvisoryTrades \subseteq Hash /\ FinalTrades \subseteq Hash /\ profit \in Int
  BY HashAssumption, ProfitsAssumption, FS_Subset DEF LedgerInv, LedgerTypeOK, Entry, ProvisoryTrades, FinalTrades
<1>2. /\ \A k \in Hash : k # h => trades'[k] = trades[k]
      /\ trades'[h].state = "Included" /\ trades'[h].profit = profit
  BY <1>1 DEF RecordIncluded
<1>3. /\ ProvisoryTrades' = (ProvisoryTrades \ {h}) \cup {h}
      /\ FinalTrades' = FinalTrades \ {h}
  BY <1>2 DEF ProvisoryTrades, FinalTrades
<1>4. /\ provisoryProfit' = provisoryProfit - Booked(h, ProvisoryTrades) + profit
      /\ finalProfit' = finalProfit - Booked(h, FinalTrades)
  BY DEF RecordIncluded
<1>5. ASSUME NEW S \in SUBSET Hash, IsFiniteSet(S)
      PROVE  /\ ProfitIn(trades', S \ {h}) = ProfitIn(trades, S) - Booked(h, S)
             /\ ProfitIn(trades', S \ {h}) \in Int /\ IsFiniteSet(S \ {h})
  <2>1. CASE h \in S
    <3>1. \A k \in S \ {h} : trades'[k].profit = trades[k].profit
      BY <1>2
    <3>2. ProfitIn(trades', S \ {h}) = ProfitIn(trades, S) - trades[h].profit
      BY <1>1, <1>5, <2>1, <3>1, ProfitWithout
    <3>3. ProfitIn(trades, S) \in Int
      BY <1>1, <1>5, ProfitInType
    <3>4. IsFiniteSet(S \ {h})
      BY <1>5, FS_Subset
    <3> QED BY <1>1, <2>1, <3>2, <3>3, <3>4 DEF Booked
  <2>2. CASE h \notin S
    <3>1. S \ {h} = S /\ \A k \in S : trades'[k].profit = trades[k].profit
      BY <1>2, <2>2
    <3>2. ProfitIn(trades', S) = ProfitIn(trades, S) /\ ProfitIn(trades, S) \in Int
      BY <1>1, <1>5, <3>1, ProfitSame, ProfitInType
    <3>3. ProfitIn(trades', S \ {h}) = ProfitIn(trades, S) /\ IsFiniteSet(S \ {h})
      BY <1>5, <3>1, <3>2
    <3> QED BY <2>2, <3>2, <3>3 DEF Booked
  <2> QED BY <2>1, <2>2
<1>6. finalProfit' = ProfitIn(trades', FinalTrades')
  BY <1>0, <1>1, <1>3, <1>4, <1>5
<1>7. provisoryProfit' = ProfitIn(trades', ProvisoryTrades')
  <2>0. PICK rest : rest = ProvisoryTrades \ {h}
    OBVIOUS
  <2>1. /\ IsFiniteSet(rest) /\ \A k \in rest : trades'[k].profit \in Int
        /\ ProfitIn(trades', rest) = provisoryProfit - Booked(h, ProvisoryTrades)
        /\ ProfitIn(trades', rest) \in Int
    <3>1. \A k \in rest : trades'[k].profit \in Int
      BY <1>1, <1>2, <2>0
    <3>2. /\ ProfitIn(trades', ProvisoryTrades \ {h}) = provisoryProfit - Booked(h, ProvisoryTrades)
          /\ ProfitIn(trades', ProvisoryTrades \ {h}) \in Int /\ IsFiniteSet(ProvisoryTrades \ {h})
      BY <1>0, <1>1, <1>5
    <3> QED BY <2>0, <3>1, <3>2
  <2>2. ProfitIn(trades', rest \cup {h}) = ProfitIn(trades', rest) + trades'[h].profit
    <3>1. h \notin rest /\ trades'[h].profit \in Int
      BY <1>1, <1>2, <2>0
    <3>2. \A k \in rest : trades'[k].profit = trades'[k].profit
      OBVIOUS
    <3> QED BY <2>1, <3>1, <3>2, ProfitWith
  <2>3. ProvisoryTrades' = rest \cup {h}
    BY <1>3, <2>0
  <2>4. ProfitIn(trades', ProvisoryTrades') = ProfitIn(trades', rest) + profit
    BY <1>2, <2>2, <2>3
  <2> QED BY <1>4, <2>1, <2>4
<1> QED BY <1>6, <1>7, BooksAreSumsNext

LEMMA BooksPromote ==
  ASSUME LedgerInv, BooksBalance, NEW h \in Hash, PromoteTrade(h)
  PROVE  BooksBalance'
<1>0. /\ provisoryProfit = ProfitIn(trades, ProvisoryTrades)
      /\ finalProfit = ProfitIn(trades, FinalTrades)
  BY BooksAreSums
<1> DEFINE state == PromotedState(trades[h], promoteBlock)
<1>1. /\ trades \in [Hash -> Entry] /\ \A k \in Hash : trades[k].profit \in Int
      /\ IsFiniteSet(ProvisoryTrades) /\ IsFiniteSet(FinalTrades)
      /\ ProvisoryTrades \subseteq Hash /\ FinalTrades \subseteq Hash
  BY HashAssumption, FS_Subset DEF LedgerInv, LedgerTypeOK, Entry, ProvisoryTrades, FinalTrades
<1>2. /\ trades' = [trades EXCEPT ![h].state = state]
      /\ state \in {"Included", "Confirmed", "Final"}
      /\ trades[h].state = "Final" => state = "Final"
  BY PromotedStateType DEF PromoteTrade, PromotedState
<1>3. trades[h].state \in {"Included", "Confirmed", "Final"}
  BY <1>1 DEF PromoteTrade, LedgerInv, WalkIsOfTrades, Recorded, Entry
<1>4. /\ \A k \in Hash : trades'[k].profit = trades[k].profit
      /\ \A k \in Hash \ {h} : trades'[k].state = trades[k].state
      /\ trades'[h].state = state
  <2> HIDE DEF state
  <2> QED BY <1>1, <1>2 DEF Entry
<1>5. CASE BecomesFinal(trades[h], state)
  <2>1. /\ provisoryProfit' = provisoryProfit - trades[h].profit
        /\ finalProfit' = finalProfit + trades[h].profit
    BY <1>5 DEF PromoteTrade
  <2>2. /\ h \in ProvisoryTrades /\ h \notin FinalTrades
        /\ ProvisoryTrades' = ProvisoryTrades \ {h} /\ FinalTrades' = FinalTrades \cup {h}
    <3> HIDE DEF state
    <3> QED BY <1>1, <1>3, <1>4, <1>5 DEF BecomesFinal, ProvisoryTrades, FinalTrades
  <2>3. ProfitIn(trades', ProvisoryTrades') = ProfitIn(trades, ProvisoryTrades) - trades[h].profit
    BY <1>1, <1>4, <2>2, ProfitWithout
  <2>4. ProfitIn(trades', FinalTrades') = ProfitIn(trades, FinalTrades) + trades'[h].profit
    BY <1>1, <1>4, <2>2, ProfitWith
  <2> QED BY <1>0, <1>4, <2>1, <2>3, <2>4, BooksAreSumsNext
<1>6. CASE ~BecomesFinal(trades[h], state)
  <2>1. UNCHANGED <<provisoryProfit, finalProfit>>
    BY <1>6 DEF PromoteTrade
  <2>2. ProvisoryTrades' = ProvisoryTrades /\ FinalTrades' = FinalTrades
    <3> HIDE DEF state
    <3> QED BY <1>1, <1>2, <1>3, <1>4, <1>6 DEF BecomesFinal, ProvisoryTrades, FinalTrades
  <2>3. /\ ProfitIn(trades', ProvisoryTrades) = ProfitIn(trades, ProvisoryTrades)
        /\ ProfitIn(trades', FinalTrades) = ProfitIn(trades, FinalTrades)
    BY <1>1, <1>4, ProfitSame
  <2> QED BY <1>0, <2>1, <2>2, <2>3, BooksAreSumsNext
<1> QED BY <1>5, <1>6

LEMMA BooksRevert ==
  ASSUME LedgerInv, BooksBalance, NEW h \in Hash, Revert(h)
  PROVE  BooksBalance'
<1>0. /\ provisoryProfit = ProfitIn(trades, ProvisoryTrades)
      /\ finalProfit = ProfitIn(trades, FinalTrades)
  BY BooksAreSums
<1>1. /\ trades \in [Hash -> Entry] /\ \A k \in Hash : trades[k].profit \in Int
      /\ IsFiniteSet(ProvisoryTrades) /\ IsFiniteSet(FinalTrades)
      /\ ProvisoryTrades \subseteq Hash /\ FinalTrades \subseteq Hash
  BY HashAssumption, FS_Subset DEF LedgerInv, LedgerTypeOK, Entry, ProvisoryTrades, FinalTrades
<1>2. /\ \A k \in Hash : k # h => trades'[k] = trades[k]
      /\ trades'[h].state = "Absent" /\ h \in ProvisoryTrades /\ h \notin FinalTrades
      /\ provisoryProfit' = provisoryProfit - trades[h].profit /\ UNCHANGED finalProfit
  BY <1>1 DEF Revert, NoTrade, ProvisoryTrades, FinalTrades
<1>3. ProvisoryTrades' = ProvisoryTrades \ {h} /\ FinalTrades' = FinalTrades
  BY <1>2 DEF ProvisoryTrades, FinalTrades
<1>4. ProfitIn(trades', ProvisoryTrades') = ProfitIn(trades, ProvisoryTrades) - trades[h].profit
  BY <1>1, <1>2, <1>3, ProfitWithout
<1>5. ProfitIn(trades', FinalTrades) = ProfitIn(trades, FinalTrades)
  BY <1>1, <1>2, ProfitSame
<1> QED BY <1>0, <1>2, <1>3, <1>4, <1>5, BooksAreSumsNext

(* The two running totals equal what adding up the trades of each side     *)
(* would give, whatever is recorded, recorded again, promoted in whatever  *)
(* order or reverted (record_included, promote and revert in               *)
(* src/core/profit_ledger.rs).                                             *)
THEOREM BooksAlwaysBalance == LedgerSpec => []BooksBalance
<1>1. LedgerInit => BooksBalance
  <2> SUFFICES ASSUME LedgerInit PROVE BooksBalance
    OBVIOUS
  <2>1. ProvisoryTrades = {} /\ FinalTrades = {} /\ provisoryProfit = 0 /\ finalProfit = 0
    BY DEF LedgerInit, ProvisoryTrades, FinalTrades, NoTrade
  <2>2. ProfitIn(trades, {}) = 0
    BY SumOfNone DEF ProfitIn
  <2> QED BY <2>1, <2>2, BooksAreSums
<1>2. LedgerInv /\ BooksBalance /\ [LedgerNext]_ledgerVars => BooksBalance'
  <2> SUFFICES ASSUME LedgerInv, BooksBalance, [LedgerNext]_ledgerVars
               PROVE  BooksBalance'
    OBVIOUS
  <2>1. CASE UNCHANGED ledgerVars \/ \E b \in Blocks : PromoteBegin(b)
    <3>1. UNCHANGED <<trades, provisoryProfit, finalProfit>>
      BY <2>1 DEF ledgerVars, PromoteBegin
    <3>2. ProvisoryTrades' = ProvisoryTrades /\ FinalTrades' = FinalTrades
      BY <3>1 DEF ProvisoryTrades, FinalTrades
    <3> QED BY <3>1, <3>2, BooksAreSums, BooksAreSumsNext
  <2> QED BY <2>1, BooksRecord, BooksPromote, BooksRevert DEF LedgerNext
<1> QED BY <1>1, <1>2, LedgerInvariant, PTL DEF LedgerSpec

-------------------------------------------------------------------------------
(* The ledger as send_and_confirm_transaction drives it.                   *)

(* The receipts of the chain are of blocks it has.                         *)
DrivenInv ==
  /\ TradesInv /\ WalkIsOfTrades
  /\ \A h \in Hash : block[h] <= head
  /\ FinalIsDeep /\ StreakIsBackedByLosses

LEMMA DrivenInit == Init => DrivenInv
<1> SUFFICES ASSUME Init PROVE DrivenInv
  OBVIOUS
<1>1. LedgerInv
  BY LedgerInitHolds DEF Init
<1>2. Recorded = {} /\ FinalTrades = {} /\ RealizedLosses = {}
  BY DEF Init, LedgerInit, Recorded, FinalTrades, RealizedLosses, NoTrade
<1>3. 1 \in 1 .. MaxBlock /\ 0 \in 0 .. MaxBlock
  BY BlocksToMax
<1>4. TypeOK
  BY <1>1, <1>3 DEF Init, LedgerInv, TypeOK, Stages
<1>5. LedgerFollowsExecutor
  BY <1>2 DEF Init, LedgerInit, LedgerFollowsExecutor, MutexFree
<1>6. FinalIsDeep /\ StreakIsBackedByLosses
  BY <1>2, FS_EmptySet DEF Init, LedgerInit, FinalIsDeep, StreakIsBackedByLosses
<1> QED
  BY <1>1, <1>4, <1>5, <1>6 DEF Init, LedgerInv, DrivenInv, TradesInv

(* Steps that leave the ledger alone.                                      *)
LEMMA OutsideKeeps ==
  ASSUME DrivenInv, UNCHANGED ledgerVars, TypeOK', LedgerFollowsExecutor',
         \A h \in Hash : block'[h] <= head', head' >= head
  PROVE  DrivenInv'
<1>1. UNCHANGED <<trades, provisoryProfit, finalProfit, reorgReverted,
                  consecutiveFinalLosses, breakerTripped, toPromote, promoteBlock>>
  BY DEF ledgerVars
<1>2. WalkIsOfTrades'
  BY <1>1 DEF DrivenInv, WalkIsOfTrades, Recorded
<1>3. FinalIsDeep'
  <2> SUFFICES ASSUME NEW h \in FinalTrades
               PROVE  head' >= trades[h].inclusionBlock + Confirmations
    BY <1>1 DEF FinalIsDeep, FinalTrades
  <2>1. trades[h].inclusionBlock \in Nat /\ head \in Nat /\ head' \in Nat
    BY DEF FinalTrades, DrivenInv, TradesInv, TypeOK, LedgerTypeOK, Entry
  <2>2. head >= trades[h].inclusionBlock + Confirmations
    BY DEF DrivenInv, FinalIsDeep
  <2> QED
    BY <2>1, <2>2, ConfirmationsAssumption
<1>4. StreakIsBackedByLosses'
  BY <1>1 DEF DrivenInv, StreakIsBackedByLosses, RealizedLosses, RealizedLoss, FinalTrades
<1> QED
  BY <1>2, <1>3, <1>4 DEF DrivenInv, TradesInv

LEMMA ChainKeeps ==
  ASSUME DrivenInv, MineBlock \/ Reorg
  PROVE  DrivenInv'
<1>1. head' = head + 1 /\ head < MaxBlock /\ UNCHANGED <<ledgerVars, executorVars>>
  BY DEF MineBlock, Reorg
<1>2. head \in Nat /\ head + 1 \in 1 .. MaxBlock /\ block \in [Hash -> 0 .. MaxBlock]
  BY <1>1, BlocksToMax DEF DrivenInv, TradesInv, TypeOK
<1>3. block' \in [Hash -> 0 .. head + 1]
  <2>1. CASE MineBlock
    <3>1. PICK included \in SUBSET {h \in sent : block[h] = 0} :
            block' = [h \in Hash |-> IF h \in included THEN head + 1 ELSE block[h]]
      BY <2>1 DEF MineBlock
    <3>2. \A h \in Hash : block[h] \in 0 .. head + 1
      BY <1>2 DEF DrivenInv
    <3> QED
      BY <1>2, <3>1, <3>2
  <2>2. CASE Reorg
    BY <2>2 DEF Reorg
  <2> QED
    BY <2>1, <2>2
<1>4. TypeOK'
  <2>1. block' \in [Hash -> 0 .. MaxBlock]
    <3>1. \A n \in 0 .. head + 1 : n \in 0 .. MaxBlock
      BY <1>1, <1>2, BlocksToMax
    <3> QED
      BY <1>3, <3>1
  <2>2. LedgerTypeOK'
    BY <1>1 DEF DrivenInv, TradesInv, TypeOK, LedgerTypeOK, ledgerVars
  <2> QED
    BY <1>1, <1>2, <2>1, <2>2 DEF DrivenInv, TradesInv, TypeOK, executorVars
<1>5. LedgerFollowsExecutor'
  BY <1>1, <1>2 DEF DrivenInv, TradesInv, LedgerFollowsExecutor, TypeOK, LedgerTypeOK,
     ledgerVars, executorVars, Recorded, MutexFree
<1>6. \A h \in Hash : block'[h] <= head'
  BY <1>1, <1>2, <1>3
<1>7. head' >= head
  BY <1>1, <1>2
<1> QED
  BY <1>1, <1>4, <1>5, <1>6, <1>7, OutsideKeeps

LEMMA WaitingKeeps ==
  ASSUME DrivenInv,
         \/ \E h \in Hash : Trade(h)
         \/ GiveUp \/ Abandon \/ Confirm \/ HeadUnknown \/ PromoteEnd \/ BoundReached
  PROVE  DrivenInv'
<1>1. UNCHANGED ledgerVars /\ UNCHANGED chainVars
  BY DEF Trade, GiveUp, Abandon, Confirm, HeadUnknown, PromoteEnd, BoundReached, vars
<1>2. head \in Nat /\ head' = head /\ block' = block
  BY <1>1 DEF chainVars, DrivenInv, TradesInv, TypeOK
<1>3. TypeOK'
  <2>1. LedgerTypeOK'
    BY <1>1 DEF ledgerVars, DrivenInv, TradesInv, TypeOK, LedgerTypeOK
  <2> QED
    BY <1>2, <2>1 DEF DrivenInv, TradesInv, TypeOK, Stages, Trade, GiveUp, Abandon, Confirm,
       HeadUnknown, PromoteEnd, BoundReached, vars, executorVars
<1>4. LedgerFollowsExecutor'
  <2>0. UNCHANGED <<trades, toPromote, promoteBlock>>
    BY <1>1 DEF ledgerVars
  <2> USE <1>2, <2>0 DEF DrivenInv, TradesInv, LedgerFollowsExecutor, Recorded, MutexFree
  <2>1. CASE \E h \in Hash : Trade(h)
    BY <2>1 DEF Trade
  <2>2. CASE GiveUp \/ Abandon
    BY <2>2 DEF GiveUp, Abandon
  <2>3. CASE Confirm
    BY <2>3 DEF Confirm, TypeOK
  <2>4. CASE HeadUnknown
    BY <2>4 DEF HeadUnknown
  <2>5. CASE PromoteEnd
    BY <2>5 DEF PromoteEnd
  <2>6. CASE BoundReached
    BY <2>6 DEF BoundReached, vars, executorVars
  <2> QED
    BY <2>1, <2>2, <2>3, <2>4, <2>5, <2>6
<1>5. \A h \in Hash : block'[h] <= head'
  BY <1>2 DEF DrivenInv
<1> QED
  BY <1>1, <1>2, <1>3, <1>4, <1>5, OutsideKeeps

LEMMA PromoteAtHeadKeeps ==
  ASSUME DrivenInv, PromoteAtHead
  PROVE  DrivenInv'
<1>1. /\ UNCHANGED <<trades, provisoryProfit, finalProfit, reorgReverted, consecutiveFinalLosses,
                     breakerTripped, head, block, sent, current, receipt>>
      /\ stage = "readHead" /\ stage' = "promote" /\ promoteBlock' = head
      /\ PromoteBegin(head)
  BY DEF PromoteAtHead, PromoteBegin, chainVars
<1>2. head \in Nat /\ head \in Blocks
  BY BlocksToMax DEF DrivenInv, TradesInv, TypeOK
<1>3. LedgerInv'
  BY <1>1, <1>2, PromoteBeginKeeps DEF DrivenInv, TradesInv, TypeOK, LedgerInv
<1>4. TypeOK'
  BY <1>1, <1>3 DEF DrivenInv, TradesInv, TypeOK, Stages, LedgerInv
<1>5. LedgerFollowsExecutor'
  BY <1>1, <1>2 DEF DrivenInv, TradesInv, LedgerFollowsExecutor, Recorded
<1>6. FinalIsDeep' /\ StreakIsBackedByLosses'
  BY <1>1 DEF DrivenInv, FinalIsDeep, StreakIsBackedByLosses, RealizedLosses, RealizedLoss, FinalTrades
<1> QED
  BY <1>1, <1>3, <1>4, <1>5, <1>6 DEF DrivenInv, TradesInv, LedgerInv

LEMMA SourceOfType == ASSUME NEW h \in Hash PROVE SourceOf[h] \in Source
  BY DEF SourceOf, Source

LEMMA RecordTradeKeeps ==
  ASSUME DrivenInv, Record
  PROVE  DrivenInv'
<1>1. /\ stage = "record" /\ stage' = "idle" /\ UNCHANGED <<head, block, sent, current, receipt>>
      /\ RecordIncluded(current, receipt, ProfitOf[current], SourceOf[current])
  BY DEF Record, chainVars
<1>2. /\ current \in Hash /\ current \in sent /\ current \notin Recorded /\ receipt \in 1 .. head
      /\ head \in 1 .. MaxBlock
  BY <1>1 DEF DrivenInv, TradesInv, TypeOK, LedgerFollowsExecutor
<1>3. receipt \in Blocks /\ ProfitOf[current] \in Profits /\ SourceOf[current] \in Source
  BY <1>2, BlocksToMax, ProfitOfAssumption, SourceOfType
<1>4. LedgerInv'
  BY <1>1, <1>2, <1>3, RecordKeeps DEF DrivenInv, TradesInv, TypeOK, LedgerInv
<1>5. TypeOK'
  BY <1>1, <1>4 DEF DrivenInv, TradesInv, TypeOK, Stages, LedgerInv
<1>6. /\ trades' = [trades EXCEPT ![current] = [inclusionBlock |-> receipt, state |-> "Included",
                    profit |-> ProfitOf[current], source |-> SourceOf[current]]]
      /\ UNCHANGED <<consecutiveFinalLosses, breakerTripped, toPromote, promoteBlock>> /\ MutexFree
  BY <1>1 DEF RecordIncluded
<1>7. trades \in [Hash -> Entry]
  BY DEF DrivenInv, TradesInv, TypeOK, LedgerTypeOK
<1>8. \A h \in Hash : h # current => trades'[h] = trades[h]
  BY <1>6, <1>7
<1>9. /\ trades'[current].inclusionBlock = receipt /\ trades'[current].state = "Included"
      /\ trades'[current].profit = ProfitOf[current] /\ trades'[current].source = SourceOf[current]
  BY <1>2, <1>6, <1>7
<1>10. trades[current].state = "Absent"
  BY <1>2 DEF Recorded
<1>11. LedgerFollowsExecutor'
  <2>1. Recorded' = Recorded \cup {current}
    BY <1>2, <1>8, <1>9 DEF Recorded
  <2> QED
    BY <1>1, <1>2, <1>6, <1>8, <1>9, <2>1 DEF DrivenInv, TradesInv, LedgerFollowsExecutor, MutexFree, Recorded
<1>12. FinalTrades' = FinalTrades /\ current \notin FinalTrades
  BY <1>2, <1>8, <1>9, <1>10 DEF FinalTrades
<1>13. RealizedLosses' = RealizedLosses
  BY <1>8, <1>12 DEF RealizedLosses, RealizedLoss, FinalTrades
<1>14. FinalIsDeep'
  BY <1>1, <1>8, <1>12 DEF DrivenInv, FinalIsDeep, FinalTrades
<1>15. StreakIsBackedByLosses'
  BY <1>6, <1>13 DEF DrivenInv, StreakIsBackedByLosses
<1> QED
  BY <1>1, <1>4, <1>5, <1>11, <1>14, <1>15 DEF DrivenInv, TradesInv, LedgerInv

LEMMA PromoteNextKeeps ==
  ASSUME DrivenInv, PromoteNext
  PROVE  DrivenInv'
<1>1. /\ stage = "promote" /\ UNCHANGED <<head, block, sent, stage, current, receipt, promoteBlock>>
  BY DEF PromoteNext, PromoteTrade, chainVars, executorVars
<1>2. PICK h \in Hash : PromoteTrade(h)
  BY DEF PromoteNext
<1> DEFINE state == PromotedState(trades[h], promoteBlock)
<1>3. LedgerInv'
  BY <1>2, PromoteTradeKeeps DEF DrivenInv, TradesInv, TypeOK, LedgerInv
<1>4. TypeOK'
  BY <1>1, <1>3 DEF DrivenInv, TradesInv, TypeOK, LedgerInv
<1>5. trades \in [Hash -> Entry] /\ trades[h] \in Entry /\ trades[h].state # "Absent" /\ h \in Recorded
  BY <1>2 DEF DrivenInv, TradesInv, TypeOK, LedgerTypeOK, WalkIsOfTrades, PromoteTrade, Recorded
<1>6. trades' = [trades EXCEPT ![h].state = state] /\ state \in {"Included", "Confirmed", "Final"}
  BY <1>2, PromotedStateType DEF PromoteTrade
<1>7. /\ \A k \in Hash : k # h => trades'[k] = trades[k]
      /\ trades'[h].state = state /\ trades'[h].profit = trades[h].profit
      /\ trades'[h].source = trades[h].source /\ trades'[h].inclusionBlock = trades[h].inclusionBlock
  BY <1>5, <1>6 DEF Entry
<1>8. LedgerFollowsExecutor'
  <2>1. Recorded' = Recorded
    BY <1>5, <1>6, <1>7 DEF Recorded
  <2> QED
    BY <1>1, <1>7, <2>1 DEF DrivenInv, TradesInv, LedgerFollowsExecutor, Recorded
<1>9. trades[h].state = "Final" => state = "Final"
  BY DEF PromotedState
<1>10. FinalTrades \subseteq FinalTrades' /\ FinalTrades' \subseteq FinalTrades \cup {h}
  BY <1>7, <1>9 DEF FinalTrades
<1>11. FinalIsDeep'
  <2> SUFFICES ASSUME NEW k \in FinalTrades'
               PROVE  head >= trades'[k].inclusionBlock + Confirmations
    BY <1>1 DEF FinalIsDeep
  <2>1. k \in Hash /\ trades'[k].inclusionBlock = trades[k].inclusionBlock
    BY <1>7 DEF FinalTrades
  <2>2. CASE k \in FinalTrades
    BY <2>1, <2>2 DEF DrivenInv, FinalIsDeep
  <2>3. CASE k \notin FinalTrades
    <3>1. k = h /\ state = "Final" /\ trades[h].state # "Final"
      BY <1>7, <1>10, <2>1, <2>3 DEF FinalTrades
    <3>2. Depth(promoteBlock, trades[h].inclusionBlock) >= Confirmations
      BY <3>1 DEF PromotedState
    <3>3. /\ promoteBlock \in Nat /\ head \in Nat /\ promoteBlock <= head
          /\ trades[h].inclusionBlock \in Nat /\ trades[h].inclusionBlock <= head
      BY <1>5 DEF DrivenInv, TradesInv, TypeOK, LedgerTypeOK, LedgerFollowsExecutor
    <3> QED
      BY <2>1, <3>1, <3>2, <3>3, ConfirmationsAssumption DEF Depth
  <2> QED
    BY <2>2, <2>3
<1>12. StreakIsBackedByLosses'
  <2>0. /\ consecutiveFinalLosses \in Nat /\ breakerTripped \in BOOLEAN
        /\ consecutiveFinalLosses <= Cardinality(RealizedLosses)
        /\ breakerTripped => Cardinality(RealizedLosses) >= Threshold
    BY DEF DrivenInv, TradesInv, TypeOK, LedgerTypeOK, StreakIsBackedByLosses
  <2>1. IsFiniteSet(RealizedLosses) /\ Cardinality(RealizedLosses) \in Nat
    <3>1. RealizedLosses \subseteq Hash
      BY DEF RealizedLosses, FinalTrades
    <3> QED
      BY <3>1, HashAssumption, FS_Subset, FS_CardinalityType
  <2>2. CASE BecomesFinal(trades[h], state)
    <3>1. state = "Final" /\ trades[h].state # "Final" /\ CountFinal(trades[h])
      BY <1>2, <2>2 DEF PromoteTrade, BecomesFinal
    <3>2. FinalTrades' = FinalTrades \cup {h} /\ h \notin FinalTrades
      BY <1>7, <1>10, <3>1 DEF FinalTrades
    <3>3. CASE RealizedLoss(h)
      <4>1. RealizedLosses' = RealizedLosses \cup {h} /\ h \notin RealizedLosses
        BY <1>7, <3>2, <3>3 DEF RealizedLosses, RealizedLoss, FinalTrades
      <4>2. Cardinality(RealizedLosses') = Cardinality(RealizedLosses) + 1
        BY <2>1, <4>1, FS_AddElement
      <4>3. /\ consecutiveFinalLosses' = consecutiveFinalLosses + 1
            /\ breakerTripped' = (breakerTripped \/ consecutiveFinalLosses' >= Threshold)
        BY <3>1, <3>3 DEF CountFinal, RealizedLoss
      <4>4. breakerTripped' => breakerTripped \/ consecutiveFinalLosses' >= Threshold
        BY <4>3, Zenon
      <4> QED
        BY <2>0, <2>1, <4>2, <4>3, <4>4, ThresholdAssumption DEF StreakIsBackedByLosses
    <3>4. CASE ~RealizedLoss(h)
      <4>1. RealizedLosses' = RealizedLosses
        BY <1>7, <3>2, <3>4 DEF RealizedLosses, RealizedLoss, FinalTrades
      <4>2. consecutiveFinalLosses' \in {0, consecutiveFinalLosses} /\ UNCHANGED breakerTripped
        BY <1>5, <3>1, <3>4 DEF CountFinal, RealizedLoss, Entry, Source
      <4> QED
        BY <2>0, <2>1, <4>1, <4>2 DEF StreakIsBackedByLosses
    <3> QED
      BY <3>3, <3>4
  <2>3. CASE ~BecomesFinal(trades[h], state)
    <3>1. UNCHANGED <<consecutiveFinalLosses, breakerTripped>>
      BY <1>2, <2>3 DEF PromoteTrade
    <3>2. FinalTrades' = FinalTrades
      BY <1>7, <1>10, <2>3 DEF BecomesFinal, FinalTrades
    <3>3. RealizedLosses' = RealizedLosses
      BY <1>7, <3>2 DEF RealizedLosses, RealizedLoss, FinalTrades
    <3> QED
      BY <2>0, <3>1, <3>3 DEF StreakIsBackedByLosses
  <2> QED
    BY <2>2, <2>3
<1> QED
  BY <1>1, <1>3, <1>4, <1>8, <1>11, <1>12 DEF DrivenInv, TradesInv, LedgerInv

LEMMA DrivenNext == DrivenInv /\ [Next]_vars => DrivenInv'
<1> SUFFICES ASSUME DrivenInv, [Next]_vars PROVE DrivenInv'
  OBVIOUS
<1>1. CASE UNCHANGED vars
  BY <1>1, WaitingKeeps DEF vars, chainVars, executorVars, ledgerVars, DrivenInv, TradesInv, TypeOK, LedgerTypeOK,
     LedgerFollowsExecutor, MutexFree, Recorded, WalkIsOfTrades, FinalIsDeep, FinalTrades,
     StreakIsBackedByLosses, RealizedLosses, RealizedLoss
<1>2. CASE Next
  BY <1>2, ChainKeeps, WaitingKeeps, PromoteAtHeadKeeps, PromoteNextKeeps, RecordTradeKeeps DEF Next, Executor
<1> QED
  BY <1>1, <1>2

(* The ledger holds only trades that were sent and confirmed, with the     *)
(* profit that was realized for them and the block of their receipt; no    *)
(* promotion outlasts the executor's call.                                 *)
THEOREM TradesInvariant == Spec => []TradesInv
<1>1. DrivenInv => TradesInv
  BY DEF DrivenInv
<1> QED
  BY DrivenInit, DrivenNext, <1>1, PTL DEF Spec

(* Final means Confirmations blocks deep, whatever the order of promotions,*)
(* head reads that fail, abandoned attempts and reorganisations of any     *)
(* depth (promote in src/core/profit_ledger.rs as update_execution_block   *)
(* calls it).                                                              *)
THEOREM FinalsAreDeep == Spec => []FinalIsDeep
<1>1. DrivenInv => FinalIsDeep
  BY DEF DrivenInv
<1> QED
  BY DrivenInit, DrivenNext, <1>1, PTL DEF Spec

(* The loss breaker never trips without Threshold final realized losses in *)
(* the ledger, and its run is never longer than there are such losses.     *)
THEOREM StreakIsBacked == Spec => []StreakIsBackedByLosses
<1>1. DrivenInv => StreakIsBackedByLosses
  BY DEF DrivenInv
<1> QED
  BY DrivenInit, DrivenNext, <1>1, PTL DEF Spec

(* In the model's own instance, whose ledger is driven by the executor or  *)
(* called in any order: as long as the executor is its only caller, what   *)
(* is final is Confirmations blocks deep.                                  *)
THEOREM FinalsAreDeepForTheExecutor == MCSpec => []FinalIsDeepInChain
<1> DEFINE Inv == caller = "executor" => DrivenInv
<1>1. MCInit => Inv
  BY DrivenInit DEF MCInit
<1>2. Inv /\ [ExecutorStep \/ OtherCall]_<<vars, caller>> => Inv'
  BY DrivenNext DEF ExecutorStep, OtherCall
<1>3. Inv => FinalIsDeepInChain
  BY DEF DrivenInv, FinalIsDeepInChain
<1> QED BY <1>1, <1>2, <1>3, PTL DEF MCSpec
===============================================================================
