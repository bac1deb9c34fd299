-------------------------- MODULE CanonicalLoopProofs --------------------------
(***************************************************************************)
(* Proofs about the canonical discovery.  CanonicalLoop: the three-anchor  *)
(* windows are what they are meant to be whatever the chain does and       *)
(* whichever rounds fail, and an approval rests on three consecutive       *)
(* gains.  CanonicalRound: no pool is judged by the words of another, and  *)
(* the evidence of a round is the trade itself, for any tokens, pools and  *)
(* answers and however its tasks interleave.                               *)
(***************************************************************************)
EXTENDS CanonicalLoop, CanonicalRound, SumTheorems, SequenceTheorems, TLAPS

Anchors == [number : Nat, hash : Nat]
Entries == [anchor : Anchors, gain : BOOLEAN]
Places == {"wait", "number", "block", "round", "evidence", "assess", "simulate", "stopped"}

Types ==
  /\ chain \in Seq(Nat) /\ Tip \in 1 .. MaxBlock /\ reorgs \in 0 .. MaxReorgs
  /\ asked \in BOOLEAN /\ floor \in Floors /\ at \in Places
  /\ anchor \in Anchors /\ last \in Anchors
  /\ found \in [Routes -> Kinds] /\ todo \subseteq Routes
  /\ windows \in [Routes -> Seq(Entries)] /\ seen \in [Routes -> Seq(Entries)]

(* The anchor of a poll is a block there is; that of a round is `last'.    *)
AnchorIsKnown ==
  /\ at = "block" => anchor.number >= 1
  /\ at \in {"round", "evidence", "assess", "simulate"} => anchor = last /\ last.number >= 1

(* Evidence is EveryN blocks apart, and what a round is about to add lies  *)
(* EveryN blocks after all there is.                                       *)
Apart(s) ==
  \A i, j \in 1 .. Len(s) : i < j => s[i].anchor.number + EveryN <= s[j].anchor.number
Before(s, bound) ==
  \A i \in 1 .. Len(s) : s[i].anchor.number >= 1 /\ s[i].anchor.number <= bound
Pending == at \in {"round", "evidence"}
EvidenceIsSpaced ==
  \A r \in Routes :
    /\ Apart(seen[r]) /\ Before(seen[r], last.number)
    /\ Pending => \A i \in 1 .. Len(seen[r]) : seen[r][i].anchor.number + EveryN <= last.number

WindowsAreTails == \A r \in Routes : windows[r] = Newest(seen[r], 3)

Gains(window) == Len(window) = 3 /\ \A i \in 1 .. 3 : window[i].gain
TodoIsStable == at \in {"assess", "simulate"} => \A r \in todo : Gains(windows[r])

(* An approved window is a run of three in the evidence of its route.      *)
RunOf(window, s) ==
  \E k \in Nat : k + 3 <= Len(s) /\ \A i \in 1 .. 3 : window[i] = s[k + i]
ApprovedAreRuns ==
  \A a \in approved : a.route \in Routes /\ Gains(a.window) /\ RunOf(a.window, seen[a.route])

WindowsInv ==
  /\ Types /\ AnchorIsKnown /\ EvidenceIsSpaced
  /\ WindowsAreTails /\ TodoIsStable /\ ApprovedAreRuns

-------------------------------------------------------------------------------
(* Sequences.                                                              *)

LEMMA NewestProperties ==
  ASSUME NEW S, NEW s \in Seq(S)
  PROVE  /\ Newest(s, 3) \in Seq(S)
         /\ Len(Newest(s, 3)) = IF Len(s) <= 3 THEN Len(s) ELSE 3
         /\ \A i \in 1 .. Len(Newest(s, 3)) : Newest(s, 3)[i] = s[Len(s) - Len(Newest(s, 3)) + i]
<1>1. CASE Len(s) <= 3
  BY <1>1 DEF Newest
<1>2. CASE ~(Len(s) <= 3)
  <2>1. Newest(s, 3) = SubSeq(s, Len(s) - 2, Len(s)) /\ Len(s) \in Nat
    BY <1>2 DEF Newest
  <2>2. \A i \in Len(s) - 2 .. Len(s) : s[i] \in S
    BY <1>2, <2>1, ElementOfSeq
  <2>3. /\ SubSeq(s, Len(s) - 2, Len(s)) \in Seq(S)
        /\ Len(SubSeq(s, Len(s) - 2, Len(s))) = 3
        /\ \A i \in 1 .. 3 : SubSeq(s, Len(s) - 2, Len(s))[i] = s[Len(s) - 2 + i - 1]
    BY <1>2, <2>1, <2>2, SubSeqProperties
  <2> DEFINE w == SubSeq(s, Len(s) - 2, Len(s))
  <2>4. w \in Seq(S) /\ Len(w) = 3
    BY <2>3
  <2>5. ASSUME NEW i \in 1 .. 3 PROVE w[i] = s[Len(s) - 3 + i]
    <3>1. Len(s) - 2 + i - 1 = Len(s) - 3 + i
      BY <2>1
    <3> QED BY <2>3, <3>1
  <2> HIDE DEF w
  <2>6. Newest(s, 3) = w
    BY <2>1 DEF w
  <2> QED BY <1>2, <2>4, <2>5, <2>6
<1> QED BY <1>1, <1>2

(* Append, read by index.                                                  *)
LEMMA AppendAt ==
  ASSUME NEW S, NEW s \in Seq(S), NEW e \in S, NEW t, t = Append(s, e)
  PROVE  /\ t \in Seq(S) /\ Len(t) = Len(s) + 1 /\ Len(s) \in Nat
         /\ t[Len(s) + 1] = e
         /\ \A i \in 1 .. Len(s) : t[i] = s[i]
  BY AppendProperties

(* Sequences that end alike have the same newest three.                    *)
LEMMA SameNewest ==
  ASSUME NEW S, NEW a \in Seq(S), NEW b \in Seq(S),
         Len(a) = Len(b) \/ (Len(a) >= 3 /\ Len(b) >= 3),
         \A i \in 1 .. Len(a) : Len(b) - Len(a) + i >= 1 => a[i] = b[Len(b) - Len(a) + i]
  PROVE  Newest(a, 3) = Newest(b, 3)
<1> DEFINE x == Newest(a, 3)
           y == Newest(b, 3)
<1>1. /\ x \in Seq(S) /\ Len(x) = IF Len(a) <= 3 THEN Len(a) ELSE 3
      /\ \A i \in 1 .. Len(x) : x[i] = a[Len(a) - Len(x) + i]
  BY NewestProperties
<1>2. /\ y \in Seq(S) /\ Len(y) = IF Len(b) <= 3 THEN Len(b) ELSE 3
      /\ \A i \in 1 .. Len(y) : y[i] = b[Len(b) - Len(y) + i]
  BY NewestProperties
<1>3. Len(a) \in Nat /\ Len(b) \in Nat
  OBVIOUS
<1> HIDE DEF x, y
<1>4. Len(x) = Len(y) /\ Len(x) \in Nat /\ Len(x) <= Len(a) /\ Len(x) <= Len(b)
  BY <1>1, <1>2, <1>3
<1>5. ASSUME NEW i \in 1 .. Len(x) PROVE x[i] = y[i]
  <2>1. PICK j \in 1 .. Len(a) : j = Len(a) - Len(x) + i
    <3>1. Len(a) - Len(x) + i \in 1 .. Len(a)
      BY <1>3, <1>4
    <3> QED BY <3>1, Zenon
  <2>2. Len(b) - Len(a) + j = Len(b) - Len(y) + i /\ Len(b) - Len(a) + j >= 1
    BY <1>3, <1>4, <2>1
  <2>3. a[j] = b[Len(b) - Len(a) + j]
    BY <2>2
  <2>4. x[i] = a[j]
    BY <1>1, <2>1
  <2>5. y[i] = b[Len(b) - Len(y) + i]
    <3>1. i \in 1 .. Len(y)
      BY <1>4
    <3>2. \A k \in 1 .. Len(y) : y[k] = b[Len(b) - Len(y) + k]
      BY <1>2
    <3> QED BY <3>1, <3>2, Zenon
  <2> QED BY <2>2, <2>3, <2>4, <2>5
<1>6. x = y
  BY <1>1, <1>2, <1>4, <1>5, SeqEqual
<1> QED BY <1>6 DEF x, y

(* To keep the newest three and add one is to add one and keep the newest  *)
(* three.                                                                  *)
LEMMA NewestAppend ==
  ASSUME NEW S, NEW s \in Seq(S), NEW e \in S, NEW w, w = Newest(s, 3)
  PROVE  Newest(Append(w, e), 3) = Newest(Append(s, e), 3)
<1>1. /\ w \in Seq(S) /\ Len(s) \in Nat
      /\ Len(w) = IF Len(s) <= 3 THEN Len(s) ELSE 3
      /\ \A i \in 1 .. Len(w) : w[i] = s[Len(s) - Len(w) + i]
  BY NewestProperties
<1>2. PICK a : a = Append(w, e)
  OBVIOUS
<1>3. PICK b : b = Append(s, e)
  OBVIOUS
<1>4. a \in Seq(S) /\ Len(a) = Len(w) + 1 /\ Len(w) \in Nat /\ a[Len(w) + 1] = e /\ \A i \in 1 .. Len(w) : a[i] = w[i]
  BY <1>1, <1>2, AppendAt
<1>5. b \in Seq(S) /\ Len(b) = Len(s) + 1 /\ b[Len(s) + 1] = e /\ \A i \in 1 .. Len(s) : b[i] = s[i]
  BY <1>3, AppendAt
<1>0. Len(a) = Len(w) + 1 /\ Len(b) = Len(s) + 1 /\ Len(w) \in Nat /\ Len(s) \in Nat
  BY <1>1, <1>4, <1>5
<1>6. ASSUME NEW i \in 1 .. Len(a), Len(b) - Len(a) + i >= 1 PROVE a[i] = b[Len(b) - Len(a) + i]
  <2>1. CASE i = Len(a)
    <3>1. Len(b) - Len(a) + i = Len(s) + 1 /\ i = Len(w) + 1
      BY <2>1, <1>0
    <3> QED BY <3>1, <1>4, <1>5
  <2>2. CASE i # Len(a)
    <3>1. i \in 1 .. Len(w)
      BY <2>2, <1>4
    <3>2. Len(s) - Len(w) + i \in 1 .. Len(s)
      <4>1. Len(w) <= Len(s)
        BY <1>1
      <4> QED BY <4>1, <3>1, <1>1, <1>4
    <3>3. Len(b) - Len(a) + i = Len(s) - Len(w) + i
      BY <1>0
    <3>4. a[i] = w[i] /\ w[i] = s[Len(s) - Len(w) + i]
      BY <3>1, <1>1, <1>4
    <3>5. b[Len(s) - Len(w) + i] = s[Len(s) - Len(w) + i]
      BY <3>2, <1>5
    <3> QED BY <3>3, <3>4, <3>5
  <2> QED BY <2>1, <2>2
<1>7. Len(a) = Len(b) \/ (Len(a) >= 3 /\ Len(b) >= 3)
  BY <1>1, <1>4, <1>5
<1>8. Newest(a, 3) = Newest(b, 3)
  BY <1>4, <1>5, <1>6, <1>7, SameNewest
<1> QED BY <1>2, <1>3, <1>8

-------------------------------------------------------------------------------
(* The evidence of a route, extended by an entry EveryN later.             *)

LEMMA AppendKeepsApart ==
  ASSUME NEW s \in Seq(Entries), NEW e \in Entries, Apart(s), e.anchor.number >= 1,
         \A i \in 1 .. Len(s) : s[i].anchor.number + EveryN <= e.anchor.number,
         Before(s, e.anchor.number), NEW t, t = Append(s, e)
  PROVE  Apart(t) /\ Before(t, e.anchor.number)
<1>1. /\ t \in Seq(Entries) /\ Len(t) = Len(s) + 1 /\ Len(s) \in Nat
      /\ t[Len(s) + 1] = e /\ \A i \in 1 .. Len(s) : t[i] = s[i]
  BY AppendAt
<1>2. \A i \in 1 .. Len(t) : i \in 1 .. Len(s) \/ i = Len(s) + 1
  BY <1>1
<1>3. e.anchor.number \in Nat
  BY DEF Entries, Anchors
<1>4. ASSUME NEW i \in 1 .. Len(t), NEW j \in 1 .. Len(t), i < j
      PROVE  t[i].anchor.number + EveryN <= t[j].anchor.number
  <2>1. i \in 1 .. Len(s)
    BY <1>1, <1>4
  <2>2. CASE j \in 1 .. Len(s)
    BY <2>1, <2>2, <1>1, <1>4 DEF Apart
  <2>3. CASE j = Len(s) + 1
    BY <2>1, <2>3, <1>1
  <2> QED BY <1>2, <2>2, <2>3
<1>5. ASSUME NEW i \in 1 .. Len(t)
      PROVE  t[i].anchor.number >= 1 /\ t[i].anchor.number <= e.anchor.number
  <2>1. CASE i \in 1 .. Len(s)
    BY <2>1, <1>1 DEF Before
  <2>2. CASE i = Len(s) + 1
    BY <2>2, <1>1, <1>3
  <2> QED BY <1>2, <2>1, <2>2
<1> QED BY <1>4, <1>5 DEF Apart, Before

(* A run of three stays one when evidence is added.                        *)
LEMMA AppendKeepsRuns ==
  ASSUME NEW s \in Seq(Entries), NEW e \in Entries, NEW window, RunOf(window, s)
  PROVE  RunOf(window, Append(s, e))
<1>1. PICK k \in Nat : k + 3 <= Len(s) /\ \A i \in 1 .. 3 : window[i] = s[k + i]
  BY DEF RunOf
<1>2. PICK t : t = Append(s, e)
  OBVIOUS
<1>3. Len(t) = Len(s) + 1 /\ Len(s) \in Nat /\ \A i \in 1 .. Len(s) : t[i] = s[i]
  BY <1>2, AppendAt
<1>4. ASSUME NEW i \in 1 .. 3 PROVE window[i] = t[k + i]
  <2>1. k + i \in 1 .. Len(s)
    BY <1>1, <1>3
  <2> QED BY <1>1, <1>3, <2>1
<1>5. k + 3 <= Len(t)
  BY <1>1, <1>3
<1>6. RunOf(window, t)
  BY <1>4, <1>5 DEF RunOf
<1> QED BY <1>2, <1>6

(* A full window is the run of the last three.                             *)
LEMMA NewestIsRun ==
  ASSUME NEW s \in Seq(Entries), Len(Newest(s, 3)) = 3
  PROVE  RunOf(Newest(s, 3), s)
<1>1. PICK w : w = Newest(s, 3)
  OBVIOUS
<1>2. /\ Len(w) = 3 /\ Len(w) = IF Len(s) <= 3 THEN Len(s) ELSE 3
      /\ \A i \in 1 .. Len(w) : w[i] = s[Len(s) - Len(w) + i]
  BY <1>1, NewestProperties
<1>3. Len(s) - 3 \in Nat /\ Len(s) - 3 + 3 <= Len(s)
  <2>1. Len(w) = 3 /\ Len(w) = IF Len(s) <= 3 THEN Len(s) ELSE 3
    BY <1>2
  <2>2. Len(s) \in Nat
    OBVIOUS
  <2> QED BY <2>1, <2>2
<1>4. \A i \in 1 .. 3 : w[i] = s[Len(s) - 3 + i]
  BY <1>2
<1>5. RunOf(w, s)
  BY <1>3, <1>4 DEF RunOf
<1> QED BY <1>1, <1>5

-------------------------------------------------------------------------------
(* The steps.                                                              *)

LEMMA NumbersAreNat ==
  ASSUME Types, NEW r \in Routes, NEW i \in 1 .. Len(seen[r])
  PROVE  seen[r][i].anchor.number \in Nat
<1>1. seen[r] \in Seq(Entries)
  BY DEF Types
<1>2. seen[r][i] \in Entries
  BY <1>1, ElementOfSeq
<1> QED BY <1>2 DEF Entries, Anchors

LEMMA WindowsInit == Init => WindowsInv
<1> SUFFICES ASSUME Init PROVE WindowsInv
  OBVIOUS
<1>1. None \in Anchors /\ None.number = 0
  BY DEF None, Anchors
<1>2. <<0>> \in Seq(Nat) /\ Len(<<0>>) = 1
  OBVIOUS
<1>3. <<>> \in Seq(Entries) /\ Len(<<>>) = 0
  BY EmptySeq
<1>4. Types
  <2>1. Tip \in 1 .. MaxBlock /\ chain \in Seq(Nat)
    BY <1>2, LoopAssumption DEF Init, Tip
  <2>2. windows \in [Routes -> Seq(Entries)] /\ seen \in [Routes -> Seq(Entries)]
    BY <1>3 DEF Init
  <2>3. reorgs \in 0 .. MaxReorgs /\ floor \in Floors
    BY LoopAssumption DEF Init
  <2> QED BY <1>1, <2>1, <2>2, <2>3 DEF Init, Types, Places, Kinds
<1>5. EvidenceIsSpaced
  BY <1>3 DEF Init, EvidenceIsSpaced, Apart, Before, Pending
<1>6. WindowsAreTails
  BY <1>3 DEF Init, WindowsAreTails, Newest
<1> QED BY <1>4, <1>5, <1>6 DEF WindowsInv, Init, AnchorIsKnown, TodoIsStable, ApprovedAreRuns

(* What the chain and the operator do leaves the evidence alone.           *)
LEMMA WorldKeeps ==
  ASSUME WindowsInv, Mine \/ Reorg \/ Shutdown
  PROVE  WindowsInv'
<1>1. Types'
  <2>1. CASE Mine
    <3>1. PICK c : c = Append(chain, reorgs)
      OBVIOUS
    <3>2. c \in Seq(Nat) /\ Len(c) = Tip + 1
      BY <3>1, AppendAt, LoopAssumption DEF WindowsInv, Types, Tip
    <3> QED BY <2>1, <3>1, <3>2, LoopAssumption DEF WindowsInv, Types, Tip, Mine, Worker, Ghosts
  <2>2. CASE Reorg
    <3>1. PICK n \in 2 .. Tip : chain' = Append(SubSeq(chain, 1, n - 1), reorgs')
      BY <2>2 DEF Reorg
    <3>2. SubSeq(chain, 1, n - 1) \in Seq(Nat) /\ Len(SubSeq(chain, 1, n - 1)) = n - 1
      <4>1. \A i \in 1 .. n - 1 : chain[i] \in Nat
        BY ElementOfSeq DEF WindowsInv, Types, Tip
      <4> QED BY <4>1, <3>1, SubSeqProperties DEF WindowsInv, Types, Tip
    <3>3. reorgs' \in Nat /\ reorgs' \in 0 .. MaxReorgs
      BY <2>2, LoopAssumption DEF WindowsInv, Types, Reorg
    <3>4. chain' \in Seq(Nat) /\ Len(chain') = n
      BY <3>1, <3>2, <3>3, AppendAt
    <3> QED BY <2>2, <3>1, <3>3, <3>4, LoopAssumption DEF WindowsInv, Types, Tip, Reorg, Worker, Ghosts
  <2>3. CASE Shutdown
    BY <2>3 DEF WindowsInv, Types, Tip, Shutdown, World, Worker, Ghosts
  <2> QED BY <2>1, <2>2, <2>3
<1>2. UNCHANGED Worker
  BY DEF Mine, Reorg, Shutdown
<1> QED BY <1>1, <1>2 DEF WindowsInv, AnchorIsKnown, EvidenceIsSpaced, Apart, Before, Pending,
         WindowsAreTails, TodoIsStable, ApprovedAreRuns, Worker, Ghosts

(* A step of the worker that adds no evidence and schedules nothing.       *)
LEMMA WorkerMoves ==
  ASSUME WindowsInv, UNCHANGED <<chain, reorgs, asked, floor, last, windows, approved, seen>>,
         at' \in Places, anchor' \in Anchors, found' \in [Routes -> Kinds], todo' \subseteq Routes,
         AnchorIsKnown', Pending' => Pending, TodoIsStable'
  PROVE  WindowsInv'
<1>1. Types'
  BY DEF WindowsInv, Types, Tip
<1> QED BY <1>1 DEF WindowsInv, EvidenceIsSpaced, Apart, Before, WindowsAreTails, ApprovedAreRuns

LEMMA SmallSteps ==
  ASSUME WindowsInv,
         Stop \/ Tick \/ PollFails \/ GotNumber \/ RoundFails \/ RoundEnds \/ Simulated \/ Persist \/ Stopped
  PROVE  WindowsInv'
<1> USE DEF Goto, World, Ghosts, Places, Types, AnchorIsKnown, Pending, TodoIsStable
<1>1. CASE Stop
  BY <1>1, WorkerMoves DEF Stop, WindowsInv
<1>2. CASE Tick
  BY <1>2, WorkerMoves DEF Tick, WindowsInv
<1>3. CASE PollFails
  BY <1>3, WorkerMoves DEF PollFails, WindowsInv
<1>4. CASE GotNumber
  BY <1>4, WorkerMoves DEF GotNumber, WindowsInv, Anchors
<1>5. CASE RoundFails
  BY <1>5, WorkerMoves DEF RoundFails, WindowsInv
<1>6. CASE RoundEnds
  <2>1. found' \in [Routes -> Kinds]
    BY <1>6 DEF RoundEnds, Kinds
  <2> QED BY <1>6, <2>1, WorkerMoves DEF RoundEnds, WindowsInv
<1>7. CASE Simulated
  BY <1>7, WorkerMoves DEF Simulated, WindowsInv
<1>8. CASE Persist
  BY <1>8, WorkerMoves DEF Persist, WindowsInv, Kinds
<1>9. CASE Stopped
  BY <1>9, WorkerMoves DEF Stopped, WindowsInv, vars
<1> QED BY <1>1, <1>2, <1>3, <1>4, <1>5, <1>6, <1>7, <1>8, <1>9

LEMMA GotBlockKeeps ==
  ASSUME WindowsInv, GotBlock
  PROVE  WindowsInv'
<1> DEFINE block == Block(anchor.number)
<1>1. CASE ~(anchor.number <= Tip /\ ShouldSchedule(block))
  BY <1>1, WorkerMoves DEF GotBlock, Goto, World, Ghosts, Places, WindowsInv, Types, AnchorIsKnown, Pending, TodoIsStable
<1>2. CASE anchor.number <= Tip /\ ShouldSchedule(block)
  <2>1. anchor' = block /\ last' = block /\ at' = "round" /\ UNCHANGED <<chain, reorgs, asked, floor, found, windows, todo, approved, seen>>
    BY <1>2 DEF GotBlock, Goto, World, Ghosts
  <2>2. block \in Anchors /\ block.number = anchor.number /\ block.number >= 1
    BY <1>2, ElementOfSeq DEF GotBlock, Block, WindowsInv, Types, AnchorIsKnown, Anchors, Tip
  <2>3. last = None \/ block.number - last.number >= EveryN
    BY <1>2 DEF ShouldSchedule
  <2> HIDE DEF block
  <2>4. ASSUME NEW r \in Routes, NEW i \in 1 .. Len(seen[r])
        PROVE  seen[r][i].anchor.number >= 1 /\ seen[r][i].anchor.number + EveryN <= block.number
    <3>1. seen[r][i].anchor.number >= 1 /\ seen[r][i].anchor.number <= last.number
      BY DEF WindowsInv, EvidenceIsSpaced, Before
    <3>2. seen[r][i].anchor.number \in Nat /\ last.number \in Nat /\ block.number \in Nat
      BY <2>2, NumbersAreNat DEF WindowsInv, Types, Anchors
    <3> QED BY <2>3, <3>1, <3>2, LoopAssumption DEF None
  <2>5. EvidenceIsSpaced'
    <3> SUFFICES ASSUME NEW r \in Routes
                 PROVE  /\ Apart(seen[r]) /\ Before(seen[r], block.number)
                        /\ \A i \in 1 .. Len(seen[r]) : seen[r][i].anchor.number + EveryN <= block.number
      BY <2>1 DEF EvidenceIsSpaced, Apart, Before
    <3>1. Apart(seen[r])
      BY DEF WindowsInv, EvidenceIsSpaced
    <3>2. ASSUME NEW i \in 1 .. Len(seen[r]) PROVE seen[r][i].anchor.number <= block.number
      <4>1. seen[r][i].anchor.number \in Nat /\ block.number \in Nat
        BY <2>2, NumbersAreNat DEF WindowsInv, Anchors
      <4> QED BY <2>4, <4>1, LoopAssumption
    <3> QED BY <2>4, <3>1, <3>2 DEF Before
  <2>6. Types'
    BY <2>1, <2>2 DEF WindowsInv, Types, Tip, Places
  <2> QED BY <2>1, <2>2, <2>5, <2>6 DEF WindowsInv, AnchorIsKnown, WindowsAreTails, TodoIsStable, ApprovedAreRuns
<1> QED BY <1>1, <1>2

LEMMA AssessKeeps ==
  ASSUME WindowsInv, NEW r \in Routes, Assess(r)
  PROVE  WindowsInv'
<1> USE DEF Goto, World
<1>1. /\ at = "assess" /\ r \in todo /\ todo' = todo \ {r}
      /\ at' \in {"assess", "simulate"}
      /\ UNCHANGED <<chain, reorgs, asked, floor, anchor, last, found, windows, seen>>
      /\ approved' = approved \/ approved' = approved \cup {[route |-> r, window |-> windows[r]]}
  BY DEF Assess
<1>2. Types' /\ AnchorIsKnown' /\ EvidenceIsSpaced' /\ WindowsAreTails' /\ TodoIsStable'
  BY <1>1 DEF WindowsInv, Types, Tip, Places, AnchorIsKnown, EvidenceIsSpaced, Apart, Before, Pending, WindowsAreTails, TodoIsStable
<1>3. Gains(windows[r])
  BY <1>1 DEF WindowsInv, TodoIsStable
<1>4. RunOf(windows[r], seen[r])
  BY <1>3, NewestIsRun DEF Gains, WindowsInv, WindowsAreTails, Types
<1>5. ApprovedAreRuns'
  BY <1>1, <1>3, <1>4 DEF WindowsInv, ApprovedAreRuns
<1> QED BY <1>2, <1>5 DEF WindowsInv

LEMMA PushKeeps ==
  ASSUME WindowsInv, Push
  PROVE  WindowsInv'
<1>1. /\ at = "evidence" /\ at' = "assess" /\ anchor = last /\ last.number >= 1
      /\ UNCHANGED <<chain, reorgs, asked, floor, anchor, last, found, approved>>
      /\ windows' = [r \in Routes |-> Pushed(r)]
      /\ todo' = {r \in Routes : found[r] # "none" /\ Stable(windows'[r])}
      /\ seen' = [r \in Routes |-> IF found[r] = "none" THEN seen[r] ELSE Append(seen[r], Entry(r))]
  BY DEF Push, Goto, World, WindowsInv, AnchorIsKnown
<1>2. ASSUME NEW r \in Routes
      PROVE  /\ seen[r] \in Seq(Entries) /\ windows[r] = Newest(seen[r], 3) /\ Entry(r) \in Entries
             /\ Entry(r).anchor = last /\ last.number \in Nat
             /\ Apart(seen[r]) /\ Before(seen[r], last.number)
             /\ \A i \in 1 .. Len(seen[r]) : seen[r][i].anchor.number + EveryN <= last.number
  BY <1>1 DEF WindowsInv, Types, WindowsAreTails, Entry, Entries, Anchors, EvidenceIsSpaced, Pending
<1>3. ASSUME NEW r \in Routes
      PROVE  /\ seen'[r] \in Seq(Entries) /\ Apart(seen'[r]) /\ Before(seen'[r], last.number)
             /\ windows'[r] = Newest(seen'[r], 3)
             /\ \A a \in approved : a.route = r => RunOf(a.window, seen'[r])
  <2>1. CASE found[r] = "none"
    BY <1>1, <1>2, <2>1 DEF Pushed, WindowsInv, ApprovedAreRuns
  <2>2. CASE found[r] # "none"
    <3>1. seen'[r] = Append(seen[r], Entry(r)) /\ windows'[r] = Newest(Append(windows[r], Entry(r)), 3)
      BY <1>1, <2>2 DEF Pushed
    <3>2. PICK t : t = Append(seen[r], Entry(r))
      OBVIOUS
    <3>3. t \in Seq(Entries)
      BY <1>2, <3>2, AppendAt
    <3>4. Apart(t) /\ Before(t, last.number)
      BY <1>1, <1>2, <3>2, AppendKeepsApart
    <3>5. windows'[r] = Newest(t, 3)
      BY <1>2, <3>1, <3>2, NewestAppend
    <3>6. \A a \in approved : a.route = r => RunOf(a.window, t)
      BY <1>2, <3>2, AppendKeepsRuns DEF WindowsInv, ApprovedAreRuns
    <3> QED BY <3>1, <3>2, <3>3, <3>4, <3>5, <3>6
  <2> QED BY <2>1, <2>2
<1>4. ASSUME NEW r \in Routes PROVE windows'[r] \in Seq(Entries)
  BY <1>3, NewestProperties
<1>5. Types'
  BY <1>1, <1>3, <1>4 DEF WindowsInv, Types, Tip, Places
<1>6. EvidenceIsSpaced'
  BY <1>1, <1>3 DEF EvidenceIsSpaced, Apart, Before, Pending
<1>7. WindowsAreTails'
  BY <1>3 DEF WindowsAreTails
<1>8. TodoIsStable'
  BY <1>1 DEF TodoIsStable, Stable, Gains
<1>9. ApprovedAreRuns'
  BY <1>1, <1>3 DEF WindowsInv, ApprovedAreRuns
<1> QED BY <1>1, <1>5, <1>6, <1>7, <1>8, <1>9 DEF WindowsInv, AnchorIsKnown

LEMMA WindowsNext ==
  ASSUME WindowsInv, [Next]_vars
  PROVE  WindowsInv'
<1>1. CASE UNCHANGED vars
  BY <1>1, WorkerMoves DEF vars, WindowsInv, Types, AnchorIsKnown, Pending, TodoIsStable
<1>2. CASE Next
  BY <1>2, WorldKeeps, SmallSteps, GotBlockKeeps, AssessKeeps, PushKeeps DEF Next
<1> QED BY <1>1, <1>2

-------------------------------------------------------------------------------
(* What is proved.                                                         *)

(* The windows of StableOpportunityAggregator: each is the newest three of *)
(* the evidence accepted for its route, at anchors EveryN blocks apart and *)
(* none beyond the last one scheduled, for any routes, spacing, bounds and *)
(* reorganisations.                                                        *)
THEOREM LoopInvariant == Spec => []LoopInv
<1>1. WindowsInv => LoopInv
  <2> SUFFICES ASSUME WindowsInv PROVE LoopInv
    OBVIOUS
  <2>1. TypeOK
    BY LoopAssumption DEF WindowsInv, Types, TypeOK, Places
  <2>2. ASSUME NEW r \in Routes
        PROVE  /\ windows[r] = Newest(seen[r], 3)
               /\ \A i \in 1 .. Len(windows[r]) - 1 :
                    windows[r][i + 1].anchor.number - windows[r][i].anchor.number >= EveryN
               /\ \A i \in 1 .. Len(windows[r]) : windows[r][i].anchor.number <= last.number
    <3>1. PICK w : w = Newest(seen[r], 3)
      OBVIOUS
    <3>2. PICK s : s = seen[r]
      OBVIOUS
    <3>3. /\ s \in Seq(Entries) /\ windows[r] = w
          /\ Apart(s) /\ Before(s, last.number)
      BY <3>1, <3>2 DEF WindowsInv, Types, WindowsAreTails, EvidenceIsSpaced
    <3>4. /\ Len(w) = IF Len(s) <= 3 THEN Len(s) ELSE 3
          /\ \A i \in 1 .. Len(w) : w[i] = s[Len(s) - Len(w) + i]
      <4>1. w = Newest(s, 3)
        BY <3>1, <3>2
      <4> QED BY <4>1, <3>3, NewestProperties
    <3>5. Len(s) \in Nat /\ Len(w) \in Nat /\ Len(w) <= Len(s)
      BY <3>3, <3>4
    <3>6. ASSUME NEW i \in 1 .. Len(w)
          PROVE  Len(s) - Len(w) + i \in 1 .. Len(s)
      BY <3>5
    <3>7. ASSUME NEW i \in 1 .. Len(w) PROVE w[i].anchor.number <= last.number
      BY <3>3, <3>4, <3>6 DEF Before
    <3>8. ASSUME NEW i \in 1 .. Len(w) - 1
          PROVE  w[i + 1].anchor.number - w[i].anchor.number >= EveryN
      <4>1. i \in 1 .. Len(w) /\ i + 1 \in 1 .. Len(w)
        BY <3>5
      <4>2. PICK j \in 1 .. Len(s) : j = Len(s) - Len(w) + i
        BY <3>6, <4>1, Zenon
      <4>3. PICK k \in 1 .. Len(s) : k = Len(s) - Len(w) + (i + 1)
        BY <3>6, <4>1, Zenon
      <4>4. w[i] = s[j] /\ w[i + 1] = s[k] /\ j < k
        <5>1. j < k
          BY <3>5, <4>2, <4>3
        <5>2. w[i] = s[j]
          BY <3>4, <4>1, <4>2, Zenon
        <5>3. w[i + 1] = s[k]
          BY <3>4, <4>1, <4>3, Zenon
        <5> QED BY <5>1, <5>2, <5>3
      <4>5. s[j].anchor.number + EveryN <= s[k].anchor.number
        BY <3>3, <4>4 DEF Apart
      <4>6. s[j].anchor.number \in Nat /\ s[k].anchor.number \in Nat
        BY <3>2, NumbersAreNat DEF WindowsInv
      <4> QED BY <4>4, <4>5, <4>6, LoopAssumption
    <3> QED BY <3>1, <3>3, <3>7, <3>8
  <2> QED BY <2>1, <2>2 DEF LoopInv, WindowsAreRecent
<1> QED BY WindowsInit, WindowsNext, <1>1, PTL DEF Spec

(* "All three independent anchors carry complete, profitable evidence"     *)
(* (src/core/stability.rs): whatever assess_executable_opportunity is given*)
(* and approves gained at three anchors EveryN blocks apart, with no loss  *)
(* of that route in between.                                               *)
THEOREM ApprovalsAreEarned == Spec => []ApprovedGainedThrice
<1>1. WindowsInv => ApprovedGainedThrice
  <2> SUFFICES ASSUME WindowsInv, NEW a \in approved
               PROVE  /\ Good(a.window, a.route)
                      /\ \A i \in 1 .. Len(seen[a.route]) :
                           seen[a.route][i].anchor.number \in a.window[1].anchor.number .. a.window[3].anchor.number
                             => seen[a.route][i].gain
    BY DEF ApprovedGainedThrice
  <2>1. PICK s : s = seen[a.route]
    OBVIOUS
  <2>2. a.route \in Routes /\ Gains(a.window) /\ RunOf(a.window, s)
    BY <2>1 DEF WindowsInv, ApprovedAreRuns
  <2>3. s \in Seq(Entries) /\ Apart(s)
    BY <2>1, <2>2 DEF WindowsInv, Types, EvidenceIsSpaced
  <2>4. \A i \in 1 .. Len(s) : s[i].anchor.number \in Nat
    BY <2>1, <2>2, NumbersAreNat DEF WindowsInv
  <2>5. PICK k \in Nat : k + 3 <= Len(s) /\ \A i \in 1 .. 3 : a.window[i] = s[k + i]
    BY <2>2 DEF RunOf
  <2>6. Len(s) \in Nat /\ k + 1 \in 1 .. Len(s) /\ k + 2 \in 1 .. Len(s) /\ k + 3 \in 1 .. Len(s)
    BY <2>3, <2>5
  <2>7. a.window[1] = s[k + 1] /\ a.window[2] = s[k + 2] /\ a.window[3] = s[k + 3]
    BY <2>5
  <2>8. Good(a.window, a.route)
    <3>1. /\ s[k + 1].anchor.number + EveryN <= s[k + 2].anchor.number
          /\ s[k + 2].anchor.number + EveryN <= s[k + 3].anchor.number
      BY <2>3, <2>6 DEF Apart
    <3>2. \A i \in 1 .. 2 : a.window[i + 1].anchor.number - a.window[i].anchor.number >= EveryN
      <4>1. /\ s[k + 1].anchor.number \in Nat /\ s[k + 2].anchor.number \in Nat
            /\ s[k + 3].anchor.number \in Nat
        BY <2>4, <2>6
      <4>2. /\ a.window[2].anchor.number - a.window[1].anchor.number >= EveryN
            /\ a.window[3].anchor.number - a.window[2].anchor.number >= EveryN
        BY <2>7, <3>1, <4>1, LoopAssumption
      <4>3. \A i \in 1 .. 2 : (i = 1 /\ i + 1 = 2) \/ (i = 2 /\ i + 1 = 3)
        OBVIOUS
      <4> QED BY <4>2, <4>3
    <3> QED BY <2>2, <3>2 DEF Good, Gains
  <2>9. ASSUME NEW i \in 1 .. Len(s),
               s[i].anchor.number \in a.window[1].anchor.number .. a.window[3].anchor.number
        PROVE  s[i].gain
    <3>1. CASE i < k + 1
      <4>1. s[i].anchor.number + EveryN <= s[k + 1].anchor.number
        BY <2>3, <2>6, <3>1 DEF Apart
      <4> QED BY <4>1, <2>4, <2>6, <2>7, <2>9, LoopAssumption
    <3>2. CASE i > k + 3
      <4>1. s[k + 3].anchor.number + EveryN <= s[i].anchor.number
        BY <2>3, <2>6, <3>2 DEF Apart
      <4> QED BY <4>1, <2>4, <2>6, <2>7, <2>9, LoopAssumption
    <3>3. CASE i \in {k + 1, k + 2, k + 3}
      BY <3>3, <2>2, <2>7 DEF Gains
    <3> QED BY <3>1, <3>2, <3>3
  <2> QED BY <2>1, <2>8, <2>9
<1> QED BY WindowsInit, WindowsNext, <1>1, PTL DEF Spec

-------------------------------------------------------------------------------
(* Phase A.  What a pair has lost and what it has quoted add up at every   *)
(* stage of its task (TaskFits): before the reads, what is missing was not *)
(* found; after them, it is what one of its own words is missing of, for   *)
(* each word is looked for in its place (FitsIs); then state by state and  *)
(* quote by quote.                                                         *)
RequestsFit(p, reqs) ==
  /\ reqs \in Seq(Between(p)) /\ reqs # <<>>
  /\ \A i, j \in DOMAIN reqs : reqs[i] = reqs[j] => i = j
ReadsFit(reqs, reads) ==
  /\ DOMAIN reads = 1 .. Len(Packed(reqs))
  /\ \A x \in DOMAIN reads :
       \/ reads[x] = NoRead
       \/ reads[x].kind = Packed(reqs)[x].kind /\ reads[x].of = Packed(reqs)[x].pool
Unread(reqs, reads) ==
  {Packed(reqs)[x].pool : x \in {y \in 1 .. Len(Packed(reqs)) : reads[y] = NoRead}}
PoolsOf(edges) == {e.leg.pool : e \in edges}

Task(place, reqs, reads, states, next, edges) ==
  [at |-> place, reqs |-> reqs, reads |-> reads, states |-> states, next |-> next, edges |-> edges]

TaskFits(p, t, gone) ==
  /\ t = Task(t.at, t.reqs, t.reads, t.states, t.next, t.edges)
  /\ gone \subseteq Between(p)
  /\ \A q \in DOMAIN t.states : t.states[q].of = q
  /\ \A e \in t.edges :
       /\ e.leg = Leg(e.leg.pool, p[1], p[2]) /\ e.leg.pool \in Between(p)
       /\ e.leg.pool \in DOMAIN t.states
  /\ t.at \in {"wait", "resolve"} => gone = {}
  /\ t.at \in {"wait", "resolve", "read", "assemble"} => t.edges = {} /\ t.next = 1
  /\ t.at \in {"read", "assemble", "quote"} => RequestsFit(p, t.reqs)
  /\ t.at = "read" => gone = Between(p) \ ToSet(t.reqs)
  /\ t.at = "assemble" =>
       ReadsFit(t.reqs, t.reads) /\ gone = (Between(p) \ ToSet(t.reqs)) \cup Unread(t.reqs, t.reads)
  /\ t.at = "quote" =>
       /\ t.next \in 1 .. Len(t.reqs) /\ Between(p) \ ToSet(t.reqs) \subseteq gone
       /\ PoolsOf(t.edges) = {t.reqs[i] : i \in {j \in 1 .. Len(t.reqs) : j < t.next}} \ gone
       /\ \A i \in 1 .. Len(t.reqs) : i >= t.next => (t.reqs[i] \in DOMAIN t.states <=> t.reqs[i] \notin gone)
  /\ t.at = "done" => PoolsOf(t.edges) = Between(p) \ gone

LEMMA UpToIsFinite ==
  ASSUME NEW N \in Nat, NEW S, S \subseteq 1 .. N
  PROVE  IsFiniteSet(S) /\ Cardinality(S) \in Nat
<1>1. IsFiniteSet(1 .. N)
  BY FS_Interval
<1> QED BY <1>1, FS_Subset, FS_CardinalityType

LEMMA InOrderExists ==
  ASSUME NEW N \in Nat, NEW S, S \subseteq 1 .. N
  PROVE  \E s \in [1 .. Cardinality(S) -> S] : ToSet(s) = S /\ \A i, j \in DOMAIN s : i < j => s[i] < s[j]
<1> DEFINE Ordered(s, T) == ToSet(s) = T /\ \A i, j \in DOMAIN s : i < j => s[i] < s[j]
           I == {n \in Nat : \A T \in SUBSET (1 .. N) : Cardinality(T) = n => \E s \in [1 .. n -> T] : Ordered(s, T)}
<1>1. \A T \in SUBSET (1 .. N) : IsFiniteSet(T) /\ Cardinality(T) \in Nat
  BY UpToIsFinite
<1>2. 0 \in I
  <2> SUFFICES ASSUME NEW T \in SUBSET (1 .. N), Cardinality(T) = 0 PROVE \E s \in [1 .. 0 -> T] : Ordered(s, T)
    OBVIOUS
  <2>1. T = {}
    BY <1>1, FS_EmptySet
  <2> DEFINE s == [i \in 1 .. 0 |-> 0]
  <2>2. s \in [1 .. 0 -> T] /\ DOMAIN s = {}
    OBVIOUS
  <2>3. Ordered(s, T)
    <3> HIDE DEF s
    <3> QED BY <2>1, <2>2 DEF ToSet
  <2> QED BY <2>2, <2>3
<1>3. ASSUME NEW n \in Nat, n \in I PROVE n + 1 \in I
  <2> SUFFICES ASSUME NEW T \in SUBSET (1 .. N), Cardinality(T) = n + 1
               PROVE  \E s \in [1 .. n + 1 -> T] : Ordered(s, T)
    OBVIOUS
  <2> DEFINE D == {m \in Nat : \E x \in T : m = N - x}
  <2>1. T # {} /\ \A x \in T : N - x \in D
    <3>1. T # {}
      BY <1>1, FS_EmptySet
    <3> QED BY <3>1
  <2>2. PICK m \in D : \A y \in D : <<y, m>> \notin Smaller
    <3>1. D \subseteq Nat /\ D # {}
      BY <2>1
    <3> HIDE DEF D
    <3> QED BY <3>1, SmallerIsWellFounded, WFMin
  <2>3. PICK x \in T : m = N - x
    OBVIOUS
  <2>4. ASSUME NEW y \in T, y # x PROVE y < x
    <3>1. N - y \in D /\ N - y \in Nat /\ m \in Nat
      BY <2>1
    <3>2. ~(N - y < m)
      <4>1. <<N - y, m>> \notin Smaller
        BY <2>2, <3>1
      <4> QED BY <3>1, <4>1 DEF Smaller
    <3> QED BY <2>3, <2>4, <3>2
  <2> DEFINE R == T \ {x}
  <2>5. R \in SUBSET (1 .. N) /\ Cardinality(R) = n
    <3>1. Cardinality(T \ {x}) = Cardinality(T) - 1
      BY <1>1, FS_RemoveElement
    <3> QED BY <3>1
  <2>6. PICK r \in [1 .. n -> R] : Ordered(r, R)
    BY <1>3, <2>5
  <2> DEFINE s == [i \in 1 .. n + 1 |-> IF i = n + 1 THEN x ELSE r[i]]
  <2>7. s \in [1 .. n + 1 -> T] /\ s[n + 1] = x /\ \A i \in 1 .. n : s[i] = r[i] /\ s[i] \in R
    <3>1. \A i \in 1 .. n + 1 : i # n + 1 => i \in 1 .. n
      OBVIOUS
    <3>2. \A i \in 1 .. n : r[i] \in R /\ i \in 1 .. n + 1 /\ i # n + 1
      BY <2>6
    <3>3. n + 1 \in 1 .. n + 1
      OBVIOUS
    <3>4. \A i \in 1 .. n + 1 : (IF i = n + 1 THEN x ELSE r[i]) \in T
      BY <3>1, <3>2
    <3>5. s \in [1 .. n + 1 -> T]
      BY <3>4
    <3>6. s[n + 1] = x
      BY <3>3
    <3>7. \A i \in 1 .. n : s[i] = r[i]
      BY <3>2
    <3> QED BY <3>2, <3>5, <3>6, <3>7
  <2>8. DOMAIN s = 1 .. n + 1 /\ DOMAIN r = 1 .. n
    OBVIOUS
  <2> HIDE DEF s
  <2>9. ToSet(s) = T
    <3>1. \A y \in R : \E i \in 1 .. n : r[i] = y
      BY <2>6, <2>8 DEF ToSet
    <3>2. n + 1 \in DOMAIN s /\ \A i \in 1 .. n : i \in DOMAIN s
      BY <2>8
    <3>3. \A y \in T : \E i \in DOMAIN s : s[i] = y
      <4> SUFFICES ASSUME NEW y \in T PROVE \E i \in DOMAIN s : s[i] = y
        OBVIOUS
      <4>1. CASE y = x
        BY <2>7, <3>2, <4>1
      <4>2. CASE y \in R
        <5>1. PICK i \in 1 .. n : r[i] = y
          BY <3>1, <4>2
        <5> QED BY <2>7, <3>2, <5>1
      <4> QED BY <4>1, <4>2
    <3>4. \A i \in DOMAIN s : s[i] \in T
      BY <2>7
    <3> QED BY <3>3, <3>4 DEF ToSet
  <2>10. ASSUME NEW i \in 1 .. n + 1, NEW j \in 1 .. n + 1, i < j PROVE s[i] < s[j]
    <3>1. i \in 1 .. n
      BY <2>10
    <3>2. CASE j = n + 1
      BY <2>4, <2>7, <3>1, <3>2
    <3>3. CASE j \in 1 .. n
      BY <2>6, <2>7, <2>8, <2>10, <3>1, <3>3
    <3> QED BY <3>2, <3>3
  <2> QED BY <2>7, <2>8, <2>9, <2>10
<1>4. \A n \in Nat : n \in I
  <2> HIDE DEF I
  <2> QED BY <1>2, <1>3, SetInduction
<1>5. Cardinality(S) \in Nat
  BY <1>1
<1> QED BY <1>4, <1>5

LEMMA RequestsAreOrdered ==
  ASSUME NEW p, NEW pools, pools \subseteq Between(p)
  PROVE  /\ Requests(pools) \in Seq(Between(p)) /\ ToSet(Requests(pools)) = pools
         /\ Requests(pools) # <<>> => RequestsFit(p, Requests(pools))
         /\ Requests(pools) = <<>> <=> pools = {}
<1> DEFINE s == Requests(pools)
<1>1. pools \subseteq 1 .. 9
  BY RoundAssumption DEF Between
<1>2. /\ s \in [1 .. Cardinality(pools) -> pools] /\ ToSet(s) = pools
      /\ \A i, j \in DOMAIN s : i < j => s[i] < s[j]
  <2>1. 9 \in Nat
    OBVIOUS
  <2>2. \E r \in [1 .. Cardinality(pools) -> pools] : ToSet(r) = pools /\ \A i, j \in DOMAIN r : i < j => r[i] < r[j]
    BY <1>1, <2>1, InOrderExists
  <2> QED BY <2>2, Zenon DEF Requests
<1>3. Cardinality(pools) \in Nat
  <2>1. 9 \in Nat
    OBVIOUS
  <2> QED BY <1>1, <2>1, UpToIsFinite
<1> HIDE DEF s
<1>4. s \in Seq(pools) /\ s \in Seq(Between(p))
  <2> DEFINE n == Cardinality(pools)
  <2>1. s \in [1 .. n -> pools] /\ s \in [1 .. n -> Between(p)]
    BY <1>2
  <2> HIDE DEF n
  <2>2. n \in Nat
    BY <1>3 DEF n
  <2>3. \A S : s \in [1 .. n -> S] => s \in Seq(S)
    BY <2>2, SeqDef
  <2> QED BY <2>1, <2>3
<1>5. ASSUME NEW i \in DOMAIN s, NEW j \in DOMAIN s, s[i] = s[j] PROVE i = j
  <2>1. i \in Int /\ j \in Int /\ s[i] \in Int
    <3>1. s[i] \in pools /\ s[j] \in pools /\ i \in 1 .. Cardinality(pools) /\ j \in 1 .. Cardinality(pools)
      BY <1>2
    <3>2. s[i] \in 1 .. 9
      BY <1>1, <3>1
    <3>3. i \in Int /\ j \in Int
      BY <1>3, <3>1
    <3>4. s[i] \in Int
      BY <3>2
    <3> QED BY <3>3, <3>4
  <2>2. ~(i < j) /\ ~(j < i)
    BY <1>1, <1>2, <1>5, <2>1
  <2> QED BY <2>1, <2>2
<1>6. s = <<>> <=> pools = {}
  <2>1. s = <<>> => DOMAIN s = {}
    OBVIOUS
  <2>2. DOMAIN s = {} => s = <<>>
    <3>1. Len(s) \in Nat /\ DOMAIN s = 1 .. Len(s)
      BY <1>4, LenProperties
    <3> QED BY <1>4, <3>1, EmptySeq
  <2> QED BY <1>2, <2>1, <2>2 DEF ToSet
<1> QED BY <1>2, <1>4, <1>5, <1>6 DEF RequestsFit, s

WordKinds == {"reserves", "slot0", "liquidity", "fee"}
Words(q) == [k \in DOMAIN Subcalls(q) |-> [pool |-> q, kind |-> Subcalls(q)[k]]]
Lists(reqs) == [i \in DOMAIN reqs |-> Words(reqs[i])]
Place(reqs, i) == Len(Packed(SubSeq(reqs, 1, i - 1)))

LEMMA SubcallsAre ==
  ASSUME NEW q
  PROVE  /\ Subcalls(q) \in Seq(WordKinds) /\ Len(Subcalls(q)) \in Nat \ {0}
         /\ DOMAIN Subcalls(q) = 1 .. Len(Subcalls(q))
         /\ \A k \in 1 .. Len(Subcalls(q)) : Subcalls(q)[k] # "none"
<1>1. Subcalls(q) \in Seq(WordKinds)
  <2>1. {"reserves", "slot0", "liquidity", "fee"} = WordKinds
    BY DEF WordKinds
  <2>2. <<"reserves">> \in Seq({"reserves", "slot0", "liquidity", "fee"})
    OBVIOUS
  <2>3. <<"slot0", "liquidity", "fee">> \in Seq({"reserves", "slot0", "liquidity", "fee"})
    OBVIOUS
  <2>4. Subcalls(q) = <<"reserves">> \/ Subcalls(q) = <<"slot0", "liquidity", "fee">>
    BY DEF Subcalls
  <2> QED BY <2>1, <2>2, <2>3, <2>4
<1>2. Len(Subcalls(q)) \in Nat \ {0}
  BY DEF Subcalls
<1>3. \A k \in 1 .. Len(Subcalls(q)) : Subcalls(q)[k] \in WordKinds
  BY <1>1, <1>2, LenProperties
<1>4. \A w \in WordKinds : w # "none"
  BY DEF WordKinds
<1> QED BY <1>1, <1>2, <1>3, <1>4, LenProperties

LEMMA WordsAre ==
  ASSUME NEW S, NEW q \in S
  PROVE  /\ Words(q) \in Seq([pool : S, kind : WordKinds]) /\ Len(Words(q)) = Len(Subcalls(q))
         /\ \A k \in 1 .. Len(Subcalls(q)) : Words(q)[k] = [pool |-> q, kind |-> Subcalls(q)[k]]
<1> DEFINE n == Len(Subcalls(q))
           T == [pool : S, kind : WordKinds]
<1>1. n \in Nat /\ DOMAIN Subcalls(q) = 1 .. n
  BY SubcallsAre
<1>2. \A k \in 1 .. n : Subcalls(q)[k] \in WordKinds
  BY SubcallsAre, LenProperties
<1> HIDE DEF n
<1>3. Words(q) = [k \in 1 .. n |-> [pool |-> q, kind |-> Subcalls(q)[k]]]
  BY <1>1 DEF Words
<1>4. \A k \in 1 .. n : [pool |-> q, kind |-> Subcalls(q)[k]] \in T
  BY <1>2
<1> HIDE DEF T
<1>5. Words(q) \in [1 .. n -> T]
  BY <1>3, <1>4
<1>6. Words(q) \in Seq(T) /\ DOMAIN Words(q) = 1 .. n
  BY <1>1, <1>5, SeqDef
<1>7. Len(Words(q)) = n
  BY <1>1, <1>6, LenProperties
<1> QED BY <1>3, <1>6, <1>7 DEF n, T

LEMMA ListsAre ==
  ASSUME NEW S, NEW reqs \in Seq(S)
  PROVE  /\ Lists(reqs) \in Seq(Seq([pool : S, kind : WordKinds])) /\ Len(Lists(reqs)) = Len(reqs)
         /\ \A i \in 1 .. Len(reqs) : Lists(reqs)[i] = Words(reqs[i])
         /\ Packed(reqs) = FlattenSeq(Lists(reqs))
<1> DEFINE n == Len(reqs)
           T == Seq([pool : S, kind : WordKinds])
<1>1. n \in Nat /\ DOMAIN reqs = 1 .. n /\ \A i \in 1 .. n : reqs[i] \in S
  BY LenProperties
<1> HIDE DEF n
<1>2. \A i \in 1 .. n : Words(reqs[i]) \in T
  BY <1>1, WordsAre
<1>3. Lists(reqs) = [i \in 1 .. n |-> Words(reqs[i])]
  BY <1>1 DEF Lists
<1> HIDE DEF T
<1>4. Lists(reqs) \in [1 .. n -> T]
  BY <1>2, <1>3
<1>5. Lists(reqs) \in Seq(T) /\ DOMAIN Lists(reqs) = 1 .. n
  BY <1>1, <1>4, SeqDef
<1>6. Len(Lists(reqs)) = n
  BY <1>1, <1>5, LenProperties
<1>7. Packed(reqs) = FlattenSeq(Lists(reqs))
  BY Zenon DEF Packed, Lists, Words
<1> QED BY <1>3, <1>5, <1>6, <1>7 DEF n, T

(* What comes ahead of a pool's words is what the requests before its own  *)
(* take.                                                                   *)
LEMMA PlaceIs ==
  ASSUME NEW S, NEW reqs \in Seq(S), NEW i \in 1 .. Len(reqs)
  PROVE  Place(reqs, i) = LengthBefore(Lists(reqs), i)
<1> DEFINE m == i - 1
           part == SubSeq(reqs, 1, m)
           T == Seq([pool : S, kind : WordKinds])
<1>1. m \in Nat /\ m <= Len(reqs) /\ Len(reqs) \in Nat /\ \A j \in 1 .. Len(reqs) : reqs[j] \in S
  BY LenProperties
<1> HIDE DEF m
<1>2. /\ part \in Seq(S) /\ Len(part) = m /\ \A j \in 1 .. m : part[j] = reqs[j]
  <2>1. m \in Int /\ 1 \in Int /\ \A j \in 1 .. m : reqs[j] \in S
    BY <1>1
  <2>2. /\ part \in Seq(S) /\ Len(part) = IF 1 <= m THEN m - 1 + 1 ELSE 0
        /\ \A j \in 1 .. m - 1 + 1 : part[j] = reqs[1 + j - 1]
    BY <2>1, SubSeqProperties
  <2>3. m - 1 + 1 = m /\ (~(1 <= m) => m = 0) /\ \A j \in 1 .. m : 1 + j - 1 = j
    BY <1>1
  <2> HIDE DEF part
  <2> QED BY <2>2, <2>3
<1> DEFINE lists == Lists(reqs)
           short == SubSeq(lists, 1, m)
<1>3. lists \in Seq(T) /\ Len(lists) = Len(reqs) /\ \A j \in 1 .. Len(reqs) : lists[j] = Words(reqs[j]) /\ lists[j] \in T
  <2>1. lists \in Seq(T) /\ Len(lists) = Len(reqs) /\ \A j \in 1 .. Len(reqs) : lists[j] = Words(reqs[j])
    BY ListsAre
  <2> QED BY <2>1, LenProperties
<1> HIDE DEF lists, T
<1>4. short \in Seq(T) /\ Len(short) = m /\ \A j \in 1 .. m : short[j] = lists[j]
  <2>1. m \in Int /\ 1 \in Int /\ \A j \in 1 .. m : lists[j] \in T
    BY <1>1, <1>3
  <2>2. /\ short \in Seq(T) /\ Len(short) = IF 1 <= m THEN m - 1 + 1 ELSE 0
        /\ \A j \in 1 .. m - 1 + 1 : short[j] = lists[1 + j - 1]
    BY <2>1, SubSeqProperties
  <2>3. m - 1 + 1 = m /\ (~(1 <= m) => m = 0) /\ \A j \in 1 .. m : 1 + j - 1 = j
    BY <1>1
  <2> HIDE DEF short
  <2> QED BY <2>2, <2>3
<1> HIDE DEF part, short
<1>5. /\ Lists(part) \in Seq(T) /\ Len(Lists(part)) = m /\ \A j \in 1 .. m : Lists(part)[j] = Words(part[j])
      /\ Packed(part) = FlattenSeq(Lists(part))
  BY <1>2, ListsAre DEF T
<1>6. Lists(part) = short
  <2>1. \A j \in 1 .. m : Lists(part)[j] = short[j]
    BY <1>1, <1>2, <1>3, <1>4, <1>5
  <2> QED BY <1>4, <1>5, <2>1, SeqEqual
<1> QED BY <1>5, <1>6 DEF Place, LengthBefore, part, short, lists, m

LEMMA PackedIs ==
  ASSUME NEW S, NEW reqs \in Seq(S), reqs # <<>>
  PROVE  /\ Len(Packed(reqs)) \in Nat /\ DOMAIN Packed(reqs) = 1 .. Len(Packed(reqs))
         /\ \A i \in 1 .. Len(reqs) :
              /\ Place(reqs, i) \in Nat
              /\ \A k \in 1 .. Len(Subcalls(reqs[i])) :
                   /\ Place(reqs, i) + k \in 1 .. Len(Packed(reqs))
                   /\ Packed(reqs)[Place(reqs, i) + k] = [pool |-> reqs[i], kind |-> Subcalls(reqs[i])[k]]
         /\ \A x \in 1 .. Len(Packed(reqs)) :
              \E i \in 1 .. Len(reqs) : \E k \in 1 .. Len(Subcalls(reqs[i])) : x = Place(reqs, i) + k
<1> DEFINE lists == Lists(reqs)
           T == [pool : S, kind : WordKinds]
<1>1. /\ lists \in Seq(Seq(T)) /\ Len(lists) = Len(reqs) /\ Packed(reqs) = FlattenSeq(lists)
      /\ \A i \in 1 .. Len(reqs) : lists[i] = Words(reqs[i])
  BY ListsAre
<1>2. \A i \in 1 .. Len(reqs) : reqs[i] \in S
  BY LenProperties
<1>3. \A i \in 1 .. Len(reqs) :
        /\ Place(reqs, i) = LengthBefore(lists, i) /\ Len(lists[i]) = Len(Subcalls(reqs[i]))
        /\ \A k \in 1 .. Len(Subcalls(reqs[i])) : lists[i][k] = [pool |-> reqs[i], kind |-> Subcalls(reqs[i])[k]]
  <2> SUFFICES ASSUME NEW i \in 1 .. Len(reqs)
               PROVE  /\ Place(reqs, i) = LengthBefore(lists, i) /\ Len(lists[i]) = Len(Subcalls(reqs[i]))
                      /\ \A k \in 1 .. Len(Subcalls(reqs[i])) : lists[i][k] = [pool |-> reqs[i], kind |-> Subcalls(reqs[i])[k]]
    OBVIOUS
  <2>1. Place(reqs, i) = LengthBefore(lists, i)
    BY PlaceIs
  <2>2. Len(Words(reqs[i])) = Len(Subcalls(reqs[i]))
        /\ \A k \in 1 .. Len(Subcalls(reqs[i])) : Words(reqs[i])[k] = [pool |-> reqs[i], kind |-> Subcalls(reqs[i])[k]]
    BY <1>2, WordsAre
  <2> HIDE DEF lists
  <2> QED BY <1>1, <2>1, <2>2
<1> HIDE DEF lists, T
<1>4. lists # <<>>
  <2>1. Len(reqs) # 0
    BY EmptySeq
  <2>2. Len(<<>>) = 0
    OBVIOUS
  <2> QED BY <1>1, <2>1, <2>2
<1>5. /\ FlattenSeq(lists) \in Seq(T)
      /\ \A i \in 1 .. Len(lists) :
           /\ LengthBefore(lists, i) \in Nat
           /\ \A k \in 1 .. Len(lists[i]) :
                /\ LengthBefore(lists, i) + k \in 1 .. Len(FlattenSeq(lists))
                /\ FlattenSeq(lists)[LengthBefore(lists, i) + k] = lists[i][k]
      /\ \A x \in 1 .. Len(FlattenSeq(lists)) :
           \E i \in 1 .. Len(lists) : \E k \in 1 .. Len(lists[i]) : x = LengthBefore(lists, i) + k
  BY <1>1, <1>4, FlattenPlaces
<1>6. Len(Packed(reqs)) \in Nat /\ DOMAIN Packed(reqs) = 1 .. Len(Packed(reqs))
  BY <1>1, <1>5, LenProperties
<1>7. \A i \in 1 .. Len(reqs) :
        /\ Place(reqs, i) \in Nat
        /\ \A k \in 1 .. Len(Subcalls(reqs[i])) :
             /\ Place(reqs, i) + k \in 1 .. Len(Packed(reqs))
             /\ Packed(reqs)[Place(reqs, i) + k] = [pool |-> reqs[i], kind |-> Subcalls(reqs[i])[k]]
  <2> SUFFICES ASSUME NEW i \in 1 .. Len(reqs)
               PROVE  /\ Place(reqs, i) \in Nat
                      /\ \A k \in 1 .. Len(Subcalls(reqs[i])) :
                           /\ Place(reqs, i) + k \in 1 .. Len(Packed(reqs))
                           /\ Packed(reqs)[Place(reqs, i) + k] = [pool |-> reqs[i], kind |-> Subcalls(reqs[i])[k]]
    OBVIOUS
  <2>1. i \in 1 .. Len(lists) /\ Place(reqs, i) = LengthBefore(lists, i) /\ Len(lists[i]) = Len(Subcalls(reqs[i]))
    BY <1>1, <1>3
  <2>2. \A k \in 1 .. Len(Subcalls(reqs[i])) : lists[i][k] = [pool |-> reqs[i], kind |-> Subcalls(reqs[i])[k]]
    BY <1>3
  <2>3. /\ LengthBefore(lists, i) \in Nat
        /\ \A k \in 1 .. Len(lists[i]) :
             /\ LengthBefore(lists, i) + k \in 1 .. Len(Packed(reqs))
             /\ Packed(reqs)[LengthBefore(lists, i) + k] = lists[i][k]
    BY <1>1, <1>5, <2>1
  <2>4. /\ Place(reqs, i) \in Nat
        /\ \A k \in 1 .. Len(Subcalls(reqs[i])) :
             /\ Place(reqs, i) + k \in 1 .. Len(Packed(reqs))
             /\ Packed(reqs)[Place(reqs, i) + k] = lists[i][k]
    BY <2>1, <2>3, Zenon
  <2> QED BY <2>2, <2>4, Zenon
<1>8. \A x \in 1 .. Len(Packed(reqs)) :
        \E i \in 1 .. Len(reqs) : \E k \in 1 .. Len(Subcalls(reqs[i])) : x = Place(reqs, i) + k
  <2> SUFFICES ASSUME NEW x \in 1 .. Len(Packed(reqs))
               PROVE  \E i \in 1 .. Len(reqs) : \E k \in 1 .. Len(Subcalls(reqs[i])) : x = Place(reqs, i) + k
    OBVIOUS
  <2>1. PICK i \in 1 .. Len(lists) : \E k \in 1 .. Len(lists[i]) : x = LengthBefore(lists, i) + k
    BY <1>1, <1>5
  <2>2. PICK k \in 1 .. Len(lists[i]) : x = LengthBefore(lists, i) + k
    BY <2>1
  <2>3. i \in 1 .. Len(reqs) /\ Place(reqs, i) = LengthBefore(lists, i) /\ Len(lists[i]) = Len(Subcalls(reqs[i]))
    BY <1>1, <1>3
  <2>4. k \in 1 .. Len(Subcalls(reqs[i])) /\ x = Place(reqs, i) + k
    BY <2>2, <2>3
  <2> QED BY <2>3, <2>4
<1> QED BY <1>6, <1>7, <1>8

LEMMA FitsIs ==
  ASSUME NEW p, NEW t, RequestsFit(p, t.reqs), ReadsFit(t.reqs, t.reads), NEW i \in 1 .. Len(t.reqs)
  PROVE  /\ Fits(t, i) <=> t.reqs[i] \notin Unread(t.reqs, t.reads)
         /\ Fits(t, i) => State(t, i).of = t.reqs[i]
<1> DEFINE reqs == t.reqs
           reads == t.reads
           q == reqs[i]
           c == Len(Subcalls(q))
           a == Place(reqs, i)
           N == Len(Packed(reqs))
<1>1. /\ reqs \in Seq(Between(p)) /\ reqs # <<>>
      /\ \A k, j \in DOMAIN reqs : reqs[k] = reqs[j] => k = j
  BY DEF RequestsFit
<1>2. c \in Nat \ {0} /\ \A k \in 1 .. c : Subcalls(q)[k] # "none"
  BY SubcallsAre
<1>3. /\ N \in Nat /\ a \in Nat
      /\ \A k \in 1 .. c : a + k \in 1 .. N /\ Packed(reqs)[a + k] = [pool |-> q, kind |-> Subcalls(q)[k]]
  BY <1>1, PackedIs
<1>13. \A k \in 1 .. c : a + k \in 1 .. N /\ Packed(reqs)[a + k].pool = q /\ Packed(reqs)[a + k].kind = Subcalls(q)[k]
  <2> HIDE DEF c, a, N, q, reqs
  <2> SUFFICES ASSUME NEW k \in 1 .. c
               PROVE  a + k \in 1 .. N /\ Packed(reqs)[a + k].pool = q /\ Packed(reqs)[a + k].kind = Subcalls(q)[k]
    OBVIOUS
  <2> DEFINE w == Subcalls(q)[k]
             call == Packed(reqs)[a + k]
  <2>1. a + k \in 1 .. N /\ call = [pool |-> q, kind |-> w]
    BY <1>3
  <2> HIDE DEF w, call
  <2>2. call.pool = q /\ call.kind = w
    BY <2>1
  <2> QED BY <2>1, <2>2 DEF w, call
<1>4. ASSUME NEW x \in 1 .. N, Packed(reqs)[x].pool = q
      PROVE  \E k \in 1 .. c : x = a + k
  <2>1. PICK j \in 1 .. Len(reqs) : \E k \in 1 .. Len(Subcalls(reqs[j])) : x = Place(reqs, j) + k
    BY <1>1, PackedIs
  <2>2. PICK k \in 1 .. Len(Subcalls(reqs[j])) : x = Place(reqs, j) + k
    BY <2>1
  <2>3. Packed(reqs)[Place(reqs, j) + k] = [pool |-> reqs[j], kind |-> Subcalls(reqs[j])[k]]
    BY <1>1, PackedIs
  <2>4. reqs[j] = q
    BY <1>4, <2>2, <2>3
  <2>5. i \in DOMAIN reqs /\ j \in DOMAIN reqs
    BY <1>1, LenProperties
  <2>6. j = i
    BY <1>1, <2>4, <2>5
  <2> QED BY <2>2, <2>6
<1>5. \A x \in 1 .. N :
        \/ reads[x] = NoRead
        \/ reads[x].kind = Packed(reqs)[x].kind /\ reads[x].of = Packed(reqs)[x].pool
  <2>1. DOMAIN reads = 1 .. N
    BY Zenon DEF ReadsFit
  <2>2. \A x \in DOMAIN reads :
          \/ reads[x] = NoRead
          \/ reads[x].kind = Packed(reqs)[x].kind /\ reads[x].of = Packed(reqs)[x].pool
    BY Zenon DEF ReadsFit
  <2> HIDE DEF reads, N
  <2> QED BY <2>1, <2>2
(* The words of this pool.                                                 *)
<1> DEFINE words == SubSeq(reads, 1 + a, 1 + a + c - 1)
<1>6. WordsOf(t, i) = words
  BY Zenon DEF WordsOf, SubcallIndex, Place
<1> HIDE DEF c, a, N
<1>7. Len(words) = c /\ DOMAIN words = 1 .. c /\ \A k \in 1 .. c : words[k] = reads[a + k]
  <2> DEFINE S == {reads[x] : x \in 1 .. N}
             l == 1 + a
             h == 1 + a + c - 1
  <2>1. l \in Int /\ h \in Int /\ h - l + 1 = c /\ l <= h /\ \A k \in 1 .. c : l + k - 1 = a + k
    BY <1>2, <1>3
  <2>2. ASSUME NEW x \in l .. h PROVE reads[x] \in S
    <3>1. x - a \in 1 .. c /\ a + (x - a) = x
      BY <1>2, <1>3
    <3>2. x \in 1 .. N
      BY <1>3, <3>1
    <3> QED BY <3>2
  <2> HIDE DEF S, l, h
  <2>3. /\ SubSeq(reads, l, h) \in Seq(S)
        /\ Len(SubSeq(reads, l, h)) = IF l <= h THEN h - l + 1 ELSE 0
        /\ \A k \in 1 .. h - l + 1 : SubSeq(reads, l, h)[k] = reads[l + k - 1]
    BY <2>1, <2>2, SubSeqProperties
  <2>4. Len(SubSeq(reads, l, h)) = c /\ \A k \in 1 .. c : SubSeq(reads, l, h)[k] = reads[a + k]
    BY <2>1, <2>3
  <2>5. DOMAIN SubSeq(reads, l, h) = 1 .. c
    BY <2>3, <2>4, LenProperties
  <2> QED BY <2>4, <2>5 DEF l, h
<1> HIDE DEF words
<1>8. Fits(t, i) <=> \A k \in 1 .. c : words[k].kind = Subcalls(q)[k]
  BY <1>6, <1>7, Zenon DEF Fits, c
<1>9. ASSUME NEW k \in 1 .. c
      PROVE  /\ words[k].kind = Subcalls(q)[k] <=> reads[a + k] # NoRead
             /\ reads[a + k] # NoRead => words[k].of = q
  <2>1. NoRead.kind = "none" /\ Subcalls(q)[k] # "none"
    BY <1>2 DEF NoRead
  <2>2. Packed(reqs)[a + k].pool = q /\ Packed(reqs)[a + k].kind = Subcalls(q)[k] /\ a + k \in 1 .. N
    BY <1>13, Zenon
  <2>3. reads[a + k] = NoRead \/ (reads[a + k].kind = Subcalls(q)[k] /\ reads[a + k].of = q)
    BY <1>5, <2>2
  <2> QED BY <1>7, <2>1, <2>3
<1>10. q \in Unread(reqs, reads) <=> \E k \in 1 .. c : reads[a + k] = NoRead
  <2>1. q \in Unread(reqs, reads) <=> \E x \in 1 .. N : reads[x] = NoRead /\ Packed(reqs)[x].pool = q
    BY DEF Unread, N
  <2>2. \A k \in 1 .. c : a + k \in 1 .. N /\ Packed(reqs)[a + k].pool = q
    BY <1>13, Zenon
  <2> QED BY <1>4, <2>1, <2>2
<1>11. Fits(t, i) <=> q \notin Unread(reqs, reads)
  BY <1>8, <1>9, <1>10
<1>12. Fits(t, i) => State(t, i).of = q
  <2> SUFFICES ASSUME Fits(t, i) PROVE State(t, i).of = q
    OBVIOUS
  <2>1. 1 \in 1 .. c
    BY <1>2
  <2>2. words[1].of = q
    BY <1>8, <1>9, <2>1
  <2> QED BY <1>6, <2>2 DEF State
<1> QED BY <1>11, <1>12

LEMMA WaitingFits ==
  ASSUME NEW p
  PROVE  TaskFits(p, Waiting, {})
<1>1. DOMAIN Waiting.states = {} /\ Waiting.edges = {} /\ Waiting.next = 1 /\ Waiting.at = "wait"
  BY DEF Waiting
<1>2. Waiting = Task(Waiting.at, Waiting.reqs, Waiting.reads, Waiting.states, Waiting.next, Waiting.edges)
  BY DEF Waiting, Task
<1> QED BY <1>1, <1>2 DEF TaskFits

LEMMA BegunFits ==
  ASSUME NEW p, NEW t, NEW gone, TaskFits(p, t, gone), t.at = "wait"
  PROVE  TaskFits(p, Task("resolve", t.reqs, t.reads, t.states, t.next, t.edges), gone)
BY DEF TaskFits, Task

LEMMA ResolvedFits ==
  ASSUME NEW p, NEW t, NEW gone, TaskFits(p, t, gone), t.at = "resolve",
         NEW missed \in SUBSET Between(p), NEW reqs, reqs = Requests(Between(p) \ missed)
  PROVE  TaskFits(p, Task(IF reqs = <<>> THEN "done" ELSE "read", reqs, t.reads, t.states, t.next, t.edges), gone \cup missed)
<1>1. gone = {} /\ t.edges = {} /\ t.next = 1 /\ \A q \in DOMAIN t.states : t.states[q].of = q
  BY DEF TaskFits
<1>2. /\ ToSet(reqs) = Between(p) \ missed
      /\ reqs # <<>> => RequestsFit(p, reqs)
      /\ reqs = <<>> <=> Between(p) \ missed = {}
  <2>1. Between(p) \ missed \subseteq Between(p)
    OBVIOUS
  <2> QED BY <2>1, RequestsAreOrdered
<1>3. PoolsOf({}) = {}
  BY DEF PoolsOf
<1> DEFINE n == Task(IF reqs = <<>> THEN "done" ELSE "read", reqs, t.reads, t.states, t.next, t.edges)
<1>4. /\ n.at = (IF reqs = <<>> THEN "done" ELSE "read") /\ n.reqs = reqs /\ n.reads = t.reads
      /\ n.states = t.states /\ n.next = t.next /\ n.edges = t.edges
  BY DEF Task
<1>5. n = Task(n.at, n.reqs, n.reads, n.states, n.next, n.edges)
  BY DEF Task
<1> HIDE DEF n
<1> QED BY <1>1, <1>2, <1>3, <1>4, <1>5 DEF TaskFits, n

LEMMA CallsAre ==
  ASSUME NEW p, NEW reqs, RequestsFit(p, reqs)
  PROVE  /\ Len(Packed(reqs)) \in Nat /\ DOMAIN Packed(reqs) = 1 .. Len(Packed(reqs))
         /\ \A x \in 1 .. Len(Packed(reqs)) : Packed(reqs)[x].pool \in Between(p) /\ Packed(reqs)[x].kind # "none"
<1>1. reqs \in Seq(Between(p)) /\ reqs # <<>>
  BY DEF RequestsFit
<1>2. Len(Packed(reqs)) \in Nat /\ DOMAIN Packed(reqs) = 1 .. Len(Packed(reqs))
  BY <1>1, PackedIs
<1>3. ASSUME NEW x \in 1 .. Len(Packed(reqs))
      PROVE  Packed(reqs)[x].pool \in Between(p) /\ Packed(reqs)[x].kind # "none"
  <2>1. PICK i \in 1 .. Len(reqs) : \E k \in 1 .. Len(Subcalls(reqs[i])) : x = Place(reqs, i) + k
    BY <1>1, PackedIs
  <2>2. PICK k \in 1 .. Len(Subcalls(reqs[i])) : x = Place(reqs, i) + k
    BY <2>1
  <2>3. Packed(reqs)[Place(reqs, i) + k] = [pool |-> reqs[i], kind |-> Subcalls(reqs[i])[k]]
    BY <1>1, PackedIs
  <2>4. reqs[i] \in Between(p)
    BY <1>1, LenProperties
  <2>5. Subcalls(reqs[i])[k] # "none"
    BY SubcallsAre
  <2> QED BY <2>2, <2>3, <2>4, <2>5
<1> QED BY <1>2, <1>3

LEMMA ReadFits ==
  ASSUME NEW p, NEW t, NEW gone, TaskFits(p, t, gone), t.at = "read", NEW reads, ReadsFit(t.reqs, reads)
  PROVE  /\ TaskFits(p, Task("assemble", t.reqs, reads, t.states, t.next, t.edges), gone \cup Unread(t.reqs, reads))
         /\ Unread(t.reqs, reads) \subseteq Between(p)
<1>1. RequestsFit(p, t.reqs) /\ gone = Between(p) \ ToSet(t.reqs) /\ t.edges = {} /\ t.next = 1
      /\ \A q \in DOMAIN t.states : t.states[q].of = q
  BY DEF TaskFits
<1>2. \A x \in 1 .. Len(Packed(t.reqs)) : Packed(t.reqs)[x].pool \in Between(p)
  BY <1>1, CallsAre
<1> DEFINE pools == Unread(t.reqs, reads)
<1>3. pools \subseteq Between(p)
  BY <1>2 DEF Unread
<1> DEFINE n == Task("assemble", t.reqs, reads, t.states, t.next, t.edges)
<1>4. /\ n.at = "assemble" /\ n.reqs = t.reqs /\ n.reads = reads
      /\ n.states = t.states /\ n.next = t.next /\ n.edges = t.edges
      /\ n = Task(n.at, n.reqs, n.reads, n.states, n.next, n.edges)
  BY DEF Task
<1> HIDE DEF n
<1> DEFINE more == gone \cup pools
<1>5. more \subseteq Between(p) /\ more = (Between(p) \ ToSet(t.reqs)) \cup Unread(t.reqs, reads)
  BY <1>1, <1>3
<1> HIDE DEF more
<1>6. TaskFits(p, n, more)
  BY <1>1, <1>4, <1>5 DEF TaskFits
<1> QED BY <1>3, <1>6, Zenon DEF n, more

LEMMA AllWordsArePools ==
  ASSUME NEW p, NEW reqs, RequestsFit(p, reqs)
  PROVE  {Packed(reqs)[x].pool : x \in 1 .. Len(Packed(reqs))} = ToSet(reqs)
<1>1. reqs \in Seq(Between(p)) /\ reqs # <<>> /\ DOMAIN reqs = 1 .. Len(reqs)
  BY LenProperties DEF RequestsFit
<1>2. ASSUME NEW x \in 1 .. Len(Packed(reqs)) PROVE Packed(reqs)[x].pool \in ToSet(reqs)
  <2>1. PICK i \in 1 .. Len(reqs) : \E k \in 1 .. Len(Subcalls(reqs[i])) : x = Place(reqs, i) + k
    BY <1>1, PackedIs
  <2>2. PICK k \in 1 .. Len(Subcalls(reqs[i])) : x = Place(reqs, i) + k
    BY <2>1
  <2>3. Packed(reqs)[Place(reqs, i) + k] = [pool |-> reqs[i], kind |-> Subcalls(reqs[i])[k]]
    BY <1>1, PackedIs
  <2>4. Packed(reqs)[x].pool = reqs[i]
    BY <2>2, <2>3
  <2> QED BY <1>1, <2>4 DEF ToSet
<1>3. ASSUME NEW i \in 1 .. Len(reqs)
      PROVE  \E x \in 1 .. Len(Packed(reqs)) : Packed(reqs)[x].pool = reqs[i]
  <2>1. 1 \in 1 .. Len(Subcalls(reqs[i]))
    BY SubcallsAre
  <2>2. /\ Place(reqs, i) + 1 \in 1 .. Len(Packed(reqs))
        /\ Packed(reqs)[Place(reqs, i) + 1] = [pool |-> reqs[i], kind |-> Subcalls(reqs[i])[1]]
    BY <1>1, <2>1, PackedIs
  <2>3. Packed(reqs)[Place(reqs, i) + 1].pool = reqs[i]
    BY <2>2
  <2> QED BY <2>2, <2>3
<1>4. \A y \in ToSet(reqs) : \E i \in 1 .. Len(reqs) : y = reqs[i]
  BY <1>1 DEF ToSet
<1> QED BY <1>2, <1>3, <1>4

(* The states that are kept: of the pools that are whole and not missed.   *)
StatesFit(t, missed, states) ==
  /\ missed \subseteq ToSet(t.reqs)
  /\ \A q : q \in DOMAIN states <=> q \notin missed /\ \E i \in 1 .. Len(t.reqs) : Fits(t, i) /\ t.reqs[i] = q
  /\ \A q \in DOMAIN states : \E i \in 1 .. Len(t.reqs) : Fits(t, i) /\ t.reqs[i] = q /\ states[q] = State(t, i)

LEMMA AssembledFits ==
  ASSUME NEW p, NEW t, NEW gone, TaskFits(p, t, gone), t.at = "assemble",
         NEW missed, NEW states, StatesFit(t, missed, states)
  PROVE  /\ TaskFits(p, Task("quote", t.reqs, <<>>, states, t.next, t.edges), gone \cup missed)
         /\ missed \subseteq Between(p)
<1> DEFINE n == Len(t.reqs)
<1>1. /\ RequestsFit(p, t.reqs) /\ ReadsFit(t.reqs, t.reads) /\ t.edges = {} /\ t.next = 1
      /\ gone = (Between(p) \ ToSet(t.reqs)) \cup Unread(t.reqs, t.reads) /\ gone \subseteq Between(p)
  BY DEF TaskFits
<1>2. /\ t.reqs \in Seq(Between(p)) /\ n \in Nat \ {0} /\ DOMAIN t.reqs = 1 .. n
      /\ \A i \in 1 .. n : t.reqs[i] \in Between(p)
      /\ \A i, j \in 1 .. n : t.reqs[i] = t.reqs[j] => i = j
  <2>1. t.reqs \in Seq(Between(p)) /\ t.reqs # <<>> /\ \A i, j \in DOMAIN t.reqs : t.reqs[i] = t.reqs[j] => i = j
    BY <1>1 DEF RequestsFit
  <2>2. n \in Nat /\ DOMAIN t.reqs = 1 .. n /\ \A i \in 1 .. n : t.reqs[i] \in Between(p)
    BY <2>1, LenProperties
  <2>3. n # 0
    BY <2>1, EmptySeq
  <2> QED BY <2>1, <2>2, <2>3
<1>3. \A i \in 1 .. n :
        /\ Fits(t, i) <=> t.reqs[i] \notin Unread(t.reqs, t.reads)
        /\ Fits(t, i) => State(t, i).of = t.reqs[i]
  BY <1>1, FitsIs
<1>6. ASSUME NEW q \in DOMAIN states PROVE states[q].of = q
  <2>1. PICK j \in 1 .. n : Fits(t, j) /\ t.reqs[j] = q /\ states[q] = State(t, j)
    BY DEF StatesFit
  <2> QED BY <1>3, <2>1
<1>7. missed \subseteq Between(p)
  BY <1>2 DEF StatesFit, ToSet
<1>8. ASSUME NEW i \in 1 .. n PROVE t.reqs[i] \in DOMAIN states <=> t.reqs[i] \notin gone \cup missed
  <2>1. t.reqs[i] \in ToSet(t.reqs)
    BY <1>2 DEF ToSet
  <2>2. t.reqs[i] \in gone <=> ~Fits(t, i)
    BY <1>1, <1>3, <2>1
  <2>3. t.reqs[i] \in DOMAIN states <=> t.reqs[i] \notin missed /\ \E j \in 1 .. n : Fits(t, j) /\ t.reqs[j] = t.reqs[i]
    BY DEF StatesFit
  <2>4. (\E j \in 1 .. n : Fits(t, j) /\ t.reqs[j] = t.reqs[i]) <=> Fits(t, i)
    BY <1>2
  <2> QED BY <2>2, <2>3, <2>4
<1>9. PoolsOf({}) = {}
  BY DEF PoolsOf
<1> DEFINE u == Task("quote", t.reqs, <<>>, states, t.next, t.edges)
           more == gone \cup missed
<1>10. /\ u.at = "quote" /\ u.reqs = t.reqs /\ u.states = states /\ u.next = 1 /\ u.edges = {}
       /\ u = Task(u.at, u.reqs, u.reads, u.states, u.next, u.edges)
  BY <1>1 DEF Task
<1> HIDE DEF u
<1>11. /\ more \subseteq Between(p) /\ Between(p) \ ToSet(t.reqs) \subseteq more
       /\ \A i \in 1 .. n : t.reqs[i] \in DOMAIN states <=> t.reqs[i] \notin more
  BY <1>1, <1>7, <1>8
<1> HIDE DEF more
<1>12. {t.reqs[i] : i \in {j \in 1 .. Len(t.reqs) : j < 1}} \ more = {}
  BY <1>2
<1>13. TaskFits(p, u, more)
  <2>1. /\ \A q \in DOMAIN u.states : u.states[q].of = q
        /\ \A e \in u.edges :
             /\ e.leg = Leg(e.leg.pool, p[1], p[2]) /\ e.leg.pool \in Between(p)
             /\ e.leg.pool \in DOMAIN u.states
    BY <1>6, <1>10
  <2>2. /\ u.next \in 1 .. Len(u.reqs) /\ Between(p) \ ToSet(u.reqs) \subseteq more
        /\ PoolsOf(u.edges) = {u.reqs[i] : i \in {j \in 1 .. Len(u.reqs) : j < u.next}} \ more
    BY <1>2, <1>9, <1>10, <1>11, <1>12
  <2>3. \A i \in 1 .. Len(u.reqs) : i >= u.next => (u.reqs[i] \in DOMAIN u.states <=> u.reqs[i] \notin more)
    BY <1>10, <1>11
  <2>4. u.at = "quote" /\ u = Task(u.at, u.reqs, u.reads, u.states, u.next, u.edges)
    BY <1>10
  <2>5. RequestsFit(p, u.reqs)
    BY <1>1, <1>10
  <2> QED BY <1>11, <2>1, <2>2, <2>3, <2>4, <2>5 DEF TaskFits
<1> QED BY <1>7, <1>13 DEF u, more

(* The pool whose turn it is has been quoted, or the pair has lost it.     *)
LEMMA TurnFits ==
  ASSUME NEW p, NEW t, NEW gone, TaskFits(p, t, gone), t.at = "quote",
         NEW edges, NEW more,
         \/ /\ more = gone /\ t.reqs[t.next] \in DOMAIN t.states
            /\ \E e : edges = t.edges \cup {e} /\ e.leg = Leg(t.reqs[t.next], p[1], p[2])
         \/ more = gone \cup {t.reqs[t.next]} /\ edges = t.edges
  PROVE  /\ TaskFits(p, Task(IF t.next = Len(t.reqs) THEN "done" ELSE "quote", t.reqs, t.reads, t.states, t.next + 1, edges), more)
         /\ t.reqs[t.next] \in Between(p)
         /\ t.reqs[t.next] \notin DOMAIN t.states => t.reqs[t.next] \in gone
<1> DEFINE n == Len(t.reqs)
           q == t.reqs[t.next]
<1>1. /\ RequestsFit(p, t.reqs) /\ t.next \in 1 .. n /\ gone \subseteq Between(p)
      /\ Between(p) \ ToSet(t.reqs) \subseteq gone
      /\ PoolsOf(t.edges) = {t.reqs[i] : i \in {j \in 1 .. n : j < t.next}} \ gone
      /\ \A i \in 1 .. n : i >= t.next => (t.reqs[i] \in DOMAIN t.states <=> t.reqs[i] \notin gone)
      /\ \A s \in DOMAIN t.states : t.states[s].of = s
      /\ \A e \in t.edges :
           /\ e.leg = Leg(e.leg.pool, p[1], p[2]) /\ e.leg.pool \in Between(p)
           /\ e.leg.pool \in DOMAIN t.states
  BY DEF TaskFits
<1>2. /\ n \in Nat /\ DOMAIN t.reqs = 1 .. n /\ \A i \in 1 .. n : t.reqs[i] \in Between(p)
      /\ \A i, j \in 1 .. n : t.reqs[i] = t.reqs[j] => i = j
  <2>1. t.reqs \in Seq(Between(p)) /\ \A i, j \in DOMAIN t.reqs : t.reqs[i] = t.reqs[j] => i = j
    BY <1>1 DEF RequestsFit
  <2> QED BY <2>1, LenProperties
<1>3. q \in Between(p) /\ (q \notin gone <=> q \in DOMAIN t.states)
  BY <1>1, <1>2
<1>4. more \subseteq Between(p) /\ gone \subseteq more /\ (more = gone \/ more = gone \cup {q})
  BY <1>1, <1>3
<1>5. {t.reqs[i] : i \in {j \in 1 .. n : j < t.next + 1}} = {t.reqs[i] : i \in {j \in 1 .. n : j < t.next}} \cup {q}
  <2>1. {j \in 1 .. n : j < t.next + 1} = {j \in 1 .. n : j < t.next} \cup {t.next}
    BY <1>1, <1>2
  <2> QED BY <2>1
<1>6. q \notin {t.reqs[i] : i \in {j \in 1 .. n : j < t.next}}
  BY <1>1, <1>2
<1>7. PoolsOf(edges) = {t.reqs[i] : i \in {j \in 1 .. n : j < t.next + 1}} \ more
  <2>1. CASE more = gone \cup {q} /\ edges = t.edges
    BY <1>1, <1>5, <1>6, <2>1
  <2>2. CASE /\ more = gone /\ q \in DOMAIN t.states
             /\ \E e : edges = t.edges \cup {e} /\ e.leg = Leg(q, p[1], p[2])
    <3>1. PICK e : edges = t.edges \cup {e} /\ e.leg = Leg(q, p[1], p[2])
      BY <2>2
    <3>2. e.leg.pool = q
      BY <3>1 DEF Leg
    <3>3. PoolsOf(edges) = PoolsOf(t.edges) \cup {q}
      BY <3>1, <3>2 DEF PoolsOf
    <3> HIDE DEF q
    <3> QED BY <1>1, <1>3, <1>5, <2>2, <3>3
  <2> QED BY <2>1, <2>2
<1>8. \A e \in edges :
        /\ e.leg = Leg(e.leg.pool, p[1], p[2]) /\ e.leg.pool \in Between(p)
        /\ e.leg.pool \in DOMAIN t.states
  <2>1. CASE edges = t.edges
    BY <1>1, <2>1
  <2>2. CASE /\ q \in DOMAIN t.states
             /\ \E e : edges = t.edges \cup {e} /\ e.leg = Leg(q, p[1], p[2])
    <3>1. PICK e : edges = t.edges \cup {e} /\ e.leg = Leg(q, p[1], p[2])
      BY <2>2
    <3>2. e.leg.pool = q
      BY <3>1 DEF Leg
    <3> HIDE DEF q
    <3> QED BY <1>1, <1>3, <2>2, <3>1, <3>2
  <2> QED BY <2>1, <2>2
<1> DEFINE place == IF t.next = Len(t.reqs) THEN "done" ELSE "quote"
           u == Task(place, t.reqs, t.reads, t.states, t.next + 1, edges)
<1>9. /\ u.at = place /\ u.reqs = t.reqs /\ u.states = t.states /\ u.next = t.next + 1 /\ u.edges = edges
      /\ u = Task(u.at, u.reqs, u.reads, u.states, u.next, u.edges)
  BY DEF Task
<1>10. (place = "done" /\ t.next = n) \/ (place = "quote" /\ t.next < n)
  BY <1>1, <1>2
<1> HIDE DEF u, place
<1>11. TaskFits(p, u, more)
  <2>1. /\ more \subseteq Between(p)
        /\ \A s \in DOMAIN u.states : u.states[s].of = s
        /\ \A e \in u.edges :
             /\ e.leg = Leg(e.leg.pool, p[1], p[2]) /\ e.leg.pool \in Between(p)
             /\ e.leg.pool \in DOMAIN u.states
    BY <1>1, <1>4, <1>8, <1>9
  <2>2. CASE place = "quote" /\ t.next < n
    <3>1. u.next \in 1 .. Len(u.reqs) /\ Between(p) \ ToSet(u.reqs) \subseteq more
      BY <1>1, <1>2, <1>4, <1>9, <2>2
    <3>2. PoolsOf(u.edges) = {u.reqs[i] : i \in {j \in 1 .. Len(u.reqs) : j < u.next}} \ more
      BY <1>7, <1>9
    <3>3. ASSUME NEW i \in 1 .. Len(u.reqs), i >= u.next
          PROVE  u.reqs[i] \in DOMAIN u.states <=> u.reqs[i] \notin more
      <4>1. i \in 1 .. n /\ i >= t.next /\ i # t.next
        BY <1>1, <1>2, <1>9, <3>3
      <4>2. t.reqs[i] # q /\ t.next \in 1 .. n
        BY <1>1, <1>2, <4>1
      <4>3. t.reqs[i] \in DOMAIN t.states <=> t.reqs[i] \notin gone
        BY <1>1, <4>1
      <4> HIDE DEF q
      <4> QED BY <1>4, <1>9, <4>2, <4>3
    <3>4. u.at = "quote" /\ RequestsFit(p, u.reqs)
      BY <1>1, <1>9, <2>2
    <3> QED BY <1>9, <2>1, <3>1, <3>2, <3>3, <3>4 DEF TaskFits
  <2>3. CASE place = "done" /\ t.next = n
    <3>1. {j \in 1 .. n : j < t.next + 1} = 1 .. n
      BY <1>1, <1>2, <2>3
    <3>2. {t.reqs[i] : i \in 1 .. n} = ToSet(t.reqs)
      BY <1>2 DEF ToSet
    <3>3. PoolsOf(edges) = ToSet(t.reqs) \ more
      BY <1>7, <3>1, <3>2
    <3>4. ToSet(t.reqs) \subseteq Between(p)
      BY <1>2 DEF ToSet
    <3>5. PoolsOf(edges) = Between(p) \ more
      BY <1>1, <1>4, <3>3, <3>4
    <3>6. u.at = "done"
      BY <1>9, <2>3
    <3> QED BY <1>9, <2>1, <3>5, <3>6 DEF TaskFits
  <2> QED BY <1>10, <2>2, <2>3
<1> QED BY <1>3, <1>11 DEF u, place

GoneOf(l, p) == {q \in Between(p) : <<p, q>> \in l}
PairsFit(prs, l) ==
  \A p \in DOMAIN prs : p \in Tokens \X Tokens /\ TaskFits(p, prs[p], GoneOf(l, p))
ContextFits(c) == \A q \in DOMAIN c : c[q].of = q
QuotesInv ==
  /\ PairsFit(pair, lost) /\ ContextFits(context)
  /\ phase \in {"anchor", "tokens"} => pair = <<>> /\ lost = {}
  /\ known \subseteq Tokens

Put(prs, p, t) == [x \in DOMAIN prs |-> IF x = p THEN t ELSE prs[x]]
Lose(l, p, pools) == l \cup {<<p, q>> : q \in pools}

LEMMA PairStep ==
  ASSUME NEW prs, NEW l, PairsFit(prs, l), NEW p \in DOMAIN prs, NEW t, NEW missed \in SUBSET Between(p),
         TaskFits(p, t, GoneOf(l, p) \cup missed)
  PROVE  PairsFit(Put(prs, p, t), Lose(l, p, missed))
<1> DEFINE m == Put(prs, p, t)
           k == Lose(l, p, missed)
<1>1. DOMAIN m = DOMAIN prs /\ m[p] = t /\ \A x \in DOMAIN prs : x # p => m[x] = prs[x]
  BY DEF Put
<1>2. GoneOf(k, p) = GoneOf(l, p) \cup missed
  BY DEF GoneOf, Lose
<1>3. \A x \in DOMAIN prs : x # p => GoneOf(k, x) = GoneOf(l, x)
  BY DEF GoneOf, Lose
<1> HIDE DEF m, k
<1>4. \A x \in DOMAIN m : x \in Tokens \X Tokens /\ TaskFits(x, m[x], GoneOf(k, x))
  <2> SUFFICES ASSUME NEW x \in DOMAIN m PROVE x \in Tokens \X Tokens /\ TaskFits(x, m[x], GoneOf(k, x))
    OBVIOUS
  <2>1. CASE x = p
    BY <1>1, <1>2, <2>1 DEF PairsFit
  <2>2. CASE x # p
    BY <1>1, <1>3, <2>2 DEF PairsFit
  <2> QED BY <2>1, <2>2
<1> QED BY <1>4 DEF PairsFit, m, k

LEMMA PairStays ==
  ASSUME NEW prs, NEW l, PairsFit(prs, l), NEW p \in DOMAIN prs, NEW t, TaskFits(p, t, GoneOf(l, p))
  PROVE  PairsFit(Put(prs, p, t), l)
<1>1. Lose(l, p, {}) = l /\ GoneOf(l, p) \cup {} = GoneOf(l, p) /\ {} \in SUBSET Between(p)
  BY DEF Lose
<1> QED BY <1>1, PairStep

LEMMA TaskIs ==
  ASSUME NEW p \in Pairs, PairsFit(pair, lost)
  PROVE  /\ TaskFits(p, pair[p], GoneOf(lost, p))
         /\ pair[p] = Task(pair[p].at, pair[p].reqs, pair[p].reads, pair[p].states, pair[p].next, pair[p].edges)
BY DEF PairsFit, TaskFits, Pairs

(* Fields that are written together.                                       *)
LEMMA ResolvedIs ==
  ASSUME NEW t, t = Task(t.at, t.reqs, t.reads, t.states, t.next, t.edges), NEW place, NEW x
  PROVE  [t EXCEPT !.reqs = x, !.at = place] = Task(place, x, t.reads, t.states, t.next, t.edges)
<1> DEFINE u == [t EXCEPT !.reqs = x]
<1>1. u = Task(t.at, x, t.reads, t.states, t.next, t.edges)
  BY DEF Task
<1> HIDE DEF u
<1>2. [u EXCEPT !.at = place] = Task(place, x, t.reads, t.states, t.next, t.edges)
  BY <1>1 DEF Task
<1> QED BY <1>2 DEF u

LEMMA ReadIs ==
  ASSUME NEW t, t = Task(t.at, t.reqs, t.reads, t.states, t.next, t.edges), NEW place, NEW x
  PROVE  [t EXCEPT !.at = place, !.reads = x] = Task(place, t.reqs, x, t.states, t.next, t.edges)
<1> DEFINE u == [t EXCEPT !.at = place]
<1>1. u = Task(place, t.reqs, t.reads, t.states, t.next, t.edges)
  BY DEF Task
<1> HIDE DEF u
<1>2. [u EXCEPT !.reads = x] = Task(place, t.reqs, x, t.states, t.next, t.edges)
  BY <1>1 DEF Task
<1> QED BY <1>2 DEF u

LEMMA AssembledIs ==
  ASSUME NEW t, t = Task(t.at, t.reqs, t.reads, t.states, t.next, t.edges), NEW place, NEW x, NEW y
  PROVE  [t EXCEPT !.at = place, !.reads = x, !.states = y] = Task(place, t.reqs, x, y, t.next, t.edges)
<1> DEFINE u == [t EXCEPT !.at = place, !.reads = x]
<1>1. u = Task(place, t.reqs, x, t.states, t.next, t.edges)
  BY ReadIs
<1> HIDE DEF u
<1>2. [u EXCEPT !.states = y] = Task(place, t.reqs, x, y, t.next, t.edges)
  BY <1>1 DEF Task
<1> QED BY <1>2 DEF u

(* A task's step.                                                          *)
LEMMA BeginFits ==
  ASSUME NEW p \in Pairs, PairsFit(pair, lost), Begin(p)
  PROVE  PairsFit(pair', lost')
<1> DEFINE t == pair[p]
           n == Task("resolve", t.reqs, t.reads, t.states, t.next, t.edges)
<1>1. TaskFits(p, t, GoneOf(lost, p)) /\ t = Task(t.at, t.reqs, t.reads, t.states, t.next, t.edges)
  BY TaskIs
<1>2. t.at = "wait" /\ lost' = lost
  BY DEF Begin, At
<1>3. pair' = Put(pair, p, n)
  <2>1. pair' = [pair EXCEPT ![p].at = "resolve"]
    BY DEF Begin
  <2>2. [t EXCEPT !.at = "resolve"] = n
    BY <1>1 DEF Task
  <2> QED BY <2>1, <2>2 DEF Put, Pairs
<1>4. TaskFits(p, n, GoneOf(lost, p))
  BY <1>1, <1>2, BegunFits
<1> HIDE DEF n
<1> QED BY <1>2, <1>3, <1>4, PairStays DEF Pairs

LEMMA ResolveFits ==
  ASSUME NEW p \in Pairs, PairsFit(pair, lost), Resolve(p)
  PROVE  PairsFit(pair', lost')
<1>a. PICK t : t = pair[p]
  OBVIOUS
<1>b. PICK gone : gone = GoneOf(lost, p)
  OBVIOUS
<1>1. TaskFits(p, t, gone) /\ t = Task(t.at, t.reqs, t.reads, t.states, t.next, t.edges)
  BY <1>a, <1>b, TaskIs
<1>2. t.at = "resolve"
  BY <1>a DEF Resolve, At
<1>3. PICK missed \in Unanswered(Between(p)) :
        /\ LosePools(p, missed)
        /\ pair' = [pair EXCEPT ![p].reqs = Requests(Between(p) \ missed),
                      ![p].at = IF Requests(Between(p) \ missed) = <<>> THEN "done" ELSE "read"]
  BY <1>a, Zenon DEF Resolve
<1> DEFINE reqs == Requests(Between(p) \ missed)
           n == Task(IF reqs = <<>> THEN "done" ELSE "read", reqs, t.reads, t.states, t.next, t.edges)
<1>4. missed \in SUBSET Between(p) /\ lost' = Lose(lost, p, missed)
  BY <1>3 DEF Unanswered, LosePools, Lose
<1>5. pair' = Put(pair, p, n)
  <2> DEFINE place == IF reqs = <<>> THEN "done" ELSE "read"
  <2>1. pair' = [pair EXCEPT ![p].reqs = reqs, ![p].at = place]
    BY <1>3
  <2> HIDE DEF place, reqs
  <2>2. [t EXCEPT !.reqs = reqs, !.at = place] = Task(place, reqs, t.reads, t.states, t.next, t.edges)
    BY <1>1, ResolvedIs
  <2> QED BY <1>a, <2>1, <2>2 DEF Put, Pairs, place
<1>6. TaskFits(p, n, gone \cup missed)
  <2> HIDE DEF reqs
  <2>1. reqs = Requests(Between(p) \ missed)
    BY DEF reqs
  <2> QED BY <1>1, <1>2, <1>4, <2>1, ResolvedFits
<1> HIDE DEF n
<1> QED BY <1>4, <1>5, <1>6, <1>b, PairStep DEF Pairs

LEMMA ReadStatesFits ==
  ASSUME NEW p \in Pairs, PairsFit(pair, lost), ReadStates(p)
  PROVE  PairsFit(pair', lost')
<1>a. PICK t : t = pair[p]
  OBVIOUS
<1>b. PICK gone : gone = GoneOf(lost, p)
  OBVIOUS
<1>1. TaskFits(p, t, gone) /\ t = Task(t.at, t.reqs, t.reads, t.states, t.next, t.edges)
  BY <1>a, <1>b, TaskIs
<1>2. t.at = "read"
  BY <1>a DEF ReadStates, At
<1>c. PICK calls : calls = Packed(t.reqs)
  OBVIOUS
<1>3. PICK missed \in Unanswered(DOMAIN Packed(pair[p].reqs)) :
        /\ LosePools(p, {Packed(pair[p].reqs)[i].pool : i \in missed})
        /\ pair' = [pair EXCEPT ![p].at = "assemble",
                      ![p].reads = [i \in DOMAIN Packed(pair[p].reqs) |->
                                      IF i \in missed THEN NoRead ELSE Read(Packed(pair[p].reqs)[i])]]
  BY Zenon DEF ReadStates
<1>d. PICK N : N = Len(calls)
  OBVIOUS
<1>4. DOMAIN calls = 1 .. N /\ \A x \in 1 .. N : calls[x].kind # "none"
  <2>1. RequestsFit(p, t.reqs)
    BY <1>1, <1>2 DEF TaskFits
  <2> QED BY <1>c, <1>d, <2>1, CallsAre
<1>e. PICK reads : reads = [i \in DOMAIN Packed(pair[p].reqs) |->
                              IF i \in missed THEN NoRead ELSE Read(Packed(pair[p].reqs)[i])]
  OBVIOUS
<1> DEFINE pools == Unread(t.reqs, reads)
           n == Task("assemble", t.reqs, reads, t.states, t.next, t.edges)
<1>5. missed \in SUBSET (1 .. N)
  BY <1>a, <1>c, <1>3, <1>4 DEF Unanswered
<1>6. pair' = Put(pair, p, n)
  <2>1. pair' = [pair EXCEPT ![p].at = "assemble", ![p].reads = reads]
    BY <1>3, <1>e, Zenon
  <2>2. [t EXCEPT !.at = "assemble", !.reads = reads] = n
    BY <1>1, ReadIs
  <2> QED BY <1>a, <2>1, <2>2 DEF Put, Pairs
<1>7. /\ DOMAIN reads = 1 .. N
      /\ \A x \in 1 .. N : reads[x] = IF x \in missed THEN NoRead ELSE Read(calls[x])
  BY <1>a, <1>c, <1>4, <1>e
<1>8. \A x \in 1 .. N : Read(calls[x]).kind = calls[x].kind /\ Read(calls[x]).of = calls[x].pool
  BY DEF Read
<1>9. ReadsFit(t.reqs, reads)
  BY <1>7, <1>8, <1>c, <1>d DEF ReadsFit
<1>10. \A x \in 1 .. N : reads[x] = NoRead <=> x \in missed
  BY <1>4, <1>7, <1>8 DEF NoRead
<1>11. pools = {calls[x].pool : x \in missed}
  <2>1. {y \in 1 .. N : reads[y] = NoRead} = missed
    BY <1>5, <1>10
  <2> QED BY <1>c, <1>d, <2>1, Zenon DEF Unread
<1>12. lost' = Lose(lost, p, pools)
  BY <1>a, <1>c, <1>3, <1>11 DEF LosePools, Lose
<1>13. TaskFits(p, n, gone \cup pools) /\ pools \in SUBSET Between(p)
  BY <1>1, <1>2, <1>9, ReadFits
<1> HIDE DEF n, pools
<1> QED BY <1>6, <1>12, <1>13, <1>b, PairStep DEF Pairs

LEMMA BatchFailsFits ==
  ASSUME NEW p \in Pairs, PairsFit(pair, lost), BatchFails(p)
  PROVE  PairsFit(pair', lost')
<1>a. PICK t : t = pair[p]
  OBVIOUS
<1>b. PICK gone : gone = GoneOf(lost, p)
  OBVIOUS
<1>1. TaskFits(p, t, gone) /\ t = Task(t.at, t.reqs, t.reads, t.states, t.next, t.edges)
  BY <1>a, <1>b, TaskIs
<1>2. t.at = "read"
  BY <1>a DEF BatchFails, At
<1>3. RequestsFit(p, t.reqs)
  BY <1>1, <1>2 DEF TaskFits
<1>c. PICK N : N = Len(Packed(t.reqs))
  OBVIOUS
<1>4. DOMAIN Packed(t.reqs) = 1 .. N
  BY <1>3, <1>c, CallsAre
<1>e. PICK reads : reads = [i \in 1 .. N |-> NoRead]
  OBVIOUS
<1> DEFINE pools == Unread(t.reqs, reads)
           n == Task("assemble", t.reqs, reads, t.states, t.next, t.edges)
<1>6. pair' = Put(pair, p, n)
  <2>1. pair' = [pair EXCEPT ![p].at = "assemble", ![p].reads = reads]
    BY <1>4, <1>e, <1>a DEF BatchFails
  <2>2. [t EXCEPT !.at = "assemble", !.reads = reads] = n
    BY <1>1, ReadIs
  <2> QED BY <1>a, <2>1, <2>2 DEF Put, Pairs
<1>7. DOMAIN reads = 1 .. N /\ \A x \in 1 .. N : reads[x] = NoRead
  BY <1>e
<1>9. ReadsFit(t.reqs, reads)
  BY <1>7, <1>c DEF ReadsFit
<1>11. pools = ToSet(t.reqs)
  <2>1. {y \in 1 .. N : reads[y] = NoRead} = 1 .. N
    BY <1>7
  <2>2. pools = {Packed(t.reqs)[x].pool : x \in 1 .. Len(Packed(t.reqs))}
    BY <1>c, <2>1, Zenon DEF Unread
  <2> QED BY <1>3, <2>2, AllWordsArePools
<1>12. lost' = Lose(lost, p, pools)
  BY <1>11, <1>a, Zenon DEF BatchFails, LosePools, Lose
<1>13. TaskFits(p, n, gone \cup pools) /\ pools \in SUBSET Between(p)
  BY <1>1, <1>2, <1>9, ReadFits
<1> HIDE DEF n, pools
<1> QED BY <1>6, <1>12, <1>13, <1>b, PairStep DEF Pairs

LEMMA AssembleFits ==
  ASSUME NEW p \in Pairs, PairsFit(pair, lost), Assemble(p)
  PROVE  PairsFit(pair', lost')
<1>a. PICK t : t = pair[p]
  OBVIOUS
<1>b. PICK gone : gone = GoneOf(lost, p)
  OBVIOUS
<1>1. TaskFits(p, t, gone) /\ t = Task(t.at, t.reqs, t.reads, t.states, t.next, t.edges)
  BY <1>a, <1>b, TaskIs
<1>2. t.at = "assemble"
  BY <1>a DEF Assemble, At
<1> DEFINE all == {i \in DOMAIN pair[p].reqs : Fits(pair[p], i)}
<1>3. PICK missed \in Unusable({pair[p].reqs[i] : i \in all}) :
        /\ LosePools(p, missed)
        /\ pair' = [pair EXCEPT ![p].at = "quote", ![p].reads = <<>>,
                      ![p].states = [q \in {pair[p].reqs[i] : i \in {i \in all : pair[p].reqs[i] \notin missed}} |->
                                       State(pair[p], CHOOSE i \in {i \in all : pair[p].reqs[i] \notin missed} : pair[p].reqs[i] = q)]]
  BY Zenon DEF Assemble
<1> DEFINE some == {i \in all : pair[p].reqs[i] \notin missed}
<1>e. PICK states : states = [q \in {pair[p].reqs[i] : i \in some} |-> State(pair[p], CHOOSE i \in some : pair[p].reqs[i] = q)]
  OBVIOUS
<1>c. PICK whole : whole = all
  OBVIOUS
<1>d. PICK kept : kept = some
  OBVIOUS
<1>f. whole = {i \in DOMAIN t.reqs : Fits(t, i)} /\ kept = {i \in whole : t.reqs[i] \notin missed}
  <2>1. whole = {i \in DOMAIN t.reqs : Fits(t, i)}
    BY <1>a, <1>c
  <2>2. kept = {i \in whole : pair[p].reqs[i] \notin missed}
    BY <1>c, <1>d, Zenon
  <2> QED BY <1>a, <2>1, <2>2
<1> DEFINE n == Task("quote", t.reqs, <<>>, states, t.next, t.edges)
<1>4. missed \in SUBSET {t.reqs[i] : i \in whole} /\ lost' = Lose(lost, p, missed)
  <2>1. missed \in SUBSET {pair[p].reqs[i] : i \in whole} /\ lost' = Lose(lost, p, missed)
    BY <1>c, <1>3, Zenon DEF Unusable, Unanswered, LosePools, Lose
  <2> QED BY <1>a, <2>1
<1>5. pair' = Put(pair, p, n)
  <2>1. pair' = [pair EXCEPT ![p].at = "quote", ![p].reads = <<>>, ![p].states = states]
    BY <1>3, <1>e, Zenon
  <2>2. [t EXCEPT !.at = "quote", !.reads = <<>>, !.states = states] = n
    BY <1>1, AssembledIs
  <2> QED BY <1>a, <2>1, <2>2 DEF Put, Pairs
<1>6. DOMAIN t.reqs = 1 .. Len(t.reqs)
  <2>1. RequestsFit(p, t.reqs)
    BY <1>1, <1>2 DEF TaskFits
  <2> QED BY <2>1, LenProperties DEF RequestsFit
<1> HIDE DEF all, some
<1>g. DOMAIN states = {pair[p].reqs[i] : i \in some}
  BY <1>e
<1>7. DOMAIN states = {t.reqs[i] : i \in kept}
  BY <1>a, <1>d, <1>g
<1>8. ASSUME NEW q \in DOMAIN states PROVE \E i \in kept : t.reqs[i] = q /\ states[q] = State(t, i)
  <2>1. PICK j : j = CHOOSE i \in some : pair[p].reqs[i] = q
    OBVIOUS
  <2>2. j \in some /\ pair[p].reqs[j] = q
    BY <1>g, <2>1
  <2>3. states[q] = State(pair[p], j)
    BY <1>g, <1>e, <2>1
  <2> QED BY <1>a, <1>d, <2>2, <2>3
<1>9. \A i : i \in kept <=> i \in 1 .. Len(t.reqs) /\ Fits(t, i) /\ t.reqs[i] \notin missed
  BY <1>f, <1>6
<1>10. StatesFit(t, missed, states)
  <2>1. missed \subseteq ToSet(t.reqs)
    BY <1>4, <1>f DEF ToSet
  <2>2. \A q : q \in DOMAIN states <=> \E i \in kept : t.reqs[i] = q
    BY <1>7
  <2> QED BY <1>8, <1>9, <2>1, <2>2 DEF StatesFit
<1>11. TaskFits(p, n, gone \cup missed) /\ missed \in SUBSET Between(p)
  BY <1>1, <1>2, <1>10, AssembledFits
<1> HIDE DEF n
<1> QED BY <1>4, <1>5, <1>11, <1>b, PairStep DEF Pairs

LEMMA AdvanceIs ==
  ASSUME NEW p \in Pairs, NEW edges, Advance(p, edges), PairsFit(pair, lost), NEW t, t = pair[p]
  PROVE  pair' = Put(pair, p, Task(IF t.next = Len(t.reqs) THEN "done" ELSE "quote", t.reqs, t.reads, t.states, t.next + 1, edges))
<1>1. t = Task(t.at, t.reqs, t.reads, t.states, t.next, t.edges)
  BY TaskIs
<1>a. PICK next : next = pair[p].next + 1
  OBVIOUS
<1>b. PICK place : place = IF pair[p].next = Len(pair[p].reqs) THEN "done" ELSE "quote"
  OBVIOUS
<1>2. pair' = [pair EXCEPT ![p].edges = edges, ![p].next = next, ![p].at = place]
  BY <1>a, <1>b, Zenon DEF Advance
<1>3. [t EXCEPT !.edges = edges, !.next = next, !.at = place] = Task(place, t.reqs, t.reads, t.states, next, edges)
  <2>1. PICK u : u = [t EXCEPT !.edges = edges]
    OBVIOUS
  <2>2. u = Task(t.at, t.reqs, t.reads, t.states, t.next, edges)
    BY <1>1, <2>1 DEF Task
  <2>3. PICK v : v = [u EXCEPT !.next = next]
    OBVIOUS
  <2>4. v = Task(t.at, t.reqs, t.reads, t.states, next, edges)
    BY <2>2, <2>3 DEF Task
  <2>5. [v EXCEPT !.at = place] = Task(place, t.reqs, t.reads, t.states, next, edges)
    BY <2>4 DEF Task
  <2> QED BY <2>1, <2>3, <2>5
<1>4. pair' = Put(pair, p, Task(place, t.reqs, t.reads, t.states, next, edges))
  BY <1>2, <1>3 DEF Put, Pairs
<1> QED BY <1>a, <1>b, <1>4

(* The turn taken: with an edge, or with the pool lost.                    *)
LEMMA TurnTaken ==
  ASSUME NEW p \in Pairs, PairsFit(pair, lost), pair[p].at = "quote", NEW edges, Advance(p, edges),
         \/ /\ lost' = lost /\ Turn(p) \in DOMAIN pair[p].states
            /\ \E e : edges = pair[p].edges \cup {e} /\ e.leg = Leg(Turn(p), p[1], p[2])
         \/ /\ edges = pair[p].edges
            /\ \/ lost' = Lose(lost, p, {Turn(p)})
               \/ lost' = lost /\ Turn(p) \notin DOMAIN pair[p].states
  PROVE  PairsFit(pair', lost')
<1>a. PICK t : t = pair[p]
  OBVIOUS
<1>b. PICK gone : gone = GoneOf(lost, p)
  OBVIOUS
<1>c. PICK q : q = t.reqs[t.next]
  OBVIOUS
<1>1. TaskFits(p, t, gone) /\ t.at = "quote" /\ Turn(p) = q
  BY <1>a, <1>b, <1>c, TaskIs DEF Turn
<1> DEFINE n == Task(IF t.next = Len(t.reqs) THEN "done" ELSE "quote", t.reqs, t.reads, t.states, t.next + 1, edges)
<1>2. pair' = Put(pair, p, n)
  BY <1>a, AdvanceIs
<1>3. q \in Between(p) /\ (q \notin DOMAIN t.states => q \in gone)
  <2>1. gone \cup {t.reqs[t.next]} = gone \cup {t.reqs[t.next]} /\ t.edges = t.edges
    OBVIOUS
  <2> QED BY <1>1, <1>c, <2>1, TurnFits
<1>4. CASE /\ lost' = lost /\ q \in DOMAIN t.states
           /\ \E e : edges = t.edges \cup {e} /\ e.leg = Leg(q, p[1], p[2])
  <2>1. TaskFits(p, n, gone)
    BY <1>1, <1>4, <1>c, TurnFits
  <2> HIDE DEF n
  <2> QED BY <1>2, <1>4, <2>1, <1>b, PairStays DEF Pairs
<1>5. ASSUME edges = t.edges PROVE TaskFits(p, n, gone \cup {q})
  BY <1>1, <1>5, <1>c, TurnFits
<1> HIDE DEF n
<1>6. CASE edges = t.edges /\ lost' = Lose(lost, p, {q})
  <2>1. TaskFits(p, n, gone \cup {q}) /\ {q} \in SUBSET Between(p)
    BY <1>3, <1>5, <1>6
  <2> QED BY <1>2, <1>6, <2>1, <1>b, PairStep DEF Pairs
<1>7. CASE edges = t.edges /\ lost' = lost /\ q \notin DOMAIN t.states
  <2>1. gone \cup {q} = gone
    BY <1>3, <1>7
  <2>2. TaskFits(p, n, gone)
    BY <1>5, <1>7, <2>1
  <2> QED BY <1>2, <1>7, <2>2, <1>b, PairStays DEF Pairs
<1> QED BY <1>a, <1>1, <1>4, <1>6, <1>7

LEMMA QuotedFits ==
  ASSUME NEW p \in Pairs, PairsFit(pair, lost), Quoted(p)
  PROVE  PairsFit(pair', lost')
<1>1. pair[p].at = "quote" /\ Turn(p) \in DOMAIN pair[p].states
  BY DEF Quoted, At
<1>a. PICK edge : edge = Edge(Leg(Turn(p), p[1], p[2]))
  OBVIOUS
<1>2. edge.leg = Leg(Turn(p), p[1], p[2])
  BY <1>a DEF Edge
<1>3. \/ Advance(p, pair[p].edges \cup {edge}) /\ lost' = lost
      \/ Advance(p, pair[p].edges) /\ lost' = Lose(lost, p, {Turn(p)})
  BY <1>a DEF Quoted, LosePools, Lose
<1>4. CASE Advance(p, pair[p].edges \cup {edge}) /\ lost' = lost
  <2>1. PICK edges : edges = pair[p].edges \cup {edge}
    OBVIOUS
  <2>2. \E e : edges = pair[p].edges \cup {e} /\ e.leg = Leg(Turn(p), p[1], p[2])
    BY <1>2, <2>1
  <2>3. Advance(p, edges)
    BY <1>4, <2>1
  <2> QED BY <1>1, <1>4, <2>2, <2>3, TurnTaken
<1>5. CASE Advance(p, pair[p].edges) /\ lost' = Lose(lost, p, {Turn(p)})
  BY <1>1, <1>5, TurnTaken
<1> QED BY <1>3, <1>4, <1>5

LEMMA NotQuotedFits ==
  ASSUME NEW p \in Pairs, PairsFit(pair, lost), NotQuoted(p)
  PROVE  PairsFit(pair', lost')
<1>1. pair[p].at = "quote" /\ Advance(p, pair[p].edges)
  BY DEF NotQuoted, At
<1>2. \/ lost' = Lose(lost, p, {Turn(p)})
      \/ lost' = lost /\ Turn(p) \notin DOMAIN pair[p].states
  BY DEF NotQuoted, LosePools, Lose
<1> QED BY <1>1, <1>2, TurnTaken

LEMMA QuotePairFits ==
  ASSUME NEW p \in Pairs, PairsFit(pair, lost), QuotePair(p)
  PROVE  PairsFit(pair', lost') /\ UNCHANGED <<phase, context, known>> /\ phase = "quote"
<1>1. PairsFit(pair', lost')
  BY BeginFits, ResolveFits, ReadStatesFits, BatchFailsFits, AssembleFits, QuotedFits, NotQuotedFits DEF QuotePair
<1>2. UNCHANGED <<phase, context, known>> /\ phase = "quote"
  BY DEF QuotePair, Begin, Resolve, ReadStates, BatchFails, Assemble, Quoted, NotQuoted, At
<1> QED BY <1>1, <1>2

LEMMA TokensFit ==
  ASSUME QuotesInv, ReadTokens
  PROVE  PairsFit(pair', lost') /\ known' \subseteq Tokens
<1>1. known' \subseteq Tokens /\ lost' = {}
  BY DEF QuotesInv, ReadTokens
<1>2. pair' = [p \in {q \in known' \X known' : q[1] # q[2]} |-> Waiting]
  BY DEF ReadTokens
<1>3. ASSUME NEW p \in DOMAIN pair' PROVE p \in Tokens \X Tokens /\ pair'[p] = Waiting
  BY <1>1, <1>2
<1>4. ASSUME NEW p PROVE GoneOf(lost', p) = {}
  BY <1>1 DEF GoneOf
<1> QED BY <1>1, <1>3, <1>4, WaitingFits DEF PairsFit

(* Only a pair and its reverse can have quoted a pool, so one of them is   *)
(* the last.                                                               *)
LEMMA LastExists ==
  ASSUME PairsFit(pair, lost), NEW q, NEW p \in Pairs, q \in QuotedPools(p)
  PROVE  LastToQuote(q) \in Pairs /\ q \in QuotedPools(LastToQuote(q))
<1>1. ASSUME NEW r \in Pairs, q \in QuotedPools(r)
      PROVE  r \in Tokens \X Tokens /\ Sides(q) = {r[1], r[2]}
  <2>1. TaskFits(r, pair[r], GoneOf(lost, r)) /\ r \in Tokens \X Tokens
    BY DEF PairsFit, Pairs
  <2>2. PICK e \in pair[r].edges : q = e.leg.pool
    BY <1>1 DEF QuotedPools
  <2>3. q \in Between(r)
    BY <2>1, <2>2 DEF TaskFits
  <2> QED BY <2>1, <2>3 DEF Between
<1>2. Tokens \subseteq Int
  BY RoundAssumption
<1>3. PICK a \in Int, b \in Int : p = <<a, b>> /\ Sides(q) = {a, b}
  <2>1. p \in Tokens \X Tokens /\ Sides(q) = {p[1], p[2]}
    BY <1>1
  <2>2. \E c \in Tokens : \E d \in Tokens : p = <<c, d>>
    BY <2>1
  <2> QED BY <1>2, <2>1, <2>2
<1>4. ASSUME NEW r \in Pairs, q \in QuotedPools(r) PROVE r = <<a, b>> \/ r = <<b, a>> \/ r = <<a, a>> \/ r = <<b, b>>
  <2>1. PICK c \in Int, d \in Int : r = <<c, d>> /\ Sides(q) = {c, d}
    <3>1. r \in Tokens \X Tokens /\ Sides(q) = {r[1], r[2]}
      BY <1>1, <1>4
    <3>2. \E c \in Tokens : \E d \in Tokens : r = <<c, d>>
      BY <3>1
    <3> QED BY <1>2, <3>1, <3>2
  <2>2. c \in {a, b} /\ d \in {a, b} /\ a \in {c, d} /\ b \in {c, d}
    BY <1>3, <2>1
  <2> QED BY <2>1, <2>2
<1>5. \E l \in Pairs : q \in QuotedPools(l) /\ \A r \in Pairs : q \in QuotedPools(r) => ~Earlier(l, r)
  <2>0. ASSUME NEW r \in Pairs, q \in QuotedPools(r) PROVE r = <<a, b>> \/ r = <<b, a>>
    <3>1. Sides(q) = {r[1], r[2]} /\ Sides(q) = {a, b}
      BY <1>1, <1>3, <2>0
    <3>2. r = <<a, a>> => a = b
      BY <3>1
    <3>3. r = <<b, b>> => a = b
      BY <3>1
    <3> QED BY <1>4, <2>0, <3>2, <3>3
  <2>1. \A c, d \in Int : Earlier(<<c, d>>, <<d, c>>) <=> c < d
    BY DEF Earlier
  <2>2. \A c, d \in Int : ~Earlier(<<c, d>>, <<c, d>>)
    BY DEF Earlier
  <2> DEFINE s == <<b, a>>
  <2>3. CASE s \in Pairs /\ q \in QuotedPools(s) /\ a < b
    <3>1. \A r \in Pairs : q \in QuotedPools(r) => ~Earlier(s, r)
      BY <2>0, <2>1, <2>2, <2>3
    <3> QED BY <2>3, <3>1
  <2>4. CASE ~(s \in Pairs /\ q \in QuotedPools(s) /\ a < b)
    <3>1. ASSUME NEW r \in Pairs, q \in QuotedPools(r) PROVE ~Earlier(p, r)
      <4>1. CASE r = <<a, b>>
        BY <1>3, <2>2, <4>1
      <4>2. CASE r = <<b, a>>
        <5>1. ~(a < b)
          BY <2>4, <3>1, <4>2
        <5> QED BY <1>3, <2>1, <4>2, <5>1
      <4> QED BY <2>0, <3>1, <4>1, <4>2
    <3> QED BY <3>1
  <2> QED BY <2>3, <2>4
<1> QED BY <1>5, Zenon DEF LastToQuote

LEMMA CollectFits ==
  ASSUME QuotesInv, Collect
  PROVE  PairsFit(pair', lost') /\ ContextFits(context')
<1>1. PairsFit(pair', lost')
  <2>1. pair' = <<>>
    BY DEF Collect
  <2> QED BY <2>1 DEF PairsFit
<1>2. PairsFit(pair, lost)
  BY DEF QuotesInv
<1>3. context' = [q \in UNION {QuotedPools(p) : p \in Pairs} |-> pair[LastToQuote(q)].states[q]]
  BY DEF Collect
<1>4. ASSUME NEW q, NEW p \in Pairs, q \in QuotedPools(p) PROVE pair[LastToQuote(q)].states[q].of = q
  <2>1. PICK l : l = LastToQuote(q)
    OBVIOUS
  <2>2. l \in Pairs /\ q \in QuotedPools(l)
    BY <1>2, <1>4, <2>1, LastExists
  <2>3. TaskFits(l, pair[l], GoneOf(lost, l))
    BY <1>2, <2>2 DEF PairsFit, Pairs
  <2>4. PICK e \in pair[l].edges : q = e.leg.pool
    BY <2>2 DEF QuotedPools
  <2>5. q \in DOMAIN pair[l].states
    BY <2>3, <2>4 DEF TaskFits
  <2>6. pair[l].states[q].of = q
    BY <2>3, <2>5 DEF TaskFits
  <2> QED BY <2>1, <2>6
<1>5. ASSUME NEW q \in DOMAIN context' PROVE context'[q].of = q
  <2>1. PICK p \in Pairs : q \in QuotedPools(p)
    BY <1>3
  <2>2. context'[q] = pair[LastToQuote(q)].states[q]
    BY <1>3
  <2> QED BY <1>4, <2>1, <2>2
<1> QED BY <1>1, <1>5 DEF ContextFits

(* The step of the round. *)
LEMMA QuotesStep ==
  ASSUME QuotesInv, [RoundNext]_roundVars
  PROVE  QuotesInv'
<1>1. ASSUME PairsFit(pair', lost'), ContextFits(context'), known' \subseteq Tokens,
             phase' \in {"anchor", "tokens"} => pair' = <<>> /\ lost' = {}
      PROVE  QuotesInv'
  BY <1>1 DEF QuotesInv
<1>2. CASE UNCHANGED <<phase, pair, lost, context, known>>
  BY <1>2 DEF QuotesInv
<1>3. CASE UNCHANGED <<pair, lost, context, known>> /\ phase' \notin {"anchor", "tokens"}
  BY <1>1, <1>3 DEF QuotesInv
<1>4. CASE CheckAnchor
  BY <1>1, <1>4 DEF QuotesInv, CheckAnchor, PhaseA
<1>5. CASE Quotes
  <2>1. CASE ReadTokens
    <3>1. PairsFit(pair', lost') /\ known' \subseteq Tokens
      BY <2>1, TokensFit
    <3>2. phase' = "quote" /\ context' = context
      BY <2>1 DEF ReadTokens
    <3>3. phase' \notin {"anchor", "tokens"} /\ ContextFits(context')
      BY <3>2 DEF QuotesInv
    <3> QED BY <1>1, <3>1, <3>3
  <2>2. CASE \E p \in Pairs : QuotePair(p)
    <3>1. PICK p \in Pairs : QuotePair(p)
      BY <2>2
    <3>2. PairsFit(pair', lost') /\ UNCHANGED <<phase, context, known>> /\ phase = "quote"
      BY <3>1, QuotePairFits DEF QuotesInv
    <3>3. phase' \notin {"anchor", "tokens"} /\ ContextFits(context') /\ known' \subseteq Tokens
      BY <3>2 DEF QuotesInv
    <3> QED BY <1>1, <3>2, <3>3
  <2>3. CASE Collect
    <3>1. PairsFit(pair', lost') /\ ContextFits(context')
      BY <2>3, CollectFits
    <3>2. phase' \notin {"anchor", "tokens"} /\ known' \subseteq Tokens
      BY <2>3 DEF Collect, QuotesInv
    <3> QED BY <1>1, <3>1, <3>2
  <2> QED BY <1>5, <2>1, <2>2, <2>3 DEF Quotes, QuotesNext
<1>6. CASE Replaced
  BY <1>2, <1>6 DEF Replaced
<1>7. CASE Fails
  BY <1>3, <1>7 DEF Fails, PhaseA
<1>8. CASE Rank
  BY <1>3, <1>8 DEF Rank
<1>9. CASE \E r \in Tried : Requote(r)
  BY <1>2, <1>9 DEF Requote, Start, LookUp, Fetched, FetchFails, PhaseA
<1>10. CASE Evaluate
  BY <1>3, <1>10 DEF Evaluate, PhaseA
<1>11. CASE UNCHANGED roundVars
  BY <1>2, <1>11 DEF roundVars, quoteVars
<1> QED BY <1>4, <1>5, <1>6, <1>7, <1>8, <1>9, <1>10, <1>11 DEF RoundNext, Rest

(* What one call reads of all pools of a pair is told apart by its place:  *)
(* a pair's quoted pools are exactly those of which none of its own calls  *)
(* went wrong, and each is quoted from its own words (discover_pair,       *)
(* assemble_v2_pool_state, assemble_v3_pool_state).                        *)
THEOREM PoolsAreTheirOwn == RoundSpec => []PoolsStandAlone
<1>1. RoundInit => QuotesInv
  <2> SUFFICES ASSUME RoundInit PROVE QuotesInv
    OBVIOUS
  <2>1. pair = <<>> /\ lost = {} /\ context = <<>> /\ known = {}
    BY DEF RoundInit, QuotesInit
  <2>2. PairsFit(<<>>, {}) /\ ContextFits(<<>>)
    BY DEF PairsFit, ContextFits
  <2> QED BY <2>1, <2>2 DEF QuotesInv
<1>2. QuotesInv /\ [RoundNext]_roundVars => QuotesInv'
  BY QuotesStep
<1>3. QuotesInv => PoolsStandAlone
  <2> SUFFICES ASSUME QuotesInv PROVE PoolsStandAlone
    OBVIOUS
  <2>1. ASSUME NEW p \in Pairs
        PROVE  /\ pair[p].at = "done" => QuotedPools(p) = {q \in Between(p) : <<p, q>> \notin lost}
               /\ \A q \in DOMAIN pair[p].states : pair[p].states[q].of = q
    <3>1. TaskFits(p, pair[p], GoneOf(lost, p))
      BY DEF QuotesInv, PairsFit, Pairs
    <3>2. pair[p].at = "done" => PoolsOf(pair[p].edges) = Between(p) \ GoneOf(lost, p)
      BY <3>1 DEF TaskFits
    <3>3. QuotedPools(p) = PoolsOf(pair[p].edges)
      BY DEF QuotedPools, PoolsOf
    <3>4. Between(p) \ GoneOf(lost, p) = {q \in Between(p) : <<p, q>> \notin lost}
      BY DEF GoneOf
    <3>5. \A q \in DOMAIN pair[p].states : pair[p].states[q].of = q
      BY <3>1 DEF TaskFits
    <3> QED BY <3>2, <3>3, <3>4, <3>5
  <2>2. \A q \in DOMAIN context : context[q].of = q
    BY DEF QuotesInv, ContextFits
  <2> QED BY <2>1, <2>2 DEF PoolsStandAlone
<1> QED BY <1>1, <1>2, <1>3, PTL DEF RoundSpec

-------------------------------------------------------------------------------
(* Phase B.  A task's quotes are the first ones of the ideal trade, and    *)
(* what is cached is a quote of the ideal trade of some route (RoundInv).  *)
(* A pool and an amount name one quote if no two routes go through the     *)
(* pool opposite ways, and then whose it was makes no difference           *)
(* (CachedIsIdeal).  Amounts are numbers.                                  *)
AmountsAreNumbers ==
  /\ \A t \in Tokens : Input(t) \in Int
  /\ \A b \in Nat, q \in Pools, t \in Tokens, x \in Int : Out(b, q, t, x) \in Int

LegFits(l, kn, pools) ==
  /\ l = Leg(l.pool, l.tin, l.tout) /\ l.pool \in pools /\ l.pool \in Pools
  /\ Sides(l.pool) = {l.tin, l.tout} /\ l.tin # l.tout /\ l.tin \in kn
RouteFits(r, kn, pools) == r = <<r[1], r[2], r[3]>> /\ \A i \in 1 .. 3 : LegFits(r[i], kn, pools)

NoneCollides(tried) ==
  \A r, q \in tried : \A i, j \in 1 .. 3 :
    ~(q[i].pool = r[j].pool /\ q[i].tin # r[j].tin /\ Ideal(q)[i].amountIn = Ideal(r)[j].amountIn)
First(r, k) ==
  IF k = 0 THEN <<>> ELSE IF k = 1 THEN <<Ideal(r)[1]>> ELSE IF k = 2 THEN <<Ideal(r)[1], Ideal(r)[2]>> ELSE Ideal(r)
IdealSoFar(r, t) ==
  \E k \in 0 .. 3 :
    /\ t.quotes = First(r, k)
    /\ t.at \in {"queued", "look", "fetch"} => k < 3
    /\ t.at = "ok" => k = 3
CacheIsIdeal(c, tried) ==
  \A k \in DOMAIN c : \E q \in tried : \E i \in 1 .. 3 :
    k = CacheKey(q[i], Ideal(q)[i].amountIn) /\ c[k] = Ideal(q)[i]
TasksAreIdeal(tk, c) ==
  NoneCollides(DOMAIN tk) => CacheIsIdeal(c, DOMAIN tk) /\ \A r \in DOMAIN tk : IdealSoFar(r, tk[r])
TasksFit(tk, kn, pools) ==
  \A r \in DOMAIN tk : RouteFits(r, kn, pools) /\ tk[r] = [at |-> tk[r].at, quotes |-> tk[r].quotes]
PairsOf(prs, kn) == \A p \in DOMAIN prs : p \in kn \X kn /\ p[1] # p[2]

GraphInv ==
  /\ PairsOf(pair, known)
  /\ \A e \in graph : LegFits(e.leg, known, DOMAIN context)
  /\ phase \in {"anchor", "tokens", "quote"} => graph = {}
  /\ phase \in {"anchor", "tokens", "quote", "rank"} => DOMAIN task = {} /\ DOMAIN cache = {}
  /\ TasksFit(task, known, DOMAIN context)
RoundInv ==
  /\ QuotesInv /\ GraphInv /\ branch \in Nat
  /\ branch = 0 => TasksAreIdeal(task, cache)
  /\ EvidenceIsGenuine

(* A leg of the ideal trade: what was asked is what the one before gave.   *)
LEMMA IdealIs ==
  ASSUME NEW r
  PROVE  /\ DOMAIN Ideal(r) = 1 .. 3 /\ Len(Ideal(r)) = 3
         /\ Ideal(r) = <<Ideal(r)[1], Ideal(r)[2], Ideal(r)[3]>>
         /\ \A i \in 1 .. 3 : /\ Ideal(r)[i] = Quote(0, r[i], Ideal(r)[i].amountIn)
                              /\ Ideal(r)[i].amountIn = IF i = 1 THEN Input(r[1].tin) ELSE Ideal(r)[i - 1].out
<1> DEFINE q1 == Quote(0, r[1], Input(r[1].tin))
           q2 == Quote(0, r[2], q1.out)
           q3 == Quote(0, r[3], q2.out)
<1>1. Ideal(r) = <<q1, q2, q3>>
  BY Zenon DEF Ideal
<1>2. q1.amountIn = Input(r[1].tin) /\ q2.amountIn = q1.out /\ q3.amountIn = q2.out
  <2>1. \A l, a : Quote(0, l, a).amountIn = a
    BY DEF Quote
  <2> QED BY <2>1, Zenon
<1>a. PICK x1 : x1 = q1
  OBVIOUS
<1>b. PICK x2 : x2 = q2
  OBVIOUS
<1>c. PICK x3 : x3 = q3
  OBVIOUS
<1>3. x1 = Quote(0, r[1], x1.amountIn) /\ x2 = Quote(0, r[2], x2.amountIn) /\ x3 = Quote(0, r[3], x3.amountIn)
  BY <1>2, <1>a, <1>b, <1>c, Zenon
<1>4. x1.amountIn = Input(r[1].tin) /\ x2.amountIn = x1.out /\ x3.amountIn = x2.out
  BY <1>2, <1>a, <1>b, <1>c, Zenon
<1>5. Ideal(r) = <<x1, x2, x3>>
  BY <1>1, <1>a, <1>b, <1>c, Zenon
<1> HIDE DEF q1, q2, q3
<1>6. DOMAIN Ideal(r) = 1 .. 3 /\ Len(Ideal(r)) = 3 /\ Ideal(r)[1] = x1 /\ Ideal(r)[2] = x2 /\ Ideal(r)[3] = x3
  BY <1>5
<1>7. Ideal(r) = <<Ideal(r)[1], Ideal(r)[2], Ideal(r)[3]>>
  BY <1>5, <1>6
<1>8. ASSUME NEW i \in 1 .. 3
      PROVE  /\ Ideal(r)[i] = Quote(0, r[i], Ideal(r)[i].amountIn)
             /\ Ideal(r)[i].amountIn = IF i = 1 THEN Input(r[1].tin) ELSE Ideal(r)[i - 1].out
  <2>1. i = 1 \/ i = 2 \/ i = 3
    OBVIOUS
  <2>2. CASE i = 1
    BY <1>3, <1>4, <1>6, <2>2
  <2>3. CASE i = 2
    <3>1. i - 1 = 1
      BY <2>3
    <3> QED BY <1>3, <1>4, <1>6, <2>3, <3>1
  <2>4. CASE i = 3
    <3>1. i - 1 = 2
      BY <2>4
    <3> QED BY <1>3, <1>4, <1>6, <2>4, <3>1
  <2> QED BY <2>1, <2>2, <2>3, <2>4
<1> QED BY <1>6, <1>7, <1>8

LEMMA AppendIs ==
  ASSUME NEW x1, NEW x2, NEW x3
  PROVE  Append(<<x1>>, x2) = <<x1, x2>> /\ Append(<<x1, x2>>, x3) = <<x1, x2, x3>>
<1> DEFINE S == {x1, x2, x3}
<1>1. <<x1>> \in Seq(S) /\ <<x1, x2>> \in Seq(S) /\ <<x1, x2, x3>> \in Seq(S) /\ x2 \in S /\ x3 \in S
  OBVIOUS
<1> HIDE DEF S
<1>2. Append(<<x1>>, x2) = <<x1, x2>>
  <2>1. /\ Append(<<x1>>, x2) \in Seq(S) /\ Len(Append(<<x1>>, x2)) = Len(<<x1>>) + 1
        /\ \A i \in 1 .. Len(<<x1>>) : Append(<<x1>>, x2)[i] = <<x1>>[i]
        /\ Append(<<x1>>, x2)[Len(<<x1>>) + 1] = x2
    BY <1>1, AppendProperties
  <2>2. Len(<<x1>>) = 1 /\ Len(<<x1, x2>>) = 2 /\ <<x1>>[1] = x1 /\ <<x1, x2>>[1] = x1 /\ <<x1, x2>>[2] = x2
    OBVIOUS
  <2>3. PICK s : s = Append(<<x1>>, x2)
    OBVIOUS
  <2>4. s \in Seq(S) /\ Len(s) = 2 /\ s[1] = x1 /\ s[2] = x2
    BY <2>1, <2>2, <2>3
  <2>5. PICK u : u = <<x1, x2>>
    OBVIOUS
  <2>6. u \in Seq(S) /\ Len(u) = 2 /\ u[1] = x1 /\ u[2] = x2
    BY <1>1, <2>2, <2>5
  <2>7. \A i \in 1 .. 2 : i = 1 \/ i = 2
    OBVIOUS
  <2>8. s = u
    BY <2>4, <2>6, <2>7, SeqEqual
  <2> QED BY <2>3, <2>5, <2>8
<1>3. Append(<<x1, x2>>, x3) = <<x1, x2, x3>>
  <2>1. /\ Append(<<x1, x2>>, x3) \in Seq(S) /\ Len(Append(<<x1, x2>>, x3)) = Len(<<x1, x2>>) + 1
        /\ \A i \in 1 .. Len(<<x1, x2>>) : Append(<<x1, x2>>, x3)[i] = <<x1, x2>>[i]
        /\ Append(<<x1, x2>>, x3)[Len(<<x1, x2>>) + 1] = x3
    BY <1>1, AppendProperties
  <2>2. Len(<<x1, x2>>) = 2 /\ <<x1, x2>>[1] = x1 /\ <<x1, x2>>[2] = x2
    OBVIOUS
  <2>a. Len(<<x1, x2, x3>>) = 3 /\ <<x1, x2, x3>>[1] = x1 /\ <<x1, x2, x3>>[2] = x2 /\ <<x1, x2, x3>>[3] = x3
    OBVIOUS
  <2>3. PICK s : s = Append(<<x1, x2>>, x3)
    OBVIOUS
  <2>4. s \in Seq(S) /\ Len(s) = 3 /\ s[1] = x1 /\ s[2] = x2 /\ s[3] = x3
    BY <2>1, <2>2, <2>3
  <2>5. PICK u : u = <<x1, x2, x3>>
    OBVIOUS
  <2>6. u \in Seq(S) /\ Len(u) = 3 /\ u[1] = x1 /\ u[2] = x2 /\ u[3] = x3
    BY <1>1, <2>a, <2>5
  <2>7. \A i \in 1 .. 3 : i = 1 \/ i = 2 \/ i = 3
    OBVIOUS
  <2>8. s = u
    BY <2>4, <2>6, <2>7, SeqEqual
  <2> QED BY <2>3, <2>5, <2>8
<1> QED BY <1>2, <1>3

LEMMA FirstIs ==
  ASSUME NEW r, NEW k \in 0 .. 2
  PROVE  /\ Len(First(r, k)) = k
         /\ Append(First(r, k), Ideal(r)[k + 1]) = First(r, k + 1)
         /\ AmountIn(r, First(r, k)) = Ideal(r)[k + 1].amountIn
<1>0. k = 0 \/ k = 1 \/ k = 2
  OBVIOUS
<1>a. PICK x1 : x1 = Ideal(r)[1]
  OBVIOUS
<1>b. PICK x2 : x2 = Ideal(r)[2]
  OBVIOUS
<1>c. PICK x3 : x3 = Ideal(r)[3]
  OBVIOUS
<1>1. Ideal(r) = <<x1, x2, x3>> /\ x1.amountIn = Input(r[1].tin) /\ x2.amountIn = x1.out /\ x3.amountIn = x2.out
  <2>1. Ideal(r) = <<x1, x2, x3>>
    BY <1>a, <1>b, <1>c, IdealIs
  <2>2. \A i \in 1 .. 3 : Ideal(r)[i].amountIn = IF i = 1 THEN Input(r[1].tin) ELSE Ideal(r)[i - 1].out
    BY IdealIs
  <2>3. 1 \in 1 .. 3 /\ 2 \in 1 .. 3 /\ 3 \in 1 .. 3 /\ 2 - 1 = 1 /\ 3 - 1 = 2 /\ 2 # 1 /\ 3 # 1
    OBVIOUS
  <2>4. x1.amountIn = Input(r[1].tin)
    BY <1>a, <2>2, <2>3
  <2>5. x2.amountIn = x1.out
    BY <1>a, <1>b, <2>2, <2>3
  <2>6. x3.amountIn = x2.out
    BY <1>b, <1>c, <2>2, <2>3
  <2> QED BY <2>1, <2>4, <2>5, <2>6
<1>2. First(r, 0) = <<>> /\ First(r, 1) = <<x1>> /\ First(r, 2) = <<x1, x2>> /\ First(r, 3) = <<x1, x2, x3>>
  BY <1>a, <1>b, <1>1 DEF First
<1>3. CASE k = 0
  <2>1. Append(<<>>, x1) = <<x1>> /\ Len(<<>>) = 0 /\ k + 1 = 1
    BY <1>3
  <2>2. AmountIn(r, <<>>) = Input(r[1].tin)
    BY DEF AmountIn
  <2> QED BY <1>3, <1>a, <1>1, <1>2, <2>1, <2>2
<1>4. CASE k = 1
  <2>3. Append(<<x1>>, x2) = <<x1, x2>>
    BY AppendIs, Zenon
  <2>4. Len(<<x1>>) = 1 /\ k + 1 = 2
    BY <1>4
  <2>1. Append(<<x1>>, x2) = <<x1, x2>> /\ Len(<<x1>>) = 1 /\ k + 1 = 2
    BY <2>3, <2>4, Zenon
  <2>2. AmountIn(r, <<x1>>) = x1.out
    BY DEF AmountIn
  <2> QED BY <1>4, <1>b, <1>1, <1>2, <2>1, <2>2
<1>5. CASE k = 2
  <2>3. Append(<<x1, x2>>, x3) = <<x1, x2, x3>>
    BY AppendIs, Zenon
  <2>4. Len(<<x1, x2>>) = 2 /\ k + 1 = 3
    BY <1>5
  <2>1. Append(<<x1, x2>>, x3) = <<x1, x2, x3>> /\ Len(<<x1, x2>>) = 2 /\ k + 1 = 3
    BY <2>3, <2>4, Zenon
  <2>2. AmountIn(r, <<x1, x2>>) = x2.out
    BY DEF AmountIn
  <2> QED BY <1>5, <1>c, <1>1, <1>2, <2>1, <2>2
<1> QED BY <1>0, <1>3, <1>4, <1>5

Step(place, quotes) == [at |-> place, quotes |-> quotes]

LEMMA TaskStepFits ==
  ASSUME NEW tk, NEW kn, NEW pools, TasksFit(tk, kn, pools), NEW r \in DOMAIN tk, NEW place, NEW quotes
  PROVE  TasksFit(Put(tk, r, Step(place, quotes)), kn, pools)
<1> DEFINE m == Put(tk, r, Step(place, quotes))
<1>1. DOMAIN m = DOMAIN tk /\ m[r] = Step(place, quotes) /\ \A x \in DOMAIN tk : x # r => m[x] = tk[x]
  BY DEF Put
<1>2. Step(place, quotes) = [at |-> Step(place, quotes).at, quotes |-> Step(place, quotes).quotes]
  BY DEF Step
<1> HIDE DEF m
<1>3. \A x \in DOMAIN m : RouteFits(x, kn, pools) /\ m[x] = [at |-> m[x].at, quotes |-> m[x].quotes]
  <2> SUFFICES ASSUME NEW x \in DOMAIN m PROVE RouteFits(x, kn, pools) /\ m[x] = [at |-> m[x].at, quotes |-> m[x].quotes]
    OBVIOUS
  <2>1. CASE x = r
    BY <1>1, <1>2, <2>1 DEF TasksFit
  <2>2. CASE x # r
    BY <1>1, <2>2 DEF TasksFit
  <2> QED BY <2>1, <2>2
<1> QED BY <1>3 DEF TasksFit, m

LEMMA TaskStepIdeal ==
  ASSUME NEW tk, NEW c, TasksAreIdeal(tk, c), NEW r \in DOMAIN tk, NEW t, NEW d,
         NoneCollides(DOMAIN tk) => IdealSoFar(r, t) /\ CacheIsIdeal(d, DOMAIN tk)
  PROVE  TasksAreIdeal(Put(tk, r, t), d)
<1> DEFINE m == Put(tk, r, t)
<1>1. DOMAIN m = DOMAIN tk /\ m[r] = t /\ \A x \in DOMAIN tk : x # r => m[x] = tk[x]
  BY DEF Put
<1> HIDE DEF m
<1>2. TasksAreIdeal(m, d)
  <2> SUFFICES ASSUME NoneCollides(DOMAIN m)
               PROVE  CacheIsIdeal(d, DOMAIN m) /\ \A x \in DOMAIN m : IdealSoFar(x, m[x])
    BY DEF TasksAreIdeal
  <2>1. IdealSoFar(r, t) /\ CacheIsIdeal(d, DOMAIN m) /\ \A x \in DOMAIN tk : IdealSoFar(x, tk[x])
    BY <1>1 DEF TasksAreIdeal
  <2> QED BY <1>1, <2>1
<1> QED BY <1>2 DEF m

(* Where a task that goes on stands: its next leg, and with what.          *)
LEMMA NextIs ==
  ASSUME NEW r \in Tried, RouteFits(r, known, DOMAIN context), IdealSoFar(r, task[r]),
         task[r].at \in {"queued", "look", "fetch"}
  PROVE  \E k \in 0 .. 2 :
           /\ task[r].quotes = First(r, k) /\ Len(r) = 3 /\ k + 1 \in 1 .. 3
           /\ NextLeg(r) = r[k + 1] /\ Amount(r) = Ideal(r)[k + 1].amountIn
<1>1. PICK k \in 0 .. 3 : task[r].quotes = First(r, k) /\ k < 3
  BY DEF IdealSoFar
<1>2. k \in 0 .. 2
  BY <1>1
<1>3. Len(First(r, k)) = k /\ AmountIn(r, First(r, k)) = Ideal(r)[k + 1].amountIn
  BY <1>2, FirstIs
<1>4. Len(r) = 3
  <2>1. Len(<<r[1], r[2], r[3]>>) = 3
    OBVIOUS
  <2> QED BY <2>1, Zenon DEF RouteFits
<1>5. NextLeg(r) = r[k + 1]
  BY <1>1, <1>3, Zenon DEF NextLeg
<1>6. Amount(r) = Ideal(r)[k + 1].amountIn
  BY <1>1, <1>3, Zenon DEF Amount
<1>7. k + 1 \in 1 .. 3
  BY <1>2
<1> QED BY <1>1, <1>2, <1>4, <1>5, <1>6, <1>7

(* The quote that comes next is the ideal one.                             *)
LEMMA WithIdeal ==
  ASSUME NEW r \in Tried, RouteFits(r, known, DOMAIN context), NEW k \in 0 .. 2, task[r].quotes = First(r, k),
         NEW quote, quote = Ideal(r)[k + 1], NEW place, place = "look" => k < 2,
         place \in {"look", "ok", "bad"}, place = "ok" => k = 2
  PROVE  IdealSoFar(r, Step(place, Append(task[r].quotes, quote)))
<1>1. Append(First(r, k), Ideal(r)[k + 1]) = First(r, k + 1)
  BY FirstIs
<1>2. Append(task[r].quotes, quote) = First(r, k + 1)
  BY <1>1, Zenon
<1>3. Step(place, First(r, k + 1)).at = place /\ Step(place, First(r, k + 1)).quotes = First(r, k + 1)
  BY DEF Step
<1>4. k + 1 \in 0 .. 3 /\ (place = "look" => k + 1 < 3) /\ (place = "ok" => k + 1 = 3)
  OBVIOUS
<1>5. place # "queued" /\ place # "fetch"
  OBVIOUS
<1> QED BY <1>2, <1>3, <1>4, <1>5 DEF IdealSoFar

WithAt(r, quotes) == IF Len(quotes) < Len(r) THEN "look" ELSE IF Chained(r, quotes) THEN "ok" ELSE "bad"
LEMMA WithIs ==
  ASSUME NEW r \in Tried, NEW quote, With(r, quote)
  PROVE  task' = Put(task, r, Step(WithAt(r, Append(task[r].quotes, quote)), Append(task[r].quotes, quote)))
<1>a. PICK quotes : quotes = Append(task[r].quotes, quote)
  OBVIOUS
<1>1. task' = [task EXCEPT ![r] = Step(WithAt(r, quotes), quotes)]
  BY <1>a, Zenon DEF With, Step, WithAt
<1>2. task' = Put(task, r, Step(WithAt(r, quotes), quotes))
  BY <1>1 DEF Put, Tried
<1> QED BY <1>2, <1>a

LEMMA WithIsIdeal ==
  ASSUME NEW r \in Tried, RouteFits(r, known, DOMAIN context), NEW k \in 0 .. 2, task[r].quotes = First(r, k), Len(r) = 3,
         NEW quote, quote = Ideal(r)[k + 1]
  PROVE  IdealSoFar(r, Step(WithAt(r, Append(task[r].quotes, quote)), Append(task[r].quotes, quote)))
<1>a. PICK quotes : quotes = Append(task[r].quotes, quote)
  OBVIOUS
<1>b. PICK place : place = WithAt(r, quotes)
  OBVIOUS
<1>1. Append(First(r, k), Ideal(r)[k + 1]) = First(r, k + 1)
  BY FirstIs
<1>2. quotes = First(r, k + 1)
  BY <1>1, <1>a, Zenon
<1>3. Len(quotes) = k + 1
  <2>1. CASE k \in 0 .. 1
    <3>1. k + 1 \in 0 .. 2
      BY <2>1
    <3>2. Len(First(r, k + 1)) = k + 1
      BY <3>1, FirstIs
    <3> QED BY <1>2, <3>2
  <2>2. CASE k = 2
    <3>1. First(r, 3) = Ideal(r)
      BY DEF First
    <3>2. k + 1 = 3
      BY <2>2
    <3>3. Len(Ideal(r)) = 3
      BY IdealIs, Zenon
    <3>4. quotes = First(r, 3)
      BY <1>2, <3>2
    <3> QED BY <3>1, <3>2, <3>3, <3>4
  <2> QED BY <2>1, <2>2
<1>4. place \in {"look", "ok", "bad"} /\ (place = "look" => k < 2) /\ (place = "ok" => k = 2)
  BY <1>3, <1>b DEF WithAt
<1>5. IdealSoFar(r, Step(place, quotes))
  BY <1>4, <1>a, WithIdeal
<1> QED BY <1>5, <1>a, <1>b

(* The cached quote of a pool and an amount is the one that the leg would  *)
(* have had, if none of the routes goes through the pool the other way.    *)
LEMMA CachedIsIdeal ==
  ASSUME TasksFit(task, known, DOMAIN context), NoneCollides(Tried), CacheIsIdeal(cache, Tried),
         NEW r \in Tried, NEW i \in 1 .. 3, CacheKey(r[i], Ideal(r)[i].amountIn) \in DOMAIN cache
  PROVE  cache[CacheKey(r[i], Ideal(r)[i].amountIn)] = Ideal(r)[i]
<1>a. PICK key : key = CacheKey(r[i], Ideal(r)[i].amountIn)
  OBVIOUS
<1>1. PICK q \in Tried : \E j \in 1 .. 3 : key = CacheKey(q[j], Ideal(q)[j].amountIn) /\ cache[key] = Ideal(q)[j]
  BY <1>a DEF CacheIsIdeal
<1>2. PICK j \in 1 .. 3 : key = CacheKey(q[j], Ideal(q)[j].amountIn) /\ cache[key] = Ideal(q)[j]
  BY <1>1
<1>3. q[j].pool = r[i].pool /\ Ideal(q)[j].amountIn = Ideal(r)[i].amountIn
  BY <1>a, <1>2 DEF CacheKey
<1>4. q[j].tin = r[i].tin
  BY <1>3 DEF NoneCollides
<1>5. LegFits(q[j], known, DOMAIN context) /\ LegFits(r[i], known, DOMAIN context)
  BY DEF TasksFit, RouteFits, Tried
<1>6. q[j] = r[i]
  <2>1. q[j] = Leg(q[j].pool, q[j].tin, q[j].tout) /\ r[i] = Leg(r[i].pool, r[i].tin, r[i].tout)
    BY <1>5 DEF LegFits
  <2>2. {q[j].tin, q[j].tout} = {r[i].tin, r[i].tout} /\ q[j].tin # q[j].tout /\ r[i].tin # r[i].tout
    BY <1>3, <1>5 DEF LegFits
  <2>3. q[j].tout = r[i].tout
    BY <1>4, <2>2
  <2> QED BY <1>3, <1>4, <2>1, <2>3, Zenon
<1>7. Ideal(q)[j] = Quote(0, q[j], Ideal(q)[j].amountIn) /\ Ideal(r)[i] = Quote(0, r[i], Ideal(r)[i].amountIn)
  BY IdealIs, Zenon
<1>8. Ideal(q)[j] = Ideal(r)[i]
  BY <1>3, <1>6, <1>7, Zenon
<1> QED BY <1>2, <1>8, <1>a

RequoteStays ==
  /\ TasksFit(task', known, DOMAIN context)
  /\ branch = 0 => TasksAreIdeal(task', cache')
  /\ DOMAIN task' = Tried

LEMMA StartStays ==
  ASSUME RoundInv, NEW r \in Tried, Start(r)
  PROVE  RequoteStays
<1>1. task[r].at = "queued" /\ task[r] = Step(task[r].at, task[r].quotes) /\ TasksFit(task, known, DOMAIN context)
  BY DEF Start, Tasks, RoundInv, GraphInv, TasksFit, Tried, Step
<1>2. task' = Put(task, r, Step("look", task[r].quotes)) /\ cache' = cache
  <2>1. task' = [task EXCEPT ![r].at = "look"] /\ cache' = cache
    BY DEF Start
  <2>2. [task[r] EXCEPT !.at = "look"] = Step("look", task[r].quotes)
    BY <1>1 DEF Step
  <2> QED BY <2>1, <2>2 DEF Put, Tried
<1>3. TasksFit(task', known, DOMAIN context)
  BY <1>1, <1>2, TaskStepFits DEF Tried
<1>4. ASSUME branch = 0 PROVE TasksAreIdeal(task', cache')
  <2>1. TasksAreIdeal(task, cache)
    BY <1>4 DEF RoundInv
  <2>2. ASSUME NoneCollides(Tried) PROVE IdealSoFar(r, Step("look", task[r].quotes)) /\ CacheIsIdeal(cache, Tried)
    <3>1. IdealSoFar(r, task[r]) /\ CacheIsIdeal(cache, Tried)
      BY <2>1, <2>2 DEF TasksAreIdeal, Tried
    <3>2. PICK k \in 0 .. 3 : task[r].quotes = First(r, k) /\ k < 3
      BY <1>1, <3>1 DEF IdealSoFar
    <3> QED BY <3>1, <3>2 DEF IdealSoFar, Step
  <2> QED BY <1>2, <2>1, <2>2, TaskStepIdeal DEF Tried
<1>5. DOMAIN task' = Tried
  BY <1>2 DEF Put, Tried
<1> QED BY <1>3, <1>4, <1>5 DEF RequoteStays

LEMMA FetchFailsStays ==
  ASSUME RoundInv, NEW r \in Tried, FetchFails(r)
  PROVE  RequoteStays
<1>1. task[r].at = "fetch" /\ task[r] = Step(task[r].at, task[r].quotes) /\ TasksFit(task, known, DOMAIN context)
  BY DEF FetchFails, Tasks, RoundInv, GraphInv, TasksFit, Tried, Step
<1>2. task' = Put(task, r, Step("bad", task[r].quotes)) /\ cache' = cache
  <2>1. task' = [task EXCEPT ![r].at = "bad"] /\ cache' = cache
    BY DEF FetchFails
  <2>2. [task[r] EXCEPT !.at = "bad"] = Step("bad", task[r].quotes)
    BY <1>1 DEF Step
  <2> QED BY <2>1, <2>2 DEF Put, Tried
<1>3. TasksFit(task', known, DOMAIN context)
  BY <1>1, <1>2, TaskStepFits DEF Tried
<1>4. ASSUME branch = 0 PROVE TasksAreIdeal(task', cache')
  <2>1. TasksAreIdeal(task, cache)
    BY <1>4 DEF RoundInv
  <2>2. ASSUME NoneCollides(Tried) PROVE IdealSoFar(r, Step("bad", task[r].quotes)) /\ CacheIsIdeal(cache, Tried)
    <3>1. IdealSoFar(r, task[r]) /\ CacheIsIdeal(cache, Tried)
      BY <2>1, <2>2 DEF TasksAreIdeal, Tried
    <3>2. PICK k \in 0 .. 3 : task[r].quotes = First(r, k) /\ k < 3
      BY <1>1, <3>1 DEF IdealSoFar
    <3> QED BY <3>1, <3>2 DEF IdealSoFar, Step
  <2> QED BY <1>2, <2>1, <2>2, TaskStepIdeal DEF Tried
<1>5. DOMAIN task' = Tried
  BY <1>2 DEF Put, Tried
<1> QED BY <1>3, <1>4, <1>5 DEF RequoteStays

LEMMA LookUpStays ==
  ASSUME RoundInv, NEW r \in Tried, LookUp(r)
  PROVE  RequoteStays
<1>1. task[r].at = "look" /\ task[r] = Step(task[r].at, task[r].quotes) /\ TasksFit(task, known, DOMAIN context)
      /\ RouteFits(r, known, DOMAIN context) /\ cache' = cache
  BY DEF LookUp, Tasks, RoundInv, GraphInv, TasksFit, Tried, Step
<1>a. PICK key : key = CacheKey(NextLeg(r), Amount(r))
  OBVIOUS
<1>2. CASE key \notin DOMAIN cache
  <2>1. task' = Put(task, r, Step("fetch", task[r].quotes))
    <3>1. task' = [task EXCEPT ![r].at = "fetch"]
      BY <1>2, <1>a DEF LookUp
    <3>2. [task[r] EXCEPT !.at = "fetch"] = Step("fetch", task[r].quotes)
      BY <1>1 DEF Step
    <3> QED BY <3>1, <3>2 DEF Put, Tried
  <2>2. TasksFit(task', known, DOMAIN context)
    BY <1>1, <2>1, TaskStepFits DEF Tried
  <2>3. ASSUME branch = 0 PROVE TasksAreIdeal(task', cache')
    <3>1. TasksAreIdeal(task, cache)
      BY <2>3 DEF RoundInv
    <3>2. ASSUME NoneCollides(Tried) PROVE IdealSoFar(r, Step("fetch", task[r].quotes)) /\ CacheIsIdeal(cache, Tried)
      <4>1. IdealSoFar(r, task[r]) /\ CacheIsIdeal(cache, Tried)
        BY <3>1, <3>2 DEF TasksAreIdeal, Tried
      <4>2. PICK k \in 0 .. 3 : task[r].quotes = First(r, k) /\ k < 3
        BY <1>1, <4>1 DEF IdealSoFar
      <4> QED BY <4>1, <4>2 DEF IdealSoFar, Step
    <3> QED BY <1>1, <2>1, <3>1, <3>2, TaskStepIdeal DEF Tried
  <2>4. DOMAIN task' = Tried
    BY <2>1 DEF Put, Tried
  <2> QED BY <2>2, <2>3, <2>4 DEF RequoteStays
<1>3. CASE key \in DOMAIN cache
  <2>a. PICK quote : quote = cache[key]
    OBVIOUS
  <2>b. PICK n : n = Step(WithAt(r, Append(task[r].quotes, quote)), Append(task[r].quotes, quote))
    OBVIOUS
  <2>1. task' = Put(task, r, n)
    <3>1. With(r, quote)
      BY <1>3, <1>a, <2>a, Zenon DEF LookUp
    <3> QED BY <3>1, <2>b, WithIs
  <2>2. TasksFit(task', known, DOMAIN context)
    BY <1>1, <2>1, <2>b, TaskStepFits DEF Tried
  <2>3. ASSUME branch = 0 PROVE TasksAreIdeal(task', cache')
    <3>1. TasksAreIdeal(task, cache)
      BY <2>3 DEF RoundInv
    <3>2. ASSUME NoneCollides(Tried) PROVE IdealSoFar(r, n) /\ CacheIsIdeal(cache, Tried)
      <4>1. IdealSoFar(r, task[r]) /\ CacheIsIdeal(cache, Tried)
        BY <3>1, <3>2 DEF TasksAreIdeal, Tried
      <4>2. PICK k \in 0 .. 2 :
              /\ task[r].quotes = First(r, k) /\ Len(r) = 3 /\ k + 1 \in 1 .. 3
              /\ NextLeg(r) = r[k + 1] /\ Amount(r) = Ideal(r)[k + 1].amountIn
        BY <1>1, <4>1, NextIs
      <4>3. key = CacheKey(r[k + 1], Ideal(r)[k + 1].amountIn)
        BY <1>a, <4>2, Zenon
      <4>4. quote = Ideal(r)[k + 1]
        BY <1>1, <1>3, <2>a, <3>2, <4>1, <4>2, <4>3, CachedIsIdeal
      <4>5. IdealSoFar(r, n)
        BY <1>1, <2>b, <4>2, <4>4, WithIsIdeal
      <4> QED BY <4>1, <4>5
    <3> QED BY <1>1, <2>1, <3>1, <3>2, TaskStepIdeal DEF Tried
  <2>4. DOMAIN task' = Tried
    BY <2>1 DEF Put, Tried
  <2> QED BY <2>2, <2>3, <2>4 DEF RequoteStays
<1> QED BY <1>2, <1>3

LEMMA FetchedStays ==
  ASSUME RoundInv, NEW r \in Tried, Fetched(r)
  PROVE  RequoteStays
<1>1. task[r].at = "fetch" /\ TasksFit(task, known, DOMAIN context) /\ RouteFits(r, known, DOMAIN context)
  BY DEF Fetched, Tasks, RoundInv, GraphInv, TasksFit, Tried
<1>a. PICK quote : quote = Answer(r)
  OBVIOUS
<1>b. PICK n : n = Step(WithAt(r, Append(task[r].quotes, quote)), Append(task[r].quotes, quote))
  OBVIOUS
<1>c. PICK key : key = CacheKey(NextLeg(r), Amount(r))
  OBVIOUS
<1>2. task' = Put(task, r, n)
  <2>1. With(r, quote)
    BY <1>a, Zenon DEF Fetched
  <2> QED BY <2>1, <1>b, WithIs
<1>3. cache' = Insert(key, quote)
  BY <1>a, <1>c, Zenon DEF Fetched
<1>4. TasksFit(task', known, DOMAIN context)
  BY <1>1, <1>2, <1>b, TaskStepFits DEF Tried
<1>5. ASSUME branch = 0 PROVE TasksAreIdeal(task', cache')
  <2>1. TasksAreIdeal(task, cache)
    BY <1>5 DEF RoundInv
  <2>2. ASSUME NoneCollides(Tried) PROVE IdealSoFar(r, n) /\ CacheIsIdeal(cache', Tried)
    <3>1. IdealSoFar(r, task[r]) /\ CacheIsIdeal(cache, Tried)
      BY <2>1, <2>2 DEF TasksAreIdeal, Tried
    <3>2. PICK k \in 0 .. 2 :
            /\ task[r].quotes = First(r, k) /\ Len(r) = 3 /\ k + 1 \in 1 .. 3
            /\ NextLeg(r) = r[k + 1] /\ Amount(r) = Ideal(r)[k + 1].amountIn
      BY <1>1, <3>1, NextIs
    <3>3. quote = Ideal(r)[k + 1]
      <4>1. Ideal(r)[k + 1] = Quote(0, r[k + 1], Ideal(r)[k + 1].amountIn)
        BY <3>2, IdealIs, Zenon
      <4> QED BY <1>5, <1>a, <3>2, <4>1, Zenon DEF Answer
    <3>4. IdealSoFar(r, n)
      BY <1>1, <1>b, <3>2, <3>3, WithIsIdeal
    <3>5. key = CacheKey(r[k + 1], Ideal(r)[k + 1].amountIn)
      BY <1>c, <3>2, Zenon
    <3>6. DOMAIN cache' = DOMAIN cache \cup {key} /\ cache'[key] = quote /\ \A x \in DOMAIN cache : x # key => cache'[x] = cache[x]
      BY <1>3 DEF Insert
    <3>7. ASSUME NEW x \in DOMAIN cache'
          PROVE  \E q \in Tried : \E i \in 1 .. 3 : x = CacheKey(q[i], Ideal(q)[i].amountIn) /\ cache'[x] = Ideal(q)[i]
      <4>1. CASE x = key
        BY <3>2, <3>3, <3>5, <3>6, <4>1
      <4>2. CASE x # key
        BY <3>1, <3>6, <3>7, <4>2 DEF CacheIsIdeal
      <4> QED BY <4>1, <4>2
    <3> QED BY <3>4, <3>7 DEF CacheIsIdeal
  <2> QED BY <1>2, <2>1, <2>2, TaskStepIdeal DEF Tried
<1>6. DOMAIN task' = Tried
  BY <1>2 DEF Put, Tried
<1> QED BY <1>4, <1>5, <1>6 DEF RequoteStays

LEMMA RequoteFits ==
  ASSUME RoundInv, NEW r \in Tried, Requote(r)
  PROVE  RequoteStays /\ UNCHANGED <<phase, PhaseA, Results>> /\ phase = "requote"
<1>1. RequoteStays
  BY StartStays, LookUpStays, FetchedStays, FetchFailsStays DEF Requote
<1>2. UNCHANGED <<phase, PhaseA, Results>> /\ phase = "requote"
  BY DEF Requote, Start, LookUp, Fetched, FetchFails
<1> QED BY <1>1, <1>2

(* A pair's step is only its task's.                                       *)
LEMMA QuotePairStays ==
  ASSUME NEW p \in Pairs, QuotePair(p)
  PROVE  DOMAIN pair' = Pairs /\ UNCHANGED <<phase, known, graph, context, branch>> /\ phase = "quote"
<1>1. UNCHANGED <<phase, known, graph, context, branch>> /\ phase = "quote"
  BY DEF QuotePair, Begin, Resolve, ReadStates, BatchFails, Assemble, Quoted, NotQuoted, At
<1> SUFFICES DOMAIN pair' = Pairs
  BY <1>1
<1>2. CASE Begin(p)
  BY <1>2 DEF Begin, Pairs
<1>3. CASE Resolve(p)
  BY <1>3, Zenon DEF Resolve, Pairs
<1>4. CASE ReadStates(p)
  BY <1>4, Zenon DEF ReadStates, Pairs
<1>5. CASE BatchFails(p)
  BY <1>5, Zenon DEF BatchFails, Pairs
<1>6. CASE Assemble(p)
  BY <1>6, Zenon DEF Assemble, Pairs
<1>7. CASE Quoted(p)
  BY <1>7, Zenon DEF Quoted, Advance, Pairs
<1>8. CASE NotQuoted(p)
  BY <1>8, Zenon DEF NotQuoted, Advance, Pairs
<1> QED BY <1>2, <1>3, <1>4, <1>5, <1>6, <1>7, <1>8 DEF QuotePair

(* What is collected are legs between tokens of the round, through pools   *)
(* of its context.                                                         *)
LEMMA CollectedFit ==
  ASSUME RoundInv, Collect
  PROVE  \A e \in graph' : LegFits(e.leg, known', DOMAIN context')
<1>1. known' = known /\ graph' = UNION {pair[p].edges : p \in Pairs}
      /\ DOMAIN context' = UNION {QuotedPools(p) : p \in Pairs}
  BY DEF Collect
<1> SUFFICES ASSUME NEW e \in graph' PROVE LegFits(e.leg, known, DOMAIN context')
  BY <1>1
<1>2. PICK p \in Pairs : e \in pair[p].edges
  BY <1>1
<1>3. TaskFits(p, pair[p], GoneOf(lost, p)) /\ p \in known \X known /\ p[1] # p[2]
  BY DEF RoundInv, QuotesInv, PairsFit, GraphInv, PairsOf, Pairs
<1>4. e.leg.pool \in Between(p) /\ e.leg = Leg(e.leg.pool, p[1], p[2])
  BY <1>2, <1>3 DEF TaskFits
<1>5. e.leg.pool \in DOMAIN context'
  BY <1>1, <1>2 DEF QuotedPools
<1>6. e.leg.tin = p[1] /\ e.leg.tout = p[2]
  BY <1>4 DEF Leg
<1>7. e.leg.pool \in Pools /\ Sides(e.leg.pool) = {p[1], p[2]}
  BY <1>4 DEF Between
<1> QED BY <1>3, <1>4, <1>5, <1>6, <1>7 DEF LegFits

(* The routes that are ranked.                                             *)
LEMMA RankedFit ==
  ASSUME RoundInv, Rank
  PROVE  /\ TasksFit(task', known, DOMAIN context)
         /\ TasksAreIdeal(task', cache')
<1>1. task' = [r \in Ranked |-> Step("queued", <<>>)] /\ DOMAIN cache' = {}
  BY DEF Rank, Step, RoundInv, GraphInv
<1>2. ASSUME NEW r \in Ranked PROVE RouteFits(r, known, DOMAIN context)
  <2>1. PICK t \in graph \X graph \X graph : r = Legs(t)
    BY DEF Ranked, Triangles
  <2>2. r = <<t[1].leg, t[2].leg, t[3].leg>>
    BY <2>1 DEF Legs
  <2>a. PICK x1 : x1 = t[1].leg
    OBVIOUS
  <2>b. PICK x2 : x2 = t[2].leg
    OBVIOUS
  <2>c. PICK x3 : x3 = t[3].leg
    OBVIOUS
  <2>3. r = <<x1, x2, x3>> /\ r[1] = x1 /\ r[2] = x2 /\ r[3] = x3
    BY <2>2, <2>a, <2>b, <2>c
  <2>4. r = <<r[1], r[2], r[3]>>
    BY <2>3
  <2>5. t[1] \in graph /\ t[2] \in graph /\ t[3] \in graph
    BY <2>1
  <2>6. LegFits(x1, known, DOMAIN context) /\ LegFits(x2, known, DOMAIN context) /\ LegFits(x3, known, DOMAIN context)
    BY <2>5, <2>a, <2>b, <2>c DEF RoundInv, GraphInv
  <2>7. ASSUME NEW i \in 1 .. 3 PROVE LegFits(r[i], known, DOMAIN context)
    <3>1. i = 1 \/ i = 2 \/ i = 3
      OBVIOUS
    <3> QED BY <2>3, <2>6, <3>1
  <2> QED BY <2>4, <2>7 DEF RouteFits
<1>3. Step("queued", <<>>) = [at |-> Step("queued", <<>>).at, quotes |-> Step("queued", <<>>).quotes]
      /\ Step("queued", <<>>).at = "queued" /\ Step("queued", <<>>).quotes = <<>>
  BY DEF Step
<1>4. ASSUME NEW r PROVE IdealSoFar(r, Step("queued", <<>>))
  <2>1. First(r, 0) = <<>> /\ 0 \in 0 .. 3
    BY DEF First
  <2> QED BY <1>3, <2>1 DEF IdealSoFar
<1>5. DOMAIN task' = Ranked /\ \A r \in Ranked : task'[r] = Step("queued", <<>>)
  BY <1>1
<1>6. TasksFit(task', known, DOMAIN context)
  BY <1>2, <1>3, <1>5 DEF TasksFit
<1>7. TasksAreIdeal(task', cache')
  BY <1>1, <1>4, <1>5 DEF TasksAreIdeal, CacheIsIdeal
<1> QED BY <1>6, <1>7

(* While the round goes on there is no evidence.                           *)
LEMMA NoEvidenceYet ==
  ASSUME EvidenceIsGenuine, phase # "done", phase' # "done", UNCHANGED Results
  PROVE  EvidenceIsGenuine'
<1>1. evidence = {} /\ rejected = {}
  BY DEF EvidenceIsGenuine, EveryRouteIsAnswered
<1>2. evidence' = {} /\ rejected' = {}
  BY <1>1 DEF Results
<1> QED BY <1>2 DEF EvidenceIsGenuine, EveryRouteIsAnswered

(* The ideal trade's amounts are numbers.                                  *)
LEMMA IdealAmounts ==
  ASSUME AmountsAreNumbers, NEW kn, kn \subseteq Tokens, NEW pools, NEW r, RouteFits(r, kn, pools)
  PROVE  Ideal(r)[3].out \in Int /\ Input(r[1].tin) \in Int
<1>1. \A i \in 1 .. 3 : LegFits(r[i], kn, pools)
  BY DEF RouteFits
<1>a. PICK a : a = r[1]
  OBVIOUS
<1>b. PICK b : b = r[2]
  OBVIOUS
<1>c. PICK c : c = r[3]
  OBVIOUS
<1>2. a.pool \in Pools /\ b.pool \in Pools /\ c.pool \in Pools /\ a.tin \in Tokens /\ b.tin \in Tokens /\ c.tin \in Tokens
  <2>1. 1 \in 1 .. 3 /\ 2 \in 1 .. 3 /\ 3 \in 1 .. 3
    OBVIOUS
  <2>2. LegFits(a, kn, pools) /\ LegFits(b, kn, pools) /\ LegFits(c, kn, pools)
    BY <1>1, <1>a, <1>b, <1>c, <2>1
  <2> QED BY <2>2 DEF LegFits
<1>d. PICK i1 : i1 = Input(a.tin)
  OBVIOUS
<1>e. PICK o1 : o1 = Out(0, a.pool, a.tin, i1)
  OBVIOUS
<1>f. PICK o2 : o2 = Out(0, b.pool, b.tin, o1)
  OBVIOUS
<1>g. PICK o3 : o3 = Out(0, c.pool, c.tin, o2)
  OBVIOUS
<1>3. i1 \in Int
  BY <1>2, <1>d DEF AmountsAreNumbers
<1>4. o1 \in Int
  BY <1>2, <1>3, <1>e DEF AmountsAreNumbers
<1>5. o2 \in Int
  BY <1>2, <1>4, <1>f DEF AmountsAreNumbers
<1>6. o3 \in Int
  BY <1>2, <1>5, <1>g DEF AmountsAreNumbers
<1>7. \A l, x : Quote(0, l, x).out = Out(0, l.pool, l.tin, x)
  BY DEF Quote
<1>8. Quote(0, a, i1).out = o1 /\ Quote(0, b, o1).out = o2 /\ Quote(0, c, o2).out = o3
  BY <1>7, <1>e, <1>f, <1>g, Zenon
<1>9. Ideal(r) = <<Quote(0, a, i1), Quote(0, b, o1), Quote(0, c, o2)>>
  BY <1>8, <1>a, <1>b, <1>c, <1>d, Zenon DEF Ideal
<1>h. PICK q1 : q1 = Quote(0, a, i1)
  OBVIOUS
<1>i. PICK q2 : q2 = Quote(0, b, o1)
  OBVIOUS
<1>j. PICK q3 : q3 = Quote(0, c, o2)
  OBVIOUS
<1>10. Ideal(r)[3] = q3
  <2>1. Ideal(r) = <<q1, q2, q3>>
    BY <1>9, <1>h, <1>i, <1>j, Zenon
  <2> QED BY <2>1
<1> QED BY <1>3, <1>6, <1>8, <1>10, <1>a, <1>d, <1>j, Zenon

(* What the requotes have come to is what is answered.                     *)
LEMMA EvaluateStays ==
  ASSUME AmountsAreNumbers, RoundInv, Evaluate
  PROVE  EvidenceIsGenuine'
<1> DEFINE kept == {r \in Tasks("ok") : HasContext /\ Materializes(r)}
<1>1. /\ task' = task /\ branch' = branch /\ phase' = "done" /\ Tried' = Tried
      /\ evidence' = {Evidence(r) : r \in kept}
      /\ rejected' = {r \in Tried : task[r].at = "bad" \/ (HasContext /\ ~Materializes(r))}
      /\ \A r \in Tried : task[r].at \in {"ok", "bad"}
      /\ positive' = {e.route : e \in {f \in evidence' : IsPositive(f)}}
  BY DEF Evaluate, Tried, PhaseA
<1>2. \A r : Evidence(r).route = r /\ Evidence(r).quotes = task[r].quotes /\ Evidence(r).net = Net(r)
  BY DEF Evidence
<1>3. \A r : r \in kept <=> r \in Tried /\ task[r].at = "ok" /\ HasContext /\ Materializes(r)
  BY DEF Tasks
<1> HIDE DEF kept
<1>4. \A r \in Tried : RouteFits(r, known, DOMAIN context)
  BY DEF RoundInv, GraphInv, TasksFit, Tried
<1>5. \A r \in Tried : HasContext
  <2> SUFFICES ASSUME NEW r \in Tried PROVE known # {} /\ DOMAIN context # {}
    BY DEF HasContext, Placeholder
  <2>1. 1 \in 1 .. 3
    OBVIOUS
  <2>2. LegFits(r[1], known, DOMAIN context)
    BY <1>4, <2>1 DEF RouteFits
  <2> QED BY <2>2 DEF LegFits
<1>6. \A r : r \in {e.route : e \in evidence'} <=> r \in kept
  <2>1. ASSUME NEW r \in kept PROVE \E e \in evidence' : r = e.route
    BY <1>1, <1>2, <2>1
  <2>2. ASSUME NEW e \in evidence' PROVE e.route \in kept
    BY <1>1, <1>2, <2>2
  <2> QED BY <2>1, <2>2
<1>7. EveryRouteIsAnswered'
  <2>1. {e.route : e \in evidence'} \cup rejected' = Tried
    <3>1. \A r : r \in rejected' <=> r \in Tried /\ (task[r].at = "bad" \/ (HasContext /\ ~Materializes(r)))
      BY <1>1
    <3>2. \A r : r \in {e.route : e \in evidence'} \/ r \in rejected' <=> r \in Tried
      BY <1>1, <1>3, <1>5, <1>6, <3>1
    <3> QED BY <3>2
  <2>2. {e.route : e \in evidence'} \cap rejected' = {}
    <3>1. \A r : r \in kept => r \notin rejected'
      BY <1>1, <1>3
    <3> QED BY <1>6, <3>1
  <2> QED BY <1>1, <2>1, <2>2 DEF EveryRouteIsAnswered
<1>8. ASSUME NEW e \in evidence', branch = 0, \A r \in Tried : ~Collides(r)
      PROVE  /\ e.quotes = Ideal(e.route)
             /\ e.route \in positive' <=> Ideal(e.route)[3].out > Input(e.route[1].tin) + Cost
  <2>1. PICK r \in kept : e = Evidence(r)
    BY <1>1
  <2>2. e.route = r /\ e.quotes = task[r].quotes /\ e.net = Net(r) /\ r \in Tried /\ task[r].at = "ok"
    BY <1>2, <1>3, <2>1
  <2>3. NoneCollides(Tried)
    BY <1>8 DEF NoneCollides, Collides
  <2>4. IdealSoFar(r, task[r])
    BY <1>8, <2>2, <2>3 DEF RoundInv, TasksAreIdeal, Tried
  <2>5. task[r].quotes = First(r, 3)
    BY <2>2, <2>4 DEF IdealSoFar
  <2>6. task[r].quotes = Ideal(r)
    BY <2>5 DEF First
  <2>7. r \in positive' <=> Net(r) > 0
    <3>1. r \in positive' <=> \E f \in evidence' : IsPositive(f) /\ f.route = r
      BY <1>1
    <3>2. \A f \in evidence' : f.route = r => f = e
      BY <1>1, <1>2, <2>1, Zenon
    <3> QED BY <2>2, <3>1, <3>2 DEF IsPositive
  <2>8. Len(r) = 3
    <3>1. Len(<<r[1], r[2], r[3]>>) = 3
      OBVIOUS
    <3>2. RouteFits(r, known, DOMAIN context)
      BY <1>4, <2>2
    <3> QED BY <3>1, <3>2, Zenon DEF RouteFits
  <2>9. Net(r) = Ideal(r)[3].out - Input(r[1].tin) - Cost
    BY <2>6, <2>8, Zenon DEF Net
  <2>10. Ideal(r)[3].out \in Int /\ Input(r[1].tin) \in Int /\ Cost \in Int
    <3>1. known \subseteq Tokens
      BY DEF RoundInv, QuotesInv
    <3>2. Ideal(r)[3].out \in Int /\ Input(r[1].tin) \in Int
      BY <1>4, <2>2, <3>1, IdealAmounts
    <3> QED BY <3>2, RoundAssumption
  <2>11. \A x, y, z \in Int : x - y - z > 0 <=> x > y + z
    OBVIOUS
  <2>12. Net(r) > 0 <=> Ideal(r)[3].out > Input(r[1].tin) + Cost
    BY <2>9, <2>10, <2>11, Zenon
  <2> QED BY <2>2, <2>6, <2>7, <2>12, Zenon
<1>9. \A r : Collides(r)' <=> Collides(r)
  BY <1>1 DEF Collides
<1> QED BY <1>1, <1>7, <1>8, <1>9 DEF EvidenceIsGenuine

LEMMA GraphStays ==
  ASSUME GraphInv, UNCHANGED <<pair, known, graph, context, task, cache>>,
         phase' \in {phase, "failed", "done"} \/ (phase = "anchor" /\ phase' \in {"tokens", "failed"})
  PROVE  GraphInv'
<1>1. PairsOf(pair', known') /\ TasksFit(task', known', DOMAIN context')
  BY DEF GraphInv
<1>2. \A e \in graph' : LegFits(e.leg, known', DOMAIN context')
  BY DEF GraphInv
<1>3. /\ phase' \in {"anchor", "tokens", "quote"} => phase \in {"anchor", "tokens", "quote"}
      /\ phase' \in {"anchor", "tokens", "quote", "rank"} => phase \in {"anchor", "tokens", "quote", "rank"}
  OBVIOUS
<1> QED BY <1>1, <1>2, <1>3 DEF GraphInv

LEMMA RoundStep ==
  ASSUME AmountsAreNumbers, RoundInv, [RoundNext]_roundVars
  PROVE  RoundInv'
<1>0. QuotesInv'
  BY QuotesStep DEF RoundInv
<1>1. ASSUME GraphInv', branch' \in Nat, branch' = 0 => TasksAreIdeal(task', cache'), EvidenceIsGenuine'
      PROVE  RoundInv'
  BY <1>0, <1>1 DEF RoundInv
<1>2. CASE CheckAnchor
  <2>1. GraphInv'
    BY <1>2, GraphStays DEF RoundInv, CheckAnchor, PhaseA
  <2>2. phase # "done" /\ phase' # "done" /\ UNCHANGED Results /\ UNCHANGED <<branch, task, cache>>
    BY <1>2 DEF CheckAnchor, PhaseA
  <2>3. EvidenceIsGenuine'
    BY <2>2, NoEvidenceYet DEF RoundInv
  <2> QED BY <1>1, <2>1, <2>2, <2>3 DEF RoundInv
<1>3. CASE Replaced
  <2>1. GraphInv'
    BY <1>3, GraphStays DEF RoundInv, Replaced
  <2>2. phase # "done" /\ phase' # "done" /\ UNCHANGED Results /\ branch' = branch + 1
    BY <1>3 DEF Replaced, Over
  <2>3. EvidenceIsGenuine'
    BY <2>2, NoEvidenceYet DEF RoundInv
  <2>4. branch' \in Nat /\ branch' # 0
    BY <2>2 DEF RoundInv
  <2> QED BY <1>1, <2>1, <2>3, <2>4
<1>4. CASE Fails
  <2>1. GraphInv'
    BY <1>4, GraphStays DEF RoundInv, Fails, PhaseA
  <2>2. phase # "done" /\ phase' # "done" /\ UNCHANGED Results /\ UNCHANGED <<branch, task, cache>>
    BY <1>4 DEF Fails, Over, PhaseA
  <2>3. EvidenceIsGenuine'
    BY <2>2, NoEvidenceYet DEF RoundInv
  <2> QED BY <1>1, <2>1, <2>2, <2>3 DEF RoundInv
<1>5. CASE Quotes
  <2>0. UNCHANGED <<task, cache, branch>> /\ UNCHANGED Results
    <3>1. UNCHANGED branch
      BY <1>5, QuotePairStays DEF Quotes, QuotesNext, ReadTokens, Collect
    <3> QED BY <1>5, <3>1 DEF Quotes
  <2>1. ASSUME GraphInv', phase # "done", phase' # "done" PROVE RoundInv'
    <3>1. EvidenceIsGenuine'
      BY <2>0, <2>1, NoEvidenceYet DEF RoundInv
    <3> QED BY <1>1, <2>0, <2>1, <3>1 DEF RoundInv
  <2>2. CASE ReadTokens
    <3>1. phase = "tokens" /\ phase' = "quote" /\ graph' = graph
          /\ pair' = [p \in {q \in known' \X known' : q[1] # q[2]} |-> Waiting]
      BY <2>2 DEF ReadTokens
    <3>2. PairsOf(pair', known')
      BY <3>1 DEF PairsOf
    <3>3. graph' = {} /\ DOMAIN task' = {} /\ DOMAIN cache' = {}
      BY <2>0, <3>1 DEF RoundInv, GraphInv
    <3>4. TasksFit(task', known', DOMAIN context')
      BY <3>3 DEF TasksFit
    <3>5. GraphInv'
      BY <3>2, <3>3, <3>4 DEF GraphInv
    <3> QED BY <2>1, <3>1, <3>5
  <2>3. CASE \E p \in Pairs : QuotePair(p)
    <3>1. DOMAIN pair' = Pairs /\ UNCHANGED <<phase, known, graph, context>> /\ phase = "quote"
      BY <2>3, QuotePairStays
    <3>2. PairsOf(pair', known')
      BY <3>1 DEF RoundInv, GraphInv, PairsOf, Pairs
    <3>3. GraphInv'
      BY <2>0, <3>1, <3>2 DEF RoundInv, GraphInv, LegFits, TasksFit, RouteFits
    <3> QED BY <2>1, <3>1, <3>3
  <2>4. CASE Collect
    <3>1. phase = "quote" /\ phase' = "rank" /\ pair' = <<>>
      BY <2>4 DEF Collect
    <3>2. PairsOf(pair', known')
      BY <3>1 DEF PairsOf
    <3>3. \A e \in graph' : LegFits(e.leg, known', DOMAIN context')
      BY <2>4, CollectedFit
    <3>4. DOMAIN task' = {} /\ DOMAIN cache' = {}
      BY <2>0, <3>1 DEF RoundInv, GraphInv
    <3>5. TasksFit(task', known', DOMAIN context')
      BY <3>4 DEF TasksFit
    <3>6. GraphInv'
      BY <3>1, <3>2, <3>3, <3>4, <3>5 DEF GraphInv
    <3> QED BY <2>1, <3>1, <3>6
  <2> QED BY <1>5, <2>2, <2>3, <2>4 DEF Quotes, QuotesNext
<1>6. CASE Rank
  <2>1. TasksFit(task', known, DOMAIN context) /\ TasksAreIdeal(task', cache')
    BY <1>6, RankedFit
  <2>2. phase = "rank" /\ phase' = "requote" /\ graph' = {} /\ UNCHANGED <<branch, known, pair, context>> /\ UNCHANGED Results
    BY <1>6 DEF Rank
  <2>3. GraphInv'
    BY <2>1, <2>2 DEF RoundInv, GraphInv, PairsOf
  <2>4. EvidenceIsGenuine'
    BY <2>2, NoEvidenceYet DEF RoundInv
  <2> QED BY <1>1, <2>1, <2>2, <2>3, <2>4 DEF RoundInv
<1>7. CASE \E r \in Tried : Requote(r)
  <2>1. RequoteStays /\ UNCHANGED <<phase, PhaseA, Results>> /\ phase = "requote"
    BY <1>7, RequoteFits
  <2>2. phase # "done" /\ phase' # "done" /\ UNCHANGED Results /\ UNCHANGED <<branch, known, pair, graph, context>>
    BY <2>1 DEF PhaseA
  <2>3. GraphInv'
    <3>1. TasksFit(task', known', DOMAIN context')
      BY <2>1, <2>2 DEF RequoteStays
    <3>2. phase' = "requote"
      BY <2>1
    <3> QED BY <2>2, <3>1, <3>2 DEF RoundInv, GraphInv, PairsOf, LegFits
  <2>4. EvidenceIsGenuine'
    BY <2>2, NoEvidenceYet DEF RoundInv
  <2> QED BY <1>1, <2>1, <2>2, <2>3, <2>4 DEF RoundInv, RequoteStays
<1>8. CASE Evaluate
  <2>1. EvidenceIsGenuine'
    BY <1>8, EvaluateStays
  <2>2. UNCHANGED <<pair, known, graph, context, task, cache, branch>> /\ phase' = "done"
    BY <1>8 DEF Evaluate, PhaseA
  <2>3. GraphInv'
    BY <2>2, GraphStays DEF RoundInv
  <2> QED BY <1>1, <2>1, <2>2, <2>3 DEF RoundInv
<1>9. CASE UNCHANGED roundVars
  <2>1. UNCHANGED <<pair, known, graph, context, task, cache, branch, phase, evidence, positive, rejected>>
    BY <1>9 DEF roundVars, quoteVars
  <2>2. GraphInv'
    BY <2>1, GraphStays DEF RoundInv
  <2>3. \A r : Collides(r)' <=> Collides(r)
    BY <2>1 DEF Collides, Tried
  <2>4. EvidenceIsGenuine'
    BY <2>1, <2>3 DEF RoundInv, EvidenceIsGenuine, EveryRouteIsAnswered, Tried
  <2> QED BY <1>1, <2>1, <2>2, <2>4 DEF RoundInv
<1> QED BY <1>2, <1>3, <1>4, <1>5, <1>6, <1>7, <1>8, <1>9 DEF RoundNext, Rest

(* Every ranked route is evidence or rejected; and where no two routes go  *)
(* opposite ways through one pool with the same amount, the evidence is    *)
(* the trade as the anchor's block would do it, leg after leg, however the *)
(* requotes interleave and share their cache, and it is positive exactly   *)
(* if that trade is (requote_route, materialize).                          *)
THEOREM EvidenceIsTheTrade ==
  ASSUME AmountsAreNumbers PROVE RoundSpec => []EvidenceIsGenuine
<1>1. RoundInit => RoundInv
  <2> SUFFICES ASSUME RoundInit PROVE RoundInv
    OBVIOUS
  <2>1. pair = <<>> /\ lost = {} /\ context = <<>> /\ known = {} /\ graph = {} /\ branch = 0
        /\ task = <<>> /\ cache = <<>> /\ evidence = {} /\ rejected = {} /\ phase = "anchor"
    BY DEF RoundInit, QuotesInit
  <2>2. QuotesInv
    BY <2>1 DEF QuotesInv, PairsFit, ContextFits
  <2>3. GraphInv
    BY <2>1 DEF GraphInv, PairsOf, TasksFit
  <2>4. TasksAreIdeal(task, cache)
    BY <2>1 DEF TasksAreIdeal, CacheIsIdeal
  <2>5. EvidenceIsGenuine
    BY <2>1 DEF EvidenceIsGenuine, EveryRouteIsAnswered
  <2> QED BY <2>1, <2>2, <2>3, <2>4, <2>5 DEF RoundInv
<1>2. RoundInv /\ [RoundNext]_roundVars => RoundInv'
  BY RoundStep
<1>3. RoundInv => EvidenceIsGenuine
  BY DEF RoundInv
<1> QED BY <1>1, <1>2, <1>3, PTL DEF RoundSpec

===============================================================================
