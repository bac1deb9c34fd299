------------------------------ MODULE SumTheorems ------------------------------
(***************************************************************************)
(* Sums over finite sets, which the ledger, the contract's books and the   *)
(* rate limiter are about, and the induction they rest on.  Induction is   *)
(* stated with a set in place of a predicate: whatever holds in the least  *)
(* number that is not in the set is a contradiction (WFMin).  What a       *)
(* filter written as a recursive function keeps of a sequence, and how     *)
(* many, is by the same induction.                                         *)
(***************************************************************************)
EXTENDS Integers, Sequences, FiniteSets, FiniteSetsExt, Functions, SequencesExt, FiniteSetTheorems,
        SequenceTheorems, WellFoundedInduction, TLAPS

Smaller == {p \in Nat \X Nat : p[1] < p[2]}

LEMMA SmallerIsWellFounded == IsWellFoundedOn(Smaller, Nat)
<1>1. OpToRel(<, Nat) = Smaller
  BY DEF OpToRel, Smaller
<1> QED BY <1>1, NatLessThanWellFounded

LEMMA SetInduction ==
  ASSUME NEW S, 0 \in S, \A n \in Nat : n \in S => n + 1 \in S
  PROVE  Nat \subseteq S
<1> DEFINE T == Nat \ S
<1> SUFFICES ASSUME T # {} PROVE FALSE
  OBVIOUS
<1>1. PICK x \in T : \A y \in T : <<y, x>> \notin Smaller
  <2> HIDE DEF T
  <2>1. T \subseteq Nat
    BY DEF T
  <2> QED BY <2>1, SmallerIsWellFounded, WFMin
<1>2. x \in Nat /\ x # 0
  OBVIOUS
<1>3. x - 1 \in Nat /\ <<x - 1, x>> \in Smaller
  BY <1>2 DEF Smaller
<1>4. x - 1 \in S
  BY <1>1, <1>3
<1>5. (x - 1) + 1 \in S
  BY <1>3, <1>4
<1> QED BY <1>2, <1>5

(* A family that has the empty set and grows by elements has every finite  *)
(* set.                                                                    *)
LEMMA FiniteInduction ==
  ASSUME NEW S, IsFiniteSet(S), NEW F, {} \in F,
         \A T \in SUBSET S : \A x \in S \ T : T \in F => T \cup {x} \in F
  PROVE  S \in F
<1> DEFINE I == {n \in Nat : \A T \in SUBSET S : Cardinality(T) = n => T \in F}
<1>1. \A T \in SUBSET S : IsFiniteSet(T) /\ Cardinality(T) \in Nat
  BY FS_Subset, FS_CardinalityType
<1>2. 0 \in I
  BY <1>1, FS_EmptySet
<1>3. ASSUME NEW n \in Nat, n \in I PROVE n + 1 \in I
  <2> SUFFICES ASSUME NEW T \in SUBSET S, Cardinality(T) = n + 1 PROVE T \in F
    OBVIOUS
  <2>1. PICK x \in T : TRUE
    BY <1>1, <1>3, FS_EmptySet
  <2>2. Cardinality(T \ {x}) = n
    <3>1. IsFiniteSet(T) /\ x \in T
      BY <1>1, <2>1
    <3>2. Cardinality(T \ {x}) = Cardinality(T) - 1
      BY <3>1, FS_RemoveElement
    <3> QED BY <3>2
  <2>3. T \ {x} \in F
    BY <1>3, <2>2
  <2>4. (T \ {x}) \cup {x} = T
    BY <2>1
  <2> QED BY <2>1, <2>3, <2>4
<1>4. Nat \subseteq I
  <2> HIDE DEF I
  <2> QED BY <1>2, <1>3, SetInduction
<1> QED BY <1>1, <1>4

-------------------------------------------------------------------------------
(* Sums, as the community modules define them.                             *)
SumOf(f, S) ==
  LET iter[s \in SUBSET S] ==
        IF s = {} THEN 0 ELSE LET x == CHOOSE x \in s : TRUE IN f[x] + iter[s \ {x}]
  IN iter[S]

LEMMA SumSetIsSum ==
  ASSUME NEW f, NEW S
  PROVE  MapThenSumSet(LAMBDA s : f[s], S) = SumOf(f, S)
  BY DEF MapThenSumSet, MapThenFoldSet, SumOf

LEMMA FoldIsSum ==
  ASSUME NEW f
  PROVE  FoldFunction(+, 0, f) = SumOf(f, DOMAIN f)
  BY DEF FoldFunction, FoldFunctionOnSet, MapThenFoldSet, SumOf

(* G tells the sum of every subset of S, whichever element comes last.     *)
IsSum(G, f, S) ==
  /\ G \in [SUBSET S -> Int] /\ G[{}] = 0
  /\ \A T \in SUBSET S : \A x \in T : G[T] = f[x] + G[T \ {x}]

LEMMA SumExists ==
  ASSUME NEW S, IsFiniteSet(S), NEW f, \A x \in S : f[x] \in Int
  PROVE  \E G : IsSum(G, f, S)
<1> DEFINE F == {T \in SUBSET S : \E G : IsSum(G, f, T)}
<1>1. {} \in F
  <2>1. IsSum([T \in SUBSET {} |-> 0], f, {})
    BY DEF IsSum
  <2> QED BY <2>1
<1>2. ASSUME NEW T \in SUBSET S, NEW x \in S \ T, T \in F PROVE T \cup {x} \in F
  <2>1. PICK G : IsSum(G, f, T)
    BY <1>2
  <2> DEFINE H == [U \in SUBSET (T \cup {x}) |-> IF x \in U THEN f[x] + G[U \ {x}] ELSE G[U]]
  <2>2. \A U \in SUBSET (T \cup {x}) : U \ {x} \in SUBSET T /\ (x \notin U => U \in SUBSET T)
    OBVIOUS
  <2>3. H \in [SUBSET (T \cup {x}) -> Int] /\ H[{}] = 0
    BY <2>1, <2>2 DEF IsSum
  <2>4. ASSUME NEW U \in SUBSET (T \cup {x}), NEW y \in U
        PROVE  H[U] = f[y] + H[U \ {y}]
    <3>1. CASE y = x
      BY <2>1, <2>2, <3>1 DEF IsSum
    <3>2. CASE y # x /\ x \in U
      <4>1. /\ U \ {x} \in SUBSET T /\ y \in U \ {x} /\ U \ {y} \in SUBSET (T \cup {x})
            /\ x \in U \ {y} /\ (U \ {y}) \ {x} = (U \ {x}) \ {y}
        BY <2>2, <3>2
      <4>2. G[U \ {x}] = f[y] + G[(U \ {x}) \ {y}]
        BY <2>1, <4>1 DEF IsSum
      <4>3. H[U] = f[x] + G[U \ {x}] /\ H[U \ {y}] = f[x] + G[(U \ {x}) \ {y}]
        BY <3>2, <4>1
      <4>4. G[(U \ {x}) \ {y}] \in Int /\ f[x] \in Int /\ f[y] \in Int
        <5>1. (U \ {x}) \ {y} \in SUBSET T
          BY <4>1
        <5> QED BY <2>1, <5>1 DEF IsSum
      <4> HIDE DEF H
      <4> QED BY <4>2, <4>3, <4>4
    <3>3. CASE x \notin U
      BY <2>1, <2>2, <3>3 DEF IsSum
    <3> QED BY <3>1, <3>2, <3>3
  <2>5. IsSum(H, f, T \cup {x})
    <3> HIDE DEF H
    <3> QED BY <2>3, <2>4 DEF IsSum
  <2> QED BY <2>5
<1>3. S \in F
  <2> HIDE DEF F
  <2> QED BY <1>1, <1>2, FiniteInduction
<1> QED BY <1>3

LEMMA SumIs ==
  ASSUME NEW S, IsFiniteSet(S), NEW f, NEW G, IsSum(G, f, S)
  PROVE  SumOf(f, S) = G[S]
<1> DEFINE iter[s \in SUBSET S] ==
             IF s = {} THEN 0 ELSE LET x == CHOOSE x \in s : TRUE IN f[x] + iter[s \ {x}]
           Step(h) == [s \in SUBSET S |->
                         IF s = {} THEN 0 ELSE LET x == CHOOSE x \in s : TRUE IN f[x] + h[s \ {x}]]
<1>1. SumOf(f, S) = iter[S]
  BY DEF SumOf
<1>2. iter = CHOOSE h : h = Step(h)
  OBVIOUS
<1>3. G = Step(G)
  <2>1. G = [s \in SUBSET S |-> G[s]]
    BY DEF IsSum
  <2>2. ASSUME NEW s \in SUBSET S
        PROVE  G[s] = IF s = {} THEN 0 ELSE LET x == CHOOSE x \in s : TRUE IN f[x] + G[s \ {x}]
    <3>1. CASE s = {}
      BY <3>1 DEF IsSum
    <3>2. CASE s # {}
      <4> DEFINE x == CHOOSE y \in s : TRUE
      <4>1. x \in s
        BY <3>2
      <4> QED BY <3>2, <4>1 DEF IsSum
    <3> QED BY <3>1, <3>2
  <2> QED BY <2>1, <2>2
<1>4. iter = Step(iter)
  <2> HIDE DEF Step, iter
  <2> QED BY <1>2, <1>3
<1> HIDE DEF iter
<1>5. \A s \in SUBSET S : IsFiniteSet(s) /\ Cardinality(s) \in Nat
  BY FS_Subset, FS_CardinalityType
<1> DEFINE I == {n \in Nat : \A s \in SUBSET S : Cardinality(s) = n => iter[s] = G[s]}
<1>6. 0 \in I
  <2>1. iter[{}] = 0
    BY <1>4
  <2>2. \A s \in SUBSET S : Cardinality(s) = 0 => s = {}
    BY <1>5, FS_EmptySet
  <2> QED BY <2>1, <2>2 DEF IsSum
<1>7. ASSUME NEW n \in Nat, n \in I PROVE n + 1 \in I
  <2> SUFFICES ASSUME NEW s \in SUBSET S, Cardinality(s) = n + 1 PROVE iter[s] = G[s]
    OBVIOUS
  <2> DEFINE x == CHOOSE y \in s : TRUE
  <2>1. s # {} /\ x \in s
    BY <1>5, FS_EmptySet
  <2>2. iter[s] = f[x] + iter[s \ {x}]
    BY <1>4, <2>1
  <2> HIDE DEF x
  <2>3. Cardinality(s \ {x}) = n
    BY <1>5, <2>1, FS_RemoveElement
  <2>4. iter[s \ {x}] = G[s \ {x}]
    BY <1>7, <2>3
  <2> QED BY <2>1, <2>2, <2>4 DEF IsSum
<1>8. Nat \subseteq I
  <2> HIDE DEF I
  <2> QED BY <1>6, <1>7, SetInduction
<1> QED BY <1>1, <1>5, <1>8

-------------------------------------------------------------------------------
(* What the proofs use of sums.                                            *)
LEMMA SumType ==
  ASSUME NEW S, IsFiniteSet(S), NEW f, \A x \in S : f[x] \in Int
  PROVE  SumOf(f, S) \in Int
<1>1. PICK G : IsSum(G, f, S)
  BY SumExists
<1>2. G[S] \in Int
  BY <1>1 DEF IsSum
<1> QED BY <1>1, <1>2, SumIs

LEMMA SumOfNone ==
  ASSUME NEW f
  PROVE  SumOf(f, {}) = 0
<1>1. PICK G : IsSum(G, f, {})
  BY SumExists, FS_EmptySet
<1> QED BY <1>1, SumIs, FS_EmptySet DEF IsSum

LEMMA SumWithout ==
  ASSUME NEW S, IsFiniteSet(S), NEW f, \A x \in S : f[x] \in Int, NEW x \in S
  PROVE  SumOf(f, S) = f[x] + SumOf(f, S \ {x})
<1>1. PICK G : IsSum(G, f, S)
  BY SumExists
<1>2. IsSum([T \in SUBSET (S \ {x}) |-> G[T]], f, S \ {x})
  <2>1. \A T \in SUBSET (S \ {x}) : T \in SUBSET S /\ \A y \in T : T \ {y} \in SUBSET (S \ {x})
    OBVIOUS
  <2> QED BY <1>1, <2>1 DEF IsSum
<1>3. SumOf(f, S \ {x}) = G[S \ {x}]
  <2> DEFINE H == [T \in SUBSET (S \ {x}) |-> G[T]]
  <2>1. H[S \ {x}] = G[S \ {x}] /\ IsSum(H, f, S \ {x}) /\ IsFiniteSet(S \ {x})
    BY <1>2, FS_RemoveElement
  <2> HIDE DEF H
  <2> QED BY <2>1, SumIs
<1>4. SumOf(f, S) = G[S]
  BY <1>1, SumIs
<1> QED BY <1>1, <1>3, <1>4 DEF IsSum

LEMMA SumWith ==
  ASSUME NEW S, IsFiniteSet(S), NEW f, \A x \in S : f[x] \in Int, NEW x, x \notin S, f[x] \in Int
  PROVE  SumOf(f, S \cup {x}) = f[x] + SumOf(f, S)
<1>1. IsFiniteSet(S \cup {x})
  BY FS_AddElement
<1>2. (S \cup {x}) \ {x} = S
  OBVIOUS
<1>3. \A y \in S \cup {x} : f[y] \in Int
  OBVIOUS
<1>4. SumOf(f, S \cup {x}) = f[x] + SumOf(f, (S \cup {x}) \ {x})
  BY <1>1, <1>3, SumWithout
<1> QED BY <1>2, <1>4

(* Only what is summed counts.                                             *)
LEMMA SumSame ==
  ASSUME NEW S, IsFiniteSet(S), NEW f, NEW g, \A x \in S : f[x] \in Int /\ g[x] = f[x]
  PROVE  SumOf(g, S) = SumOf(f, S)
<1>1. PICK G : IsSum(G, f, S)
  BY SumExists
<1>2. IsSum(G, g, S)
  BY <1>1 DEF IsSum
<1> QED BY <1>1, <1>2, SumIs

LEMMA SumUpdate ==
  ASSUME NEW S, IsFiniteSet(S), NEW f, NEW g, NEW x \in S, g[x] \in Int,
         \A y \in S : f[y] \in Int, \A y \in S \ {x} : g[y] = f[y]
  PROVE  SumOf(g, S) = SumOf(f, S) - f[x] + g[x]
<1>1. \A y \in S : g[y] \in Int
  OBVIOUS
<1>2. SumOf(g, S) = g[x] + SumOf(g, S \ {x}) /\ SumOf(f, S) = f[x] + SumOf(f, S \ {x})
  BY <1>1, SumWithout
<1>3. IsFiniteSet(S \ {x}) /\ \A y \in S \ {x} : f[y] \in Int /\ g[y] = f[y]
  BY FS_RemoveElement
<1>4. SumOf(g, S \ {x}) = SumOf(f, S \ {x})
  BY <1>3, SumSame
<1>5. SumOf(f, S \ {x}) \in Int
  BY <1>3, SumType
<1> QED BY <1>2, <1>4, <1>5

LEMMA SumMoves ==
  ASSUME NEW S, IsFiniteSet(S), NEW f, NEW g, NEW x \in S, NEW d \in Int, g[x] \in Int,
         \A y \in S : f[y] \in Int, \A y \in S \ {x} : g[y] = f[y]
  PROVE  g[x] = f[x] + d => SumOf(g, S) = SumOf(f, S) + d
<1>1. SumOf(g, S) = SumOf(f, S) - f[x] + g[x]
  BY SumUpdate
<1>2. SumOf(f, S) \in Int
  BY SumType
<1> QED BY <1>1, <1>2

LEMMA SumMovesAt ==
  ASSUME NEW S, IsFiniteSet(S), NEW f, NEW g, NEW x \in S, NEW d \in Int,
         \A y \in S : f[y] \in Int,
         \A y \in S : g[y] = IF y = x THEN f[y] + d ELSE f[y]
  PROVE  SumOf(g, S) = SumOf(f, S) + d
<1>1. g[x] = f[x] + d => SumOf(g, S) = SumOf(f, S) + d
  <2>1. g[x] \in Int /\ \A y \in S \ {x} : g[y] = f[y]
    OBVIOUS
  <2> QED BY <2>1, SumMoves
<1> QED BY <1>1

LEMMA SumOfZeros ==
  ASSUME NEW S, IsFiniteSet(S), NEW f, \A x \in S : f[x] = 0
  PROVE  SumOf(f, S) = 0
<1>1. IsSum([T \in SUBSET S |-> 0], f, S)
  BY DEF IsSum
<1> QED BY <1>1, SumIs

LEMMA SumMonotone ==
  ASSUME NEW S, IsFiniteSet(S), NEW f, NEW g, \A x \in S : f[x] \in Int /\ g[x] \in Int /\ f[x] <= g[x]
  PROVE  SumOf(f, S) <= SumOf(g, S)
<1>1. PICK F : IsSum(F, f, S)
  BY SumExists
<1>2. PICK G : IsSum(G, g, S)
  BY SumExists
<1> DEFINE H == {T \in SUBSET S : F[T] <= G[T]}
<1>3. {} \in H
  BY <1>1, <1>2 DEF IsSum
<1>4. ASSUME NEW T \in SUBSET S, NEW x \in S \ T, T \in H PROVE T \cup {x} \in H
  <2>1. T \cup {x} \in SUBSET S /\ x \in T \cup {x} /\ (T \cup {x}) \ {x} = T
    BY <1>4
  <2>2. F[T \cup {x}] = f[x] + F[(T \cup {x}) \ {x}] /\ G[T \cup {x}] = g[x] + G[(T \cup {x}) \ {x}]
    BY <1>1, <1>2, <2>1 DEF IsSum
  <2>3. F[T] \in Int /\ G[T] \in Int
    BY <1>1, <1>2 DEF IsSum
  <2> QED BY <1>4, <2>1, <2>2, <2>3
<1>5. S \in H
  <2> HIDE DEF H
  <2> QED BY <1>3, <1>4, FiniteInduction
<1> QED BY <1>1, <1>2, <1>5, SumIs

(* Sums of two parts.                                                      *)
LEMMA SumCombines ==
  ASSUME NEW S, IsFiniteSet(S), NEW f, NEW g, NEW h, NEW x \in Int, NEW y \in Int,
         \A e \in S : f[e] \in Int /\ g[e] \in Int /\ h[e] = x * f[e] + y * g[e]
  PROVE  SumOf(h, S) = x * SumOf(f, S) + y * SumOf(g, S)
<1> DEFINE F == {T \in SUBSET S : SumOf(h, T) = x * SumOf(f, T) + y * SumOf(g, T)}
<1>1. {} \in F
  <2>1. SumOf(h, {}) = 0 /\ SumOf(f, {}) = 0 /\ SumOf(g, {}) = 0
    BY SumOfNone
  <2> QED BY <2>1
<1>2. ASSUME NEW T \in SUBSET S, NEW e \in S \ T, T \in F PROVE T \cup {e} \in F
  <2>1. IsFiniteSet(T) /\ e \notin T /\ \A d \in T : f[d] \in Int /\ g[d] \in Int /\ h[d] \in Int
    BY FS_Subset
  <2>2. f[e] \in Int /\ g[e] \in Int /\ h[e] = x * f[e] + y * g[e] /\ h[e] \in Int
    OBVIOUS
  <2>3. SumOf(h, T) = x * SumOf(f, T) + y * SumOf(g, T)
    BY <1>2
  <2>4. SumOf(f, T \cup {e}) = f[e] + SumOf(f, T) /\ SumOf(f, T) \in Int
    BY <2>1, <2>2, SumWith, SumType
  <2>5. SumOf(g, T \cup {e}) = g[e] + SumOf(g, T) /\ SumOf(g, T) \in Int
    BY <2>1, <2>2, SumWith, SumType
  <2>6. SumOf(h, T \cup {e}) = h[e] + SumOf(h, T)
    BY <2>1, <2>2, SumWith
  <2>7. ASSUME NEW a \in Int, NEW b \in Int, NEW c \in Int, NEW d \in Int
        PROVE  x * (a + b) + y * (c + d) = (x * a + y * c) + (x * b + y * d)
    OBVIOUS
  <2>8. x * (f[e] + SumOf(f, T)) + y * (g[e] + SumOf(g, T))
          = (x * f[e] + y * g[e]) + (x * SumOf(f, T) + y * SumOf(g, T))
    BY <2>2, <2>4, <2>5, <2>7
  <2> QED BY <2>2, <2>3, <2>4, <2>5, <2>6, <2>8
<1>3. S \in F
  <2> HIDE DEF F
  <2> QED BY <1>1, <1>2, FiniteInduction
<1> QED BY <1>3

-------------------------------------------------------------------------------
(* How many of s are in T; what a filter keeps of s is what is in S.       *)
Occur(s, T) == Cardinality({i \in DOMAIN s : s[i] \in T})

Filtered(s, S) ==
  LET kept[i \in 0..Len(s)] ==
        IF i = 0 THEN <<>> ELSE IF s[i] \in S THEN Append(kept[i - 1], s[i]) ELSE kept[i - 1]
  IN  kept[Len(s)]

LEMMA PlacesAreFinite ==
  ASSUME NEW s \in Seq(Nat), NEW T
  PROVE  /\ IsFiniteSet({i \in DOMAIN s : s[i] \in T})
         /\ Occur(s, T) \in Nat /\ Occur(s, T) <= Len(s)
<1>1. DOMAIN s = 1..Len(s) /\ Len(s) \in Nat
  OBVIOUS
<1>2. IsFiniteSet(DOMAIN s) /\ Cardinality(DOMAIN s) = Len(s)
  <2>1. IsFiniteSet(1 .. Len(s)) /\ Cardinality(1 .. Len(s)) = IF 1 > Len(s) THEN 0 ELSE Len(s) - 1 + 1
    BY <1>1, FS_Interval
  <2>2. \A n \in Nat : (IF 1 > n THEN 0 ELSE n - 1 + 1) = n
    OBVIOUS
  <2> QED BY <1>1, <2>1, <2>2
<1>3. {i \in DOMAIN s : s[i] \in T} \subseteq DOMAIN s
  OBVIOUS
<1> QED BY <1>2, <1>3, FS_Subset, FS_CardinalityType DEF Occur

LEMMA OccurInAll ==
  ASSUME NEW s \in Seq(Nat), NEW T, \A i \in DOMAIN s : s[i] \in T
  PROVE  Occur(s, T) = Len(s)
<1>1. DOMAIN s = 1..Len(s) /\ Len(s) \in Nat
  OBVIOUS
<1>0. {i \in DOMAIN s : s[i] \in T} = DOMAIN s
  OBVIOUS
<1>2. Cardinality(1..Len(s)) = Len(s)
  BY <1>1, FS_Interval
<1> QED BY <1>0, <1>1, <1>2 DEF Occur

LEMMA OccurInNone ==
  ASSUME NEW s \in Seq(Nat), NEW T, \A i \in DOMAIN s : s[i] \notin T
  PROVE  Occur(s, T) = 0
<1>1. {i \in DOMAIN s : s[i] \in T} = {}
  OBVIOUS
<1> QED BY <1>1, FS_EmptySet DEF Occur

LEMMA OccurAppend ==
  ASSUME NEW s \in Seq(Nat), NEW x \in Nat, NEW T
  PROVE  Occur(Append(s, x), T) = Occur(s, T) + IF x \in T THEN 1 ELSE 0
<1> DEFINE P == {i \in DOMAIN s : s[i] \in T}
           u == Append(s, x)
           n == Len(s) + 1
<1>1. DOMAIN u = DOMAIN s \cup {n} /\ n \notin DOMAIN s /\ u[n] = x /\ \A i \in DOMAIN s : u[i] = s[i]
  OBVIOUS
<1>2. IsFiniteSet(P) /\ Cardinality(P) \in Nat /\ Occur(s, T) = Cardinality(P)
  BY PlacesAreFinite DEF Occur
<1>3. CASE x \in T
  <2>1. {i \in DOMAIN u : u[i] \in T} = P \cup {n} /\ n \notin P
    BY <1>1, <1>3
  <2> QED BY <1>2, <1>3, <2>1, FS_AddElement DEF Occur
<1>4. CASE x \notin T
  <2>1. {i \in DOMAIN u : u[i] \in T} = P
    BY <1>1, <1>4
  <2>2. Occur(u, T) = Cardinality(P)
    BY <2>1 DEF Occur
  <2> HIDE DEF P
  <2> QED BY <1>2, <1>4, <2>2
<1> QED BY <1>3, <1>4

(* The first of s makes room.                                              *)
LEMMA OccurTail ==
  ASSUME NEW s \in Seq(Nat), NEW T, Len(s) > 0
  PROVE  /\ Tail(s) \in Seq(Nat) /\ Len(Tail(s)) = Len(s) - 1
         /\ Occur(s, T) <= Occur(Tail(s), T) + 1
<1> DEFINE P == {i \in DOMAIN s : s[i] \in T}
           Q == {i \in DOMAIN Tail(s) : Tail(s)[i] \in T}
           f == [i \in P \ {1} |-> i - 1]
<1>1. /\ Tail(s) \in Seq(Nat) /\ Len(Tail(s)) = Len(s) - 1
      /\ DOMAIN s = 1 .. Len(s) /\ DOMAIN Tail(s) = 1 .. Len(s) - 1
      /\ \A i \in 1 .. Len(s) - 1 : Tail(s)[i] = s[i + 1]
  OBVIOUS
<1>2. IsFiniteSet(P) /\ IsFiniteSet(Q) /\ Occur(s, T) = Cardinality(P) /\ Occur(Tail(s), T) = Cardinality(Q)
  BY <1>1, PlacesAreFinite DEF Occur
<1>3. f \in Injection(P \ {1}, Q)
  <2>1. \A i \in P \ {1} : i - 1 \in Q
    <3> SUFFICES ASSUME NEW i \in P \ {1} PROVE i - 1 \in Q
      OBVIOUS
    <3>1. i \in 1 .. Len(s) /\ i # 1 /\ s[i] \in T /\ Len(s) \in Nat
      BY <1>1
    <3>2. i - 1 \in 1 .. Len(s) - 1 /\ (i - 1) + 1 = i
      BY <3>1
    <3>3. Tail(s)[i - 1] = s[i]
      BY <1>1, <3>2
    <3> QED BY <1>1, <3>1, <3>2, <3>3
  <2>2. \A i, j \in P \ {1} : i - 1 = j - 1 => i = j
    BY <1>1
  <2> HIDE DEF P, Q
  <2> QED BY <2>1, <2>2 DEF Injection, IsInjective
<1> HIDE DEF P, Q, f
<1>4. IsFiniteSet(P \ {1}) /\ Cardinality(P \ {1}) <= Cardinality(Q)
  BY <1>2, <1>3, FS_Injection
<1>6. Cardinality(P) \in Nat /\ Cardinality(Q) \in Nat /\ Cardinality(P \ {1}) \in Nat
  BY <1>2, <1>4, FS_CardinalityType
<1>5. Cardinality(P \ {1}) = Cardinality(P) \/ Cardinality(P \ {1}) = Cardinality(P) - 1
  <2>1. CASE 1 \in P
    BY <1>2, <2>1, FS_RemoveElement
  <2>2. CASE 1 \notin P
    <3>1. P \ {1} = P
      BY <2>2
    <3> QED BY <3>1
  <2> QED BY <2>1, <2>2
<1> QED BY <1>1, <1>2, <1>4, <1>5, <1>6

-------------------------------------------------------------------------------
(* Filters, as a recursive function writes them out.                       *)
IsFilter(K, s, S) ==
  /\ K \in [0..Len(s) -> Seq(Nat)] /\ K[0] = <<>>
  /\ \A i \in 1..Len(s) : K[i] = IF s[i] \in S THEN Append(K[i - 1], s[i]) ELSE K[i - 1]

LEMMA FilterExists ==
  ASSUME NEW s \in Seq(Nat), NEW S
  PROVE  \E K : IsFilter(K, s, S)
<1> DEFINE Partly(n, K) ==
             /\ K \in [0..n -> Seq(Nat)] /\ K[0] = <<>>
             /\ \A i \in 1..n : K[i] = IF s[i] \in S THEN Append(K[i - 1], s[i]) ELSE K[i - 1]
           I == {n \in Nat : n <= Len(s) => \E K : Partly(n, K)}
<1>1. 0 \in I
  <2>1. Partly(0, [i \in 0..0 |-> <<>>])
    OBVIOUS
  <2> QED BY <2>1
<1>2. ASSUME NEW n \in Nat, n \in I PROVE n + 1 \in I
  <2> SUFFICES ASSUME n + 1 <= Len(s) PROVE \E K : Partly(n + 1, K)
    <3> HIDE DEF Partly
    <3> QED OBVIOUS
  <2>0. n <= Len(s)
    OBVIOUS
  <2>1. PICK K : Partly(n, K)
    <3> HIDE DEF Partly
    <3> QED BY <1>2, <2>0
  <2>2. s[n + 1] \in Nat
    OBVIOUS
  <2> DEFINE new == IF s[n + 1] \in S THEN Append(K[n], s[n + 1]) ELSE K[n]
             L == [i \in 0..n + 1 |-> IF i = n + 1 THEN new ELSE K[i]]
  <2>3. new \in Seq(Nat)
    BY <2>1, <2>2
  <2>4. L[n + 1] = new /\ L \in [0..n + 1 -> Seq(Nat)] /\ \A i \in 0..n : L[i] = K[i]
    BY <2>1, <2>3
  <2>5. ASSUME NEW i \in 1..n + 1
        PROVE  L[i] = IF s[i] \in S THEN Append(L[i - 1], s[i]) ELSE L[i - 1]
    <3>1. CASE i = n + 1
      BY <2>4, <3>1
    <3>2. CASE i \in 1..n
      <4>1. L[i] = K[i] /\ L[i - 1] = K[i - 1]
        BY <2>4, <3>2
      <4> HIDE DEF L
      <4> QED BY <2>1, <3>2, <4>1
    <3> QED BY <3>1, <3>2
  <2> HIDE DEF L
  <2>6. Partly(n + 1, L)
    BY <2>1, <2>4, <2>5
  <2> QED BY <2>6
<1>3. Nat \subseteq I
  <2> HIDE DEF I
  <2> QED BY <1>1, <1>2, SetInduction
<1>4. Len(s) \in Nat /\ Len(s) \in I
  <2> HIDE DEF I
  <2> QED BY <1>3
<1>5. \E K : Partly(Len(s), K)
  <2> HIDE DEF Partly
  <2> QED BY <1>4
<1> QED BY <1>5 DEF IsFilter

LEMMA FilterIs ==
  ASSUME NEW s \in Seq(Nat), NEW S, NEW K, IsFilter(K, s, S)
  PROVE  Filtered(s, S) = K[Len(s)]
<1> DEFINE Step(h) == [i \in 0..Len(s) |-> IF i = 0 THEN <<>>
                         ELSE IF s[i] \in S THEN Append(h[i - 1], s[i]) ELSE h[i - 1]]
           kept == CHOOSE h : h = Step(h)
<1>1. Filtered(s, S) = kept[Len(s)]
  BY DEF Filtered
<1>2. K = Step(K)
  <2>1. K = [i \in 0..Len(s) |-> K[i]]
    BY DEF IsFilter
  <2>2. \A i \in 0..Len(s) : i = 0 \/ i \in 1..Len(s)
    OBVIOUS
  <2> QED BY <2>1, <2>2 DEF IsFilter
<1>3. kept = Step(kept)
  <2> HIDE DEF Step
  <2> QED BY <1>2
<1> HIDE DEF kept
<1> DEFINE I == {n \in Nat : n <= Len(s) => kept[n] = K[n]}
<1>4. 0 \in I
  BY <1>3 DEF IsFilter
<1>5. ASSUME NEW n \in Nat, n \in I PROVE n + 1 \in I
  <2> SUFFICES ASSUME n + 1 <= Len(s) PROVE kept[n + 1] = K[n + 1]
    OBVIOUS
  <2>1. kept[n] = K[n]
    BY <1>5
  <2>2. n + 1 \in 0..Len(s) /\ n + 1 \in 1..Len(s) /\ n + 1 # 0 /\ (n + 1) - 1 = n
    OBVIOUS
  <2>3. kept[n + 1] = IF s[n + 1] \in S THEN Append(kept[n], s[n + 1]) ELSE kept[n]
    BY <1>3, <2>2
  <2>4. K[n + 1] = IF s[n + 1] \in S THEN Append(K[n], s[n + 1]) ELSE K[n]
    BY <2>2 DEF IsFilter
  <2> QED BY <2>1, <2>3, <2>4
<1>6. Nat \subseteq I
  <2> HIDE DEF I
  <2> QED BY <1>4, <1>5, SetInduction
<1>7. Len(s) \in I
  BY <1>6
<1> QED BY <1>1, <1>7

(* What a filter keeps, and how much of it.                                *)
LEMMA FilterKeeps ==
  ASSUME NEW s \in Seq(Nat), NEW S
  PROVE  /\ Filtered(s, S) \in Seq(Nat)
         /\ \A i \in DOMAIN Filtered(s, S) : Filtered(s, S)[i] \in S
         /\ \A T : Occur(Filtered(s, S), T) = Occur(s, T \cap S)
<1>1. PICK K : IsFilter(K, s, S)
  BY FilterExists
<1> DEFINE Upto(n, T) == {i \in DOMAIN s : i <= n /\ s[i] \in T \cap S}
           Good(n) == /\ \A i \in DOMAIN K[n] : K[n][i] \in S
                      /\ \A T : Occur(K[n], T) = Cardinality(Upto(n, T))
           I == {n \in Nat : n <= Len(s) => Good(n)}
<1>2. 0 \in I
  <2>1. K[0] = <<>> /\ <<>> \in Seq(Nat) /\ DOMAIN <<>> = {}
    BY <1>1 DEF IsFilter
  <2>2. ASSUME NEW T PROVE Occur(<<>>, T) = Cardinality(Upto(0, T))
    <3>1. Occur(<<>>, T) = 0
      BY <2>1, OccurInNone
    <3>2. Upto(0, T) = {}
      OBVIOUS
    <3> QED BY <3>1, <3>2, FS_EmptySet
  <2> QED BY <2>1, <2>2
<1>3. ASSUME NEW n \in Nat, n \in I PROVE n + 1 \in I
  <2> SUFFICES ASSUME n + 1 <= Len(s) PROVE Good(n + 1)
    OBVIOUS
  <2>1. Good(n)
    BY <1>3
  <2>2. /\ n + 1 \in DOMAIN s /\ s[n + 1] \in Nat /\ K[n] \in Seq(Nat)
        /\ K[n + 1] = IF s[n + 1] \in S THEN Append(K[n], s[n + 1]) ELSE K[n]
    <3>1. n + 1 \in 1..Len(s) /\ n \in 0..Len(s) /\ (n + 1) - 1 = n
      OBVIOUS
    <3> QED BY <1>1, <3>1 DEF IsFilter
  <2>3. \A i \in DOMAIN K[n + 1] : K[n + 1][i] \in S
    <3>1. CASE s[n + 1] \in S
      BY <2>1, <2>2, <3>1
    <3>2. CASE s[n + 1] \notin S
      BY <2>1, <2>2, <3>2
    <3> QED BY <3>1, <3>2
  <2>4. ASSUME NEW T PROVE Occur(K[n + 1], T) = Cardinality(Upto(n + 1, T))
    <3>0. Occur(K[n], T) = Cardinality(Upto(n, T))
      BY <2>1
    <3>1. IsFiniteSet(Upto(n, T)) /\ Cardinality(Upto(n, T)) \in Nat
      <4>1. IsFiniteSet(DOMAIN s)
        <5>1. DOMAIN s = 1..Len(s) /\ Len(s) \in Nat
          OBVIOUS
        <5> QED BY <5>1, FS_Interval
      <4> QED BY <4>1, FS_Subset, FS_CardinalityType
    <3>2. CASE s[n + 1] \in T \cap S
      <4>1. Upto(n + 1, T) = Upto(n, T) \cup {n + 1} /\ n + 1 \notin Upto(n, T)
        BY <2>2, <3>2
      <4>2. Cardinality(Upto(n + 1, T)) = Cardinality(Upto(n, T)) + 1
        <5> HIDE DEF Upto
        <5> QED BY <3>1, <4>1, FS_AddElement
      <4>3. Occur(K[n + 1], T) = Occur(K[n], T) + 1
        BY <2>2, <3>2, OccurAppend
      <4> QED BY <3>0, <4>2, <4>3
    <3>3. CASE s[n + 1] \notin T \cap S
      <4>1. Upto(n + 1, T) = Upto(n, T)
        BY <2>2, <3>3
      <4>2. Occur(K[n + 1], T) = Occur(K[n], T)
        <5>1. CASE s[n + 1] \in S
          <6>1. s[n + 1] \notin T
            BY <3>3, <5>1
          <6>2. Occur(K[n], T) \in Nat
            BY <2>2, PlacesAreFinite
          <6> QED BY <2>2, <5>1, <6>1, <6>2, OccurAppend
        <5>2. CASE s[n + 1] \notin S
          BY <2>2, <5>2
        <5> QED BY <5>1, <5>2
      <4> QED BY <3>0, <4>1, <4>2
    <3> QED BY <3>2, <3>3
  <2> HIDE DEF Upto
  <2> QED BY <2>3, <2>4
<1>4. Nat \subseteq I
  <2> HIDE DEF I
  <2> QED BY <1>2, <1>3, SetInduction
<1>5. Good(Len(s))
  <2>1. Len(s) \in Nat /\ Len(s) \in I
    <3> HIDE DEF I
    <3> QED BY <1>4
  <2> HIDE DEF Good
  <2> QED BY <2>1
<1>6. Filtered(s, S) = K[Len(s)] /\ K[Len(s)] \in Seq(Nat)
  <2>1. Len(s) \in 0..Len(s)
    OBVIOUS
  <2> QED BY <1>1, <2>1, FilterIs DEF IsFilter
<1>7. \A T : Upto(Len(s), T) = {i \in DOMAIN s : s[i] \in T \cap S}
  OBVIOUS
<1> QED BY <1>5, <1>6, <1>7 DEF Occur

-------------------------------------------------------------------------------
(* Sums over the first numbers.                                            *)
LEMMA SumUpto ==
  ASSUME NEW n \in Nat, NEW f, \A b \in 0 .. n + 1 : f[b] \in Int
  PROVE  SumOf(f, 0 .. n + 1) = SumOf(f, 0 .. n) + f[n + 1] /\ SumOf(f, 0 .. n) \in Int
<1>1. 0 .. n + 1 = (0 .. n) \cup {n + 1} /\ n + 1 \notin 0 .. n /\ n + 1 \in 0 .. n + 1
  OBVIOUS
<1>2. IsFiniteSet(0 .. n)
  BY FS_Interval
<1>3. f[n + 1] \in Int /\ \A b \in 0 .. n : f[b] \in Int
  OBVIOUS
<1>4. SumOf(f, (0 .. n) \cup {n + 1}) = f[n + 1] + SumOf(f, 0 .. n)
  BY <1>1, <1>2, <1>3, SumWith
<1>5. SumOf(f, 0 .. n) \in Int
  BY <1>2, <1>3, SumType
<1>6. SumOf(f, 0 .. n + 1) = f[n + 1] + SumOf(f, 0 .. n)
  <2>1. SumOf(f, 0 .. n + 1) = SumOf(f, (0 .. n) \cup {n + 1})
    BY <1>1, Zenon
  <2> QED BY <1>4, <2>1
<1> QED BY <1>3, <1>5, <1>6

LEMMA SumOfOne ==
  ASSUME NEW x, NEW f, f[x] \in Int
  PROVE  SumOf(f, {x}) = f[x]
<1>1. IsFiniteSet({}) /\ x \notin {} /\ {} \cup {x} = {x}
  BY FS_EmptySet
<1>2. SumOf(f, {} \cup {x}) = f[x] + SumOf(f, {})
  BY <1>1, SumWith
<1> QED BY <1>1, <1>2, SumOfNone

LEMMA SumShifts ==
  ASSUME NEW m \in Nat, NEW f, NEW g, \A b \in 0..m : f[b] \in Int,
         g[0] = 0, \A b \in 0..m : g[b + 1] = f[b]
  PROVE  SumOf(g, 0 .. m + 1) = SumOf(f, 0..m)
<1> DEFINE I == {n \in Nat : n <= m => SumOf(g, 0 .. n + 1) = SumOf(f, 0..n)}
<1>1. ASSUME NEW n \in Nat, n <= m PROVE \A b \in 0 .. n + 1 : g[b] \in Int
  <2> SUFFICES ASSUME NEW b \in 0 .. n + 1 PROVE g[b] \in Int
    OBVIOUS
  <2>1. CASE b = 0
    BY <2>1
  <2>2. CASE b # 0
    <3>1. b - 1 \in 0..m /\ (b - 1) + 1 = b
      BY <1>1, <2>2
    <3>2. g[(b - 1) + 1] = f[b - 1] /\ f[b - 1] \in Int
      BY <3>1
    <3> QED BY <3>1, <3>2
  <2> QED BY <2>1, <2>2
<1>2. 0 \in I
  <2>1. /\ 0..0 = {0} /\ g[0 + 1] = f[0] /\ f[0] \in Int /\ g[0] \in Int
        /\ \A b \in 0 .. 0 + 1 : g[b] \in Int
    BY <1>1
  <2>2. SumOf(g, 0 .. 0 + 1) = SumOf(g, 0..0) + g[0 + 1]
    BY <2>1, SumUpto
  <2>3. SumOf(g, 0..0) = g[0] /\ SumOf(f, 0..0) = f[0]
    BY <2>1, SumOfOne
  <2> QED BY <2>1, <2>2, <2>3
<1>3. ASSUME NEW n \in Nat, n \in I PROVE n + 1 \in I
  <2> SUFFICES ASSUME n + 1 <= m
               PROVE  SumOf(g, 0 .. (n + 1) + 1) = SumOf(f, 0 .. n + 1)
    OBVIOUS
  <2>1. n + 1 \in Nat /\ n + 1 \in 0..m /\ n <= m /\ \A b \in 0 .. n + 1 : f[b] \in Int
    OBVIOUS
  <2>2. \A b \in 0 .. (n + 1) + 1 : g[b] \in Int
    BY <1>1, <2>1
  <2>3. SumOf(g, 0 .. (n + 1) + 1) = SumOf(g, 0 .. n + 1) + g[(n + 1) + 1]
    BY <2>1, <2>2, SumUpto
  <2>4. SumOf(f, 0 .. n + 1) = SumOf(f, 0..n) + f[n + 1]
    BY <2>1, SumUpto
  <2>5. g[(n + 1) + 1] = f[n + 1]
    BY <2>1
  <2>6. SumOf(g, 0 .. n + 1) = SumOf(f, 0..n)
    BY <1>3, <2>1
  <2> QED BY <2>3, <2>4, <2>5, <2>6
<1>4. Nat \subseteq I
  <2> HIDE DEF I
  <2> QED BY <1>2, <1>3, SetInduction
<1>5. m \in I
  <2> HIDE DEF I
  <2> QED BY <1>4
<1> QED BY <1>5

-------------------------------------------------------------------------------
(* What is defined step by step exists, and stays where the steps stay.    *)
StepsBy(F, x, m, K) == K[0] = x /\ \A i \in 1 .. m : K[i] = F[<<i, K[i - 1]>>]

LEMMA StepsExist ==
  ASSUME NEW n \in Nat, NEW D, NEW x \in D, NEW F \in [(1 .. n) \X D -> D]
  PROVE  \E K \in [0 .. n -> D] : StepsBy(F, x, n, K)
<1> DEFINE I == {m \in Nat : m <= n => \E K \in [0 .. m -> D] : StepsBy(F, x, m, K)}
<1>1. 0 \in I
  <2>1. [i \in 0 .. 0 |-> x] \in [0 .. 0 -> D] /\ StepsBy(F, x, 0, [i \in 0 .. 0 |-> x])
    BY DEF StepsBy
  <2> QED BY <2>1
<1>2. ASSUME NEW m \in Nat, m \in I PROVE m + 1 \in I
  <2> SUFFICES ASSUME m + 1 <= n PROVE \E K \in [0 .. m + 1 -> D] : StepsBy(F, x, m + 1, K)
    OBVIOUS
  <2>1. PICK K \in [0 .. m -> D] : StepsBy(F, x, m, K)
    BY <1>2
  <2> DEFINE new == F[<<m + 1, K[m]>>]
             L == [i \in 0 .. m + 1 |-> IF i = m + 1 THEN new ELSE K[i]]
  <2>2. new \in D
    OBVIOUS
  <2>3. L \in [0 .. m + 1 -> D] /\ L[m + 1] = new /\ \A i \in 0 .. m : L[i] = K[i]
    BY <2>2
  <2> HIDE DEF L
  <2>4. ASSUME NEW i \in 1 .. m + 1 PROVE L[i] = F[<<i, L[i - 1]>>]
    <3>1. CASE i = m + 1
      <4>1. i - 1 = m /\ L[i - 1] = K[m] /\ L[i] = F[<<m + 1, K[m]>>]
        BY <2>3, <3>1
      <4> QED BY <3>1, <4>1
    <3>2. CASE i \in 1 .. m
      <4>1. L[i] = K[i] /\ L[i - 1] = K[i - 1]
        BY <2>3, <3>2
      <4> QED BY <2>1, <3>2, <4>1 DEF StepsBy
    <3> QED BY <3>1, <3>2
  <2>5. StepsBy(F, x, m + 1, L)
    BY <2>1, <2>3, <2>4 DEF StepsBy
  <2> QED BY <2>3, <2>5
<1>3. n \in I
  <2> HIDE DEF I
  <2> QED BY <1>1, <1>2, SetInduction
<1> QED BY <1>3

LEMMA StepsStay ==
  ASSUME NEW n \in Nat, NEW D, NEW h, h[0] \in D, \A i \in 1 .. n : h[i - 1] \in D => h[i] \in D
  PROVE  \A i \in 0 .. n : h[i] \in D
<1> DEFINE I == {m \in Nat : m <= n => h[m] \in D}
<1>1. 0 \in I
  OBVIOUS
<1>2. ASSUME NEW m \in Nat, m \in I PROVE m + 1 \in I
  <2> SUFFICES ASSUME m + 1 <= n PROVE h[m + 1] \in D
    OBVIOUS
  <2>1. m + 1 \in 1 .. n /\ (m + 1) - 1 = m /\ h[m] \in D
    BY <1>2
  <2> QED BY <2>1
<1>3. Nat \subseteq I
  <2> HIDE DEF I
  <2> QED BY <1>1, <1>2, SetInduction
<1> QED BY <1>3

(* Lists laid end to end.                                                  *)
LEMMA FlattenIs ==
  ASSUME NEW S, NEW lists \in Seq(Seq(S)), lists # <<>>
  PROVE  \E H \in [0 .. Len(lists) -> Seq(S)] :
           /\ H[0] = <<>> /\ FlattenSeq(lists) = H[Len(lists)]
           /\ \A i \in 1 .. Len(lists) : H[i] = H[i - 1] \o lists[i]
<1> DEFINE n == Len(lists)
<1>1. n \in Nat \ {0} /\ n - 1 \in Nat /\ \A i \in 1 .. n : lists[i] \in Seq(S)
  <2>1. n \in Nat /\ n # 0
    BY EmptySeq, LenProperties
  <2> QED BY <2>1, LenProperties
<1> DEFINE Step(h) == [i \in 1 .. n |-> IF i = 1 THEN lists[i] ELSE h[i - 1] \o lists[i]]
           flatten == CHOOSE h : h = Step(h)
           F == [p \in (1 .. n - 1) \X Seq(S) |-> p[2] \o lists[p[1] + 1]]
<1>2. FlattenSeq(lists) = flatten[n]
  BY <1>1 DEF FlattenSeq
<1> HIDE DEF n
<1>3. F \in [(1 .. n - 1) \X Seq(S) -> Seq(S)]
  <2>1. ASSUME NEW i \in 1 .. n - 1, NEW s \in Seq(S) PROVE s \o lists[i + 1] \in Seq(S)
    BY <1>1, <2>1, ConcatProperties
  <2> QED BY <2>1
<1>4. PICK K \in [0 .. n - 1 -> Seq(S)] : StepsBy(F, lists[1], n - 1, K)
  <2>1. lists[1] \in Seq(S) /\ n - 1 \in Nat
    BY <1>1
  <2> HIDE DEF F
  <2> QED BY <1>3, <2>1, StepsExist
<1> DEFINE H == [i \in 1 .. n |-> K[i - 1]]
<1>5. ASSUME NEW i \in 1 .. n PROVE H[i] = IF i = 1 THEN lists[i] ELSE H[i - 1] \o lists[i]
  <2>1. CASE i = 1
    BY <1>1, <1>4, <2>1 DEF StepsBy
  <2>2. CASE i # 1
    <3>1. i - 1 \in 1 .. n - 1 /\ (i - 1) - 1 \in 0 .. n - 1 /\ (i - 1) + 1 = i
      BY <1>1, <2>2
    <3>2. K[i - 1] = F[<<i - 1, K[(i - 1) - 1]>>]
      BY <1>4, <3>1 DEF StepsBy
    <3>3. K[i - 1] = K[(i - 1) - 1] \o lists[i]
      BY <3>1, <3>2
    <3>4. H[i] = K[i - 1] /\ H[i - 1] = K[(i - 1) - 1]
      <4>1. i - 1 \in 1 .. n
        BY <1>1, <3>1
      <4> QED BY <4>1
    <3> QED BY <2>2, <3>3, <3>4
  <2> QED BY <2>1, <2>2
<1>6. H = Step(H)
  <2>1. H = [i \in 1 .. n |-> H[i]]
    OBVIOUS
  <2> HIDE DEF H
  <2> QED BY <1>5, <2>1
<1>7. flatten = Step(flatten)
  <2> HIDE DEF Step, H
  <2> QED BY <1>6
<1> HIDE DEF flatten
<1> DEFINE g == [i \in 0 .. n - 1 |-> flatten[i + 1]]
<1>8. g[0] \in Seq(S)
  BY <1>1, <1>7
<1>9. ASSUME NEW i \in 1 .. n - 1, g[i - 1] \in Seq(S) PROVE g[i] \in Seq(S)
  <2>1. i + 1 \in 1 .. n /\ i + 1 # 1 /\ (i + 1) - 1 = i /\ (i - 1) + 1 = i
    BY <1>1
  <2>2. g[i] = flatten[i + 1] /\ g[i - 1] = flatten[i] /\ lists[i + 1] \in Seq(S)
    BY <1>1, <2>1
  <2>3. flatten[i + 1] = flatten[i] \o lists[i + 1]
    BY <1>7, <2>1
  <2>4. flatten[i] \in Seq(S)
    BY <1>9, <2>2
  <2>5. flatten[i] \o lists[i + 1] \in Seq(S)
    <3> HIDE DEF g
    <3> QED BY <2>2, <2>4, ConcatProperties
  <2> QED BY <2>2, <2>3, <2>5
<1>10. \A i \in 0 .. n - 1 : g[i] \in Seq(S)
  <2>1. \A i \in 1 .. n - 1 : g[i - 1] \in Seq(S) => g[i] \in Seq(S)
    BY <1>9
  <2> HIDE DEF g
  <2> QED BY <1>1, <1>8, <2>1, StepsStay
<1> DEFINE G == [i \in 0 .. n |-> IF i = 0 THEN <<>> ELSE flatten[i]]
<1>11. ASSUME NEW i \in 1 .. n PROVE flatten[i] \in Seq(S)
  <2>1. i - 1 \in 0 .. n - 1 /\ g[i - 1] = flatten[i]
    BY <1>1
  <2> HIDE DEF g
  <2> QED BY <1>10, <2>1
<1>12. G \in [0 .. n -> Seq(S)] /\ G[0] = <<>> /\ G[n] = flatten[n]
  BY <1>1, <1>11, EmptySeq
<1>13. ASSUME NEW i \in 1 .. n PROVE G[i] = G[i - 1] \o lists[i]
  <2>0. i \in 0 .. n /\ i # 0 /\ i - 1 \in 0 .. n
    BY <1>1
  <2>1. i - 1 \in 0 .. n /\ G[i] = flatten[i] /\ lists[i] \in Seq(S)
    <3>1. lists[i] \in Seq(S)
      BY <1>1
    <3> QED BY <2>0, <3>1
  <2>2. CASE i = 1
    <3>1. G[i - 1] = <<>> /\ flatten[i] = lists[i]
      BY <1>7, <2>1, <2>2
    <3> QED BY <2>1, <3>1, ConcatEmptySeq
  <2>3. CASE i # 1
    <3>1. G[i - 1] = flatten[i - 1]
      BY <1>1, <2>1, <2>3
    <3> QED BY <1>7, <2>1, <2>3, <3>1
  <2> QED BY <2>2, <2>3
<1> HIDE DEF G
<1> QED BY <1>2, <1>12, <1>13 DEF n

(* Each element of the whole has its place: after the lists before its own.*)
LengthBefore(lists, i) == Len(FlattenSeq(SubSeq(lists, 1, i - 1)))

LEMMA FlattenPlaces ==
  ASSUME NEW S, NEW lists \in Seq(Seq(S)), lists # <<>>
  PROVE  /\ FlattenSeq(lists) \in Seq(S)
         /\ \A i \in 1 .. Len(lists) :
              /\ LengthBefore(lists, i) \in Nat
              /\ \A k \in 1 .. Len(lists[i]) :
                   /\ LengthBefore(lists, i) + k \in 1 .. Len(FlattenSeq(lists))
                   /\ FlattenSeq(lists)[LengthBefore(lists, i) + k] = lists[i][k]
         /\ \A x \in 1 .. Len(FlattenSeq(lists)) :
              \E i \in 1 .. Len(lists) : \E k \in 1 .. Len(lists[i]) : x = LengthBefore(lists, i) + k
<1> DEFINE n == Len(lists)
<1>1. n \in Nat \ {0} /\ \A i \in 1 .. n : lists[i] \in Seq(S) /\ Len(lists[i]) \in Nat
  <2>1. n \in Nat /\ n # 0
    BY EmptySeq, LenProperties
  <2>2. \A i \in 1 .. n : lists[i] \in Seq(S)
    BY LenProperties
  <2> QED BY <2>1, <2>2, LenProperties
<1>2. PICK H \in [0 .. n -> Seq(S)] :
        /\ H[0] = <<>> /\ FlattenSeq(lists) = H[n]
        /\ \A i \in 1 .. n : H[i] = H[i - 1] \o lists[i]
  BY FlattenIs
<1> HIDE DEF n
<1> DEFINE size(i) == Len(H[i])
<1>3. \A i \in 0 .. n : H[i] \in Seq(S) /\ size(i) \in Nat
  BY <1>1, LenProperties
<1>4. size(0) = 0
  BY <1>2
<1>5. ASSUME NEW i \in 1 .. n
      PROVE  /\ i - 1 \in 0 .. n /\ size(i) = size(i - 1) + Len(lists[i])
             /\ \A x \in 1 .. size(i) :
                  H[i][x] = IF x <= size(i - 1) THEN H[i - 1][x] ELSE lists[i][x - size(i - 1)]
  <2>1. i - 1 \in 0 .. n /\ lists[i] \in Seq(S)
    BY <1>1
  <2>2. H[i - 1] \in Seq(S) /\ H[i] = H[i - 1] \o lists[i]
    BY <1>2, <2>1
  <2>3. H[i - 1] \o lists[i] \in Seq(S) /\ Len(H[i - 1] \o lists[i]) = Len(H[i - 1]) + Len(lists[i])
    BY <2>1, <2>2, ConcatProperties
  <2>4. \A x \in 1 .. Len(H[i - 1]) + Len(lists[i]) :
          (H[i - 1] \o lists[i])[x] = IF x <= Len(H[i - 1]) THEN H[i - 1][x] ELSE lists[i][x - Len(H[i - 1])]
    BY <2>1, <2>2, ConcatProperties
  <2> QED BY <2>1, <2>2, <2>3, <2>4
(* What is laid so far is what would be laid of the first lists.           *)
<1>6. ASSUME NEW m \in 0 .. n PROVE FlattenSeq(SubSeq(lists, 1, m)) = H[m]
  <2>1. CASE m = 0
    <3>1. SubSeq(lists, 1, 0) = <<>>
      BY SubSeqEmpty
    <3>2. FlattenSeq(<<>>) = <<>>
      BY DEF FlattenSeq
    <3> QED BY <1>2, <2>1, <3>1, <3>2
  <2>2. CASE m # 0
    <3> DEFINE part == SubSeq(lists, 1, m)
    <3>1. m \in Int /\ 1 \in Int /\ \A i \in 1 .. m : lists[i] \in Seq(S)
      BY <1>1, <2>2
    <3>2. /\ part \in Seq(Seq(S)) /\ Len(part) = IF 1 <= m THEN m - 1 + 1 ELSE 0
          /\ \A i \in 1 .. m - 1 + 1 : part[i] = lists[1 + i - 1]
      BY <3>1, SubSeqProperties
    <3>3. Len(part) = m /\ \A i \in 1 .. m : part[i] = lists[i]
      <4>1. 1 <= m /\ m - 1 + 1 = m /\ \A i \in 1 .. m : 1 + i - 1 = i
        BY <1>1, <2>2
      <4> HIDE DEF part
      <4> QED BY <3>2, <4>1
    <3>4. part # <<>>
      <4>1. Len(<<>>) = 0
        OBVIOUS
      <4> HIDE DEF part
      <4> QED BY <2>2, <3>3, <4>1
    <3> HIDE DEF part
    <3>5. PICK G \in [0 .. m -> Seq(S)] :
            /\ G[0] = <<>> /\ FlattenSeq(part) = G[m]
            /\ \A i \in 1 .. m : G[i] = G[i - 1] \o lists[i]
      <4>1. PICK G \in [0 .. Len(part) -> Seq(S)] :
              /\ G[0] = <<>> /\ FlattenSeq(part) = G[Len(part)]
              /\ \A i \in 1 .. Len(part) : G[i] = G[i - 1] \o part[i]
        BY <3>2, <3>4, FlattenIs
      <4> QED BY <3>3, <4>1
    <3> DEFINE D == {x \in Nat : TRUE}
               I == {x \in Nat : x <= m => G[x] = H[x]}
    <3>6. 0 \in I
      BY <1>2, <3>5
    <3>7. ASSUME NEW x \in Nat, x \in I PROVE x + 1 \in I
      <4> SUFFICES ASSUME x + 1 <= m PROVE G[x + 1] = H[x + 1]
        OBVIOUS
      <4>1. x + 1 \in 1 .. m /\ x + 1 \in 1 .. n /\ (x + 1) - 1 = x /\ G[x] = H[x]
        BY <1>1, <3>7
      <4> QED BY <1>2, <3>5, <4>1
    <3>8. m \in Nat /\ m <= m
      BY <1>1
    <3>9. m \in I
      <4> HIDE DEF I
      <4> QED BY <3>6, <3>7, <3>8, SetInduction
    <3> QED BY <3>5, <3>8, <3>9 DEF part
  <2> QED BY <2>1, <2>2
<1>7. ASSUME NEW i \in 1 .. n PROVE LengthBefore(lists, i) = size(i - 1)
  BY <1>1, <1>6, <1>7 DEF LengthBefore
<1>8. ASSUME NEW m \in Nat, m <= n, NEW i \in 1 .. m, NEW k \in 1 .. Len(lists[i])
      PROVE  size(i - 1) + k \in 1 .. size(m) /\ H[m][size(i - 1) + k] = lists[i][k]
  <2> DEFINE x == size(i - 1) + k
             I == {y \in Nat : i <= y /\ y <= n => x \in 1 .. size(y) /\ H[y][x] = lists[i][k]}
  <2>1. i \in 1 .. n /\ i - 1 \in 0 .. n /\ size(i - 1) \in Nat /\ Len(lists[i]) \in Nat
    <3>1. i \in 1 .. n /\ i - 1 \in 0 .. n
      BY <1>1, <1>8
    <3> HIDE DEF size
    <3> QED BY <1>1, <1>3, <3>1
  <2>2. 0 \in I
    BY <2>1
  <2>3. ASSUME NEW y \in Nat, y \in I PROVE y + 1 \in I
    <3> SUFFICES ASSUME i <= y + 1, y + 1 <= n PROVE x \in 1 .. size(y + 1) /\ H[y + 1][x] = lists[i][k]
      OBVIOUS
    <3> DEFINE z == y + 1
    <3>1. z \in 1 .. n /\ z - 1 = y /\ y \in 0 .. n
      BY <1>1
    <3> HIDE DEF size, z
    <3>2. size(z) = size(y) + Len(lists[z]) /\ size(y) \in Nat /\ Len(lists[z]) \in Nat
      BY <1>1, <1>3, <1>5, <3>1
    <3>3. \A u \in 1 .. size(z) : H[z][u] = IF u <= size(y) THEN H[y][u] ELSE lists[z][u - size(y)]
      BY <1>5, <3>1
    <3>4. CASE i <= y
      <4>1. x \in 1 .. size(y) /\ H[y][x] = lists[i][k]
        BY <1>1, <2>1, <2>3, <3>1, <3>4
      <4>2. x \in 1 .. size(z) /\ x <= size(y)
        BY <3>2, <4>1
      <4> HIDE DEF x
      <4> QED BY <3>3, <4>1, <4>2 DEF z
    <3>5. CASE i = z
      <4>1. x = size(y) + k
        BY <3>1, <3>5
      <4>2. x \in 1 .. size(z) /\ ~(x <= size(y)) /\ x - size(y) = k
        BY <2>1, <3>2, <3>5, <4>1
      <4> HIDE DEF x
      <4> QED BY <3>3, <3>5, <4>2 DEF z
    <3>6. i <= y \/ i = z
      BY <2>1 DEF z
    <3> QED BY <3>4, <3>5, <3>6
  <2>4. m \in I
    <3> HIDE DEF I
    <3> QED BY <2>2, <2>3, SetInduction
  <2> QED BY <1>8, <2>1, <2>4
<1>9. ASSUME NEW x \in 1 .. size(n) PROVE \E i \in 1 .. n : \E k \in 1 .. Len(lists[i]) : x = size(i - 1) + k
  <2> DEFINE I == {y \in Nat : y <= n /\ x <= size(y) => \E i \in 1 .. n : \E k \in 1 .. Len(lists[i]) : x = size(i - 1) + k}
  <2>1. 0 \in I
    BY <1>4
  <2>2. ASSUME NEW y \in Nat, y \in I PROVE y + 1 \in I
    <3> SUFFICES ASSUME y + 1 <= n, x <= size(y + 1)
                 PROVE  \E i \in 1 .. n : \E k \in 1 .. Len(lists[i]) : x = size(i - 1) + k
      OBVIOUS
    <3>1. CASE x <= size(y)
      BY <1>1, <2>2, <3>1
    <3>2. CASE ~(x <= size(y))
      <4> DEFINE z == y + 1
                 k == x - size(y)
      <4>1. z \in 1 .. n /\ z - 1 = y /\ y \in 0 .. n
        BY <1>1
      <4> HIDE DEF size, z
      <4>2. size(z) = size(y) + Len(lists[z]) /\ size(y) \in Nat /\ Len(lists[z]) \in Nat
        BY <1>1, <1>3, <1>5, <4>1
      <4>3. x <= size(z)
        BY DEF z
      <4>4. k \in 1 .. Len(lists[z]) /\ x = size(z - 1) + k
        BY <3>2, <4>1, <4>2, <4>3
      <4> HIDE DEF k
      <4> QED BY <4>1, <4>4
    <3> QED BY <3>1, <3>2
  <2>3. n \in I
    <3> HIDE DEF I
    <3> QED BY <1>1, <2>1, <2>2, SetInduction
  <2> QED BY <1>1, <1>3, <2>3
<1>10. FlattenSeq(lists) \in Seq(S) /\ Len(FlattenSeq(lists)) = size(n)
  BY <1>1, <1>2
<1> HIDE DEF size
<1>11. \A i \in 1 .. n : size(i - 1) \in Nat
  BY <1>3, <1>5
<1>12. \A i \in 1 .. n : \A k \in 1 .. Len(lists[i]) : size(i - 1) + k \in 1 .. size(n) /\ H[n][size(i - 1) + k] = lists[i][k]
  BY <1>1, <1>8
<1>13. \A i \in 1 .. n :
         /\ LengthBefore(lists, i) \in Nat
         /\ \A k \in 1 .. Len(lists[i]) :
              /\ LengthBefore(lists, i) + k \in 1 .. Len(FlattenSeq(lists))
              /\ FlattenSeq(lists)[LengthBefore(lists, i) + k] = lists[i][k]
  BY <1>2, <1>7, <1>10, <1>11, <1>12
<1>14. \A x \in 1 .. Len(FlattenSeq(lists)) :
         \E i \in 1 .. n : \E k \in 1 .. Len(lists[i]) : x = LengthBefore(lists, i) + k
  BY <1>7, <1>9, <1>10
<1> QED BY <1>10, <1>13, <1>14 DEF n
=============================================================================
