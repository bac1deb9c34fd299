-------------------------- MODULE PreparationProofs ---------------------------
(***************************************************************************)
(* That what is sent can be traded, pays for itself and was rehearsed, for *)
(* any venues, pools, price maps, configurations and failures of reads.    *)
(*                                                                         *)
(* The invariant follows the data.  What the venues deliver is finite and  *)
(* leads from one token to another (ScanInv): a pool holds two tokens.     *)
(* Then every search makes chains (RoutesInv): round trips and triangles as*)
(* they are chosen, and the cycles of Bellman-Ford because the walk over   *)
(* the predecessors stops at the first vertex it has seen (Trail),         *)
(* whatever the relaxation has left in them.  Conversion keeps chains and  *)
(* lets only those on a stable through (Tradable).  At last, what an       *)
(* attempt holds was read at one moment, so what it was judged by is still *)
(* what it is sent with, whatever the shared configuration has become      *)
(* (AttemptInv).                                                           *)
(*                                                                         *)
(* What is kept and what is lost on the way has invariants of its own: the *)
(* best of the round trips is kept and converted (GainsInv), a plan gives  *)
(* away no more than its gain allows (PlanIs), a tier cached is the tier   *)
(* quoted (TiersInv), one failed read hides nothing it is not about        *)
(* (HiddenInv), and the pool measured is the one that quoted (ThinInv).    *)
(***************************************************************************)
EXTENDS Preparation, SumTheorems

-------------------------------------------------------------------------------
(* What the lists and sets of the model are.                               *)

LEMMA ImageIsFinite ==
  ASSUME NEW S, IsFiniteSet(S), NEW f
  PROVE  IsFiniteSet({f[x] : x \in S})
<1> DEFINE T == {f[x] : x \in S}
           g == [x \in S |-> f[x]]
<1>1. g \in [S -> T] /\ \A t \in T : \E x \in S : g[x] = t
  OBVIOUS
<1>2. g \in Surjection(S, T)
  BY <1>1 DEF Surjection
<1> QED BY <1>2, FS_Surjection

LEMMA ListIsFinite ==
  ASSUME NEW S, NEW s \in Seq(S)
  PROVE  IsFiniteSet(Range(s)) /\ IsFiniteSet(DOMAIN s)
<1>1. IsFiniteSet(DOMAIN s) /\ DOMAIN s = 1 .. Len(s)
  BY LenProperties, FS_Interval
<1>2. IsFiniteSet({s[i] : i \in DOMAIN s})
  BY <1>1, ImageIsFinite
<1> QED BY <1>1, <1>2 DEF Range

LEMMA Listing ==
  ASSUME NEW S, IsFiniteSet(S)
  PROVE  SetToSeq(S) \in Seq(S)
<1> DEFINE Orderings == {f \in [1 .. Cardinality(S) -> S] : IsInjective(f)}
<1>1. Cardinality(S) \in Nat /\ ExistsBijection(1 .. Cardinality(S), S)
  BY FS_CardinalityType
<1>2. Orderings # {}
  BY <1>1 DEF ExistsBijection, Bijection, Injection, IsInjective
<1>3. SetToSeq(S) \in Orderings
  BY <1>2 DEF SetToSeq
<1> QED BY <1>1, <1>3, SeqDef

(* Lists laid end to end.                                                  *)
LEMMA FlattenKeeps ==
  ASSUME NEW S, NEW lists \in Seq(Seq(S)), lists # <<>>
  PROVE  FlattenSeq(lists) \in Seq(S)
BY FlattenPlaces

LEMMA ReverseKeeps ==
  ASSUME NEW S, NEW s \in Seq(S)
  PROVE  /\ Reverse(s) \in Seq(S) /\ Len(Reverse(s)) = Len(s)
         /\ \A i \in 1 .. Len(s) : Reverse(s)[i] = s[Len(s) - i + 1]
<1>1. Len(s) \in Nat /\ \A i \in 1 .. Len(s) : s[i] \in S
  BY LenProperties
<1>2. Reverse(s) \in [1 .. Len(s) -> S] /\ \A i \in 1 .. Len(s) : Reverse(s)[i] = s[Len(s) - i + 1]
  BY <1>1 DEF Reverse
<1>3. Reverse(s) \in Seq(S)
  BY <1>1, <1>2, SeqDef
<1> QED BY <1>1, <1>2, <1>3, LenProperties

-------------------------------------------------------------------------------
(* Finder: every search makes chains, and conversion keeps them.           *)

ChainOf(path, legs) ==
  /\ legs \in Seq(Range(legs)) /\ Len(legs) >= 2
  /\ path \in Seq(Range(path)) /\ Len(path) = Len(legs) + 1
  /\ path[1] = path[Len(path)]
  /\ \A i \in 1 .. Len(legs) : legs[i].from = path[i] /\ legs[i].to = path[i + 1]
  /\ \A i, j \in 2 .. Len(path) : path[i] = path[j] => i = j
IsChain(r) == ChainOf(r.path, r.legs)
Tradable(r) == IsChain(r) /\ StableCentric(r.path) /\ Len(r.legs) \in 2 .. MaxHops

QuotesFit == quotes \in Seq(Range(quotes)) /\ \A q \in Quoted : q.from # q.to /\ q.gain \in Int
RoutesInv ==
  /\ phase # "scan" => QuotesFit
  /\ \A r \in found : IsChain(r)
  /\ \A r \in result : Tradable(r)

LEMMA RouteIs ==
  ASSUME NEW label, NEW path, NEW legs, ChainOf(path, legs)
  PROVE  IsChain(Route(label, path, legs))
  BY DEF Route, IsChain

LEMMA BestIsOfThem ==
  ASSUME NEW routes
  PROVE  BestOf(routes) \subseteq routes
  BY DEF BestOf, Widest

LEMMA TwoLegs ==
  ASSUME NEW p, NEW q, NEW a, NEW b, a # b, p.from = a, p.to = b, q.from = b, q.to = a
  PROVE  ChainOf(<<a, b, a>>, <<p, q>>)
<1> DEFINE legs == <<p, q>>
           path == <<a, b, a>>
<1>1. legs \in Seq({p, q}) /\ path \in Seq({a, b})
  OBVIOUS
<1>2. legs \in Seq(Range(legs)) /\ path \in Seq(Range(path))
  <2> HIDE DEF legs, path
  <2> QED BY <1>1, SeqOfRange
<1>3. Len(legs) = 2 /\ Len(path) = 3
  OBVIOUS
<1>4. \A i \in 1 .. 2 : legs[i].from = path[i] /\ legs[i].to = path[i + 1]
  <2> SUFFICES ASSUME NEW i \in 1 .. 2 PROVE legs[i].from = path[i] /\ legs[i].to = path[i + 1]
    OBVIOUS
  <2>1. i = 1 \/ i = 2
    OBVIOUS
  <2> QED BY <2>1
<1>5. \A i, j \in 2 .. 3 : path[i] = path[j] => i = j
  <2>1. \A i \in 2 .. 3 : i = 2 \/ i = 3
    OBVIOUS
  <2>2. path[2] = b /\ path[3] = a
    OBVIOUS
  <2> HIDE DEF path
  <2> QED BY <2>1, <2>2
<1>6. path[1] = path[3]
  OBVIOUS
<1> HIDE DEF legs, path
<1>7. ChainOf(path, legs)
  BY <1>2, <1>3, <1>4, <1>5, <1>6 DEF ChainOf
<1> QED BY <1>7 DEF legs, path

LEMMA ThreeLegs ==
  ASSUME NEW p, NEW q, NEW r, NEW a, NEW b, NEW c, a # b, b # c, c # a,
         p.from = a, p.to = b, q.from = b, q.to = c, r.from = c, r.to = a
  PROVE  ChainOf(<<a, b, c, a>>, <<p, q, r>>)
<1> DEFINE legs == <<p, q, r>>
           path == <<a, b, c, a>>
<1>1. legs \in Seq({p, q, r}) /\ path \in Seq({a, b, c})
  OBVIOUS
<1>2. legs \in Seq(Range(legs)) /\ path \in Seq(Range(path))
  <2> HIDE DEF legs, path
  <2> QED BY <1>1, SeqOfRange
<1>3. Len(legs) = 3 /\ Len(path) = 4
  OBVIOUS
<1>4. \A i \in 1 .. 3 : legs[i].from = path[i] /\ legs[i].to = path[i + 1]
  <2> SUFFICES ASSUME NEW i \in 1 .. 3 PROVE legs[i].from = path[i] /\ legs[i].to = path[i + 1]
    OBVIOUS
  <2>1. i = 1 \/ i = 2 \/ i = 3
    OBVIOUS
  <2> QED BY <2>1
<1>5. \A i, j \in 2 .. 4 : path[i] = path[j] => i = j
  <2>1. \A i \in 2 .. 4 : i = 2 \/ i = 3 \/ i = 4
    OBVIOUS
  <2>2. path[2] = b /\ path[3] = c /\ path[4] = a
    OBVIOUS
  <2> HIDE DEF path
  <2> QED BY <2>1, <2>2
<1>6. path[1] = path[4]
  OBVIOUS
<1> HIDE DEF legs, path
<1>7. ChainOf(path, legs)
  BY <1>2, <1>3, <1>4, <1>5, <1>6 DEF ChainOf
<1> QED BY <1>7 DEF legs, path

LEMMA RoundTripsAreChains ==
  ASSUME QuotesFit, NEW a, NEW b, NEW t \in RoundTrips(a, b)
  PROVE  ChainOf(<<a, b, a>>, t)
<1>1. /\ t = <<t[1], t[2]>> /\ t[1] \in Quoted
      /\ t[1].from = a /\ t[1].to = b /\ t[2].from = b /\ t[2].to = a
  BY DEF RoundTrips
<1>2. a # b
  BY <1>1 DEF QuotesFit
<1>3. ChainOf(<<a, b, a>>, <<t[1], t[2]>>)
  BY <1>1, <1>2, TwoLegs
<1> QED BY <1>1, <1>3

LEMMA DirectRoutes ==
  ASSUME QuotesFit, NEW a, NEW b, NEW r \in EvaluateDirect(a, b)
  PROVE  IsChain(r)
<1>1. r \in DirectTrips(a, b)
  BY BestIsOfThem DEF EvaluateDirect
<1>2. PICK t \in RoundTrips(a, b) : r = Route("pair", <<a, b, a>>, t)
  BY <1>1 DEF DirectTrips
<1> QED BY <1>2, RoundTripsAreChains, RouteIs

LEMMA TrianglesAreChains ==
  ASSUME QuotesFit, NEW a, NEW b, NEW c, NEW t \in Triangles(a, b, c)
  PROVE  IsChain(Route("path", <<t[1].from, t[2].from, t[3].from, t[1].from>>, t))
<1>1. /\ t = <<t[1], t[2], t[3]>> /\ t[1] \in Quoted /\ t[2] \in Quoted /\ t[3] \in Quoted
      /\ t[1].from = a /\ t[1].to = b /\ t[2].from = b /\ t[2].to = c /\ t[3].from = c /\ t[3].to = a
  BY DEF Triangles
<1>2. a # b /\ b # c /\ c # a
  BY <1>1 DEF QuotesFit
<1>3. ChainOf(<<a, b, c, a>>, <<t[1], t[2], t[3]>>)
  BY <1>1, <1>2, ThreeLegs
<1>4. ChainOf(<<t[1].from, t[2].from, t[3].from, t[1].from>>, t)
  BY <1>1, <1>3
<1> QED BY <1>4, RouteIs

LEMMA TriangularRoutes ==
  ASSUME QuotesFit, NEW r \in CrossSearch \cup IntraSearch
  PROVE  IsChain(r)
<1>1. ASSUME NEW triangles, NEW q \in Routes(triangles),
             \A t \in triangles : \E a, b, c : t \in Triangles(a, b, c)
      PROVE  IsChain(q)
  <2>1. PICK t \in triangles : q = Route("path", <<t[1].from, t[2].from, t[3].from, t[1].from>>, t)
    BY DEF Routes
  <2>2. PICK a, b, c : t \in Triangles(a, b, c)
    BY <1>1
  <2> QED BY <2>1, <2>2, TrianglesAreChains
<1>2. CASE r \in CrossSearch
  <2>1. PICK s \in Stables, p \in Middles : r \in CrossTriangle(s, p[1], p[2])
    BY <1>2 DEF CrossSearch, Worthwhile
  <2>2. r \in Routes(Triangles(s, p[1], p[2]))
    BY <2>1, BestIsOfThem DEF CrossTriangle
  <2> QED BY <1>1, <2>2
<1>3. CASE r \in IntraSearch
  <2>1. PICK v \in Venues, s \in Stables, p \in Middles : r \in IntraTriangle(v, s, p[1], p[2])
    BY <1>3 DEF IntraSearch, Worthwhile
  <2> DEFINE mine == {t \in Triangles(s, p[1], p[2]) \cup Triangles(s, p[2], p[1]) :
                        \A i \in 1 .. 3 : t[i].venue = v}
  <2>2. r \in Routes(mine)
    BY <2>1 DEF IntraTriangle
  <2>3. \A t \in mine : \E a, b, c : t \in Triangles(a, b, c)
    OBVIOUS
  <2> HIDE DEF mine
  <2> QED BY <1>1, <2>2, <2>3
<1> QED BY <1>2, <1>3

LEMMA ConversionKeeps ==
  ASSUME NEW r, IsChain(r), NEW q \in Converted(r)
  PROVE  Tradable(q)
<1>1. /\ r.legs \in Seq(Range(r.legs)) /\ Len(r.legs) >= 2 /\ Len(r.legs) \in Nat
      /\ Len(r.path) = Len(r.legs) + 1 /\ r.path[1] = r.path[Len(r.path)]
      /\ \A i \in 1 .. Len(r.legs) : r.legs[i].from = r.path[i] /\ r.legs[i].to = r.path[i + 1]
      /\ \A i, j \in 2 .. Len(r.path) : r.path[i] = r.path[j] => i = j
  BY LenProperties DEF IsChain, ChainOf
<1>2. CASE StableCentric(r.path) /\ Len(r.legs) <= MaxHops
  BY <1>1, <1>2, HopsAssumption DEF Converted, Tradable
<1>3. CASE /\ Len(r.legs) = 2 /\ r.path[2] \in Stables
           /\ q = Route("path", <<r.path[2], r.path[1], r.path[2]>>, <<r.legs[2], r.legs[1]>>)
  <2> DEFINE path == <<r.path[2], r.path[1], r.path[2]>>
             legs == <<r.legs[2], r.legs[1]>>
  <2>1. /\ r.legs[1].from = r.path[1] /\ r.legs[1].to = r.path[2]
        /\ r.legs[2].from = r.path[2] /\ r.legs[2].to = r.path[1] /\ r.path[1] # r.path[2]
    BY <1>1, <1>3
  <2>2. ChainOf(path, legs)
    BY <2>1, TwoLegs
  <2>3. q.path = path /\ q.legs = legs
    BY <1>3 DEF Route
  <2>4. Len(path) = 3 /\ Len(legs) = 2 /\ path[1] = r.path[2] /\ path[3] = r.path[2]
    OBVIOUS
  <2> HIDE DEF path, legs
  <2>5. IsChain(q)
    BY <2>2, <2>3 DEF IsChain
  <2>6. StableCentric(q.path)
    BY <1>3, <2>3, <2>4 DEF StableCentric, Last
  <2>7. Len(q.legs) \in 2 .. MaxHops
    BY <2>3, <2>4, HopsAssumption
  <2> QED BY <2>5, <2>6, <2>7 DEF Tradable
<1> QED BY <1>2, <1>3 DEF Converted

-------------------------------------------------------------------------------
(* Bellman-Ford: what the walk and the cycle of a start are.               *)

(* The walk over the predecessors passes no vertex twice.                  *)
Trail(start, w) ==
  /\ w \in Seq(Range(w)) /\ Len(w) >= 1 /\ w[1] = start
  /\ \A i, j \in 1 .. Len(w) : w[i] = w[j] => i = j
Farther(pred, stop, w) ==
  LET p == pred[Last(w)] IN IF p = None \/ p \in Range(w) \/ p = stop THEN w ELSE Append(w, p)

LEMMA TrailGrows ==
  ASSUME NEW pred, NEW start, NEW stop, NEW w, Trail(start, w)
  PROVE  Trail(start, Farther(pred, stop, w))
<1> DEFINE p == pred[Last(w)]
           S == Range(w) \cup {p}
           v == Append(w, p)
<1>1. CASE p = None \/ p \in Range(w) \/ p = stop
  BY <1>1 DEF Farther
<1>2. CASE p \notin Range(w) /\ Farther(pred, stop, w) = v
  <2> HIDE DEF p
  <2>1. w \in Seq(S) /\ p \in S /\ Len(w) \in Nat /\ Len(w) >= 1 /\ w[1] = start
    BY SeqMonotonic, LenProperties DEF Trail
  <2>2. /\ v \in Seq(S) /\ Len(v) = Len(w) + 1
        /\ \A i \in 1 .. Len(w) : v[i] = w[i]
        /\ v[Len(w) + 1] = p
    BY <2>1, AppendProperties
  <2>3. v \in Seq(Range(v))
    BY <2>2, SeqOfRange
  <2>4. \A i \in 1 .. Len(w) : w[i] # p
    BY <1>2, <2>1, LenProperties DEF Range
  <2> HIDE DEF v
  <2>5. \A i, j \in 1 .. Len(v) : v[i] = v[j] => i = j
    <3> SUFFICES ASSUME NEW i \in 1 .. Len(v), NEW j \in 1 .. Len(v), v[i] = v[j] PROVE i = j
      OBVIOUS
    <3>1. /\ i = Len(w) + 1 \/ i \in 1 .. Len(w)
          /\ j = Len(w) + 1 \/ j \in 1 .. Len(w)
      BY <2>1, <2>2
    <3> QED BY <2>2, <2>4, <3>1 DEF Trail
  <2>6. Len(v) >= 1 /\ v[1] = start
    BY <2>1, <2>2
  <2> QED BY <1>2, <2>3, <2>5, <2>6 DEF Trail
<1> QED BY <1>1, <1>2 DEF Farther

LEMMA WalkIsATrail ==
  ASSUME QuotesFit, NEW pred, NEW start, NEW stop
  PROVE  Trail(start, Walk(pred, start, stop))
<1> DEFINE n == Cardinality(Vertices)
           Step(m, h) == [k \in 0 .. m |-> IF k = 0 THEN <<start>> ELSE Farther(pred, stop, h[k - 1])]
           walk == CHOOSE h : h = Step(n, h)
           I == {m \in Nat : \E h : h = Step(m, h)}
           J == {m \in Nat : m <= n => Trail(start, walk[m])}
<1>1. n \in Nat
  <2>1. IsFiniteSet(Quoted)
    BY ListIsFinite DEF QuotesFit, Quoted
  <2>2. IsFiniteSet({q.from : q \in Quoted}) /\ IsFiniteSet({q.to : q \in Quoted})
    <3>1. \A q \in Quoted : [r \in Quoted |-> r.from][q] = q.from /\ [r \in Quoted |-> r.to][q] = q.to
      OBVIOUS
    <3>2. \A f : IsFiniteSet({f[q] : q \in Quoted})
      BY <2>1, ImageIsFinite
    <3>3. /\ {q.from : q \in Quoted} = {[r \in Quoted |-> r.from][q] : q \in Quoted}
          /\ {q.to : q \in Quoted} = {[r \in Quoted |-> r.to][q] : q \in Quoted}
      OBVIOUS
    <3> QED BY <3>2, <3>3
  <2>3. IsFiniteSet(Vertices)
    BY <2>2, FS_Union DEF Vertices
  <2> QED BY <2>3, FS_CardinalityType
<1>2. Walk(pred, start, stop) = walk[n]
  BY DEF Walk, Farther
<1> HIDE DEF n
<1>3. Nat \subseteq I
  <2>1. 0 \in I
    <3> DEFINE h == [k \in 0 .. 0 |-> <<start>>]
    <3>1. h = Step(0, h)
      OBVIOUS
    <3> QED BY <3>1
  <2>2. ASSUME NEW m \in Nat, m \in I PROVE m + 1 \in I
    <3>1. PICK h : h = Step(m, h)
      BY <2>2
    <3> DEFINE new == Farther(pred, stop, h[m])
               H == [k \in 0 .. m + 1 |-> IF k = m + 1 THEN new ELSE h[k]]
    <3>2. H[m + 1] = new /\ (\A k \in 0 .. m : H[k] = h[k]) /\ H = [k \in 0 .. m + 1 |-> H[k]]
      OBVIOUS
    <3>3. ASSUME NEW k \in 0 .. m + 1
          PROVE  H[k] = IF k = 0 THEN <<start>> ELSE Farther(pred, stop, H[k - 1])
      <4>1. CASE k = m + 1
        <5>1. k - 1 = m /\ m \in 0 .. m /\ k # 0
          BY <4>1
        <5>2. H[k - 1] = h[m] /\ H[k] = new
          BY <3>2, <4>1, <5>1
        <5> HIDE DEF H
        <5> QED BY <5>1, <5>2
      <4>2. CASE k = 0
        <5>1. H[0] = h[0] /\ h[0] = <<start>>
          BY <3>1, <3>2
        <5> HIDE DEF H
        <5> QED BY <4>2, <5>1
      <4>3. CASE k \in 1 .. m
        <5>1. k - 1 \in 0 .. m /\ k \in 0 .. m /\ k # 0
          BY <4>3
        <5>2. H[k] = h[k] /\ H[k - 1] = h[k - 1]
          BY <3>2, <5>1
        <5>3. h[k] = Farther(pred, stop, h[k - 1])
          BY <3>1, <5>1
        <5> HIDE DEF H
        <5> QED BY <5>1, <5>2, <5>3
      <4> QED BY <4>1, <4>2, <4>3
    <3> HIDE DEF H
    <3>4. H = Step(m + 1, H)
      BY <3>2, <3>3
    <3> HIDE DEF Step
    <3> QED BY <3>4
  <2> HIDE DEF I
  <2> QED BY <2>1, <2>2, SetInduction
<1>4. walk = Step(n, walk)
  <2>1. \E h : h = Step(n, h)
    BY <1>1, <1>3
  <2> HIDE DEF Step
  <2> QED BY <2>1
<1> HIDE DEF walk, I
<1>5. Nat \subseteq J
  <2>1. 0 \in J
    <3>1. walk[0] = <<start>>
      BY <1>1, <1>4
    <3>2. <<start>> \in Seq({start}) /\ Len(<<start>>) = 1 /\ <<start>>[1] = start
      OBVIOUS
    <3>3. <<start>> \in Seq(Range(<<start>>))
      BY <3>2, SeqOfRange
    <3>4. Trail(start, <<start>>)
      BY <3>2, <3>3 DEF Trail
    <3> QED BY <3>1, <3>4
  <2>2. ASSUME NEW m \in Nat, m \in J PROVE m + 1 \in J
    <3> SUFFICES ASSUME m + 1 <= n PROVE Trail(start, walk[m + 1])
      OBVIOUS
    <3>1. m + 1 \in 0 .. n /\ m + 1 # 0 /\ (m + 1) - 1 = m /\ Trail(start, walk[m])
      BY <1>1, <2>2
    <3>2. walk[m + 1] = Farther(pred, stop, walk[m])
      BY <1>4, <3>1
    <3> QED BY <3>1, <3>2, TrailGrows
  <2> HIDE DEF J
  <2> QED BY <2>1, <2>2, SetInduction
<1> QED BY <1>1, <1>2, <1>5

(* The legs of a path, each taken from the map in one direction or the     *)
(* other.                                                                  *)
LEMMA FirstOfThem ==
  ASSUME QuotesFit, NEW a, NEW b, NEW q \in FirstQuote(a, b)
  PROVE  q.from = a /\ q.to = b /\ q \in Quoted
<1> DEFINE at_ == {i \in DOMAIN quotes : quotes[i].from = a /\ quotes[i].to = b}
<1>1. at_ # {} /\ q = quotes[Min(at_)]
  BY DEF FirstQuote
<1>2. at_ \subseteq Nat
  BY LenProperties DEF QuotesFit
<1> HIDE DEF at_
<1>3. PICK i \in at_ : \A j \in at_ : <<j, i>> \notin Smaller
  BY <1>1, <1>2, SmallerIsWellFounded, WFMin
<1>4. \A j \in at_ : i <= j
  <2> SUFFICES ASSUME NEW j \in at_, ~(i <= j) PROVE FALSE
    OBVIOUS
  <2>1. <<j, i>> \in Nat \X Nat /\ j < i
    BY <1>2
  <2>2. <<j, i>> \in Smaller
    BY <2>1 DEF Smaller
  <2> QED BY <1>3, <2>2
<1>5. Min(at_) \in at_
  BY <1>4 DEF Min
<1>6. q \in Quoted
  BY <1>1, <1>5 DEF at_, Quoted, Range
<1> QED BY <1>1, <1>5, <1>6 DEF at_

LEMMA BfLegFits ==
  ASSUME QuotesFit, NEW a, NEW b, NEW l \in BfLeg(a, b)
  PROVE  l.from = a /\ l.to = b
  BY FirstOfThem DEF BfLeg, Leg

LEMMA CyclePathReturns ==
  ASSUME QuotesFit, NEW pred, NEW from
  PROVE  LET path == CyclePath(pred, from) IN
         /\ path \in Seq(Range(path)) /\ path[1] = path[Len(path)]
         /\ \A i, j \in 2 .. Len(path) : path[i] = path[j] => i = j
<1> DEFINE s == CycleStart(pred, from)
           w == Walk(pred, s, s)
           t == Tail(w)
           path == CyclePath(pred, from)
           S == Range(w)
           m == Len(t)
<1>1. path = <<s>> \o Reverse(t) \o <<s>>
  BY DEF CyclePath
<1>2. Trail(s, w)
  BY WalkIsATrail
<1> HIDE DEF path, s, w
<1>3. w \in Seq(S) /\ Len(w) \in Nat /\ Len(w) >= 1 /\ w # <<>> /\ w[1] = s
  <2>1. w \in Seq(S) /\ Len(w) >= 1
    BY <1>2 DEF Trail
  <2> QED BY <1>2, <2>1, LenProperties, EmptySeq DEF Trail
<1>4. t \in Seq(S) /\ m = Len(w) - 1 /\ m \in Nat /\ \A i \in 1 .. m : t[i] = w[i + 1]
  <2> HIDE DEF S
  <2> QED BY <1>3, HeadTailProperties
<1> HIDE DEF t
<1>5. /\ Reverse(t) \in Seq(S) /\ Len(Reverse(t)) = m
      /\ \A i \in 1 .. m : Reverse(t)[i] = t[m - i + 1]
  <2> HIDE DEF S
  <2> QED BY <1>4, ReverseKeeps
<1>6. s \in S /\ <<s>> \in Seq(S) /\ Len(<<s>>) = 1 /\ <<s>>[1] = s
  <2>1. s \in S
    BY <1>3, LenProperties DEF Range
  <2> HIDE DEF S
  <2> QED BY <2>1
<1> DEFINE there == <<s>> \o Reverse(t)
<1> HIDE DEF S, m
<1>7. /\ there \in Seq(S) /\ Len(there) = m + 1 /\ there[1] = s
      /\ \A i \in 2 .. m + 1 : there[i] = Reverse(t)[i - 1]
  <2>1. /\ there \in Seq(S) /\ Len(there) = 1 + m
        /\ \A i \in 1 .. 1 + m : there[i] = IF i <= 1 THEN <<s>>[i] ELSE Reverse(t)[i - 1]
    BY <1>5, <1>6, ConcatProperties
  <2> HIDE DEF there
  <2> QED BY <1>4, <1>6, <2>1
<1> HIDE DEF there
<1>8. /\ path \in Seq(S) /\ Len(path) = m + 2 /\ path[m + 2] = s
      /\ \A i \in 1 .. m + 1 : path[i] = there[i]
  <2>1. path = there \o <<s>>
    BY <1>1 DEF there
  <2>2. /\ path \in Seq(S) /\ Len(path) = (m + 1) + 1
        /\ \A i \in 1 .. (m + 1) + 1 : path[i] = IF i <= m + 1 THEN there[i] ELSE <<s>>[i - (m + 1)]
    BY <1>6, <1>7, <2>1, ConcatProperties
  <2>3. (m + 2) - (m + 1) = 1
    BY <1>4
  <2> QED BY <1>4, <1>6, <2>2, <2>3
<1>9. \A i \in 2 .. m + 2 : path[i] = w[m + 3 - i]
  <2> SUFFICES ASSUME NEW i \in 2 .. m + 2 PROVE path[i] = w[m + 3 - i]
    OBVIOUS
  <2>1. CASE i = m + 2
    <3>1. m + 3 - i = 1
      BY <1>4, <2>1
    <3> QED BY <1>3, <1>8, <2>1, <3>1
  <2>2. CASE i \in 2 .. m + 1
    <3>1. /\ i - 1 \in 1 .. m /\ m - (i - 1) + 1 \in 1 .. m
          /\ (m - (i - 1) + 1) + 1 = m + 3 - i /\ i \in 1 .. m + 1
      BY <1>4, <2>2
    <3>2. path[i] = Reverse(t)[i - 1]
      BY <1>7, <1>8, <2>2, <3>1
    <3>3. Reverse(t)[i - 1] = t[m - (i - 1) + 1]
      BY <1>5, <3>1
    <3>4. t[m - (i - 1) + 1] = w[(m - (i - 1) + 1) + 1]
      BY <1>4, <3>1
    <3> QED BY <3>1, <3>2, <3>3, <3>4
  <2> QED BY <1>4, <2>1, <2>2
<1>10. ASSUME NEW i \in 2 .. m + 2, NEW j \in 2 .. m + 2, path[i] = path[j] PROVE i = j
  <2>1. m + 3 - i \in 1 .. Len(w) /\ m + 3 - j \in 1 .. Len(w)
    BY <1>4
  <2>2. w[m + 3 - i] = w[m + 3 - j]
    BY <1>9, <1>10
  <2>3. m + 3 - i = m + 3 - j
    BY <1>2, <2>1, <2>2 DEF Trail
  <2> QED BY <1>4, <2>3
<1>11. path \in Seq(Range(path)) /\ path[1] = path[Len(path)]
  <2>1. 1 \in 1 .. m + 1
    BY <1>4
  <2> QED BY <1>7, <1>8, <2>1, SeqOfRange
<1> QED BY <1>8, <1>10, <1>11 DEF path

LEMMA BfRoutesAreChains ==
  ASSUME QuotesFit, NEW path, path \in Seq(Range(path)), path[1] = path[Len(path)], Len(path) > 2,
         \A i, j \in 2 .. Len(path) : path[i] = path[j] => i = j,
         NEW r \in BfRoute(path)
  PROVE  IsChain(r)
<1> DEFINE n == Len(path) - 1
           options == [i \in 1 .. n |-> BfLeg(path[i], path[i + 1])]
           legs == [i \in DOMAIN options |-> CHOOSE l \in options[i] : TRUE]
<1>1. n \in Nat /\ n >= 2 /\ Len(path) = n + 1
  BY LenProperties
<1>2. r = Route("path", path, legs) /\ \A i \in 1 .. n : options[i] # {}
  BY DEF BfRoute
<1> HIDE DEF n
<1>3. \A i \in 1 .. n : legs[i] \in BfLeg(path[i], path[i + 1])
  BY <1>2
<1>4. legs \in Seq(Range(legs)) /\ Len(legs) = n
  <2>1. legs = [i \in 1 .. n |-> legs[i]] /\ DOMAIN legs = 1 .. n
    OBVIOUS
  <2> HIDE DEF legs
  <2>2. legs \in [1 .. n -> Range(legs)]
    BY <2>1 DEF Range
  <2>3. legs \in Seq(Range(legs))
    BY <1>1, <2>2, SeqDef
  <2> QED BY <1>1, <2>1, <2>3, LenProperties
<1>5. \A i \in 1 .. n : legs[i].from = path[i] /\ legs[i].to = path[i + 1]
  <2> HIDE DEF legs
  <2> QED BY <1>3, BfLegFits
<1> HIDE DEF legs
<1>6. ChainOf(path, legs)
  BY <1>1, <1>4, <1>5 DEF ChainOf
<1> QED BY <1>2, <1>6, RouteIs DEF legs

LEMMA BfCyclesAreChains ==
  ASSUME QuotesFit, NEW r \in BfCycles
  PROVE  IsChain(r)
<1>1. PICK pred, from : Len(CyclePath(pred, from)) > 2 /\ r \in BfRoute(CyclePath(pred, from))
  BY DEF BfCycles
<1> DEFINE path == CyclePath(pred, from)
<1>2. /\ path \in Seq(Range(path)) /\ path[1] = path[Len(path)]
      /\ \A i, j \in 2 .. Len(path) : path[i] = path[j] => i = j
  BY CyclePathReturns
<1> HIDE DEF path
<1> QED BY <1>1, <1>2, BfRoutesAreChains DEF path

LEMMA SearchKeepsChains ==
  ASSUME RoutesInv, phase # "scan", [Next]_vars
  PROVE  RoutesInv'
<1>1. QuotesFit /\ phase' # "scan" /\ quotes' = quotes
  BY DEF RoutesInv, Next, ExtractEdges, FindDirect, FindTriangular, FindBfCycles, Select, Convert, Done, vars
<1>2. QuotesFit'
  BY <1>1 DEF QuotesFit, Quoted
<1>3. \A r \in found' : IsChain(r)
  <2>1. CASE FindDirect
    BY <1>1, <2>1, DirectRoutes DEF FindDirect
  <2>2. CASE FindTriangular
    BY <1>1, <2>2, TriangularRoutes DEF FindTriangular, RoutesInv
  <2>3. CASE FindBfCycles
    BY <1>1, <2>3, BfCyclesAreChains DEF FindBfCycles, RoutesInv
  <2>4. CASE Select
    <3>1. found' \subseteq found
      BY <2>4, BestIsOfThem DEF Select
    <3> QED BY <3>1 DEF RoutesInv
  <2>5. CASE UNCHANGED found
    BY <2>5 DEF RoutesInv
  <2> QED BY <2>1, <2>2, <2>3, <2>4, <2>5 DEF Next, ExtractEdges, Convert, Done, vars
<1>4. \A r \in result' : Tradable(r)
  <2>1. CASE Convert
    BY <2>1, ConversionKeeps DEF Convert, RoutesInv
  <2>2. CASE UNCHANGED result
    BY <2>2 DEF RoutesInv
  <2> QED BY <2>1, <2>2 DEF Next, ExtractEdges, FindDirect, FindTriangular, FindBfCycles, Select, Done, vars
<1> QED BY <1>1, <1>2, <1>3, <1>4 DEF RoutesInv

-------------------------------------------------------------------------------
(* Venues: what is quoted is finite and leads from a token to another.     *)

PricesFit(prices) == IsFiniteSet(prices) /\ \A p \in prices : p.from # p.to /\ p.gain \in Int
ScanInv ==
  /\ market \in Markets /\ at \in 1 .. Len(Adapters)
  /\ PricesFit(got)
  /\ DOMAIN priceMap = Range(Adapters) /\ \A v \in Range(Adapters) : PricesFit(priceMap[v])

LEMMA OffersArePools ==
  ASSUME market \in Markets, NEW v \in Range(Adapters), NEW d, NEW lost
  PROVE  /\ IsFiniteSet(DOMAIN Offers(v, d, lost))
         /\ DOMAIN Offers(v, d, lost) # {} => d[1] # d[2]
<1>1. DOMAIN Offers(v, d, lost) \subseteq TiersOf(v)
  BY DEF Offers
<1>2. IsFiniteSet(TiersOf(v))
  <2>1. QuoteTiers \in Seq(Nat)
    BY DEF QuoteTiers
  <2>2. IsFiniteSet(Range(QuoteTiers))
    BY <2>1, ListIsFinite
  <2>3. IsFiniteSet({DefaultFee}) /\ IsFiniteSet({CurveFee})
    BY FS_Singleton
  <2>4. Kind(v) = "V3" \/ Kind(v) = "V2" \/ Kind(v) = "Curve"
    BY VenuesAssumption
  <2> QED BY <2>2, <2>3, <2>4 DEF TiersOf
<1>3. ASSUME NEW t \in DOMAIN Offers(v, d, lost) PROVE d[1] # d[2]
  <2>1. Pool(v, d, t) \in DOMAIN market
    BY DEF Offers, Exists
  <2>2. Cardinality({d[1], d[2]}) = 2
    BY <2>1, PoolsAssumption DEF Pool, PairOf
  <2> SUFFICES ASSUME d[1] = d[2] PROVE FALSE
    OBVIOUS
  <2>3. {d[1], d[2]} = {d[1]}
    OBVIOUS
  <2>4. Cardinality({d[1]}) = 1
    BY FS_Singleton
  <2> QED BY <2>2, <2>3, <2>4
<1> QED BY <1>1, <1>2, <1>3, FS_Subset

LEMMA UnionsAreFit ==
  ASSUME NEW D, IsFiniteSet(D), NEW f, \A d \in D : PricesFit(f[d])
  PROVE  PricesFit(UNION {f[d] : d \in D})
<1>1. IsFiniteSet({f[d] : d \in D})
  BY ImageIsFinite
<1>2. \A T \in {f[d] : d \in D} : IsFiniteSet(T)
  BY DEF PricesFit
<1>3. IsFiniteSet(UNION {f[d] : d \in D})
  BY <1>1, <1>2, FS_UNION
<1> QED BY <1>3 DEF PricesFit

LEMMA IsPriceType ==
  ASSUME NEW gain, IsPrice(gain)
  PROVE  gain \in Int
BY VenuesAssumption DEF IsPrice

LEMMA SamplesAreFinite ==
  ASSUME NEW v, NEW d, NEW tier, NEW fault
  PROVE  /\ IsFiniteSet(Middle(Sampled(v, d, tier, fault)))
         /\ \A m \in Middle(Sampled(v, d, tier, fault)) : m \in Int
<1> DEFINE prices == Sampled(v, d, tier, fault)
<1>1. \A s \in DOMAIN prices : IsPrice(prices[s])
  BY DEF Sampled
<1>2. IsFiniteSet(DOMAIN prices)
  <2>1. Sizes \in Seq(Nat)
    BY DEF Sizes
  <2>2. DOMAIN prices \subseteq Range(Sizes)
    BY DEF Sampled
  <2> QED BY <2>1, <2>2, ListIsFinite, FS_Subset
<1> HIDE DEF prices
<1>3. Range(prices) = {prices[s] : s \in DOMAIN prices}
  BY DEF Range
<1>4. IsFiniteSet(Range(prices)) /\ \A m \in Range(prices) : m \in Int
  BY <1>1, <1>2, <1>3, ImageIsFinite, IsPriceType
<1>5. Middle(prices) \subseteq Range(prices)
  BY DEF Middle
<1> QED BY <1>4, <1>5, FS_Subset DEF prices

LEMMA QuotesAreFit ==
  ASSUME market \in Markets, NEW v \in Range(Adapters), NEW d, NEW fault
  PROVE  PricesFit(V3Quote(v, d, fault)) /\ PricesFit(V2Quote(v, d, fault))
           /\ PricesFit(CurveQuote(v, d, fault)) /\ PricesFit(V3Price(v, d, fault))
<1> DEFINE offers == Offers(v, d, fault)
<1>0. IsFiniteSet(DOMAIN offers) /\ (DOMAIN offers # {} => d[1] # d[2])
  BY OffersArePools
<1>1. ASSUME NEW T, T \subseteq DOMAIN offers, NEW h, \A t \in T : IsPrice(offers[t])
      PROVE  PricesFit({Price(d, offers[t], h[t], t) : t \in T})
  <2> DEFINE f == [t \in T |-> Price(d, offers[t], h[t], t)]
  <2>1. \A t \in T : f[t].from = d[1] /\ f[t].to = d[2] /\ f[t].gain = offers[t]
    BY DEF Price
  <2>2. {Price(d, offers[t], h[t], t) : t \in T} = {f[t] : t \in T}
    OBVIOUS
  <2> HIDE DEF f, offers
  <2>4. IsFiniteSet(T) /\ \A t \in T : d[1] # d[2] /\ offers[t] \in Int
    <3>1. \A t \in T : offers[t] \in Int
      BY <1>1, IsPriceType
    <3>2. \A t \in T : d[1] # d[2]
      BY <1>0, <1>1
    <3>3. IsFiniteSet(T)
      BY <1>0, <1>1, FS_Subset
    <3> QED BY <3>1, <3>2, <3>3
  <2>5. IsFiniteSet({f[t] : t \in T})
    BY <2>4, ImageIsFinite
  <2>6. \A p \in {f[t] : t \in T} : p.from # p.to /\ p.gain \in Int
    BY <2>1, <2>4
  <2>7. PricesFit({f[t] : t \in T})
    BY <2>5, <2>6 DEF PricesFit
  <2> QED BY <2>2, <2>7
<1>2. PricesFit({})
  BY FS_EmptySet DEF PricesFit
<1>3. PricesFit(V3Quote(v, d, fault))
  <2> DEFINE T == {u \in SelectExecutable(offers) : IsPrice(offers[u])}
  <2>1. T \subseteq DOMAIN offers /\ \A t \in T : IsPrice(offers[t])
    BY DEF SelectExecutable
  <2> DEFINE h == [u \in T |-> u]
  <2>3. PricesFit({Price(d, offers[t], h[t], t) : t \in T})
    <3> HIDE DEF T, offers, h
    <3> QED BY <1>1, <2>1
  <2>4. {Price(d, offers[t], t, t) : t \in T} = {Price(d, offers[t], h[t], t) : t \in T}
    <3> HIDE DEF T, offers
    <3> QED OBVIOUS
  <2>5. V3Quote(v, d, fault) = IF TiersDiverge(offers) THEN {} ELSE {Price(d, offers[t], t, t) : t \in T}
    BY DEF V3Quote
  <2> HIDE DEF T, offers, h
  <2> QED BY <1>2, <2>3, <2>4, <2>5
<1>4. \A k \in {DefaultFee, CurveFee} :
        PricesFit({Price(d, offers[t], k, t) : t \in {u \in DOMAIN offers : IsPrice(offers[u])}})
  <2> SUFFICES ASSUME NEW k PROVE PricesFit({Price(d, offers[t], k, t) : t \in {u \in DOMAIN offers : IsPrice(offers[u])}})
    OBVIOUS
  <2> DEFINE T == {u \in DOMAIN offers : IsPrice(offers[u])}
             h == [t \in T |-> k]
  <2>1. PricesFit({Price(d, offers[t], h[t], t) : t \in T})
    <3>1. T \subseteq DOMAIN offers /\ \A t \in T : IsPrice(offers[t])
      OBVIOUS
    <3> HIDE DEF T, offers, h
    <3> QED BY <1>1, <3>1
  <2>2. {Price(d, offers[t], h[t], t) : t \in T} = {Price(d, offers[t], k, t) : t \in T}
    <3> HIDE DEF T, offers
    <3> QED OBVIOUS
  <2> QED BY <2>1, <2>2
<1>5. PricesFit(V3Price(v, d, fault))
  <2> DEFINE T == {u \in SelectExecutable(offers) : Sound(Sampled(v, d, u, fault))}
             P(t) == {Price(d, m, DefaultFee, t) : m \in Middle(Sampled(v, d, t, fault))}
             f == [t \in T |-> P(t)]
  <2>1. T \subseteq DOMAIN offers
    BY DEF SelectExecutable
  <2>2. ASSUME NEW t \in T PROVE PricesFit(f[t])
    <3> DEFINE M == Middle(Sampled(v, d, t, fault))
               g == [m \in M |-> Price(d, m, DefaultFee, t)]
    <3>1. IsFiniteSet(M) /\ \A m \in M : m \in Int
      BY SamplesAreFinite
    <3>2. d[1] # d[2]
      BY <1>0, <2>1
    <3>3. f[t] = {g[m] : m \in M}
      OBVIOUS
    <3>4. \A m \in M : g[m].from = d[1] /\ g[m].to = d[2] /\ g[m].gain = m
      BY DEF Price
    <3> HIDE DEF M, g, f, T
    <3>5. IsFiniteSet({g[m] : m \in M})
      BY <3>1, ImageIsFinite
    <3> QED BY <3>1, <3>2, <3>3, <3>4, <3>5 DEF PricesFit
  <2>3. IsFiniteSet(T)
    BY <1>0, <2>1, FS_Subset
  <2>4. V3Price(v, d, fault) = UNION {f[t] : t \in T}
    BY DEF V3Price
  <2> HIDE DEF T, f
  <2> QED BY <2>2, <2>3, <2>4, UnionsAreFit
<1> QED BY <1>3, <1>4, <1>5 DEF V2Quote, CurveQuote

LEMMA CurvePricesAreFit ==
  ASSUME market \in Markets, NEW v \in Range(Adapters), NEW d, NEW fault
  PROVE  PricesFit(CurvePrice(v, d, fault))
<1> DEFINE Q == {q \in CurveQuote(v, d, fault) : Coins(d)}
           f == [p \in Q |-> [p EXCEPT !.fee = DefaultFee]]
<1>1. PricesFit(Q)
  BY QuotesAreFit, FS_Subset DEF PricesFit
<1>2. \A p \in Q : f[p].from = p.from /\ f[p].to = p.to /\ f[p].gain = p.gain
  <2> SUFFICES ASSUME NEW p \in Q PROVE f[p].from = p.from /\ f[p].to = p.to /\ f[p].gain = p.gain
    OBVIOUS
  <2>1. \E gain, pool : p = [from |-> d[1], to |-> d[2], gain |-> gain, fee |-> CurveFee, pool |-> pool]
    BY DEF CurveQuote, Price
  <2>2. f[p] = [p EXCEPT !.fee = DefaultFee]
    OBVIOUS
  <2> HIDE DEF Q, f
  <2> QED BY <2>1, <2>2
<1>3. CurvePrice(v, d, fault) = {f[p] : p \in Q}
  BY DEF CurvePrice
<1> HIDE DEF f, Q
<1>4. IsFiniteSet({f[p] : p \in Q})
  BY <1>1, ImageIsFinite DEF PricesFit
<1> QED BY <1>1, <1>2, <1>3, <1>4 DEF PricesFit

LEMMA AnswersAreFit ==
  ASSUME market \in Markets, NEW v \in Range(Adapters), NEW fault
  PROVE  PricesFit(MulticallPrices(v, fault)) /\ PricesFit(DirectPrices(v, fault))
<1>1. IsFiniteSet(Asked)
  BY ListIsFinite, VenuesAssumption DEF Asked
<1>2. Kind(v) = "V3" \/ Kind(v) = "V2" \/ Kind(v) = "Curve"
  BY VenuesAssumption
<1>3. \A d : PricesFit(QuoteOf(v, d, fault))
  BY <1>2, QuotesAreFit DEF QuoteOf
<1>4. \A d : PricesFit(PriceOf(v, d, fault))
  <2>1. PricesFit({})
    BY FS_EmptySet DEF PricesFit
  <2> QED BY <1>2, <2>1, QuotesAreFit, CurvePricesAreFit DEF PriceOf, V2Price
<1>5. PricesFit(MulticallPrices(v, fault))
  <2> DEFINE D == Answered(v, fault)
             f == [d \in D |-> QuoteOf(v, d, fault)]
  <2>1. D \subseteq Asked
    BY <1>2 DEF Answered, Prepared, Resolved
  <2>2. MulticallPrices(v, fault) = UNION {f[d] : d \in D}
    BY DEF MulticallPrices, PricesFor
  <2>3. IsFiniteSet(D) /\ \A d \in D : PricesFit(f[d])
    BY <1>1, <1>3, <2>1, FS_Subset
  <2> HIDE DEF f, D
  <2> QED BY <2>2, <2>3, UnionsAreFit
<1>6. PricesFit(DirectPrices(v, fault))
  <2> DEFINE f == [d \in Asked |-> PriceOf(v, d, fault)]
  <2>1. DirectPrices(v, fault) = UNION {f[d] : d \in Asked}
    BY DEF DirectPrices
  <2>2. \A d \in Asked : PricesFit(f[d])
    BY <1>4
  <2> HIDE DEF f
  <2> QED BY <1>1, <2>1, <2>2, UnionsAreFit
<1> QED BY <1>5, <1>6

LEMMA ScanKeepsPrices ==
  ASSUME ScanInv, ScanNext
  PROVE  ScanInv'
<1>1. Venue \in Range(Adapters)
  BY VenuesAssumption, LenProperties DEF ScanInv, Venue, Range
<1>2. PricesFit({})
  BY FS_EmptySet DEF PricesFit
<1>3. CASE Warm \/ QuoteFails
  BY <1>3 DEF Warm, QuoteFails, ScanInv
<1>4. CASE Quote
  <2>1. PricesFit(got')
    BY <1>1, <1>4, AnswersAreFit DEF Quote, ScanInv
  <2> QED BY <1>4, <2>1 DEF Quote, ScanInv
<1>5. CASE Fallback
  <2>1. PricesFit(got')
    BY <1>1, <1>5, AnswersAreFit DEF Fallback, ScanInv
  <2> QED BY <1>5, <2>1 DEF Fallback, ScanInv
<1>6. CASE Gate
  <2>1. PICK fault : priceMap' = [priceMap EXCEPT ![Venue] = Pruned({p \in got : Passes(Venue, p, fault)})]
    BY <1>6 DEF Gate
  <2> DEFINE kept == Pruned({p \in got : Passes(Venue, p, fault)})
  <2>2. PricesFit(kept)
    <3>1. kept \subseteq got
      BY DEF Pruned
    <3> HIDE DEF kept
    <3> QED BY <3>1, FS_Subset DEF ScanInv, PricesFit
  <2> HIDE DEF kept
  <2>3. DOMAIN priceMap' = Range(Adapters) /\ \A v \in Range(Adapters) : PricesFit(priceMap'[v])
    BY <2>1, <2>2 DEF ScanInv, kept
  <2>4. at' \in 1 .. Len(Adapters) /\ market' = market /\ got' = {}
    BY <1>6, VenuesAssumption, LenProperties DEF Gate, NextVenue, ScanInv
  <2> QED BY <1>2, <2>3, <2>4 DEF ScanInv
<1>7. CASE NextScan
  BY <1>2, <1>7 DEF NextScan, ScanInv
<1> QED BY <1>3, <1>4, <1>5, <1>6, <1>7 DEF ScanNext

LEMMA DeliveredFits ==
  ASSUME ScanInv, NEW list \in {Delivered, Reverse(Delivered)}
  PROVE  list \in Seq(Range(list)) /\ \A q \in Range(list) : q.from # q.to /\ q.gain \in Int
<1> DEFINE S == UNION {LegsOf(v) : v \in Range(Adapters)}
           lists == [i \in DOMAIN Adapters |-> SetToSeq(LegsOf(Adapters[i]))]
<1>1. ASSUME NEW v \in Range(Adapters) PROVE IsFiniteSet(LegsOf(v)) /\ \A l \in LegsOf(v) : l.from # l.to /\ l.gain \in Int
  <2> DEFINE f == [p \in priceMap[v] |-> Leg(v, p.from, p.to, p.gain)]
  <2>1. LegsOf(v) = {f[p] : p \in priceMap[v]}
    BY DEF LegsOf
  <2>2. \A p \in priceMap[v] : f[p].from = p.from /\ f[p].to = p.to /\ f[p].gain = p.gain
    BY DEF Leg
  <2> HIDE DEF f
  <2> QED BY <2>1, <2>2, ImageIsFinite DEF ScanInv, PricesFit
<1>2. \A l \in S : l.from # l.to /\ l.gain \in Int
  BY <1>1
<1>3. \A i \in DOMAIN Adapters : lists[i] \in Seq(S)
  <2> SUFFICES ASSUME NEW i \in DOMAIN Adapters PROVE lists[i] \in Seq(S)
    OBVIOUS
  <2>1. Adapters[i] \in Range(Adapters)
    BY DEF Range
  <2>2. lists[i] \in Seq(LegsOf(Adapters[i])) /\ LegsOf(Adapters[i]) \subseteq S
    BY <1>1, <2>1, Listing
  <2> HIDE DEF lists, S
  <2> QED BY <2>2, SeqMonotonic
<1>4. lists \in Seq(Seq(S)) /\ lists # <<>>
  <2>1. Len(Adapters) \in Nat \ {0} /\ DOMAIN Adapters = 1 .. Len(Adapters)
    BY VenuesAssumption, EmptySeq, LenProperties
  <2>2. lists \in [1 .. Len(Adapters) -> Seq(S)] /\ DOMAIN lists = 1 .. Len(Adapters)
    <3> HIDE DEF S
    <3> QED BY <1>3, <2>1
  <2> HIDE DEF lists, S
  <2> QED BY <2>1, <2>2, SeqDef
<1> HIDE DEF S, lists
<1>5. Delivered \in Seq(S)
  BY <1>4, FlattenKeeps DEF Delivered, lists
<1>6. list \in Seq(S)
  BY <1>5, ReverseKeeps
<1> QED BY <1>2, <1>6, SeqOfRange, LenProperties DEF Range

-------------------------------------------------------------------------------
(* From the scan through the search, and after.                            *)

SearchInv == (phase = "scan" => ScanInv) /\ RoutesInv

LEMMA SearchInvHolds ==
  ASSUME PreparationInit
  PROVE  SearchInv
<1>1. CASE NotScanned /\ Init
  BY <1>1, PriceMapsAssumption DEF SearchInv, Init, RoutesInv, QuotesFit, Quoted
<1>2. CASE ScanInit /\ Unsearched
  <2>1. PricesFit({})
    BY FS_EmptySet DEF PricesFit
  <2>2. 1 \in 1 .. Len(Adapters)
    BY VenuesAssumption, EmptySeq
  <2>3. ScanInv
    BY <1>2, <2>1, <2>2 DEF ScanInit, ScanInv
  <2> QED BY <1>2, <2>3 DEF Unsearched, SearchInv, RoutesInv
<1> QED BY <1>1, <1>2 DEF PreparationInit, PipelineInit

LEMMA PipelineKeepsSearch ==
  ASSUME SearchInv, PipelineNext
  PROVE  SearchInv'
<1>1. CASE Scan
  <2>1. ScanInv' /\ UNCHANGED vars
    BY <1>1, ScanKeepsPrices DEF Scan, SearchInv
  <2> QED BY <2>1 DEF SearchInv, RoutesInv, QuotesFit, Quoted, vars
<1>2. CASE HandOver
  <2>1. ScanInv /\ phase' = "edges" /\ quotes' \in {Delivered, Reverse(Delivered)} /\ UNCHANGED <<found, result>>
    BY <1>2 DEF HandOver, SearchInv
  <2>2. quotes' \in Seq(Range(quotes')) /\ \A q \in Range(quotes') : q.from # q.to /\ q.gain \in Int
    BY <2>1, DeliveredFits
  <2> QED BY <2>1, <2>2 DEF SearchInv, RoutesInv, QuotesFit, Quoted
<1>3. CASE Search
  <2>1. RoutesInv'
    BY <1>3, SearchKeepsChains DEF Search, SearchInv
  <2>2. phase' # "scan"
    BY <1>3 DEF Search, Next, ExtractEdges, FindDirect, FindTriangular, FindBfCycles, Select, Convert, Done, vars
  <2> QED BY <2>1, <2>2 DEF SearchInv
<1> QED BY <1>1, <1>2, <1>3 DEF PipelineNext

LEMMA PreparationKeepsSearch ==
  ASSUME SearchInv, [PreparationNext]_preparationVars
  PROVE  SearchInv'
<1>1. CASE FindRoutes
  BY <1>1, PipelineKeepsSearch DEF FindRoutes
<1>2. CASE SelectOpportunities
  <2>1. phase' = "handed" /\ quotes' = <<>> /\ found' = {} /\ result' = {}
    BY <1>2 DEF SelectOpportunities, Forget
  <2>2. <<>> \in Seq({}) /\ Range(<<>>) = {}
    BY EmptySeq DEF Range
  <2> QED BY <2>1, <2>2 DEF SearchInv, RoutesInv, QuotesFit, Quoted
<1>3. CASE UNCHANGED pipelineVars
  <2>1. RoutesInv'
    BY <1>3 DEF SearchInv, RoutesInv, QuotesFit, Quoted, pipelineVars, vars
  <2>2. phase' = "scan" => ScanInv'
    BY <1>3 DEF SearchInv, ScanInv, pipelineVars, scanVars, vars
  <2> QED BY <2>1, <2>2 DEF SearchInv
<1> QED BY <1>1, <1>2, <1>3 DEF PreparationNext, preparationVars, Observe, ObservationEnds, Prepare,
        Take, ReadPremium, Judge, PaperGate, Debounce, Build, Recipient, Approve, Simulate, Send,
        BatchEnds, ExecTimeout, Reload, Over

LEMMA TradableIsClosed ==
  ASSUME NEW r, Tradable(r)
  PROVE  /\ StableCentric(r.path)
         /\ Len(r.legs) \in 2 .. MaxHops
         /\ \A i \in DOMAIN r.legs : r.legs[i].from = r.path[i] /\ r.legs[i].to = r.path[i + 1]
         /\ IsInjective(Tail(r.path))
<1>1. /\ r.legs \in Seq(Range(r.legs)) /\ r.path \in Seq(Range(r.path))
      /\ Len(r.path) = Len(r.legs) + 1 /\ Len(r.legs) >= 2
      /\ \A i \in 1 .. Len(r.legs) : r.legs[i].from = r.path[i] /\ r.legs[i].to = r.path[i + 1]
      /\ \A i, j \in 2 .. Len(r.path) : r.path[i] = r.path[j] => i = j
  BY DEF Tradable, IsChain, ChainOf
<1>2. DOMAIN r.legs = 1 .. Len(r.legs) /\ Len(r.legs) \in Nat
  BY <1>1, LenProperties
<1> DEFINE path == r.path
           t == Tail(path)
<1>3. t \in Seq(Range(path)) /\ Len(t) = Len(path) - 1 /\ \A i \in 1 .. Len(t) : t[i] = path[i + 1]
  <2>1. path # <<>>
    BY <1>1, <1>2, EmptySeq
  <2> HIDE DEF path
  <2>2. path \in Seq(Range(path))
    BY <1>1 DEF path
  <2> QED BY <2>1, <2>2, HeadTailProperties
<1> HIDE DEF t
<1>4. DOMAIN t = 1 .. Len(t)
  BY <1>3, LenProperties
<1>5. ASSUME NEW i \in DOMAIN t, NEW j \in DOMAIN t, t[i] = t[j] PROVE i = j
  <2>1. i + 1 \in 2 .. Len(path) /\ j + 1 \in 2 .. Len(path) /\ i \in Int /\ j \in Int
    BY <1>1, <1>2, <1>3, <1>4
  <2>2. path[i + 1] = path[j + 1]
    BY <1>3, <1>4, <1>5
  <2>3. i + 1 = j + 1
    BY <1>1, <2>1, <2>2
  <2> QED BY <2>1, <2>3
<1>6. IsInjective(t)
  BY <1>5 DEF IsInjective
<1> QED BY <1>1, <1>2, <1>6 DEF Tradable, t

(* What comes out of the search can be traded with a flash loan of a stable *)
(* (RoutesAreClosedChains): for every price map, every market and every      *)
(* failed read.                                                            *)
THEOREM RoutesClose == PreparationSpec => []RoutesAreClosedChains
<1>1. SearchInv => RoutesAreClosedChains
  BY TradableIsClosed DEF SearchInv, RoutesInv, RoutesAreClosedChains
<1> QED BY <1>1, SearchInvHolds, PreparationKeepsSearch, PTL DEF PreparationSpec

-------------------------------------------------------------------------------
(* Preparation: the attempt.                                               *)

BatchFits(b) == b \in Seq(Range(b)) /\ \A o \in Range(b) : o.hops \in Nat
(* What execute_opportunity holds, before and after it was judged.         *)
Taken(h) ==
  /\ h = [strategy |-> h.strategy, min |-> h.min, cap |-> h.cap, fee |-> h.fee,
          premium |-> h.premium, gas |-> h.gas]
Charged(h) == Taken(h) /\ h.premium \in IF h.strategy = "direct" THEN {0} ELSE Premiums \cup {h.fee}
Judged(h, o) == Charged(h) /\ h.gas \in Int /\ NetAfter(h, o) >= h.min
BuiltFor(c, h) ==
  /\ c = [strategy |-> h.strategy, hops |-> c.hops, minRaw |-> c.minRaw, floor |-> c.floor,
          dry |-> c.dry, rehearse |-> c.rehearse, rehearsed |-> c.rehearsed]
  /\ c.minRaw * Tick >= c.floor
  /\ c.hops > 1 => c.rehearse
Rehearsed(c) == (c.hops > 1 => c.rehearsed) /\ ~c.dry

AttemptInv ==
  /\ config \in Configs /\ feeCache \in Premiums \cup {Unread}
  /\ BatchFits(batch)
  /\ step \notin {"search", "observe", "next", "over"} => batch # <<>>
  /\ step = "premium" => Taken(held)
  /\ step = "gas" => Charged(held)
  /\ step \in {"paper", "debounce", "build", "approve", "recipient", "simulate", "send"} =>
       Judged(held, Head(batch))
  /\ step \in {"approve", "recipient", "simulate", "send"} => BuiltFor(call, held)
  /\ step = "send" => Rehearsed(call)
  /\ SentCoversItsCosts /\ SentWasRehearsed

LEMMA RawCovers ==
  ASSUME NEW usd \in Int
  PROVE  MinimumProfitRaw(usd) * Tick >= usd
<1> DEFINE a == usd + Tick - 1
           q == a \div Tick
<1>1. Tick \in Nat /\ Tick > 0 /\ a \in Int /\ q \in Int
  BY PreparationAssumption
<1>2. a = Tick * q + (a % Tick) /\ a % Tick \in 0 .. Tick - 1
  BY <1>1
<1>3. q * Tick >= usd
  <2> DEFINE m == a % Tick
             n == q * Tick
  <2>1. n \in Int /\ Tick * q = n /\ m \in 0 .. Tick - 1 /\ a = n + m
    BY <1>1, <1>2
  <2> HIDE DEF m, n, q
  <2> QED BY <1>1, <2>1 DEF n
<1> QED BY <1>3 DEF MinimumProfitRaw

LEMMA EmptyFits == BatchFits(<<>>)
<1>1. <<>> \in Seq({}) /\ Range(<<>>) = {}
  BY EmptySeq DEF Range
<1> QED BY <1>1 DEF BatchFits

LEMMA RestFits ==
  ASSUME NEW b, BatchFits(b), b # <<>>
  PROVE  BatchFits(Tail(b)) /\ Head(b).hops \in Nat
<1>1. Head(b) \in Range(b) /\ Tail(b) \in Seq(Range(b))
  <2>1. b \in Seq(Range(b))
    BY DEF BatchFits
  <2> DEFINE S == Range(b)
  <2> HIDE DEF S
  <2>2. b \in Seq(S)
    BY <2>1 DEF S
  <2>3. Head(b) \in S /\ Tail(b) \in Seq(S)
    BY <2>2, HeadTailProperties
  <2> QED BY <2>3 DEF S
<1>2. Tail(b) \in Seq(Range(Tail(b)))
  BY <1>1, SeqOfRange
<1>3. Range(Tail(b)) \subseteq Range(b)
  BY <1>1, LenProperties DEF Range
<1> QED BY <1>1, <1>2, <1>3 DEF BatchFits

LEMMA AttemptInvHolds ==
  ASSUME PreparationInit
  PROVE  AttemptInv
  BY EmptyFits, PreparationAssumption
     DEF PreparationInit, AttemptInv, SentCoversItsCosts, SentWasRehearsed, Nothing

LEMMA EndKeeps ==
  ASSUME AttemptInv, End, feeCache' \in Premiums \cup {Unread}
  PROVE  AttemptInv'
  BY EmptyFits DEF AttemptInv, End, SentCoversItsCosts, SentWasRehearsed

LEMMA AbortKeeps ==
  ASSUME AttemptInv, Abort, batch # <<>>, feeCache' \in Premiums \cup {Unread}
  PROVE  AttemptInv'
  BY RestFits DEF AttemptInv, Abort, SentCoversItsCosts, SentWasRehearsed

LEMMA SelectionFits ==
  ASSUME SearchInv, SelectOpportunities
  PROVE  BatchFits(batch')
<1>1. \A o \in Opportunities : o.hops \in Nat
  <2> SUFFICES ASSUME NEW o \in Opportunities PROVE o.hops \in Nat
    OBVIOUS
  <2>1. PICK r \in result : \E p : o = Opportunity(r, p)
    BY DEF Opportunities
  <2>2. o.hops = Len(r.legs)
    BY <2>1 DEF Opportunity
  <2> QED BY <2>2, HopsAssumption DEF SearchInv, RoutesInv, Tradable
<1>2. batch' \in SeqOf(Opportunities, TopN) \cup SeqOf(Opportunities, ObserveMax)
  BY DEF SelectOpportunities, Observed, Top, Orders
<1>3. batch' \in Seq(Opportunities)
  BY <1>2, PreparationAssumption, SeqDef DEF SeqOf
<1> QED BY <1>1, <1>3, SeqOfRange, LenProperties DEF BatchFits, Range

LEMMA SelectKeeps ==
  ASSUME SearchInv, AttemptInv, SelectOpportunities
  PROVE  AttemptInv'
<1>1. step' \in {"observe", "next"} /\ config' \in Configs
  BY DEF SelectOpportunities
<1>2. UNCHANGED <<held, call, sent, feeCache>>
  BY DEF SelectOpportunities
<1> QED BY <1>1, <1>2, SelectionFits DEF AttemptInv, SentCoversItsCosts, SentWasRehearsed

LEMMA ObservationKeeps ==
  ASSUME AttemptInv, Observe \/ ObservationEnds
  PROVE  AttemptInv'
<1>1. /\ BatchFits(batch') /\ step' \in {"observe", "over"}
      /\ UNCHANGED <<config, sent, feeCache>>
  BY RestFits DEF AttemptInv, Observe, ObservationEnds
<1> QED BY <1>1 DEF AttemptInv, SentCoversItsCosts, SentWasRehearsed

LEMMA TakeKeeps ==
  ASSUME AttemptInv, Take
  PROVE  AttemptInv'
<1>1. feeCache' \in Premiums \cup {Unread} /\ batch # <<>>
  BY DEF AttemptInv, Take
<1>2. CASE Abort
  BY <1>1, <1>2, AbortKeeps
<1>3. CASE /\ held' = [strategy |-> Strategy(config), min |-> config.min, cap |-> config.cap,
                       fee |-> config.fee, premium |-> 0, gas |-> 0]
           /\ Go("premium") /\ UNCHANGED call
  <2>1. Taken(held')
    BY <1>3 DEF Taken
  <2> QED BY <1>1, <1>3, <2>1 DEF Go, AttemptInv, SentCoversItsCosts, SentWasRehearsed
<1> QED BY <1>2, <1>3 DEF Take

LEMMA ReadPremiumKeeps ==
  ASSUME AttemptInv, ReadPremium
  PROVE  AttemptInv'
<1> DEFINE Due(answer) == IF held.strategy = "direct" THEN 0
                          ELSE IF feeCache # Unread THEN feeCache
                          ELSE IF answer # Unread THEN answer ELSE held.fee
<1>1. PICK answer \in Premiums \cup {Unread} :
        /\ feeCache' = IF held.strategy # "direct" /\ feeCache = Unread THEN answer ELSE feeCache
        /\ IF Due(answer) > held.cap THEN End
           ELSE held' = [held EXCEPT !.premium = Due(answer)] /\ Go("gas") /\ UNCHANGED call
  BY DEF ReadPremium
<1>2. feeCache' \in Premiums \cup {Unread} /\ Taken(held) /\ batch # <<>>
  BY <1>1 DEF AttemptInv, ReadPremium
<1>3. CASE End
  BY <1>2, <1>3, EndKeeps
<1>4. CASE held' = [held EXCEPT !.premium = Due(answer)] /\ Go("gas")
  <2>1. Due(answer) \in IF held.strategy = "direct" THEN {0} ELSE Premiums \cup {held.fee}
    BY <1>1 DEF AttemptInv
  <2> HIDE DEF Due
  <2>2. held' = [strategy |-> held.strategy, min |-> held.min, cap |-> held.cap, fee |-> held.fee,
                 premium |-> Due(answer), gas |-> held.gas]
    BY <1>2, <1>4 DEF Taken
  <2>3. Charged(held')
    BY <2>1, <2>2 DEF Charged, Taken
  <2> QED BY <1>2, <1>4, <2>3 DEF Go, AttemptInv, SentCoversItsCosts, SentWasRehearsed
<1> HIDE DEF Due
<1> QED BY <1>1, <1>3, <1>4

LEMMA JudgeKeeps ==
  ASSUME AttemptInv, Judge
  PROVE  AttemptInv'
<1>1. /\ Charged(held) /\ batch # <<>> /\ Current.hops \in Nat
      /\ feeCache' \in Premiums \cup {Unread}
  BY RestFits DEF Judge, AttemptInv, Current
<1>2. CASE End
  BY <1>1, <1>2, EndKeeps
<1>3. ASSUME NEW gas \in GasOf(Current, held.strategy), NEW h, h = [held EXCEPT !.gas = gas],
             NetAfter(h, Current) >= held.min, held' = h, Go("paper"), UNCHANGED call
      PROVE  AttemptInv'
  <2>1. gas \in Int
    <3>1. LoanOverhead \in Nat /\ Fees \subseteq Nat /\ GasPerHop \in Nat
      BY PreparationAssumption, HopsAssumption
    <3>2. GasUnits(Current, held.strategy) \in Nat
      BY <1>1, <3>1 DEF GasUnits
    <3> QED BY <1>1, <3>1, <3>2 DEF GasOf, GasPrice
  <2>2. h = [strategy |-> held.strategy, min |-> held.min, cap |-> held.cap, fee |-> held.fee,
             premium |-> held.premium, gas |-> gas]
    BY <1>1, <1>3 DEF Charged, Taken
  <2>3. Judged(h, Current)
    BY <1>1, <1>3, <2>1, <2>2 DEF Judged, Charged, Taken
  <2>4. Judged(held', Head(batch'))
    BY <1>3, <2>3 DEF Go, Current
  <2> QED BY <1>1, <1>3, <2>4 DEF Go, AttemptInv, SentCoversItsCosts, SentWasRehearsed
<1> QED BY <1>2, <1>3 DEF Judge

LEMMA WaitKeeps ==
  ASSUME AttemptInv, PaperGate \/ Debounce \/ Recipient \/ Approve
  PROVE  AttemptInv'
<1>1. batch # <<>> /\ feeCache' \in Premiums \cup {Unread}
  BY DEF PaperGate, Debounce, Recipient, Approve, AttemptInv
<1>2. CASE End
  BY <1>1, <1>2, EndKeeps
<1>3. CASE Abort
  BY <1>1, <1>3, AbortKeeps
<1>4. CASE step \in {"paper", "debounce"} /\ step' \in {"debounce", "build"}
             /\ UNCHANGED <<config, batch, sent, held, call>>
  <2>1. Judged(held', Head(batch'))
    BY <1>4 DEF AttemptInv
  <2> QED BY <1>1, <1>4, <2>1 DEF AttemptInv, SentCoversItsCosts, SentWasRehearsed
<1>5. CASE step \in {"recipient", "approve"} /\ step' = "simulate"
             /\ UNCHANGED <<config, batch, sent, held, call>>
  <2>1. Judged(held', Head(batch')) /\ BuiltFor(call', held')
    BY <1>5 DEF AttemptInv
  <2> QED BY <1>1, <1>5, <2>1 DEF AttemptInv, SentCoversItsCosts, SentWasRehearsed
<1> QED BY <1>2, <1>3, <1>4, <1>5 DEF PaperGate, Debounce, Recipient, Approve, Go

LEMMA BuildKeeps ==
  ASSUME AttemptInv, Build
  PROVE  AttemptInv'
<1>1. batch # <<>> /\ feeCache' \in Premiums \cup {Unread} /\ Judged(held, Current)
  BY DEF Build, AttemptInv, Current
<1>2. CASE End
  BY <1>1, <1>2, EndKeeps
<1>3. CASE Abort
  BY <1>1, <1>3, AbortKeeps
<1>4. CASE /\ call' = [strategy |-> DispatchedStrategy, hops |-> Current.hops,
                       minRaw |-> MinimumProfitRaw(held.gas + config.min),
                       floor |-> held.gas + config.min, dry |-> config.dry,
                       rehearse |-> SimulateRoute(Current), rehearsed |-> FALSE]
           /\ Go(CASE DispatchedStrategy = "direct" -> "approve"
                   [] DispatchedStrategy = "wrapper" -> "recipient"
                   [] OTHER -> "simulate")
           /\ UNCHANGED held
  <2>1. held.gas + config.min \in Int
    BY <1>1, PreparationAssumption DEF AttemptInv, Judged
  <2>2. MinimumProfitRaw(held.gas + config.min) * Tick >= held.gas + config.min
    BY <2>1, RawCovers
  <2>3. Current.hops > 1 => SimulateRoute(Current) = TRUE
    BY DEF SimulateRoute
  <2>4. BuiltFor(call', held)
    BY <1>4, <2>2, <2>3 DEF BuiltFor, DispatchedStrategy
  <2>5. step' \in {"approve", "recipient", "simulate"} /\ UNCHANGED <<config, batch, sent, held>>
    BY <1>4 DEF Go
  <2>6. Judged(held', Head(batch')) /\ BuiltFor(call', held')
    BY <1>1, <2>4, <2>5 DEF Current
  <2> QED BY <1>1, <2>5, <2>6 DEF AttemptInv, SentCoversItsCosts, SentWasRehearsed
<1> QED BY <1>2, <1>3, <1>4 DEF Build

LEMMA SimulateKeeps ==
  ASSUME AttemptInv, Simulate
  PROVE  AttemptInv'
<1>1. /\ batch # <<>> /\ feeCache' \in Premiums \cup {Unread}
      /\ Judged(held, Current) /\ BuiltFor(call, held)
  BY DEF Simulate, AttemptInv, Current
<1>2. CASE End
  BY <1>1, <1>2, EndKeeps
<1>3. CASE Abort
  BY <1>1, <1>3, AbortKeeps
<1>4. CASE ~call.dry /\ call' = [call EXCEPT !.rehearsed = call.rehearse] /\ Go("send") /\ UNCHANGED held
  <2>1. call' = [strategy |-> call.strategy, hops |-> call.hops, minRaw |-> call.minRaw,
                 floor |-> call.floor, dry |-> call.dry, rehearse |-> call.rehearse,
                 rehearsed |-> call.rehearse]
    BY <1>1, <1>4 DEF BuiltFor
  <2>2. BuiltFor(call', held) /\ Rehearsed(call')
    BY <1>1, <1>4, <2>1 DEF BuiltFor, Rehearsed
  <2>3. step' = "send" /\ UNCHANGED <<config, batch, sent, held>>
    BY <1>4 DEF Go
  <2>4. Judged(held', Head(batch')) /\ BuiltFor(call', held')
    BY <1>1, <2>2, <2>3 DEF Current
  <2> QED BY <1>1, <2>2, <2>3, <2>4 DEF AttemptInv, SentCoversItsCosts, SentWasRehearsed
<1> QED BY <1>2, <1>3, <1>4 DEF Simulate

LEMMA SendKeeps ==
  ASSUME AttemptInv, Send
  PROVE  AttemptInv'
<1>1. /\ feeCache' \in Premiums \cup {Unread} /\ Judged(held, Current)
      /\ BuiltFor(call, held) /\ Rehearsed(call)
  BY DEF Send, AttemptInv, Current
<1>2. CASE End
  BY <1>1, <1>2, EndKeeps
<1>3. CASE /\ sent' = [strategy |-> call.strategy, route |-> Current, call |-> call, held |-> held]
           /\ step' = "over" /\ batch' = <<>> /\ UNCHANGED config
  <2>1. /\ sent'.strategy = held.strategy /\ sent'.route = Current
        /\ sent'.call = call /\ sent'.held = held
    BY <1>1, <1>3 DEF BuiltFor
  <2>2. SentCoversItsCosts'
    BY <1>1, <2>1 DEF SentCoversItsCosts, Judged, Charged, BuiltFor
  <2>3. SentWasRehearsed'
    BY <1>1, <2>1 DEF SentWasRehearsed, Rehearsed
  <2> QED BY <1>1, <1>3, <2>2, <2>3, EmptyFits DEF AttemptInv
<1> QED BY <1>2, <1>3 DEF Send

LEMMA AttemptKeeps ==
  ASSUME SearchInv, AttemptInv, [PreparationNext]_preparationVars
  PROVE  AttemptInv'
<1>1. CASE SelectOpportunities
  BY <1>1, SelectKeeps
<1>2. CASE Observe \/ ObservationEnds
  BY <1>2, ObservationKeeps
<1>3. CASE ExecTimeout \/ BatchEnds
  <2>1. End /\ feeCache' \in Premiums \cup {Unread}
    BY <1>3 DEF ExecTimeout, BatchEnds, AttemptInv
  <2> QED BY <2>1, EndKeeps
<1>4. CASE Prepare
  BY <1>3, <1>4, TakeKeeps, ReadPremiumKeeps, JudgeKeeps, WaitKeeps, BuildKeeps, SimulateKeeps, SendKeeps
     DEF Prepare
<1>5. CASE config' \in Configs /\ UNCHANGED <<attemptVars, feeCache>>
  BY <1>5 DEF AttemptInv, attemptVars, SentCoversItsCosts, SentWasRehearsed
<1>6. CASE FindRoutes \/ Reload \/ Over \/ UNCHANGED preparationVars
  BY <1>5, <1>6 DEF FindRoutes, Reload, Over, preparationVars, AttemptInv
<1> QED BY <1>1, <1>2, <1>3, <1>4, <1>6 DEF PreparationNext

(* What is sent pays for itself in the form it is sent in                  *)
(* (SentCoversItsCosts), whatever is reloaded while it is judged, built    *)
(* and simulated, for every price, premium and configuration.              *)
THEOREM SendingPays == PreparationSpec => []SentCoversItsCosts
<1>1. SearchInv /\ AttemptInv => SentCoversItsCosts
  BY DEF AttemptInv
<1> QED BY <1>1, SearchInvHolds, AttemptInvHolds, PreparationKeepsSearch, AttemptKeeps, PTL DEF PreparationSpec

(* No route of several hops is sent without its rehearsal, and none that   *)
(* was built in a dry run (SentWasRehearsed).                              *)
THEOREM SendingIsRehearsed == PreparationSpec => []SentWasRehearsed
<1>1. SearchInv /\ AttemptInv => SentWasRehearsed
  BY DEF AttemptInv
<1> QED BY <1>1, SearchInvHolds, AttemptInvHolds, PreparationKeepsSearch, AttemptKeeps, PTL DEF PreparationSpec

(* Sums of lists.                                                          *)
LEMMA TotalIs ==
  ASSUME NEW s
  PROVE  Total(s) = SumOf(s, DOMAIN s)
BY DEF Total, MapThenSumSet, MapThenFoldSet, SumOf

LEMMA TotalType ==
  ASSUME NEW s, IsFiniteSet(DOMAIN s), \A i \in DOMAIN s : s[i] \in Int
  PROVE  Total(s) \in Int
BY TotalIs, SumType

LEMMA TotalOfNone == Total(<<>>) = 0
<1>1. DOMAIN <<>> = {}
  OBVIOUS
<1> QED BY <1>1, TotalIs, SumOfNone

LEMMA TotalWith ==
  ASSUME NEW s, NEW t, NEW n \in Nat, DOMAIN s = 1 .. n, DOMAIN t = 1 .. n + 1,
         \A i \in 1 .. n : s[i] \in Int /\ t[i] = s[i], t[n + 1] \in Int
  PROVE  Total(t) = Total(s) + t[n + 1]
<1>1. IsFiniteSet(1 .. n)
  BY FS_Interval
<1>2. 1 .. n + 1 = (1 .. n) \cup {n + 1} /\ n + 1 \notin 1 .. n
  OBVIOUS
<1>3. SumOf(t, 1 .. n + 1) = t[n + 1] + SumOf(t, 1 .. n)
  BY <1>1, <1>2, SumWith
<1>4. SumOf(t, 1 .. n) = SumOf(s, 1 .. n)
  BY <1>1, SumSame
<1>5. Total(s) = SumOf(s, 1 .. n) /\ Total(t) = SumOf(t, 1 .. n + 1)
  BY TotalIs
<1>6. SumOf(s, 1 .. n) \in Int
  BY <1>1, SumType
<1> QED BY <1>3, <1>4, <1>5, <1>6

LEMMA TotalAppend ==
  ASSUME NEW s \in Seq(Int), NEW x \in Int
  PROVE  Total(s) \in Int /\ Total(Append(s, x)) = Total(s) + x
<1> DEFINE n == Len(s)
           t == Append(s, x)
<1>1. n \in Nat /\ DOMAIN s = 1 .. n /\ \A i \in 1 .. n : s[i] \in Int
  OBVIOUS
<1>2. DOMAIN t = 1 .. n + 1 /\ t[n + 1] = x /\ \A i \in 1 .. n : t[i] = s[i]
  OBVIOUS
<1>3. IsFiniteSet(DOMAIN s)
  BY <1>1, FS_Interval
<1>4. Total(s) \in Int
  BY <1>1, <1>3, TotalType
<1> HIDE DEF n, t
<1>5. Total(t) = Total(s) + t[n + 1]
  BY <1>1, <1>2, TotalWith
<1> QED BY <1>2, <1>4, <1>5 DEF t

LEMMA TotalOfTwo ==
  ASSUME NEW s, DOMAIN s = 1 .. 2, s[1] \in Int, s[2] \in Int
  PROVE  Total(s) = s[1] + s[2]
<1> DEFINE u == [i \in 1 .. 1 |-> s[i]]
<1>1. DOMAIN u = 1 .. 1 /\ u[1] = s[1]
  OBVIOUS
<1> HIDE DEF u
<1>2. Total(u) = Total(<<>>) + u[1]
  <2> DEFINE z == <<>>
  <2>1. DOMAIN z = 1 .. 0 /\ DOMAIN u = 1 .. 0 + 1 /\ u[0 + 1] \in Int
    BY <1>1
  <2> HIDE DEF z
  <2>2. \A i \in 1 .. 0 : z[i] \in Int /\ u[i] = z[i]
    OBVIOUS
  <2>3. Total(u) = Total(z) + u[0 + 1]
    BY <2>1, <2>2, TotalWith
  <2> QED BY <2>3 DEF z
<1>3. Total(s) = Total(u) + s[2]
  <2> DEFINE n == 1
  <2>1. n \in Nat /\ n + 1 = 2 /\ DOMAIN u = 1 .. n /\ DOMAIN s = 1 .. n + 1 /\ s[n + 1] \in Int
    BY <1>1
  <2>2. \A i \in 1 .. n : u[i] \in Int /\ s[i] = u[i]
    BY <1>1
  <2> HIDE DEF n
  <2>3. Total(s) = Total(u) + s[n + 1]
    BY <2>1, <2>2, TotalWith
  <2> QED BY <2>1, <2>3
<1> QED BY <1>1, <1>2, <1>3, TotalOfNone

LEMMA MaxOfTwo ==
  ASSUME NEW a \in Int, NEW b \in Int
  PROVE  Max({a, b}) = IF a >= b THEN a ELSE b
<1>1. \E x \in {a, b} : \A y \in {a, b} : x >= y
  OBVIOUS
<1>2. Max({a, b}) \in {a, b} /\ \A y \in {a, b} : Max({a, b}) >= y
  BY <1>1 DEF Max
<1> QED BY <1>2

LEMMA MinOfTwo ==
  ASSUME NEW a \in Int, NEW b \in Int
  PROVE  Min({a, b}) = IF a <= b THEN a ELSE b
<1>1. \E x \in {a, b} : \A y \in {a, b} : x <= y
  OBVIOUS
<1>2. Min({a, b}) \in {a, b} /\ \A y \in {a, b} : Min({a, b}) <= y
  BY <1>1 DEF Min
<1> QED BY <1>2

LEMMA MinOfThree ==
  ASSUME NEW a \in Int, NEW b \in Int, NEW c \in Int
  PROVE  Min({a, b, c}) \in {a, b, c} /\ Min({a, b, c}) <= a /\ Min({a, b, c}) <= b /\ Min({a, b, c}) <= c
<1>1. \E x \in {a, b, c} : \A y \in {a, b, c} : x <= y
  OBVIOUS
<1>2. Min({a, b, c}) \in {a, b, c} /\ \A y \in {a, b, c} : Min({a, b, c}) <= y
  BY <1>1 DEF Min
<1> QED BY <1>2

(* The slippage plan, hop after hop.                                       *)
Sized(r) == Len(r.legs) \in Nat \ {0} /\ r.gain \in Int

LEMMA GatesAreNumbers ==
  /\ Premium \in Nat /\ MinProfit \in Nat /\ SlippageCap \in Nat /\ HopIncrease \in Nat
  /\ EdgeMargin \in Nat /\ PublicEdge \in Nat /\ RouteLimit \in Nat /\ MinSlippage \in Nat
  /\ GasPerHop \in Nat /\ MinSpread \in Nat /\ MaxSpread \in Nat
BY GatesAssumption, SpreadAssumption, HopsAssumption

LEMMA AllowanceType ==
  ASSUME NEW r, Sized(r)
  PROVE  NetOf(r) \in Int /\ Allowed(r) \in Int /\ BaseSlippage(r) \in Int
<1> DEFINE n == Len(r.legs)
<1>1. n \in Nat \ {0} /\ r.gain \in Int
  BY DEF Sized
<1> HIDE DEF n
<1>2. NetOf(r) \in Int
  BY <1>1, GatesAreNumbers DEF NetOf, n
<1>3. MinSlippage * n \in Int /\ RouteLimit \in Int /\ SlippageCap \in Int /\ NetOf(r) - EdgeMargin \in Int
  BY <1>1, <1>2, GatesAreNumbers
<1> DEFINE a == MinSlippage * n
           b == NetOf(r) - EdgeMargin
           c == Max({RouteLimit, a})
           d == NetOf(r) \div n
           e == Min({SlippageCap, d})
<1>4. a \in Int /\ b \in Int /\ d \in Int
  BY <1>1, <1>2, <1>3
<1>5. Allowed(r) = Min({SlippageCap, b, c}) /\ BaseSlippage(r) = Max({MinSlippage, e})
  BY DEF Allowed, BaseSlippage, n
<1> HIDE DEF a, b, d
<1>6. c \in Int /\ e \in Int /\ MinSlippage \in Int
  BY <1>3, <1>4, GatesAreNumbers, MaxOfTwo, MinOfTwo
<1> HIDE DEF c, e
<1>7. Allowed(r) \in Int
  <2>1. Min({SlippageCap, b, c}) \in {SlippageCap, b, c}
    BY <1>3, <1>4, <1>6, MinOfThree
  <2> QED BY <1>3, <1>4, <1>5, <1>6, <2>1
<1>8. BaseSlippage(r) \in Int
  BY <1>5, <1>6, MaxOfTwo
<1> QED BY <1>2, <1>7, <1>8

(* A hop gets the minimum at least, and no more than there is room for if  *)
(* there is room for the minimum.                                          *)
LEMMA HopFits ==
  ASSUME NEW r, Sized(r), NEW used \in Int, NEW k \in 1 .. Len(r.legs)
  PROVE  /\ HopSlippage(r, used, k) \in Int /\ HopSlippage(r, used, k) >= MinSlippage
         /\ Room(r, used, k) \in Int
         /\ Room(r, used, k) >= MinSlippage => HopSlippage(r, used, k) <= Room(r, used, k)
<1> DEFINE room == Room(r, used, k)
           grown == BaseSlippage(r) + (k - 1) * HopIncrease
           wish == Min({grown, room})
<1>1. room \in Int /\ grown \in Int /\ MinSlippage \in Int
  BY AllowanceType, GatesAreNumbers DEF Room, Sized
<1>2. HopSlippage(r, used, k) = Max({MinSlippage, wish})
  BY DEF HopSlippage
<1> HIDE DEF room, grown
<1>3. wish \in Int /\ wish <= room
  BY <1>1, MinOfTwo
<1> HIDE DEF wish
<1>4. Max({MinSlippage, wish}) = IF MinSlippage >= wish THEN MinSlippage ELSE wish
  BY <1>1, <1>3, MaxOfTwo
<1> QED BY <1>1, <1>2, <1>3, <1>4 DEF room

PlanStep(r, p) == Append(p[2], HopSlippage(r, Total(p[2]), p[1]))
PlanUpTo(r, plan, k) ==
  /\ plan[k] \in Seq(Int) /\ Len(plan[k]) = k
  /\ \A i \in 1 .. k : plan[k][i] >= MinSlippage
  /\ Total(plan[k]) >= k * MinSlippage
  /\ Allowed(r) >= Len(r.legs) * MinSlippage =>
       Total(plan[k]) + (Len(r.legs) - k) * MinSlippage <= Allowed(r)

LEMMA PlanGrows ==
  ASSUME NEW r, Sized(r), NEW plan, NEW k \in 1 .. Len(r.legs), PlanUpTo(r, plan, k - 1),
         plan[k] = Append(plan[k - 1], HopSlippage(r, Total(plan[k - 1]), k))
  PROVE  PlanUpTo(r, plan, k)
<1> DEFINE n == Len(r.legs)
           s == plan[k - 1]
           used == Total(s)
           hop == HopSlippage(r, used, k)
           m == MinSlippage
<1>1. n \in Nat /\ k \in 1 .. n /\ m \in Nat /\ Allowed(r) \in Int
  BY AllowanceType, GatesAreNumbers DEF Sized
<1>2. s \in Seq(Int) /\ Len(s) = k - 1 /\ \A i \in 1 .. k - 1 : s[i] >= m
  BY DEF PlanUpTo
<1>3. used >= (k - 1) * m /\ (Allowed(r) >= n * m => used + (n - (k - 1)) * m <= Allowed(r))
  BY DEF PlanUpTo
<1>4. used \in Int
  BY <1>2, TotalAppend
<1>5. /\ hop \in Int /\ hop >= m
      /\ Room(r, used, k) \in Int /\ (Room(r, used, k) >= m => hop <= Room(r, used, k))
  BY <1>4, HopFits
<1>6. Room(r, used, k) = Allowed(r) - used - (n - k) * m
  BY DEF Room
<1>7. plan[k] = Append(s, hop)
  OBVIOUS
<1> HIDE DEF n, s, hop, m, used
<1>8. Append(s, hop) \in Seq(Int) /\ Len(Append(s, hop)) = k /\ \A i \in 1 .. k : Append(s, hop)[i] >= m
  <2>1. Append(s, hop) \in Seq(Int) /\ Len(Append(s, hop)) = Len(s) + 1
    BY <1>2, <1>5
  <2>2. \A i \in 1 .. k - 1 : Append(s, hop)[i] = s[i]
    BY <1>2, <1>5
  <2>3. Append(s, hop)[k] = hop
    BY <1>1, <1>2, <1>5
  <2>4. \A i \in 1 .. k : i \in 1 .. k - 1 \/ i = k
    BY <1>1
  <2> QED BY <1>1, <1>2, <1>5, <2>1, <2>2, <2>3, <2>4
<1>9. Total(Append(s, hop)) = used + hop
  BY <1>2, <1>5, TotalAppend DEF used
<1>10. (k - 1) * m + m = k * m /\ (n - (k - 1)) * m = (n - k) * m + m
  BY <1>1
<1>11. (k - 1) * m \in Int /\ k * m \in Int /\ (n - k) * m \in Int
  BY <1>1
<1>12. used + hop >= k * m
  BY <1>1, <1>3, <1>4, <1>5, <1>10, <1>11
<1>13. Allowed(r) >= n * m => used + hop + (n - k) * m <= Allowed(r)
  <2> SUFFICES ASSUME Allowed(r) >= n * m PROVE used + hop + (n - k) * m <= Allowed(r)
    OBVIOUS
  <2>1. used + ((n - k) * m + m) <= Allowed(r)
    BY <1>3, <1>10
  <2> DEFINE rest == (n - k) * m
  <2>2. rest \in Int
    BY <1>11
  <2> HIDE DEF rest
  <2>3. used + (rest + m) <= Allowed(r) /\ Room(r, used, k) = Allowed(r) - used - rest
    BY <2>1, <1>6 DEF rest
  <2>4. Room(r, used, k) >= m
    BY <1>1, <1>4, <2>2, <2>3
  <2>5. used + hop + rest <= Allowed(r)
    BY <1>1, <1>4, <1>5, <2>2, <2>3, <2>4
  <2> QED BY <2>5 DEF rest
<1> QED BY <1>7, <1>8, <1>9, <1>12, <1>13 DEF PlanUpTo, n, m

LEMMA PlanIs ==
  ASSUME NEW r, Sized(r)
  PROVE  /\ SlippagePlan(r) \in Seq(Int) /\ Len(SlippagePlan(r)) = Len(r.legs)
         /\ \A i \in 1 .. Len(r.legs) : SlippagePlan(r)[i] >= MinSlippage
         /\ Total(SlippagePlan(r)) >= Len(r.legs) * MinSlippage
         /\ Total(SlippagePlan(r)) \in Int
         /\ Allowed(r) >= Len(r.legs) * MinSlippage => Total(SlippagePlan(r)) <= Allowed(r)
<1> DEFINE n == Len(r.legs)
           Step(h) == [k \in 0 .. n |->
                         IF k = 0 THEN <<>> ELSE Append(h[k - 1], HopSlippage(r, Total(h[k - 1]), k))]
           plan == CHOOSE h : h = Step(h)
           F == [p \in (1 .. n) \X Seq(Int) |-> PlanStep(r, p)]
<1>1. n \in Nat \ {0}
  BY DEF Sized
<1>2. SlippagePlan(r) = plan[n]
  BY DEF SlippagePlan
<1> HIDE DEF n
<1>3. F \in [(1 .. n) \X Seq(Int) -> Seq(Int)]
  <2>1. ASSUME NEW k \in 1 .. n, NEW s \in Seq(Int) PROVE PlanStep(r, <<k, s>>) \in Seq(Int)
    <3>1. Total(s) \in Int
      BY TotalAppend
    <3>2. HopSlippage(r, Total(s), k) \in Int
      BY <3>1, HopFits DEF n
    <3> QED BY <3>2 DEF PlanStep
  <2> QED BY <2>1
<1>4. PICK K \in [0 .. n -> Seq(Int)] : StepsBy(F, <<>>, n, K)
  <2>1. <<>> \in Seq(Int) /\ n \in Nat
    BY <1>1
  <2> HIDE DEF F
  <2> QED BY <1>3, <2>1, StepsExist
<1>5. ASSUME NEW k \in 0 .. n
      PROVE  K[k] = IF k = 0 THEN <<>> ELSE Append(K[k - 1], HopSlippage(r, Total(K[k - 1]), k))
  <2>1. CASE k = 0
    BY <1>4, <2>1 DEF StepsBy
  <2>2. CASE k # 0
    <3>1. k \in 1 .. n /\ k - 1 \in 0 .. n
      BY <1>1, <2>2
    <3>2. K[k] = F[<<k, K[k - 1]>>]
      BY <1>4, <3>1 DEF StepsBy
    <3>3. <<k, K[k - 1]>> \in (1 .. n) \X Seq(Int)
      BY <1>4, <3>1
    <3>4. K[k] = PlanStep(r, <<k, K[k - 1]>>)
      BY <3>2, <3>3
    <3> QED BY <2>2, <3>4 DEF PlanStep
  <2> QED BY <2>1, <2>2
<1>6. K = Step(K)
  <2>1. K = [k \in 0 .. n |-> K[k]]
    BY <1>4
  <2> QED BY <1>5, <2>1
<1>7. plan = Step(plan)
  <2> HIDE DEF Step
  <2> QED BY <1>6
<1> HIDE DEF plan
<1>7a. ASSUME NEW j \in 0 .. n
       PROVE  plan[j] = IF j = 0 THEN <<>> ELSE Append(plan[j - 1], HopSlippage(r, Total(plan[j - 1]), j))
  BY <1>7
<1> HIDE DEF Step
<1> DEFINE I == {k \in Nat : k <= n => PlanUpTo(r, plan, k)}
<1>8. 0 \in I
  <2>1. plan[0] = <<>>
    BY <1>1, <1>7a
  <2>2. Allowed(r) \in Int /\ n * MinSlippage \in Int /\ (n - 0) * MinSlippage = n * MinSlippage
          /\ 0 * MinSlippage = 0
    BY <1>1, AllowanceType, GatesAreNumbers
  <2>3. <<>> \in Seq(Int) /\ Len(<<>>) = 0
    OBVIOUS
  <2>4. \A i \in 1 .. 0 : <<>>[i] >= MinSlippage
    OBVIOUS
  <2>5. Allowed(r) >= n * MinSlippage => 0 + (n - 0) * MinSlippage <= Allowed(r)
    BY <2>2
  <2>6. PlanUpTo(r, plan, 0)
    BY <2>1, <2>2, <2>3, <2>4, <2>5, TotalOfNone DEF PlanUpTo, n
  <2> QED BY <2>6
<1>9. ASSUME NEW k \in Nat, k \in I PROVE k + 1 \in I
  <2> SUFFICES ASSUME k + 1 <= n PROVE PlanUpTo(r, plan, k + 1)
    OBVIOUS
  <2>1. k + 1 \in 1 .. n /\ k + 1 # 0 /\ (k + 1) - 1 = k /\ PlanUpTo(r, plan, k)
    BY <1>1, <1>9
  <2>2. plan[k + 1] = Append(plan[(k + 1) - 1], HopSlippage(r, Total(plan[(k + 1) - 1]), k + 1))
    <3> DEFINE j == k + 1
    <3>1. j \in 0 .. n /\ j # 0
      BY <1>1, <2>1
    <3> HIDE DEF j
    <3>2. plan[j] = Append(plan[j - 1], HopSlippage(r, Total(plan[j - 1]), j))
      BY <1>7a, <3>1
    <3> QED BY <3>2 DEF j
  <2>3. k + 1 \in 1 .. Len(r.legs) /\ PlanUpTo(r, plan, (k + 1) - 1)
    BY <2>1 DEF n
  <2> QED BY <2>2, <2>3, PlanGrows
<1>10. Nat \subseteq I
  <2> HIDE DEF I
  <2> QED BY <1>8, <1>9, SetInduction
<1>11. PlanUpTo(r, plan, n)
  BY <1>1, <1>10
<1>12. (n - n) * MinSlippage = 0 /\ Allowed(r) \in Int
  BY <1>1, AllowanceType, GatesAreNumbers
<1>13. Total(plan[n]) \in Int
  BY <1>11, TotalAppend DEF PlanUpTo
<1>14. Allowed(r) >= n * MinSlippage => Total(plan[n]) <= Allowed(r)
  <2>1. Allowed(r) >= n * MinSlippage => Total(plan[n]) + (n - n) * MinSlippage <= Allowed(r)
    BY <1>11 DEF PlanUpTo, n
  <2> QED BY <1>12, <1>13, <2>1
<1> QED BY <1>2, <1>11, <1>13, <1>14 DEF PlanUpTo, n

(* A route of as many hops that gains no less passes the same gates.       *)
LEMMA ApprovalGrows ==
  ASSUME NEW r, NEW q, Sized(r), Sized(q), Len(q.legs) = Len(r.legs), q.gain >= r.gain, Approved(r)
  PROVE  Approved(q)
<1> DEFINE n == Len(r.legs)
           cap == Max({RouteLimit, MinSlippage * n})
<1>1. n \in Nat \ {0} /\ r.gain \in Int /\ q.gain \in Int
  BY DEF Sized
<1>2. /\ NetOf(r) \in Int /\ NetOf(q) \in Int /\ Allowed(r) \in Int /\ Allowed(q) \in Int
  BY AllowanceType
<1>3. NetOf(q) >= NetOf(r)
  <2>1. GasPerHop * n \in Int
    BY <1>1, GatesAreNumbers
  <2> HIDE DEF n
  <2>2. NetOf(q) = q.gain - GasPerHop * n - Premium /\ NetOf(r) = r.gain - GasPerHop * n - Premium
    BY DEF NetOf, n
  <2> QED BY <1>1, <2>1, <2>2, GatesAreNumbers
<1>4. cap \in Int
  <2>1. MinSlippage * n \in Int
    BY <1>1, GatesAreNumbers
  <2> QED BY <2>1, GatesAreNumbers, MaxOfTwo
<1>5. Allowed(q) >= Allowed(r)
  <2> DEFINE a == NetOf(q) - EdgeMargin
             b == NetOf(r) - EdgeMargin
  <2>1. a \in Int /\ b \in Int /\ a >= b /\ SlippageCap \in Int
    BY <1>2, <1>3, GatesAreNumbers
  <2>2. Allowed(q) = Min({SlippageCap, a, cap}) /\ Allowed(r) = Min({SlippageCap, b, cap})
    BY DEF Allowed
  <2> HIDE DEF a, b, cap
  <2>3. Allowed(q) \in {SlippageCap, a, cap}
    BY <1>4, <2>1, <2>2, MinOfThree
  <2> DEFINE least == Min({SlippageCap, b, cap})
  <2>5. least <= SlippageCap /\ least <= b /\ least <= cap
    BY <1>4, <2>1, MinOfThree
  <2>6. Allowed(r) = least
    BY <2>2
  <2> HIDE DEF least
  <2>4. Allowed(r) <= SlippageCap /\ Allowed(r) <= b /\ Allowed(r) <= cap
    BY <2>5, <2>6
  <2> QED BY <1>2, <1>4, <2>1, <2>3, <2>4
<1>6. Allowed(q) >= n * MinSlippage
  <2>1. Total(SlippagePlan(r)) \in Int /\ Total(SlippagePlan(r)) >= n * MinSlippage
    BY PlanIs
  <2>2. Total(SlippagePlan(r)) <= Allowed(r)
    BY DEF Approved
  <2>3. n * MinSlippage \in Int
    BY <1>1, GatesAreNumbers
  <2> QED BY <1>2, <1>5, <2>1, <2>2, <2>3
<1>7. Total(SlippagePlan(q)) <= Allowed(q)
  BY <1>6, PlanIs
<1>8. r.gain >= MinSpread /\ NetOf(r) > MinProfit /\ NetOf(r) > EdgeMargin /\ NetOf(r) >= PublicEdge
  BY DEF Approved
<1>9. q.gain >= MinSpread /\ NetOf(q) > MinProfit /\ NetOf(q) > EdgeMargin /\ NetOf(q) >= PublicEdge
  BY <1>1, <1>2, <1>3, <1>8, GatesAreNumbers
<1> QED BY <1>7, <1>9 DEF Approved

-------------------------------------------------------------------------------
(* What a search gains: of the routes with the same outer venues one that  *)
(* gains no less than any other is kept, for there is one.                 *)
Bounded(r) ==
  /\ r.gain \in Int /\ r.gain <= MaxSpread
  /\ \A i \in DOMAIN r.legs : r.legs[i].gain \in Int

LEMMA BestExists ==
  ASSUME NEW routes, routes # {}, \A r \in routes : Bounded(r)
  PROVE  \E w \in BestOf(routes) : \A s \in routes : s.gain <= w.gain
<1> DEFINE Short == {n \in Nat : \E r \in routes : n = MaxSpread - r.gain}
<1>1. MaxSpread \in Int
  BY GatesAreNumbers
<1>2. Short # {} /\ Short \subseteq Nat
  <2>1. PICK r \in routes : TRUE
    OBVIOUS
  <2>2. r.gain \in Int /\ r.gain <= MaxSpread
    BY DEF Bounded
  <2>3. MaxSpread - r.gain \in Nat
    BY <1>1, <2>2
  <2>4. MaxSpread - r.gain \in Short
    BY <2>3
  <2> QED BY <2>4
<1> HIDE DEF Short
<1>3. PICK n \in Short : \A m \in Short : <<m, n>> \notin Smaller
  BY <1>2, SmallerIsWellFounded, WFMin
<1>4. PICK r \in routes : n = MaxSpread - r.gain
  BY DEF Short
<1>5. ASSUME NEW s \in routes PROVE s.gain <= r.gain
  <2> DEFINE m == MaxSpread - s.gain
  <2>1. m \in Nat /\ m \in Short
    BY <1>1 DEF Bounded, Short
  <2>2. n \in Nat /\ <<m, n>> \notin Smaller
    BY <1>2, <1>3, <2>1
  <2>3. ~(m < n)
    BY <2>1, <2>2 DEF Smaller
  <2> QED BY <1>1, <1>4, <2>3 DEF Bounded
<1>6. r \in Widest(routes)
  BY <1>5 DEF Widest
<1> DEFINE w == CHOOSE c \in Widest(routes) : TRUE
<1>7. w \in Widest(routes) /\ BestOf(routes) = {w}
  BY <1>6 DEF BestOf
<1> HIDE DEF w
<1> QED BY <1>7 DEF Widest

LEMMA LegsGain ==
  ASSUME NEW legs, NEW n \in Nat, DOMAIN legs = 1 .. n, \A i \in 1 .. n : legs[i].gain \in Int
  PROVE  GainOf(legs) \in Int
<1> DEFINE gains == [i \in DOMAIN legs |-> legs[i].gain]
<1>1. IsFiniteSet(DOMAIN gains) /\ \A i \in DOMAIN gains : gains[i] \in Int
  BY FS_Interval
<1> HIDE DEF gains
<1>2. Total(gains) \in Int
  BY <1>1, TotalType
<1> QED BY <1>2 DEF GainOf, gains

LEMMA TripGain ==
  ASSUME NEW p, NEW q, p.gain \in Int, q.gain \in Int
  PROVE  GainOf(<<p, q>>) = p.gain + q.gain
<1> DEFINE legs == <<p, q>>
           gains == [i \in DOMAIN legs |-> legs[i].gain]
<1>1. DOMAIN gains = 1 .. 2 /\ gains[1] = p.gain /\ gains[2] = q.gain
  OBVIOUS
<1>2. GainOf(legs) = Total(gains)
  BY DEF GainOf
<1> HIDE DEF gains
<1>3. Total(gains) = gains[1] + gains[2]
  BY <1>1, TotalOfTwo
<1> QED BY <1>1, <1>2, <1>3

(* A round trip over two venues gains what its two legs do, also turned.   *)
LEMMA RoundTripGain ==
  ASSUME QuotesFit, NEW a, NEW b, NEW t \in RoundTrips(a, b), NEW label, NEW path
  PROVE  /\ t = <<t[1], t[2]>> /\ t[1].gain \in Int /\ t[2].gain \in Int
         /\ Route(label, path, t).gain = t[1].gain + t[2].gain
<1>1. t = <<t[1], t[2]>> /\ t[1] \in Quoted /\ t[2] \in Quoted
  BY DEF RoundTrips
<1>2. t[1].gain \in Int /\ t[2].gain \in Int
  BY <1>1 DEF QuotesFit
<1>3. GainOf(<<t[1], t[2]>>) = t[1].gain + t[2].gain
  BY <1>2, TripGain
<1>4. GainOf(t) = t[1].gain + t[2].gain
  BY <1>1, <1>3
<1> QED BY <1>1, <1>2, <1>4 DEF Route

LEMMA DirectTripsAreBounded ==
  ASSUME QuotesFit, NEW a, NEW b, NEW r \in DirectTrips(a, b)
  PROVE  Bounded(r) /\ r.path = <<a, b, a>> /\ Len(r.legs) = 2 /\ r.gain > MinSpread
<1>1. PICK t \in RoundTrips(a, b) : r = Route("pair", <<a, b, a>>, t)
  BY DEF DirectTrips
<1>2. r.gain = t[1].gain + t[2].gain /\ t[1].gain \in Int /\ t[2].gain \in Int /\ t = <<t[1], t[2]>>
  BY <1>1, RoundTripGain
<1>3. r.gain <= MaxSpread /\ r.gain > MinSpread
  BY DEF DirectTrips
<1>4. r.path = <<a, b, a>> /\ r.legs = t
  BY <1>1 DEF Route
<1>5. \A i \in DOMAIN r.legs : r.legs[i].gain \in Int
  <2>1. \A i \in DOMAIN <<t[1], t[2]>> : i = 1 \/ i = 2
    OBVIOUS
  <2> QED BY <1>2, <1>4, <2>1
<1> QED BY <1>2, <1>3, <1>4, <1>5 DEF Bounded

LEMMA TrianglesAreBounded ==
  ASSUME QuotesFit, NEW a, NEW b, NEW c, NEW t \in Triangles(a, b, c), NEW path
  PROVE  Bounded(Route("path", path, t))
<1>1. t = <<t[1], t[2], t[3]>> /\ t[1] \in Quoted /\ t[2] \in Quoted /\ t[3] \in Quoted /\ GainOf(t) <= MaxSpread
  BY DEF Triangles
<1>2. t[1].gain \in Int /\ t[2].gain \in Int /\ t[3].gain \in Int
  BY <1>1 DEF QuotesFit
<1>3. DOMAIN t = 1 .. 3
  BY <1>1
<1>4. \A i \in 1 .. 3 : t[i].gain \in Int
  <2>1. \A i \in 1 .. 3 : i = 1 \/ i = 2 \/ i = 3
    OBVIOUS
  <2> QED BY <1>2, <2>1
<1>5. GainOf(t) \in Int
  <2> DEFINE n == 3
  <2>1. n \in Nat /\ DOMAIN t = 1 .. n /\ \A i \in 1 .. n : t[i].gain \in Int
    BY <1>3, <1>4
  <2> HIDE DEF n
  <2> QED BY <2>1, LegsGain
<1> QED BY <1>1, <1>3, <1>4, <1>5 DEF Route, Bounded

LEMMA TriangularAreBounded ==
  ASSUME QuotesFit, NEW r \in CrossSearch \cup IntraSearch
  PROVE  Bounded(r)
<1>1. ASSUME NEW triangles, NEW q \in Routes(triangles),
             \A t \in triangles : \E a, b, c : t \in Triangles(a, b, c)
      PROVE  Bounded(q)
  <2>1. PICK t \in triangles : q = Route("path", <<t[1].from, t[2].from, t[3].from, t[1].from>>, t)
    BY DEF Routes
  <2>2. PICK a, b, c : t \in Triangles(a, b, c)
    BY <1>1
  <2> QED BY <2>1, <2>2, TrianglesAreBounded
<1>2. CASE r \in CrossSearch
  <2>1. PICK s \in Stables, p \in Middles : r \in CrossTriangle(s, p[1], p[2])
    BY <1>2 DEF CrossSearch, Worthwhile
  <2>2. r \in Routes(Triangles(s, p[1], p[2]))
    BY <2>1, BestIsOfThem DEF CrossTriangle
  <2> QED BY <1>1, <2>2
<1>3. CASE r \in IntraSearch
  <2>1. PICK v \in Venues, s \in Stables, p \in Middles : r \in IntraTriangle(v, s, p[1], p[2])
    BY <1>3 DEF IntraSearch, Worthwhile
  <2> DEFINE mine == {t \in Triangles(s, p[1], p[2]) \cup Triangles(s, p[2], p[1]) :
                        \A i \in 1 .. 3 : t[i].venue = v}
  <2>2. r \in Routes(mine)
    BY <2>1 DEF IntraTriangle
  <2>3. \A t \in mine : \E a, b, c : t \in Triangles(a, b, c)
    OBVIOUS
  <2> HIDE DEF mine
  <2> QED BY <1>1, <2>2, <2>3
<1> QED BY <1>2, <1>3

LEMMA BfLegGains ==
  ASSUME QuotesFit, NEW a, NEW b, NEW l \in BfLeg(a, b)
  PROVE  l.gain \in Int
<1>1. CASE l \in FirstQuote(a, b)
  BY <1>1, FirstOfThem DEF QuotesFit
<1>2. CASE l \in {Leg(q.venue, a, b, -q.gain) : q \in FirstQuote(b, a)}
  <2>1. PICK q \in FirstQuote(b, a) : l = Leg(q.venue, a, b, -q.gain)
    BY <1>2
  <2>2. q.gain \in Int
    BY FirstOfThem DEF QuotesFit
  <2>3. l.gain = -q.gain
    BY <2>1 DEF Leg
  <2> QED BY <2>2, <2>3
<1> QED BY <1>1, <1>2 DEF BfLeg

(* A path stands for one route, so what is kept is what was looked at.     *)
LEMMA BfRouteGains ==
  ASSUME QuotesFit, NEW path, path \in Seq(Range(path)), Len(path) > 2, NEW r \in BfRoute(path), NEW q \in BfRoute(path)
  PROVE  q = r /\ r.gain \in Int /\ \A i \in DOMAIN r.legs : r.legs[i].gain \in Int
<1> DEFINE n == Len(path) - 1
           options == [i \in 1 .. n |-> BfLeg(path[i], path[i + 1])]
           legs == [i \in DOMAIN options |-> CHOOSE l \in options[i] : TRUE]
<1>1. n \in Nat
  BY LenProperties
<1>2. r = Route("path", path, legs) /\ q = r /\ \A i \in 1 .. n : options[i] # {}
  BY DEF BfRoute
<1> HIDE DEF n
<1>3. \A i \in 1 .. n : legs[i] \in BfLeg(path[i], path[i + 1])
  BY <1>2
<1>4. DOMAIN legs = 1 .. n
  OBVIOUS
<1> HIDE DEF legs
<1>5. \A i \in 1 .. n : legs[i].gain \in Int
  BY <1>3, BfLegGains
<1>6. GainOf(legs) \in Int
  BY <1>1, <1>4, <1>5, LegsGain
<1> QED BY <1>2, <1>4, <1>5, <1>6 DEF Route

LEMMA BfCyclesAreBounded ==
  ASSUME QuotesFit, NEW r \in BfCycles
  PROVE  Bounded(r)
<1>1. PICK pred, from : /\ Len(CyclePath(pred, from)) > 2 /\ r \in BfRoute(CyclePath(pred, from))
                        /\ \E q \in BfRoute(CyclePath(pred, from)) : q.gain <= MaxSpread
  BY DEF BfCycles
<1> DEFINE path == CyclePath(pred, from)
<1>2. path \in Seq(Range(path))
  BY CyclePathReturns
<1>3. PICK q \in BfRoute(path) : q.gain <= MaxSpread
  BY <1>1
<1>4. Len(path) > 2 /\ r \in BfRoute(path)
  BY <1>1
<1> HIDE DEF path
<1>5. q = r /\ r.gain \in Int /\ \A i \in DOMAIN r.legs : r.legs[i].gain \in Int
  BY <1>2, <1>3, <1>4, BfRouteGains
<1> QED BY <1>3, <1>5 DEF Bounded

EdgeFits(e) ==
  \E a \in Tokens, b \in Tokens : \E t \in RoundTrips(a, b) :
    e = Route("pair", <<a, b, a>>, t) /\ e.gain <= MaxSpread
TripsAreKept ==
  \A s \in Stables, t \in Tokens : \A r \in DirectTrips(s, t) :
    \E w \in found : w.path = <<s, t, s>> /\ w.gain >= r.gain
GainsInv ==
  /\ \A r \in found : Bounded(r)
  /\ phase = "scan" => edges = {}
  /\ \A e \in edges : EdgeFits(e)
  /\ phase \in {"triangular", "bellman-ford", "select", "convert"} => TripsAreKept
  /\ phase = "done" => TripsAreTraded

LEMMA EdgesFit ==
  ASSUME NEW e \in EdgesOf(AdjCycles)
  PROVE  EdgeFits(e)
<1>1. PICK p \in Tokens \X Tokens : e \in BestTwoHop(p[1], p[2])
  BY DEF EdgesOf, AdjCycles
<1>2. e.gain <= MaxSpread
  BY DEF EdgesOf, AdjCycles
<1> DEFINE all == {Route("pair", <<p[1], p[2], p[1]>>, t) : t \in RoundTrips(p[1], p[2])}
<1>3. e \in all
  <2>1. BestTwoHop(p[1], p[2]) = BestOf(all)
    BY DEF BestTwoHop
  <2> HIDE DEF all
  <2> QED BY <1>1, <2>1, BestIsOfThem
<1>4. PICK t \in RoundTrips(p[1], p[2]) : e = Route("pair", <<p[1], p[2], p[1]>>, t)
  BY <1>3
<1>5. p[1] \in Tokens /\ p[2] \in Tokens
  OBVIOUS
<1> QED BY <1>2, <1>4, <1>5 DEF EdgeFits

(* The direct search keeps the widest trip of a pair.                      *)
LEMMA DirectKeepsTrips ==
  ASSUME QuotesFit, FindDirect, QuotesFit'
  PROVE  TripsAreKept'
<1>1. quotes' = quotes /\ found' = UNION {EvaluateDirect(a, b) : a \in Tokens, b \in Tokens}
  BY DEF FindDirect
<1>2. \A a, b : DirectTrips(a, b)' = DirectTrips(a, b)
  BY <1>1 DEF DirectTrips, RoundTrips, Quoted
<1> SUFFICES ASSUME NEW s \in Stables, NEW t \in Tokens, NEW r \in DirectTrips(s, t)
             PROVE  \E w \in found' : w.path = <<s, t, s>> /\ w.gain >= r.gain
  BY <1>2 DEF TripsAreKept
<1> DEFINE trips == DirectTrips(s, t)
<1>3. trips # {} /\ \A q \in trips : Bounded(q) /\ q.path = <<s, t, s>>
  BY DirectTripsAreBounded
<1>4. EvaluateDirect(s, t) = BestOf(trips)
  BY DEF EvaluateDirect
<1>5. r \in trips
  OBVIOUS
<1> HIDE DEF trips
<1>6. PICK w \in BestOf(trips) : \A q \in trips : q.gain <= w.gain
  BY <1>3, BestExists
<1>7. w \in trips /\ w.path = <<s, t, s>> /\ w.gain \in Int /\ r.gain \in Int
  BY <1>3, <1>5, <1>6, BestIsOfThem DEF Bounded
<1>8. w.gain >= r.gain
  BY <1>5, <1>6, <1>7
<1>9. w \in found'
  <2>1. s \in Tokens
    BY TokensAssumption
  <2> QED BY <1>1, <1>4, <1>6, <2>1
<1> QED BY <1>7, <1>8, <1>9

LEMMA MoreKeepsTrips ==
  ASSUME TripsAreKept, found \subseteq found', quotes' = quotes
  PROVE  TripsAreKept'
<1>1. \A a, b : DirectTrips(a, b)' = DirectTrips(a, b)
  BY DEF DirectTrips, RoundTrips, Quoted
<1> QED BY <1>1 DEF TripsAreKept

(* Deduplication keeps the widest of those over the same tokens.           *)
LEMMA SelectKeepsTrips ==
  ASSUME QuotesFit, TripsAreKept, \A r \in found : Bounded(r), Select
  PROVE  TripsAreKept'
<1>1. /\ quotes' = quotes
      /\ found' = {r \in UNION {BestOf({q \in found : DedupKey(q) = key}) : key \in {DedupKey(q) : q \in found}} :
                     r.gain >= MinSpread}
  BY DEF Select
<1>2. \A a, b : DirectTrips(a, b)' = DirectTrips(a, b)
  BY <1>1 DEF DirectTrips, RoundTrips, Quoted
<1> SUFFICES ASSUME NEW s \in Stables, NEW t \in Tokens, NEW r \in DirectTrips(s, t)
             PROVE  \E w \in found' : w.path = <<s, t, s>> /\ w.gain >= r.gain
  BY <1>2 DEF TripsAreKept
<1>3. PICK u \in found : u.path = <<s, t, s>> /\ u.gain >= r.gain
  BY DEF TripsAreKept
<1> DEFINE mine == {q \in found : DedupKey(q) = DedupKey(u)}
<1>4. u \in mine /\ mine \subseteq found /\ \A q \in mine : q.path = u.path
  BY DEF DedupKey
<1>5. BestOf(mine) \subseteq UNION {BestOf({q \in found : DedupKey(q) = key}) : key \in {DedupKey(q) : q \in found}}
  OBVIOUS
<1> HIDE DEF mine
<1>6. PICK w \in BestOf(mine) : \A q \in mine : q.gain <= w.gain
  BY <1>4, BestExists
<1>7. w \in mine /\ w.path = <<s, t, s>>
  BY <1>3, <1>4, <1>6, BestIsOfThem
<1>8. w.gain \in Int /\ u.gain \in Int /\ r.gain \in Int /\ r.gain > MinSpread /\ MinSpread \in Int
  BY <1>4, <1>7, DirectTripsAreBounded, GatesAreNumbers DEF Bounded
<1>9. w.gain >= r.gain /\ w.gain >= MinSpread
  <2>1. u.gain <= w.gain
    BY <1>4, <1>6
  <2> QED BY <1>3, <1>8, <2>1
<1>10. w \in found'
  BY <1>1, <1>5, <1>6, <1>9
<1> QED BY <1>7, <1>9, <1>10

(* A trip from a stable is no other after the conversion, and what passes  *)
(* the gates passes them with a larger gain.                               *)
LEMMA ConvertTradesTrips ==
  ASSUME QuotesFit, TripsAreKept, \A r \in found : Bounded(r) /\ IsChain(r), Convert
  PROVE  TripsAreTraded'
<1>1. quotes' = quotes /\ result' = {r \in UNION {Converted(f) : f \in found} : Approved(r)}
  BY DEF Convert
<1>2. \A a, b : DirectTrips(a, b)' = DirectTrips(a, b)
  BY <1>1 DEF DirectTrips, RoundTrips, Quoted
<1> SUFFICES ASSUME NEW s \in Stables, NEW t \in Tokens, NEW r \in DirectTrips(s, t), Approved(r)
             PROVE  \E q \in result' : Range(q.path) = {s, t} /\ q.gain >= r.gain
  BY <1>2 DEF TripsAreTraded
<1>3. PICK w \in found : w.path = <<s, t, s>> /\ w.gain >= r.gain
  BY DEF TripsAreKept
<1>4. Bounded(w) /\ IsChain(w) /\ Bounded(r) /\ Len(r.legs) = 2
  BY <1>3, DirectTripsAreBounded
<1> DEFINE path == <<s, t, s>>
<1>5. Len(path) = 3 /\ path[1] = s /\ path[3] = s
  OBVIOUS
<1>6. Range(path) = {s, t}
  <2>1. DOMAIN path = 1 .. 3 /\ path[1] = s /\ path[2] = t /\ path[3] = s
    OBVIOUS
  <2> HIDE DEF path
  <2>2. 1 .. 3 = {1, 2, 3}
    OBVIOUS
  <2> QED BY <2>1, <2>2 DEF Range
<1>7. w.path = path
  BY <1>3
<1> HIDE DEF path
<1>8. Len(w.legs) = 2
  <2>1. w.legs \in Seq(Range(w.legs)) /\ Len(w.path) = Len(w.legs) + 1
    BY <1>4 DEF IsChain, ChainOf
  <2>2. Len(w.legs) \in Nat
    BY <2>1, LenProperties
  <2>3. Len(w.path) = 3
    BY <1>5, <1>7
  <2>4. Len(w.legs) + 1 = 3
    BY <2>1, <2>3
  <2>5. \A n \in Nat : n + 1 = 3 => n = 2
    OBVIOUS
  <2> QED BY <2>2, <2>4, <2>5
<1>9. StableCentric(w.path)
  BY <1>5, <1>7 DEF StableCentric, Last
<1>10. Converted(w) = {w}
  BY <1>8, <1>9, HopsAssumption DEF Converted
<1>11. Approved(w)
  <2>1. Sized(w) /\ Sized(r)
    BY <1>4, <1>8 DEF Sized, Bounded
  <2> QED BY <1>3, <1>4, <1>8, <2>1, ApprovalGrows
<1>12. w \in result'
  BY <1>1, <1>3, <1>10, <1>11
<1> QED BY <1>3, <1>6, <1>7, <1>12

(* An edge of the radar is a trip of the direct search, or one turned.     *)
LEMMA EdgesAreTrips ==
  ASSUME QuotesFit, TripsAreTraded, NEW e, EdgeFits(e), NEW r \in Converted(e), Approved(r),
         \A i \in DOMAIN e.legs : Realistic(e.legs[i]), r.gain > MinSpread
  PROVE  \E q \in result : Range(q.path) = Range(e.path) /\ q.gain >= e.gain
<1>0. PICK a \in Tokens, b \in Tokens : \E t \in RoundTrips(a, b) :
        e = Route("pair", <<a, b, a>>, t) /\ e.gain <= MaxSpread
  BY DEF EdgeFits
<1>1. PICK t \in RoundTrips(a, b) : e = Route("pair", <<a, b, a>>, t) /\ e.gain <= MaxSpread
  BY <1>0
<1> DEFINE p == t[1]
           q == t[2]
<1>2. /\ p \in Quoted /\ q \in Quoted /\ p.from = a /\ p.to = b /\ q.from = b /\ q.to = a /\ p.venue # q.venue
      /\ t = <<p, q>> /\ p.gain \in Int /\ q.gain \in Int /\ a # b
  BY RoundTripGain DEF RoundTrips, QuotesFit
<1>3. e.gain = p.gain + q.gain /\ e.legs = t /\ e.path = <<a, b, a>>
  BY <1>1, RoundTripGain DEF Route
<1>4. Realistic(p) /\ Realistic(q)
  BY <1>2, <1>3
<1> HIDE DEF p, q
<1>5. \A x, y : Range(<<x, y, x>>) = {x, y}
  <2> SUFFICES ASSUME NEW x, NEW y PROVE Range(<<x, y, x>>) = {x, y}
    OBVIOUS
  <2> DEFINE path == <<x, y, x>>
  <2>1. DOMAIN path = 1 .. 3 /\ path[1] = x /\ path[2] = y /\ path[3] = x
    OBVIOUS
  <2> HIDE DEF path
  <2>2. 1 .. 3 = {1, 2, 3}
    OBVIOUS
  <2>3. Range(path) = {x, y}
    BY <2>1, <2>2 DEF Range
  <2> QED BY <2>3 DEF path
<1>6. e.legs[1] = p /\ e.legs[2] = q /\ Len(e.legs) = 2 /\ e.path[1] = a /\ e.path[2] = b /\ e.path[Len(e.path)] = a
  BY <1>2, <1>3
<1>7. ASSUME NEW x \in Stables, NEW y \in Tokens, {x, y} = {a, b}, NEW u \in Quoted, NEW v \in Quoted,
             u.from = x, u.to = y, v.from = y, v.to = x, u.venue # v.venue,
             Realistic(u), Realistic(v), u.gain + v.gain = e.gain, u.gain \in Int, v.gain \in Int,
             r.gain = e.gain, Len(r.legs) = 2
      PROVE  \E z \in result : Range(z.path) = Range(e.path) /\ z.gain >= e.gain
  <2> DEFINE trip == Route("pair", <<x, y, x>>, <<u, v>>)
  <2>1. <<u, v>> \in RoundTrips(x, y)
    BY <1>7 DEF RoundTrips
  <2>2. trip.gain = u.gain + v.gain /\ trip.legs = <<u, v>>
    BY <1>7, TripGain DEF Route
  <2>3. trip.gain <= MaxSpread /\ trip.gain > MinSpread
    BY <1>1, <1>7, <2>2
  <2>4. trip \in DirectTrips(x, y)
    BY <1>7, <2>1, <2>3 DEF DirectTrips
  <2>5. Len(trip.legs) = 2
    BY <2>2
  <2> HIDE DEF trip
  <2>6. Sized(trip) /\ Sized(r) /\ trip.gain = r.gain
    BY <1>7, <2>2, <2>5 DEF Sized
  <2>7. Approved(trip)
    <3>1. Len(trip.legs) = Len(r.legs) /\ trip.gain >= r.gain
      BY <1>7, <2>5, <2>6 DEF Sized
    <3> QED BY <2>6, <3>1, ApprovalGrows
  <2>8. PICK z \in result : Range(z.path) = {x, y} /\ z.gain >= trip.gain
    BY <2>4, <2>7 DEF TripsAreTraded
  <2>9. Range(e.path) = {x, y}
    BY <1>3, <1>5, <1>7
  <2>10. trip.gain = e.gain
    BY <1>7, <2>2
  <2> QED BY <2>8, <2>9, <2>10
<1>8. CASE r = e /\ StableCentric(e.path)
  <2>1. a \in Stables
    BY <1>6, <1>8 DEF StableCentric
  <2> QED BY <1>2, <1>3, <1>4, <1>6, <1>7, <1>8, <2>1
<1>9. CASE /\ e.path[2] \in Stables
           /\ r = Route("path", <<e.path[2], e.path[1], e.path[2]>>, <<e.legs[2], e.legs[1]>>)
  <2>1. b \in Stables
    BY <1>6, <1>9
  <2>2. r = Route("path", <<b, a, b>>, <<q, p>>)
    BY <1>6, <1>9
  <2>3. r.gain = q.gain + p.gain /\ Len(r.legs) = 2
    BY <1>2, <2>2, TripGain DEF Route
  <2>4. r.gain = e.gain /\ q.gain + p.gain = e.gain
    BY <1>2, <1>3, <2>3
  <2> QED BY <1>2, <1>4, <1>7, <2>1, <2>3, <2>4
<1> QED BY <1>8, <1>9 DEF Converted

LEMMA GainsInvHolds ==
  ASSUME PreparationInit
  PROVE  GainsInv
<1>1. found = {} /\ edges = {} /\ phase \in {"edges", "scan"}
  BY DEF PreparationInit, PipelineInit, Init, Unsearched
<1> QED BY <1>1 DEF GainsInv

LEMMA SearchKeepsGains ==
  ASSUME RoutesInv, GainsInv, phase # "scan", Next
  PROVE  GainsInv'
<1>1. QuotesFit /\ QuotesFit' /\ quotes' = quotes /\ \A r \in found : Bounded(r) /\ IsChain(r)
  <2>1. RoutesInv'
    BY SearchKeepsChains
  <2>2. phase' # "scan" /\ quotes' = quotes
    BY DEF Next, ExtractEdges, FindDirect, FindTriangular, FindBfCycles, Select, Convert, Done, vars
  <2> QED BY <2>1, <2>2 DEF RoutesInv, GainsInv
<1>2. \A a, b : RoundTrips(a, b)' = RoundTrips(a, b) /\ DirectTrips(a, b)' = DirectTrips(a, b)
  BY <1>1 DEF DirectTrips, RoundTrips, Quoted
<1>3. (\A e \in edges : EdgeFits(e)) => \A e \in edges : EdgeFits(e)'
  BY <1>2 DEF EdgeFits
<1>4. CASE ExtractEdges
  <2>1. phase' = "direct" /\ edges' = EdgesOf(AdjCycles) /\ found' = found
    BY <1>4 DEF ExtractEdges
  <2>2. \A e \in edges' : EdgeFits(e)
    BY <2>1, EdgesFit
  <2>3. \A e \in edges' : EdgeFits(e)'
    BY <1>2, <2>2 DEF EdgeFits
  <2> QED BY <1>1, <2>1, <2>3 DEF GainsInv
<1>5. CASE FindDirect
  <2>1. phase' = "triangular" /\ edges' = edges /\ TripsAreKept'
    BY <1>1, <1>5, DirectKeepsTrips DEF FindDirect
  <2>2. \A r \in found' : Bounded(r)
    <3> SUFFICES ASSUME NEW r \in found' PROVE Bounded(r)
      OBVIOUS
    <3>1. PICK a \in Tokens, b \in Tokens : r \in EvaluateDirect(a, b)
      BY <1>5 DEF FindDirect
    <3>2. r \in DirectTrips(a, b)
      BY <3>1, BestIsOfThem DEF EvaluateDirect
    <3> QED BY <1>1, <3>2, DirectTripsAreBounded
  <2> QED BY <1>3, <2>1, <2>2 DEF GainsInv
<1>6. CASE FindTriangular
  <2>1. /\ phase' = "bellman-ford" /\ edges' = edges /\ found \subseteq found'
        /\ found' \subseteq found \cup CrossSearch \cup IntraSearch
    BY <1>6 DEF FindTriangular
  <2>2. TripsAreKept'
    BY <1>1, <1>6, <2>1, MoreKeepsTrips DEF GainsInv, FindTriangular
  <2>3. \A r \in found' : Bounded(r)
    BY <1>1, <2>1, TriangularAreBounded
  <2> QED BY <1>3, <2>1, <2>2, <2>3 DEF GainsInv
<1>7. CASE FindBfCycles
  <2>1. phase' = "select" /\ edges' = edges /\ found' = found \cup BfCycles
    BY <1>7 DEF FindBfCycles
  <2>2. TripsAreKept'
    BY <1>1, <1>7, <2>1, MoreKeepsTrips DEF GainsInv, FindBfCycles
  <2>3. \A r \in found' : Bounded(r)
    BY <1>1, <2>1, BfCyclesAreBounded
  <2> QED BY <1>3, <2>1, <2>2, <2>3 DEF GainsInv
<1>8. CASE Select
  <2>1. phase' = "convert" /\ edges' = edges /\ TripsAreKept'
    BY <1>1, <1>8, SelectKeepsTrips DEF Select, GainsInv
  <2>2. found' \subseteq found
    BY <1>8, BestIsOfThem DEF Select
  <2> QED BY <1>1, <1>3, <2>1, <2>2 DEF GainsInv
<1>9. CASE Convert
  <2>1. phase' = "done" /\ edges' = edges /\ found' = found /\ TripsAreTraded'
    BY <1>1, <1>9, ConvertTradesTrips DEF Convert, GainsInv
  <2> QED BY <1>1, <1>3, <2>1 DEF GainsInv
<1>10. CASE Done
  <2>1. UNCHANGED <<phase, edges, found, result, quotes>>
    BY <1>10 DEF Done, vars
  <2>2. TripsAreTraded => TripsAreTraded'
    BY <1>2, <2>1 DEF TripsAreTraded
  <2>3. phase = "done"
    BY <1>10 DEF Done
  <2> QED BY <1>1, <1>3, <2>1, <2>2, <2>3 DEF GainsInv
<1> QED BY <1>4, <1>5, <1>6, <1>7, <1>8, <1>9, <1>10 DEF Next

LEMMA StutterKeepsGains ==
  ASSUME GainsInv, UNCHANGED vars
  PROVE  GainsInv'
<1>1. UNCHANGED <<phase, quotes, found, result, edges>>
  BY DEF vars
<1>2. \A a, b : RoundTrips(a, b)' = RoundTrips(a, b) /\ DirectTrips(a, b)' = DirectTrips(a, b)
  BY <1>1 DEF DirectTrips, RoundTrips, Quoted
<1>3. (TripsAreKept => TripsAreKept') /\ (TripsAreTraded => TripsAreTraded')
  BY <1>1, <1>2 DEF TripsAreKept, TripsAreTraded
<1>4. \A e \in edges : EdgeFits(e) => EdgeFits(e)'
  BY <1>2 DEF EdgeFits
<1> QED BY <1>1, <1>3, <1>4 DEF GainsInv

LEMMA PreparationKeepsGains ==
  ASSUME SearchInv, GainsInv, [PreparationNext]_preparationVars
  PROVE  GainsInv'
<1>1. CASE FindRoutes
  <2>1. CASE Scan
    BY <2>1, StutterKeepsGains DEF Scan
  <2>2. CASE HandOver
    <3>1. phase' = "edges" /\ edges' = {} /\ found' = found
      BY <2>2 DEF HandOver, GainsInv
    <3> QED BY <3>1 DEF GainsInv
  <2>3. CASE Search
    BY <2>3, SearchKeepsGains DEF Search, SearchInv
  <2> QED BY <1>1, <2>1, <2>2, <2>3 DEF FindRoutes, PipelineNext
<1>2. CASE SelectOpportunities
  <2>1. phase' = "handed" /\ edges' = {} /\ found' = {}
    BY <1>2 DEF SelectOpportunities, Forget
  <2> QED BY <2>1 DEF GainsInv
<1>3. CASE UNCHANGED pipelineVars
  BY <1>3, StutterKeepsGains DEF pipelineVars
<1> QED BY <1>1, <1>2, <1>3 DEF PreparationNext, preparationVars, Observe, ObservationEnds, Prepare,
        Take, ReadPremium, Judge, PaperGate, Debounce, Build, Recipient, Approve, Simulate, Send,
        BatchEnds, ExecTimeout, Reload, Over

(* What a conversion gives has a gain and legs to plan for.                *)
LEMMA ConvertedIsSized ==
  ASSUME NEW f, Bounded(f), IsChain(f), NEW r \in Converted(f)
  PROVE  Sized(r) /\ DOMAIN r.legs = 1 .. Len(r.legs)
<1>1. Tradable(r)
  BY ConversionKeeps
<1>2. r.legs \in Seq(Range(r.legs)) /\ Len(r.legs) >= 2
  BY <1>1 DEF Tradable, IsChain, ChainOf
<1>3. Len(r.legs) \in Nat \ {0} /\ DOMAIN r.legs = 1 .. Len(r.legs)
  <2>1. Len(r.legs) \in Nat /\ DOMAIN r.legs = 1 .. Len(r.legs)
    BY <1>2, LenProperties
  <2> QED BY <1>2, <2>1
<1>4. r.gain \in Int
  <2>1. CASE r = f
    BY <2>1 DEF Bounded
  <2>2. CASE /\ Len(f.legs) = 2
             /\ r = Route("path", <<f.path[2], f.path[1], f.path[2]>>, <<f.legs[2], f.legs[1]>>)
    <3>1. DOMAIN f.legs = 1 .. 2
      BY <2>2, LenProperties DEF IsChain, ChainOf
    <3>2. f.legs[1].gain \in Int /\ f.legs[2].gain \in Int
      BY <3>1 DEF Bounded
    <3>3. r.gain = f.legs[2].gain + f.legs[1].gain
      BY <2>2, <3>2, TripGain DEF Route
    <3> QED BY <3>2, <3>3
  <2> QED BY <2>1, <2>2 DEF Converted
<1> QED BY <1>3, <1>4 DEF Sized

(* No round trip worth its costs is lost between the radar, the strategies,*)
(* deduplication, conversion and the gates (NoTripIsLost): for every price *)
(* map, every market and every order the map is iterated in.               *)
THEOREM NoTripLost == PreparationSpec => []NoTripIsLost
<1>1. SearchInv /\ GainsInv => NoTripIsLost
  <2> SUFFICES ASSUME SearchInv, GainsInv, phase = "done"
               PROVE  TripsAreTraded /\ EdgesAreTraded
    BY DEF NoTripIsLost
  <2>1. QuotesFit /\ TripsAreTraded /\ \A e \in edges : EdgeFits(e)
    BY DEF SearchInv, RoutesInv, GainsInv
  <2>2. EdgesAreTraded
    BY <2>1, EdgesAreTrips DEF EdgesAreTraded
  <2> QED BY <2>1, <2>2
<1> QED BY <1>1, SearchInvHolds, GainsInvHolds, PreparationKeepsSearch, PreparationKeepsGains, PTL DEF PreparationSpec

(* The slippage plan of whatever a search converts is within what is       *)
(* allowed as soon as that covers the minimum of every hop                 *)
(* (PlanFitsItsAllowance): the assertion after the loop of                 *)
(* calculate_slippage_protection has no other way to fail, for any number  *)
(* of hops and any limits.                                                 *)
THEOREM PlansFit == PreparationSpec => []PlanFitsItsAllowance
<1>1. SearchInv /\ GainsInv => PlanFitsItsAllowance
  <2> SUFFICES ASSUME SearchInv, GainsInv, NEW f \in found, NEW r \in Converted(f),
                      Allowed(r) >= Len(r.legs) * MinSlippage
               PROVE  /\ Total(SlippagePlan(r)) <= Allowed(r)
                      /\ \A i \in DOMAIN r.legs : SlippagePlan(r)[i] >= MinSlippage
    BY DEF PlanFitsItsAllowance
  <2>1. Bounded(f) /\ IsChain(f)
    BY DEF SearchInv, RoutesInv, GainsInv
  <2>2. Sized(r) /\ DOMAIN r.legs = 1 .. Len(r.legs)
    BY <2>1, ConvertedIsSized
  <2> QED BY <2>2, PlanIs
<1> QED BY <1>1, SearchInvHolds, GainsInvHolds, PreparationKeepsSearch, PreparationKeepsGains, PTL DEF PreparationSpec

-------------------------------------------------------------------------------
(* The tier a leg is built with.  A direction has one best executable tier,*)
(* so what is cached for it is what each of its prices was quoted at       *)
(* (OneTier); with one V3 venue the tiers of a scan are those of its       *)
(* prices, and no price of an earlier scan is left (TiersInv).             *)
OneTier(prices) ==
  /\ \A p \in prices : <<p.from, p.to>> \in Asked /\ IsExecutable(p.pool)
  /\ \A p, q \in prices : p.from = q.from /\ p.to = q.to => p.pool = q.pool
TiersAgree(prices) ==
  \A p \in prices : IsExecutable(p.pool) /\ legTiers[<<p.from, p.to>>] = p.pool
TiersInv ==
  /\ stage \in {"warm", "quote", "gate", "fallback", "delivered"} /\ DOMAIN legTiers = Asked
  /\ stage = "gate" /\ Kind(Venue) = "V3" => TiersAgree(got)
  /\ \A i \in DOMAIN Adapters :
       /\ Kind(Adapters[i]) = "V3" => TiersAgree(priceMap[Adapters[i]])
       /\ i > at \/ (i = at /\ stage # "delivered") => priceMap[Adapters[i]] = {}

LEMMA OffersAreNumbers ==
  ASSUME market \in Markets, NEW v, NEW d \in Asked, NEW lost
  PROVE  \A t \in DOMAIN Offers(v, d, lost) : Offers(v, d, lost)[t] \in Int
<1> SUFFICES ASSUME NEW t \in DOMAIN Offers(v, d, lost) PROVE Offers(v, d, lost)[t] \in Int
  OBVIOUS
<1> DEFINE p == Pool(v, d, t)
<1>1. p \in DOMAIN market /\ p.pair = {d[1], d[2]}
  BY DEF Offers, Exists, Pool, PairOf
<1>2. market[p].gain[d] \in Int /\ market[p].slope \in Int
  BY <1>1, PoolsAssumption DEF Asked
<1>3. Offers(v, d, lost)[t] = market[p].gain[d] - market[p].slope * 1
  BY DEF Offers, Offer
<1> HIDE DEF p
<1> QED BY <1>2, <1>3

LEMMA ExecutableTiersAre ==
  ASSUME NEW t, IsExecutable(t)
  PROVE  t \in Nat
<1>1. ExecutableTiers \in Seq(Nat)
  BY DEF ExecutableTiers
<1> HIDE DEF ExecutableTiers
<1> QED BY <1>1, LenProperties DEF IsExecutable, Range

LEMMA OneIsSelected ==
  ASSUME market \in Markets, NEW v, NEW d \in Asked, NEW lost,
         NEW t \in SelectExecutable(Offers(v, d, lost)), NEW u \in SelectExecutable(Offers(v, d, lost))
  PROVE  t = u /\ IsExecutable(t)
<1> DEFINE offers == Offers(v, d, lost)
<1>1. offers[t] \in Int /\ offers[u] \in Int /\ IsExecutable(t) /\ IsExecutable(u)
  BY OffersAreNumbers DEF SelectExecutable
<1>2. Beats(offers, t, u) /\ Beats(offers, u, t)
  BY DEF SelectExecutable
<1> HIDE DEF offers
<1>3. t \in Nat /\ u \in Nat
  BY <1>1, ExecutableTiersAre
<1> QED BY <1>1, <1>2, <1>3 DEF Beats

LEMMA V3PricesAreSelected ==
  ASSUME NEW v, NEW d, NEW fault, NEW p \in V3Quote(v, d, fault) \cup V3Price(v, d, fault)
  PROVE  p.from = d[1] /\ p.to = d[2] /\ p.pool \in SelectExecutable(Offers(v, d, fault))
<1>1. CASE p \in V3Quote(v, d, fault)
  BY <1>1 DEF V3Quote, Price
<1>2. CASE p \in V3Price(v, d, fault)
  BY <1>2 DEF V3Price, Price
<1> QED BY <1>1, <1>2

LEMMA V3AnswersHaveOneTier ==
  ASSUME market \in Markets, NEW v, Kind(v) = "V3", NEW fault, NEW D, D \subseteq Asked
  PROVE  OneTier(PricesFor(v, D, fault)) /\ OneTier(DirectPrices(v, fault))
<1>1. ASSUME NEW prices,
             \A p \in prices : \E d \in Asked :
               p.from = d[1] /\ p.to = d[2] /\ p.pool \in SelectExecutable(Offers(v, d, fault))
      PROVE  OneTier(prices)
  <2>1. ASSUME NEW d \in Asked PROVE d = <<d[1], d[2]>>
    BY VenuesAssumption DEF Asked
  <2>2. \A p \in prices : <<p.from, p.to>> \in Asked /\ p.pool \in SelectExecutable(Offers(v, <<p.from, p.to>>, fault))
    BY <1>1, <2>1
  <2>3. \A p \in prices : IsExecutable(p.pool)
    <3> SUFFICES ASSUME NEW p \in prices PROVE IsExecutable(p.pool)
      OBVIOUS
    <3>1. \E d \in Asked : p.pool \in SelectExecutable(Offers(v, d, fault))
      BY <2>2
    <3> QED BY <3>1, OneIsSelected
  <2>4. ASSUME NEW p \in prices, NEW q \in prices, p.from = q.from, p.to = q.to PROVE p.pool = q.pool
    <3> DEFINE d == <<p.from, p.to>>
    <3>1. d \in Asked /\ p.pool \in SelectExecutable(Offers(v, d, fault)) /\ q.pool \in SelectExecutable(Offers(v, d, fault))
      BY <2>2, <2>4
    <3> HIDE DEF d
    <3> QED BY <3>1, OneIsSelected
  <2>5. \A p \in prices : <<p.from, p.to>> \in Asked
    BY <2>2
  <2> QED BY <2>3, <2>4, <2>5 DEF OneTier
<1>2. OneTier(PricesFor(v, D, fault))
  <2>1. ASSUME NEW p \in PricesFor(v, D, fault)
        PROVE  \E d \in Asked : p.from = d[1] /\ p.to = d[2] /\ p.pool \in SelectExecutable(Offers(v, d, fault))
    <3>1. PICK d \in D : p \in QuoteOf(v, d, fault)
      BY DEF PricesFor
    <3>2. p \in V3Quote(v, d, fault)
      BY <3>1 DEF QuoteOf
    <3> QED BY <3>2, V3PricesAreSelected
  <2> QED BY <1>1, <2>1
<1>3. OneTier(DirectPrices(v, fault))
  <2>1. ASSUME NEW p \in DirectPrices(v, fault)
        PROVE  \E d \in Asked : p.from = d[1] /\ p.to = d[2] /\ p.pool \in SelectExecutable(Offers(v, d, fault))
    <3>1. PICK d \in Asked : p \in PriceOf(v, d, fault)
      BY DEF DirectPrices
    <3>2. p \in V3Price(v, d, fault)
      BY <3>1 DEF PriceOf
    <3> QED BY <3>2, V3PricesAreSelected
  <2> QED BY <1>1, <2>1
<1> QED BY <1>2, <1>3

LEMMA CachedAgrees ==
  ASSUME NEW prices, OneTier(prices), Cached(prices), DOMAIN legTiers = Asked
  PROVE  TiersAgree(prices)' /\ DOMAIN legTiers' = Asked
<1>1. legTiers' = [d \in DOMAIN legTiers |->
        IF LegTier(prices, d) = {} THEN legTiers[d] ELSE CHOOSE t \in LegTier(prices, d) : TRUE]
  BY DEF Cached
<1>2. ASSUME NEW p \in prices PROVE IsExecutable(p.pool) /\ legTiers'[<<p.from, p.to>>] = p.pool
  <2> DEFINE d == <<p.from, p.to>>
  <2>1. d \in Asked /\ IsExecutable(p.pool)
    BY DEF OneTier
  <2>2. LegTier(prices, d) = {p.pool}
    <3>1. p.pool \in LegTier(prices, d)
      BY <2>1 DEF LegTier
    <3>2. ASSUME NEW t \in LegTier(prices, d) PROVE t = p.pool
      <4>1. PICK q \in prices : <<q.from, q.to>> = d /\ t = q.pool
        BY DEF LegTier
      <4> QED BY <4>1 DEF OneTier
    <3> QED BY <3>1, <3>2
  <2> HIDE DEF d
  <2>3. legTiers'[d] = CHOOSE t \in {p.pool} : TRUE
    BY <1>1, <2>1, <2>2
  <2> QED BY <2>1, <2>3 DEF d
<1> QED BY <1>1, <1>2 DEF TiersAgree

LEMMA RememberedAgrees ==
  ASSUME market \in Markets, at \in 1 .. Len(Adapters), DOMAIN legTiers = Asked,
         NEW prices, OneTier(prices) \/ Kind(Venue) # "V3", Remembered(Venue, prices)
  PROVE  /\ DOMAIN legTiers' = Asked
         /\ Kind(Venue) = "V3" => \A p \in prices : IsExecutable(p.pool) /\ legTiers'[<<p.from, p.to>>] = p.pool
         /\ Kind(Venue) # "V3" => legTiers' = legTiers
<1>1. CASE Kind(Venue) = "V3"
  BY <1>1, CachedAgrees DEF Remembered, TiersAgree
<1>2. CASE Kind(Venue) # "V3"
  BY <1>2 DEF Remembered
<1> QED BY <1>1, <1>2

(* While a venue is asked its own prices are not there yet, and no other   *)
(* is V3: what is cached then disturbs no delivered price.                 *)
LEMMA AskingKeepsTiers ==
  ASSUME ScanInv, TiersInv, stage # "delivered", priceMap' = priceMap, at' = at,
         Kind(Venue) = "V3" \/ legTiers' = legTiers
  PROVE  \A i \in DOMAIN Adapters :
           /\ Kind(Adapters[i]) = "V3" => TiersAgree(priceMap[Adapters[i]])'
           /\ i > at' \/ i = at' => priceMap'[Adapters[i]] = {}
<1> SUFFICES ASSUME NEW i \in DOMAIN Adapters
             PROVE  /\ Kind(Adapters[i]) = "V3" => TiersAgree(priceMap[Adapters[i]])'
                    /\ i > at' \/ i = at' => priceMap'[Adapters[i]] = {}
  OBVIOUS
<1>1. at \in DOMAIN Adapters
  BY VenuesAssumption, LenProperties DEF ScanInv
<1>2. i > at' \/ i = at' => priceMap'[Adapters[i]] = {}
  BY DEF TiersInv
<1>3. CASE legTiers' = legTiers
  BY <1>2, <1>3 DEF TiersInv, TiersAgree
<1>4. CASE Kind(Venue) = "V3"
  <2>1. Kind(Adapters[i]) = "V3" => i = at
    BY <1>1, <1>4, AdaptersAssumption DEF Venue
  <2>2. i = at => priceMap'[Adapters[i]] = {}
    BY DEF TiersInv
  <2> QED BY <1>2, <2>1, <2>2 DEF TiersAgree
<1> QED BY <1>2, <1>3, <1>4

LEMMA AnsweringKeepsTiers ==
  ASSUME ScanInv, TiersInv, stage # "delivered", stage' \in {"gate", "fallback"},
         priceMap' = priceMap, at' = at, NEW prices, OneTier(prices) \/ Kind(Venue) # "V3",
         Remembered(Venue, prices), stage' = "gate" => got' = prices
  PROVE  TiersInv'
<1>1. market \in Markets /\ at \in 1 .. Len(Adapters) /\ DOMAIN legTiers = Asked
  BY DEF ScanInv, TiersInv
<1>2. /\ DOMAIN legTiers' = Asked
      /\ Kind(Venue) = "V3" => \A p \in prices : IsExecutable(p.pool) /\ legTiers'[<<p.from, p.to>>] = p.pool
      /\ Kind(Venue) = "V3" \/ legTiers' = legTiers
  BY <1>1, RememberedAgrees
<1>3. \A i \in DOMAIN Adapters :
        /\ Kind(Adapters[i]) = "V3" => TiersAgree(priceMap[Adapters[i]])'
        /\ i > at' \/ i = at' => priceMap'[Adapters[i]] = {}
  BY <1>2, AskingKeepsTiers
<1>4. Venue' = Venue
  BY DEF Venue
<1>5. stage' = "gate" /\ Kind(Venue') = "V3" => TiersAgree(got)'
  BY <1>2, <1>4 DEF TiersAgree
<1> QED BY <1>2, <1>3, <1>5 DEF TiersInv

LEMMA GateKeepsTiers ==
  ASSUME ScanInv, TiersInv, Gate
  PROVE  TiersInv'
<1>1. PICK fault : priceMap' = [priceMap EXCEPT ![Venue] = Pruned({p \in got : Passes(Venue, p, fault)})]
  BY DEF Gate
<1> DEFINE kept == Pruned({p \in got : Passes(Venue, p, fault)})
<1>2. kept \subseteq got
  BY DEF Pruned
<1> HIDE DEF kept
<1>3. at \in DOMAIN Adapters /\ DOMAIN Adapters = 1 .. Len(Adapters) /\ Len(Adapters) \in Nat
  BY VenuesAssumption, LenProperties DEF ScanInv
<1>4. Venue \in DOMAIN priceMap
  BY <1>3 DEF ScanInv, Venue, Range
<1>5. priceMap'[Venue] = kept /\ \A v \in DOMAIN priceMap : v # Venue => priceMap'[v] = priceMap[v]
  BY <1>1, <1>4 DEF kept
<1>6. legTiers' = legTiers /\ stage = "gate" /\ stage' \in {"quote", "delivered"}
  BY DEF Gate, NextVenue
<1>7. ASSUME NEW i \in DOMAIN Adapters
      PROVE  /\ Kind(Adapters[i]) = "V3" => TiersAgree(priceMap'[Adapters[i]])
             /\ i > at => priceMap'[Adapters[i]] = {}
  <2>1. Adapters[i] \in DOMAIN priceMap
    BY <1>3 DEF ScanInv, Range
  <2>2. CASE i = at
    <3>1. Adapters[i] = Venue
      BY <2>2 DEF Venue
    <3>2. Kind(Venue) = "V3" => TiersAgree(got)
      BY <1>6 DEF TiersInv
    <3>3. Kind(Venue) = "V3" => TiersAgree(kept)
      BY <1>2, <3>2 DEF TiersAgree
    <3> QED BY <1>3, <1>5, <2>2, <3>1, <3>3
  <2>3. CASE i # at
    <3>1. Adapters[i] # Venue
      BY <1>3, <2>3, AdaptersAssumption DEF Venue
    <3>2. priceMap'[Adapters[i]] = priceMap[Adapters[i]]
      BY <1>5, <2>1, <3>1
    <3> QED BY <3>2 DEF TiersInv
  <2> QED BY <2>2, <2>3
<1>8. \A i \in DOMAIN Adapters : Kind(Adapters[i]) = "V3" => TiersAgree(priceMap[Adapters[i]])'
  BY <1>6, <1>7 DEF TiersAgree
<1>9. \A i \in DOMAIN Adapters : i > at' \/ (i = at' /\ stage' # "delivered") => i > at
  BY <1>3 DEF Gate, NextVenue, ScanInv
<1>10. \A i \in DOMAIN Adapters :
         i > at' \/ (i = at' /\ stage' # "delivered") => priceMap'[Adapters[i]] = {}
  BY <1>7, <1>9
<1> QED BY <1>6, <1>8, <1>10 DEF TiersInv

LEMMA ScanKeepsTiers ==
  ASSUME ScanInv, TiersInv, ScanNext
  PROVE  TiersInv'
<1>1. Kind(Venue) # "V3" \/ Kind(Venue) = "V3"
  OBVIOUS
<1>2. market \in Markets
  BY DEF ScanInv
<1>3. CASE Warm
  <2>1. /\ stage = "warm" /\ stage' = "quote"
        /\ UNCHANGED <<at, got, priceMap, legTiers>>
    BY <1>3 DEF Warm
  <2> QED BY <2>1 DEF TiersInv, TiersAgree
<1>4. CASE Quote
  <2>1. PICK fault : got' = MulticallPrices(Venue, fault)
    BY <1>4 DEF Quote
  <2>2. Kind(Venue) = "V3" => Answered(Venue, fault) \subseteq Asked
    BY DEF Answered, Prepared, Resolved
  <2>3. OneTier(got') \/ Kind(Venue) # "V3"
    BY <1>2, <2>1, <2>2, V3AnswersHaveOneTier DEF MulticallPrices
  <2>4. /\ stage # "delivered" /\ stage' = "gate" /\ priceMap' = priceMap /\ at' = at
        /\ Remembered(Venue, got')
    BY <1>4 DEF Quote
  <2> QED BY <2>3, <2>4, AnsweringKeepsTiers
<1>5. CASE QuoteFails
  <2>1. PICK k : Remembered(Venue, PricesFor(Venue, AnsweredBefore(Venue, k), NoFault))
    BY <1>5 DEF QuoteFails
  <2> DEFINE prices == PricesFor(Venue, AnsweredBefore(Venue, k), NoFault)
  <2>2. Kind(Venue) = "V3" => AnsweredBefore(Venue, k) \subseteq Asked
    BY DEF AnsweredBefore, Prepared, Resolved
  <2>3. OneTier(prices) \/ Kind(Venue) # "V3"
    BY <1>2, <2>2, V3AnswersHaveOneTier
  <2>4. stage # "delivered" /\ stage' = "fallback" /\ priceMap' = priceMap /\ at' = at
    BY <1>5 DEF QuoteFails
  <2>5. Remembered(Venue, prices)
    BY <2>1
  <2> HIDE DEF prices
  <2> QED BY <2>3, <2>4, <2>5, AnsweringKeepsTiers
<1>6. CASE Fallback
  <2>1. PICK fault : got' = DirectPrices(Venue, fault)
    BY <1>6 DEF Fallback
  <2>2. OneTier(got') \/ Kind(Venue) # "V3"
    BY <1>2, <2>1, V3AnswersHaveOneTier
  <2>3. /\ stage # "delivered" /\ stage' = "gate" /\ priceMap' = priceMap /\ at' = at
        /\ Remembered(Venue, got')
    BY <1>6 DEF Fallback
  <2> QED BY <2>2, <2>3, AnsweringKeepsTiers
<1>7. CASE Gate
  BY <1>7, GateKeepsTiers
<1>8. CASE NextScan
  <2>1. /\ stage' = "quote" /\ legTiers' = legTiers /\ \A v \in Range(Adapters) : priceMap'[v] = {}
    BY <1>8 DEF NextScan
  <2>2. \A i \in DOMAIN Adapters : priceMap'[Adapters[i]] = {}
    BY <2>1 DEF Range
  <2> QED BY <2>1, <2>2 DEF TiersInv, TiersAgree
<1> QED BY <1>3, <1>4, <1>5, <1>6, <1>7, <1>8 DEF ScanNext

LEMMA ScanStaysApart ==
  ASSUME stage = "apart"
  PROVE  ~ScanNext
  BY DEF ScanNext, Warm, Quote, QuoteFails, Fallback, Gate, NextScan

TiersAreKept == stage = "apart" \/ TiersInv

LEMMA TiersInvHolds ==
  ASSUME PreparationInit
  PROVE  TiersAreKept
<1>1. CASE NotScanned
  BY <1>1 DEF NotScanned, TiersAreKept
<1>2. CASE ScanInit
  <2>1. /\ stage = "warm" /\ legTiers = [d \in Asked |-> 0] /\ priceMap = [v \in Range(Adapters) |-> {}]
    BY <1>2 DEF ScanInit
  <2>2. \A i \in DOMAIN Adapters : priceMap[Adapters[i]] = {}
    BY <2>1 DEF Range
  <2> QED BY <2>1, <2>2 DEF TiersInv, TiersAgree, TiersAreKept
<1> QED BY <1>1, <1>2 DEF PreparationInit, PipelineInit, TiersAreKept

(* A step of the preparation is one of the scan, forgets it or leaves it.  *)
LEMMA StepsOfTheScan ==
  ASSUME [PreparationNext]_preparationVars
  PROVE  (phase = "scan" /\ ScanNext) \/ stage' = "apart" \/ UNCHANGED scanVars
<1>1. CASE FindRoutes
  BY <1>1 DEF FindRoutes, PipelineNext, Scan, HandOver, Search
<1>2. CASE SelectOpportunities
  BY <1>2 DEF SelectOpportunities, Forget
<1>3. CASE UNCHANGED pipelineVars
  BY <1>3 DEF pipelineVars
<1> QED BY <1>1, <1>2, <1>3 DEF PreparationNext, preparationVars, Observe, ObservationEnds, Prepare,
        Take, ReadPremium, Judge, PaperGate, Debounce, Build, Recipient, Approve, Simulate, Send,
        BatchEnds, ExecTimeout, Reload, Over

LEMMA PreparationKeepsTiers ==
  ASSUME SearchInv, TiersAreKept, [PreparationNext]_preparationVars
  PROVE  TiersAreKept'
<1>1. CASE phase = "scan" /\ ScanNext
  BY <1>1, ScanStaysApart, ScanKeepsTiers DEF SearchInv, TiersAreKept
<1>2. CASE UNCHANGED scanVars
  <2>1. UNCHANGED <<stage, at, got, priceMap, legTiers>>
    BY <1>2 DEF scanVars
  <2>2. TiersInv => TiersInv'
    BY <2>1 DEF TiersInv, TiersAgree, Venue
  <2> QED BY <2>1, <2>2 DEF TiersAreKept
<1> QED BY <1>1, <1>2, StepsOfTheScan DEF TiersAreKept

(* A step is built with the tier its price was quoted at                   *)
(* (TierIsTheQuoted): whatever was quoted at another tier before, failed in*)
(* between or was asked pair by pair instead.                              *)
THEOREM TiersAreQuoted == PreparationSpec => []TierIsTheQuoted
<1>1. TiersAreKept => TierIsTheQuoted
  <2> SUFFICES ASSUME TiersInv, NEW v \in Range(Adapters), Kind(v) = "V3", NEW p \in priceMap[v]
               PROVE  IsExecutable(p.pool) /\ legTiers[<<p.from, p.to>>] = p.pool
    BY DEF TierIsTheQuoted, TiersAreKept
  <2>1. PICK i \in DOMAIN Adapters : v = Adapters[i]
    BY DEF Range
  <2> QED BY <2>1 DEF TiersInv, TiersAgree
<1> QED BY <1>1, SearchInvHolds, TiersInvHolds, PreparationKeepsSearch, PreparationKeepsTiers, PTL DEF PreparationSpec

-------------------------------------------------------------------------------
(* What one failed read hides.  A venue that is not V3 has one pool for a  *)
(* pair, so the cache holds no other (CacheFits) and both directions are   *)
(* measured alike; what it answers is what it would answer without the     *)
(* failure, less the directions the failure is about (Answers); the gate   *)
(* and the pruning take nothing more from it (Covered).                    *)
Own(v, tier) == (Kind(v) = "V2" => tier = DefaultFee) /\ (Kind(v) = "Curve" => tier = CurveFee)
CacheFits == \A key \in DOMAIN poolCache : Own(key.venue, poolCache[key])
Same(q, p) == q.from = p.from /\ q.to = p.to /\ q.gain = p.gain /\ q.pool = p.pool
Answers(v, prices, lost) ==
  /\ \A q \in prices : \E p \in MulticallPrices(v, NoFault) : Same(q, p)
  /\ \A p \in MulticallPrices(v, NoFault) :
       <<v, <<p.from, p.to>>>> \in lost \/ \E q \in prices : Same(q, p)
Covered(v, prices, lost) ==
  \A p \in Nominal(v) :
    \/ <<v, <<p.from, p.to>>>> \in lost
    \/ \E q \in prices : q.from = p.from /\ q.to = p.to
HiddenInv ==
  /\ CacheFits /\ (stage = "warm" => touched = {})
  /\ stage = "gate" /\ Kind(Venue) # "V3" => Answers(Venue, got, touched)
  /\ \A i \in DOMAIN Adapters :
       (i < at \/ stage = "delivered") /\ Kind(Adapters[i]) # "V3" =>
         Covered(Adapters[i], priceMap[Adapters[i]], touched)

LEMMA LookUpsAreOwn ==
  ASSUME NEW v, Kind(v) \in {"V3", "V2", "Curve"}, NEW d, NEW hint, NEW lost, NEW t \in LookUp(v, d, hint, lost)
  PROVE  Own(v, t)
  BY DEF LookUp, V2LookUp, CurveLookUp, Own

LEMMA MeasuredAreOwn ==
  ASSUME CacheFits, NEW v, Kind(v) \in {"V3", "V2", "Curve"}, NEW p, NEW lost, NEW t \in Measured(v, p, lost)
  PROVE  Own(v, t)
<1>1. KeyOf(v, p).venue = v
  BY DEF KeyOf, PoolKey
<1>2. CASE KeyOf(v, p) \in DOMAIN poolCache
  BY <1>1, <1>2 DEF Measured, CacheFits
<1>3. CASE KeyOf(v, p) \notin DOMAIN poolCache
  BY <1>3, LookUpsAreOwn DEF Measured
<1> QED BY <1>2, <1>3

LEMMA LookedUpIs ==
  ASSUME NEW v, NEW fault, NEW key \in DOMAIN LookedUp(v, fault)
  PROVE  \/ key \in DOMAIN poolCache /\ LookedUp(v, fault)[key] = poolCache[key]
         \/ \E p \in got : /\ KeyOf(v, p) = key /\ key \notin DOMAIN poolCache
                           /\ LookedUp(v, fault)[key] \in Measured(v, p, Lost(v, p, fault))
<1> DEFINE found_ == {p \in got : KeyOf(v, p) \notin DOMAIN poolCache /\ Measured(v, p, Lost(v, p, fault)) # {}}
           all == UNION {Measured(v, p, Lost(v, p, fault)) : p \in {q \in found_ : KeyOf(v, q) = key}}
<1>1. CASE key \in DOMAIN poolCache
  BY <1>1 DEF LookedUp
<1>2. CASE key \notin DOMAIN poolCache
  <2>1. PICK p \in found_ : KeyOf(v, p) = key
    BY <1>2 DEF LookedUp
  <2>2. LookedUp(v, fault)[key] = CHOOSE t \in all : TRUE
    BY <1>2 DEF LookedUp
  <2>3. all # {}
    BY <2>1
  <2> DEFINE t == CHOOSE u \in all : TRUE
  <2>4. t \in all
    BY <2>3
  <2>5. LookedUp(v, fault)[key] = t
    BY <2>2
  <2> HIDE DEF t
  <2>6. PICK q \in found_ : KeyOf(v, q) = key /\ t \in Measured(v, q, Lost(v, q, fault))
    BY <2>4
  <2> QED BY <1>2, <2>5, <2>6
<1> QED BY <1>1, <1>2

LEMMA LookedUpFits ==
  ASSUME CacheFits, NEW v, Kind(v) \in {"V3", "V2", "Curve"}, NEW fault, poolCache' = LookedUp(v, fault)
  PROVE  CacheFits'
<1> SUFFICES ASSUME NEW key \in DOMAIN poolCache' PROVE Own(key.venue, poolCache'[key])
  BY DEF CacheFits
<1>1. CASE key \in DOMAIN poolCache /\ poolCache'[key] = poolCache[key]
  BY <1>1 DEF CacheFits
<1>2. CASE \E p \in got : KeyOf(v, p) = key /\ poolCache'[key] \in Measured(v, p, Lost(v, p, fault))
  <2>1. key.venue = v
    BY <1>2 DEF KeyOf, PoolKey
  <2> QED BY <1>2, <2>1, MeasuredAreOwn
<1> QED BY <1>1, <1>2, LookedUpIs

LEMMA WarmedIs ==
  ASSUME NEW fault, NEW keys, keys = {k \in WarmKeys : WarmPool(k, fault) # {}},
         poolCache' = [key \in {PoolKey(k[1], k[2], k[3]) : k \in keys} |->
                         CHOOSE t \in UNION {WarmPool(k, fault) : k \in {j \in keys : PoolKey(j[1], j[2], j[3]) = key}} : TRUE],
         NEW key \in DOMAIN poolCache'
  PROVE  \E k \in WarmKeys : PoolKey(k[1], k[2], k[3]) = key /\ poolCache'[key] \in WarmPool(k, fault)
<1> DEFINE all == UNION {WarmPool(k, fault) : k \in {j \in keys : PoolKey(j[1], j[2], j[3]) = key}}
           t == CHOOSE u \in all : TRUE
<1>1. PICK k \in keys : PoolKey(k[1], k[2], k[3]) = key
  OBVIOUS
<1>2. poolCache'[key] = t
  OBVIOUS
<1>3. all # {}
  BY <1>1
<1>4. t \in all
  BY <1>3
<1> HIDE DEF t
<1>5. PICK j \in keys : PoolKey(j[1], j[2], j[3]) = key /\ t \in WarmPool(j, fault)
  BY <1>4
<1> QED BY <1>2, <1>5

LEMMA WarmUpFits ==
  ASSUME CacheFits, Warm
  PROVE  CacheFits'
<1>1. CASE WarmUpFails
  BY <1>1 DEF WarmUpFails, CacheFits
<1>2. CASE WarmUp
  <2>1. PICK fault : LET keys == {k \in WarmKeys : WarmPool(k, fault) # {}} IN
          poolCache' = [key \in {PoolKey(k[1], k[2], k[3]) : k \in keys} |->
                          CHOOSE t \in UNION {WarmPool(k, fault) : k \in {j \in keys : PoolKey(j[1], j[2], j[3]) = key}} : TRUE]
    BY <1>2 DEF WarmUp
  <2> SUFFICES ASSUME NEW key \in DOMAIN poolCache' PROVE Own(key.venue, poolCache'[key])
    BY DEF CacheFits
  <2>2. PICK k \in WarmKeys : PoolKey(k[1], k[2], k[3]) = key /\ poolCache'[key] \in WarmPool(k, fault)
    BY <2>1, WarmedIs
  <2>3. key.venue = k[1] /\ Kind(k[1]) \in {"V3", "V2", "Curve"}
    BY <2>2, VenuesAssumption DEF PoolKey, WarmKeys
  <2>4. \E lost : poolCache'[key] \in LookUp(k[1], k[2], k[3], lost)
    BY <2>2 DEF WarmPool
  <2> QED BY <2>3, <2>4, LookUpsAreOwn
<1> QED BY <1>1, <1>2 DEF Warm

LEMMA QuotedDirection ==
  ASSUME NEW v, Kind(v) \in {"V2", "Curve"}, NEW d, NEW fault, NEW p \in QuoteOf(v, d, fault)
  PROVE  /\ p.from = d[1] /\ p.to = d[2] /\ Own(v, p.pool)
         /\ \E gain, fee, pool : p = [from |-> d[1], to |-> d[2], gain |-> gain, fee |-> fee, pool |-> pool]
<1>1. CASE Kind(v) = "V2"
  <2>1. p \in V2Quote(v, d, fault)
    BY <1>1 DEF QuoteOf
  <2>2. PICK t \in DOMAIN Offers(v, d, fault) : p = Price(d, Offers(v, d, fault)[t], DefaultFee, t)
    BY <2>1 DEF V2Quote
  <2>3. t = DefaultFee
    BY <1>1, <2>2 DEF Offers, TiersOf
  <2> QED BY <1>1, <2>2, <2>3 DEF Price, Own
<1>2. CASE Kind(v) = "Curve"
  <2>1. p \in CurveQuote(v, d, fault)
    BY <1>2 DEF QuoteOf
  <2>2. PICK t \in DOMAIN Offers(v, d, fault) : p = Price(d, Offers(v, d, fault)[t], CurveFee, t)
    BY <2>1 DEF CurveQuote
  <2>3. t = CurveFee
    BY <1>2, <2>2 DEF Offers, TiersOf
  <2> QED BY <1>2, <2>2, <2>3 DEF Price, Own
<1> QED BY <1>1, <1>2

LEMMA OffersStay ==
  ASSUME NEW v, NEW d, NEW fault
  PROVE  /\ DOMAIN Offers(v, d, fault) \subseteq DOMAIN Offers(v, d, NoFault)
         /\ \A t \in DOMAIN Offers(v, d, fault) : Offers(v, d, fault)[t] = Offers(v, d, NoFault)[t]
         /\ ~(fault.kind = "read" /\ fault.dir = d) => Offers(v, d, fault) = Offers(v, d, NoFault)
<1>1. \A u : [kind |-> "read", dir |-> d, tier |-> u] # NoFault
  <2>1. \A u : [kind |-> "read", dir |-> d, tier |-> u].kind = "read"
    OBVIOUS
  <2>2. NoFault.kind = "none"
    BY DEF NoFault
  <2> QED BY <2>1, <2>2
<1>2. \A u : [kind |-> "read", dir |-> d, tier |-> u] = fault => fault.kind = "read" /\ fault.dir = d
  <2>1. \A u : [kind |-> "read", dir |-> d, tier |-> u].kind = "read" /\ [kind |-> "read", dir |-> d, tier |-> u].dir = d
    OBVIOUS
  <2> QED BY <2>1
<1>3. ~(fault.kind = "read" /\ fault.dir = d) =>
        \A u : [kind |-> "read", dir |-> d, tier |-> u] # fault
  BY <1>2
<1> QED BY <1>1, <1>3 DEF Offers

LEMMA QuotesStay ==
  ASSUME NEW v, Kind(v) \in {"V2", "Curve"}, NEW d, NEW fault
  PROVE  /\ QuoteOf(v, d, fault) \subseteq QuoteOf(v, d, NoFault)
         /\ ~(fault.kind = "read" /\ fault.dir = d) => QuoteOf(v, d, fault) = QuoteOf(v, d, NoFault)
<1>1. /\ DOMAIN Offers(v, d, fault) \subseteq DOMAIN Offers(v, d, NoFault)
      /\ \A t \in DOMAIN Offers(v, d, fault) : Offers(v, d, fault)[t] = Offers(v, d, NoFault)[t]
  BY OffersStay
<1>2. ~(fault.kind = "read" /\ fault.dir = d) => Offers(v, d, fault) = Offers(v, d, NoFault)
  BY OffersStay
<1>3. CASE Kind(v) = "V2"
  <2>1. V2Quote(v, d, fault) \subseteq V2Quote(v, d, NoFault)
    BY <1>1 DEF V2Quote
  <2>2. ~(fault.kind = "read" /\ fault.dir = d) => V2Quote(v, d, fault) = V2Quote(v, d, NoFault)
    BY <1>2 DEF V2Quote
  <2> QED BY <1>3, <2>1, <2>2 DEF QuoteOf
<1>4. CASE Kind(v) = "Curve"
  <2>1. CurveQuote(v, d, fault) \subseteq CurveQuote(v, d, NoFault)
    BY <1>1 DEF CurveQuote
  <2>2. ~(fault.kind = "read" /\ fault.dir = d) => CurveQuote(v, d, fault) = CurveQuote(v, d, NoFault)
    BY <1>2 DEF CurveQuote
  <2> QED BY <1>4, <2>1, <2>2 DEF QuoteOf
<1> QED BY <1>3, <1>4

LEMMA FaultlessAsk ==
  ASSUME NEW v, Kind(v) \in {"V2", "Curve"}
  PROVE  Answered(v, NoFault) = {d \in Asked : Kind(v) = "Curve" => Coins(d)}
<1>1. NoFault.kind = "none"
  BY DEF NoFault
<1>2. \A d : ~Unresolved(d, NoFault) /\ ~Unsized(d, NoFault)
  BY <1>1 DEF Unresolved, Unsized
<1>3. Answered(v, NoFault) = Prepared(v, NoFault)
  BY <1>1 DEF Answered, Prepared
<1>4. CASE Kind(v) = "V2"
  BY <1>2, <1>3, <1>4 DEF Prepared, Resolved
<1>5. CASE Kind(v) = "Curve"
  BY <1>2, <1>3, <1>5 DEF Prepared
<1> QED BY <1>4, <1>5

LEMMA DirectionsArePairs == ASSUME NEW d \in Asked PROVE d = <<d[1], d[2]>>
  BY VenuesAssumption DEF Asked

(* A multicall loses the directions its failure is about.                  *)
LEMMA MulticallAnswers ==
  ASSUME NEW v, Kind(v) \in {"V2", "Curve"}, NEW fault \in MulticallFaults(v), NEW lost, TouchedBy(v, fault) \subseteq lost
  PROVE  Answers(v, MulticallPrices(v, fault), lost)
<1>1. fault.kind \in {"none", "token", "read"} \/ (fault.kind = "amount" /\ Kind(v) = "Curve")
  BY DEF MulticallFaults, NoFault, TokenFaults, ReadFaults, AmountFaults
<1>2. Answered(v, fault) = Prepared(v, fault)
  BY <1>1 DEF Answered, Prepared
<1>3. Prepared(v, fault) \subseteq Answered(v, NoFault)
  <2>1. CASE Kind(v) = "V2"
    BY <2>1, FaultlessAsk DEF Prepared, Resolved
  <2>2. CASE Kind(v) = "Curve"
    BY <2>2, FaultlessAsk DEF Prepared
  <2> QED BY <2>1, <2>2
<1>4. MulticallPrices(v, fault) \subseteq MulticallPrices(v, NoFault)
  BY <1>2, <1>3, QuotesStay DEF MulticallPrices, PricesFor
<1>5. ASSUME NEW p \in MulticallPrices(v, NoFault), <<v, <<p.from, p.to>>>> \notin lost
      PROVE  p \in MulticallPrices(v, fault)
  <2>1. PICK d \in Answered(v, NoFault) : p \in QuoteOf(v, d, NoFault)
    BY DEF MulticallPrices, PricesFor
  <2>2. d \in Asked /\ (Kind(v) = "Curve" => Coins(d))
    BY FaultlessAsk
  <2>3. p.from = d[1] /\ p.to = d[2]
    BY <2>1, QuotedDirection
  <2>4. <<p.from, p.to>> = d
    BY <2>2, <2>3, DirectionsArePairs
  <2>5. <<v, d>> \notin TouchedBy(v, fault)
    BY <1>5, <2>4
  <2>6. fault.kind = "token" => ~Unresolved(d, fault)
    BY <2>2, <2>5 DEF TouchedBy
  <2>7. fault.kind = "amount" => ~Unsized(d, fault)
    BY <2>2, <2>5 DEF TouchedBy
  <2>8. fault.kind = "read" => fault.dir # d
    BY <2>5 DEF TouchedBy
  <2>9. d \in Prepared(v, fault)
    <3>1. CASE Kind(v) = "V2"
      BY <2>2, <2>6, <3>1 DEF Prepared, Resolved, Unresolved
    <3>2. CASE Kind(v) = "Curve"
      BY <2>2, <2>7, <3>2 DEF Prepared, Unsized
    <3> QED BY <3>1, <3>2
  <2>10. QuoteOf(v, d, fault) = QuoteOf(v, d, NoFault)
    BY <2>8, QuotesStay
  <2> QED BY <1>2, <2>1, <2>9, <2>10 DEF MulticallPrices, PricesFor
<1>6. \A p : Same(p, p)
  BY DEF Same
<1> QED BY <1>4, <1>5, <1>6 DEF Answers

(* Asked pair by pair a venue says the same, at another fee.               *)
LEMMA DirectAnswers ==
  ASSUME NEW v, Kind(v) \in {"V2", "Curve"}, NEW fault \in DirectFaults, NEW lost, TouchedBy(v, fault) \subseteq lost
  PROVE  Answers(v, DirectPrices(v, fault), lost)
<1>1. fault.kind \in {"none", "token", "read", "amount", "size"}
  BY DEF DirectFaults, NoFault, TokenFaults, ReadFaults, AmountFaults, SizeFaults
<1>2. ASSUME NEW d, NEW p \in QuoteOf(v, d, fault), Kind(v) = "Curve"
      PROVE  Same([p EXCEPT !.fee = DefaultFee], p)
  <2>1. PICK gain, fee, pool : p = [from |-> d[1], to |-> d[2], gain |-> gain, fee |-> fee, pool |-> pool]
    BY QuotedDirection
  <2> QED BY <2>1 DEF Same
<1>3. ASSUME NEW q \in DirectPrices(v, fault)
      PROVE  \E p \in MulticallPrices(v, NoFault) : Same(q, p)
  <2>1. PICK d \in Asked : q \in PriceOf(v, d, fault)
    BY DEF DirectPrices
  <2>2. CASE Kind(v) = "V2"
    <3>1. q \in QuoteOf(v, d, fault)
      BY <2>1, <2>2 DEF PriceOf, V2Price, QuoteOf
    <3>2. q \in QuoteOf(v, d, NoFault)
      BY <3>1, QuotesStay
    <3>3. d \in Answered(v, NoFault)
      BY <2>2, FaultlessAsk
    <3> QED BY <3>2, <3>3 DEF MulticallPrices, PricesFor, Same
  <2>3. CASE Kind(v) = "Curve"
    <3>1. PICK p \in QuoteOf(v, d, fault) : q = [p EXCEPT !.fee = DefaultFee] /\ Coins(d)
      BY <2>1, <2>3 DEF PriceOf, CurvePrice, QuoteOf
    <3>2. p \in QuoteOf(v, d, NoFault)
      BY QuotesStay
    <3>3. d \in Answered(v, NoFault)
      BY <3>1, FaultlessAsk
    <3>4. Same(q, p)
      BY <1>2, <2>3, <3>1
    <3> QED BY <3>2, <3>3, <3>4 DEF MulticallPrices, PricesFor
  <2> QED BY <2>2, <2>3
<1>4. ASSUME NEW p \in MulticallPrices(v, NoFault), <<v, <<p.from, p.to>>>> \notin lost
      PROVE  \E q \in DirectPrices(v, fault) : Same(q, p)
  <2>1. PICK d \in Answered(v, NoFault) : p \in QuoteOf(v, d, NoFault)
    BY DEF MulticallPrices, PricesFor
  <2>2. d \in Asked /\ (Kind(v) = "Curve" => Coins(d))
    BY FaultlessAsk
  <2>3. p.from = d[1] /\ p.to = d[2]
    BY <2>1, QuotedDirection
  <2>4. <<p.from, p.to>> = d
    BY <2>2, <2>3, DirectionsArePairs
  <2>5. <<v, d>> \notin TouchedBy(v, fault)
    BY <1>4, <2>4
  <2>6. ~Unresolved(d, fault)
    BY <2>2, <2>5 DEF TouchedBy, Unresolved
  <2>7. ~Unsized(d, fault)
    BY <2>2, <2>5 DEF TouchedBy, Unsized
  <2>8. fault.kind = "read" => fault.dir # d
    BY <2>5 DEF TouchedBy
  <2>9. p \in QuoteOf(v, d, fault)
    BY <2>1, <2>8, QuotesStay
  <2>10. CASE Kind(v) = "V2"
    <3>1. p \in PriceOf(v, d, fault)
      BY <2>6, <2>7, <2>9, <2>10 DEF PriceOf, V2Price, QuoteOf
    <3> QED BY <2>2, <3>1 DEF DirectPrices, Same
  <2>11. CASE Kind(v) = "Curve"
    <3> DEFINE q == [p EXCEPT !.fee = DefaultFee]
    <3>1. q \in PriceOf(v, d, fault)
      BY <2>2, <2>7, <2>9, <2>11 DEF PriceOf, CurvePrice, QuoteOf
    <3>2. Same(q, p)
      BY <1>2, <2>9, <2>11
    <3> HIDE DEF q
    <3> QED BY <2>2, <3>1, <3>2 DEF DirectPrices
  <2> QED BY <2>10, <2>11
<1> QED BY <1>3, <1>4 DEF Answers

(* The gate measures both directions of a pair by the same pool, and what  *)
(* it drops without a failure cannot take a price that stays with it.      *)
LEMMA GateCovers ==
  ASSUME CacheFits, NEW v, Kind(v) \in {"V2", "Curve"}, NEW lost, Answers(v, got, lost), NEW fault
  PROVE  Covered(v, Pruned({p \in got : Passes(v, p, fault)}), lost \cup Misjudged(v, fault))
<1> DEFINE all == MulticallPrices(v, NoFault)
           kept == {p \in got : Passes(v, p, fault)}
           thick == {p \in all : ~IsThin(v, p, p.pool, NoFault)}
<1> SUFFICES ASSUME NEW p \in Nominal(v), <<v, <<p.from, p.to>>>> \notin lost \cup Misjudged(v, fault)
             PROVE  \E q \in Pruned(kept) : q.from = p.from /\ q.to = p.to
  BY DEF Covered
<1>1. p \in all /\ ~IsThin(v, p, p.pool, NoFault) /\ Reciprocal(thick, p)
  BY DEF Nominal, Pruned
<1>2. PICK d \in Asked : p.from = d[1] /\ p.to = d[2] /\ Own(v, p.pool) /\ d = <<p.from, p.to>>
  <2>1. PICK e \in Answered(v, NoFault) : p \in QuoteOf(v, e, NoFault)
    BY <1>1 DEF MulticallPrices, PricesFor
  <2>2. e \in Asked
    BY FaultlessAsk
  <2> QED BY <2>1, <2>2, QuotedDirection, DirectionsArePairs
<1>3. PICK q \in got : Same(q, p)
  BY <1>1 DEF Answers
<1>4. \A r \in all : Own(v, r.pool)
  BY QuotedDirection DEF MulticallPrices, PricesFor
<1>5. \A t, u : Own(v, t) /\ Own(v, u) => t = u
  BY DEF Own
<1> HIDE DEF all, thick
<1>6. PricedOf(d, fault) = PairOf(d)
  <2>1. fault.kind = "feed" => PricedOf(d, fault) = PairOf(d)
    BY <1>2 DEF Misjudged
  <2>2. fault.kind # "feed" => PricedOf(d, fault) = PairOf(d)
    BY DEF PricedOf, Unpriced
  <2> QED BY <2>1, <2>2
<1>7. PricedOf(d, NoFault) = PairOf(d) /\ PairOf(d) # {}
  <2>1. NoFault.kind # "feed"
    BY DEF NoFault
  <2> QED BY <2>1 DEF PricedOf, Unpriced, PairOf
<1>8. ~IsThin(v, q, p.pool, fault)
  <2>1. <<q.from, q.to>> = d
    BY <1>2, <1>3 DEF Same
  <2>2. IsThin(v, q, p.pool, fault) <=> IsThin(v, p, p.pool, NoFault)
    BY <1>2, <1>6, <1>7, <2>1 DEF IsThin, Tvl
  <2> QED BY <1>1, <2>2
<1>9. Passes(v, q, fault)
  <2>1. ASSUME NEW t \in Measured(v, q, Lost(v, q, fault)) PROVE t = p.pool
    BY <1>2, <1>5, MeasuredAreOwn
  <2> QED BY <1>8, <2>1 DEF Passes
<1>10. ASSUME NEW r \in kept, r.from = q.to, r.to = q.from PROVE q.gain + r.gain \in Reciprocity
  <2>1. PICK s \in all : Same(r, s)
    BY DEF Answers, all
  <2>2. s.from = p.to /\ s.to = p.from /\ s.pool = p.pool /\ q.gain = p.gain /\ r.gain = s.gain
    BY <1>1, <1>2, <1>3, <1>4, <1>5, <1>10, <2>1 DEF Same
  <2>3. Pool(v, <<s.from, s.to>>, s.pool) = Pool(v, <<p.from, p.to>>, p.pool)
    BY <2>2 DEF Pool, PairOf
  <2>4. PricedOf(<<s.from, s.to>>, NoFault) = PricedOf(<<p.from, p.to>>, NoFault)
    BY <2>2 DEF PricedOf, PairOf
  <2>5. ~IsThin(v, s, s.pool, NoFault)
    BY <1>1, <2>3, <2>4 DEF IsThin, Exists, Tvl
  <2>6. s \in thick
    BY <2>5 DEF thick
  <2> QED BY <1>1, <2>2, <2>6 DEF Reciprocal
<1>11. q \in Pruned(kept)
  BY <1>9, <1>10 DEF Pruned, Reciprocal
<1> QED BY <1>3, <1>11 DEF Same

LEMMA NominalStays ==
  ASSUME NEW v, market' = market
  PROVE  Nominal(v)' = Nominal(v) /\ MulticallPrices(v, NoFault)' = MulticallPrices(v, NoFault)
<1>1. Nominal(v)' = Nominal(v)
  BY DEF Nominal, MulticallPrices, PricesFor, QuoteOf, V3Quote, V2Quote, CurveQuote, Offers, Offer, Exists, IsThin, Tvl
<1>2. MulticallPrices(v, NoFault)' = MulticallPrices(v, NoFault)
  BY DEF MulticallPrices, PricesFor, QuoteOf, V3Quote, V2Quote, CurveQuote, Offers, Offer, Exists
<1> QED BY <1>1, <1>2

LEMMA OwnKinds ==
  ASSUME at \in 1 .. Len(Adapters)
  PROVE  /\ Kind(Venue) \in {"V3", "V2", "Curve"} /\ at \in DOMAIN Adapters
         /\ \A i \in DOMAIN Adapters : Kind(Adapters[i]) \in {"V3", "V2", "Curve"}
<1>1. at \in DOMAIN Adapters
  BY VenuesAssumption, LenProperties
<1> QED BY <1>1, VenuesAssumption DEF Venue, Range

(* A step that delivers nothing keeps what is covered.                     *)
LEMMA AskingKeepsCover ==
  ASSUME HiddenInv, market' = market, at' = at, priceMap' = priceMap, touched \subseteq touched',
         stage # "delivered", stage' \in {"quote", "gate", "fallback"}, CacheFits',
         stage' = "gate" /\ Kind(Venue) # "V3" => Answers(Venue, got', touched')
  PROVE  HiddenInv'
<1>1. \A v : Nominal(v)' = Nominal(v) /\ MulticallPrices(v, NoFault)' = MulticallPrices(v, NoFault)
  BY NominalStays
<1>2. Venue' = Venue
  BY DEF Venue
<1>3. stage' = "gate" /\ Kind(Venue') # "V3" => Answers(Venue, got, touched)'
  BY <1>1, <1>2 DEF Answers
<1>4. ASSUME NEW i \in DOMAIN Adapters, i < at, Kind(Adapters[i]) # "V3"
      PROVE  Covered(Adapters[i], priceMap[Adapters[i]], touched)'
  <2>1. Covered(Adapters[i], priceMap[Adapters[i]], touched)
    BY <1>4 DEF HiddenInv
  <2> QED BY <1>1, <2>1 DEF Covered
<1> QED BY <1>3, <1>4 DEF HiddenInv

LEMMA GateKeepsCover ==
  ASSUME ScanInv, HiddenInv, Gate
  PROVE  HiddenInv'
<1>1. PICK fault : /\ priceMap' = [priceMap EXCEPT ![Venue] = Pruned({p \in got : Passes(Venue, p, fault)})]
                   /\ poolCache' = IF MinValue(Venue) = 0 THEN poolCache ELSE LookedUp(Venue, fault)
                   /\ touched' = touched \cup Misjudged(Venue, fault)
  BY DEF Gate
<1> DEFINE kept == Pruned({p \in got : Passes(Venue, p, fault)})
<1>2. /\ Kind(Venue) \in {"V3", "V2", "Curve"} /\ at \in DOMAIN Adapters
      /\ DOMAIN Adapters = 1 .. Len(Adapters) /\ Len(Adapters) \in Nat
      /\ at \in 1 .. Len(Adapters)
  BY OwnKinds, VenuesAssumption, LenProperties DEF ScanInv
<1>3. Venue \in DOMAIN priceMap
  BY <1>2 DEF ScanInv, Venue, Range
<1>4. priceMap'[Venue] = kept /\ \A v \in DOMAIN priceMap : v # Venue => priceMap'[v] = priceMap[v]
  BY <1>1, <1>3
<1>5. Kind(Venue) # "V3" => Covered(Venue, kept, touched')
  <2>1. Kind(Venue) # "V3" => Answers(Venue, got, touched) /\ CacheFits
    BY DEF HiddenInv, Gate
  <2> HIDE DEF kept
  <2> QED BY <1>1, <1>2, <2>1, GateCovers DEF kept
<1> HIDE DEF kept
<1>6. CacheFits'
  <2>1. CacheFits
    BY DEF HiddenInv
  <2>2. CASE poolCache' = poolCache
    BY <2>1, <2>2 DEF CacheFits
  <2>3. CASE poolCache' = LookedUp(Venue, fault)
    BY <1>2, <2>1, <2>3, LookedUpFits
  <2> QED BY <1>1, <2>2, <2>3
<1>7. \A v : Nominal(v)' = Nominal(v)
  BY NominalStays DEF Gate
<1>8. ASSUME NEW i \in DOMAIN Adapters, i < at', Kind(Adapters[i]) # "V3"
      PROVE  i < at \/ i = at
  BY <1>2, <1>8 DEF Gate, NextVenue
<1>9. stage' = "delivered" => \A i \in DOMAIN Adapters : i < at \/ i = at
  BY <1>2 DEF Gate, NextVenue
<1>10. ASSUME NEW i \in DOMAIN Adapters, Kind(Adapters[i]) # "V3", i < at \/ i = at
       PROVE  Covered(Adapters[i], priceMap[Adapters[i]], touched)'
  <2>1. CASE i = at
    <3>1. Adapters[i] = Venue
      BY <2>1 DEF Venue
    <3> QED BY <1>4, <1>5, <1>7, <1>10, <3>1 DEF Covered
  <2>2. CASE i # at
    <3>1. Adapters[i] # Venue /\ Adapters[i] \in DOMAIN priceMap
      BY <1>2, <2>2, AdaptersAssumption DEF Venue, ScanInv, Range
    <3>2. priceMap'[Adapters[i]] = priceMap[Adapters[i]]
      BY <1>4, <3>1
    <3>3. Covered(Adapters[i], priceMap[Adapters[i]], touched)
      BY <1>10, <2>2 DEF HiddenInv
    <3>4. touched \subseteq touched'
      BY <1>1
    <3> QED BY <1>7, <3>2, <3>3, <3>4 DEF Covered
  <2> QED BY <2>1, <2>2
<1>11. stage' # "gate" /\ stage' # "warm"
  BY DEF Gate, NextVenue
<1> QED BY <1>6, <1>8, <1>9, <1>10, <1>11 DEF HiddenInv

LEMMA ScanKeepsCover ==
  ASSUME ScanInv, HiddenInv, ScanNext
  PROVE  HiddenInv'
<1>1. Kind(Venue) # "V3" => Kind(Venue) \in {"V2", "Curve"}
  BY OwnKinds DEF ScanInv
<1>2. CacheFits
  BY DEF HiddenInv
<1>3. CASE Warm
  <2>1. CacheFits'
    BY <1>2, <1>3, WarmUpFits
  <2>2. touched = {}
    BY <1>3 DEF Warm, HiddenInv
  <2>3. /\ stage = "warm" /\ stage' = "quote" /\ market' = market /\ at' = at /\ priceMap' = priceMap
    BY <1>3 DEF Warm
  <2> QED BY <2>1, <2>2, <2>3, AskingKeepsCover
<1>4. CASE Quote
  <2>1. PICK fault \in MulticallFaults(Venue) :
          got' = MulticallPrices(Venue, fault) /\ touched' = touched \cup TouchedBy(Venue, fault)
    BY <1>4 DEF Quote
  <2>2. /\ stage # "delivered" /\ stage' = "gate" /\ priceMap' = priceMap /\ at' = at /\ market' = market
        /\ poolCache' = poolCache
    BY <1>4 DEF Quote
  <2>3. Kind(Venue) # "V3" => Answers(Venue, got', touched')
    BY <1>1, <2>1, MulticallAnswers
  <2>4. CacheFits'
    BY <1>2, <2>2 DEF CacheFits
  <2> QED BY <2>1, <2>2, <2>3, <2>4, AskingKeepsCover
<1>5. CASE QuoteFails
  <2>1. /\ stage # "delivered" /\ stage' = "fallback" /\ priceMap' = priceMap /\ at' = at /\ market' = market
        /\ poolCache' = poolCache /\ touched' = touched
    BY <1>5 DEF QuoteFails
  <2>2. CacheFits'
    BY <1>2, <2>1 DEF CacheFits
  <2> QED BY <2>1, <2>2, AskingKeepsCover
<1>6. CASE Fallback
  <2>1. PICK fault \in DirectFaults :
          got' = DirectPrices(Venue, fault) /\ touched' = touched \cup TouchedBy(Venue, fault)
    BY <1>6 DEF Fallback
  <2>2. /\ stage # "delivered" /\ stage' = "gate" /\ priceMap' = priceMap /\ at' = at /\ market' = market
        /\ poolCache' = poolCache
    BY <1>6 DEF Fallback
  <2>3. Kind(Venue) # "V3" => Answers(Venue, got', touched')
    BY <1>1, <2>1, DirectAnswers
  <2>4. CacheFits'
    BY <1>2, <2>2 DEF CacheFits
  <2> QED BY <2>1, <2>2, <2>3, <2>4, AskingKeepsCover
<1>7. CASE Gate
  BY <1>7, GateKeepsCover
<1>8. CASE NextScan
  <2>1. stage' = "quote" /\ at' = 1 /\ poolCache' \in {poolCache, << >>}
    BY <1>8 DEF NextScan
  <2>2. CacheFits'
    BY <1>2, <2>1 DEF CacheFits
  <2>3. \A i \in DOMAIN Adapters : ~(i < 1)
    BY VenuesAssumption, LenProperties
  <2> QED BY <2>1, <2>2, <2>3 DEF HiddenInv
<1> QED BY <1>3, <1>4, <1>5, <1>6, <1>7, <1>8 DEF ScanNext

CoverIsKept == stage = "apart" \/ HiddenInv

LEMMA CoverIsKeptFirst ==
  ASSUME PreparationInit
  PROVE  CoverIsKept
<1>1. CASE NotScanned
  BY <1>1 DEF NotScanned, CoverIsKept
<1>2. CASE ScanInit
  <2>1. stage = "warm" /\ poolCache = << >> /\ touched = {} /\ at = 1
    BY <1>2 DEF ScanInit
  <2>2. \A i \in DOMAIN Adapters : ~(i < 1)
    BY VenuesAssumption, LenProperties
  <2> QED BY <2>1, <2>2 DEF HiddenInv, CacheFits, CoverIsKept
<1> QED BY <1>1, <1>2 DEF PreparationInit, PipelineInit

LEMMA PreparationKeepsCover ==
  ASSUME SearchInv, CoverIsKept, [PreparationNext]_preparationVars
  PROVE  CoverIsKept'
<1>1. CASE phase = "scan" /\ ScanNext
  BY <1>1, ScanStaysApart, ScanKeepsCover DEF SearchInv, CoverIsKept
<1>2. CASE UNCHANGED scanVars
  <2>1. UNCHANGED <<stage, at, got, priceMap, poolCache, touched, market>>
    BY <1>2 DEF scanVars
  <2>2. \A v : Nominal(v)' = Nominal(v) /\ MulticallPrices(v, NoFault)' = MulticallPrices(v, NoFault)
    BY <2>1, NominalStays
  <2>3. HiddenInv => HiddenInv'
    BY <2>1, <2>2 DEF HiddenInv, CacheFits, Answers, Covered, Venue
  <2> QED BY <2>1, <2>3 DEF CoverIsKept
<1> QED BY <1>1, <1>2, StepsOfTheScan DEF CoverIsKept

(* A failed read costs the prices it is about and no others                *)
(* (NoPairIsHiddenByAnother): for any pools, directions and batches, any   *)
(* number of failures, and venues asked in one call or pair by pair.       *)
THEOREM NoneHidesAnother == PreparationSpec => []NoPairIsHiddenByAnother
<1>1. CoverIsKept => NoPairIsHiddenByAnother
  <2> SUFFICES ASSUME HiddenInv, stage = "delivered", NEW v \in Range(Adapters), Kind(v) # "V3", NEW p \in Nominal(v)
               PROVE  \/ <<v, <<p.from, p.to>>>> \in touched
                      \/ \E q \in priceMap[v] : q.from = p.from /\ q.to = p.to
    BY DEF NoPairIsHiddenByAnother, CoverIsKept
  <2>1. PICK i \in DOMAIN Adapters : v = Adapters[i]
    BY DEF Range
  <2> QED BY <2>1 DEF HiddenInv, Covered
<1> QED BY <1>1, SearchInvHolds, CoverIsKeptFirst, PreparationKeepsSearch, PreparationKeepsCover, PTL DEF PreparationSpec

-------------------------------------------------------------------------------
(* Thin pools.  While nothing has failed, an entry of the pool cache is the*)
(* pool of its own fee wherever there is one (CacheIsExact), so the gate   *)
(* measures the very pool a price was quoted by (QuotedBy).  From scan to  *)
(* scan that needs PoolsStay.                                              *)
CacheIsExact ==
  \A key \in DOMAIN poolCache :
    /\ Kind(key.venue) = "V3" /\ IsExecutable(key.fee)
    /\ [venue |-> key.venue, pair |-> key.pair, tier |-> key.fee] \in DOMAIN market
    => poolCache[key] = key.fee
QuotedBy(v, p) ==
  /\ Own(v, p.pool)
  /\ Kind(v) = "V3" => IsExecutable(p.pool) /\ p.fee = p.pool
AllThick(v) == \A p \in priceMap[v] : ~IsThin(v, p, p.pool, NoFault)
ByMulticall(v) == ~(direct /\ Kind(v) = "V3")
ThinInv ==
  /\ faults \in Int /\ faults <= MaxFaults
  /\ faults = MaxFaults =>
       /\ stage # "fallback" /\ CacheIsExact
       /\ stage = "gate" /\ ByMulticall(Venue) => \A p \in got : QuotedBy(Venue, p)
       /\ \A i \in DOMAIN Adapters : ByMulticall(Adapters[i]) => AllThick(Adapters[i])

LEMMA NothingFailed ==
  ASSUME faults \in Int, faults <= MaxFaults, NEW fault, Fails(fault)
  PROVE  /\ faults' \in Int /\ faults' <= MaxFaults
         /\ faults' = MaxFaults => fault = NoFault /\ faults = MaxFaults
<1>1. MaxFaults \in Int
  BY VenuesAssumption
<1> QED BY <1>1 DEF Fails

LEMMA HintIsFirst ==
  ASSUME NEW v, NEW d, NEW hint, IsExecutable(hint), Exists(v, d, hint)
  PROVE  V3LookUp(v, d, hint, 0) = {hint}
<1>1. ExecutableTiers \in Seq(Nat \ {0})
  BY DEF ExecutableTiers
<1>2. hint # 0 /\ hint \in Range(ExecutableTiers)
  <2> HIDE DEF ExecutableTiers
  <2> QED BY <1>1, LenProperties DEF IsExecutable, Range
<1>3. hint \in There(v, d, Range(ExecutableTiers) \ {0})
  BY <1>2 DEF There
<1> QED BY <1>3 DEF V3LookUp

(* The pool measured is the one a price was quoted by.                     *)
LEMMA ItsPoolIsMeasured ==
  ASSUME CacheFits, CacheIsExact, NEW v, Kind(v) \in {"V3", "V2", "Curve"}, NEW p, QuotedBy(v, p),
         Exists(v, <<p.from, p.to>>, p.pool)
  PROVE  p.pool \in Measured(v, p, 0)
<1> DEFINE d == <<p.from, p.to>>
           key == KeyOf(v, p)
<1>1. key.venue = v /\ key.fee = p.fee /\ key.pair = PairOf(d)
  BY DEF KeyOf, PoolKey
<1>2. CASE Kind(v) = "V3"
  <2>1. IsExecutable(p.fee) /\ p.fee = p.pool /\ Exists(v, d, p.fee)
    BY <1>2 DEF QuotedBy
  <2>2. [venue |-> v, pair |-> PairOf(d), tier |-> p.fee] \in DOMAIN market
    BY <2>1 DEF Exists, Pool
  <2>3. CASE key \in DOMAIN poolCache
    <3>1. poolCache[key] = p.fee
      BY <1>1, <1>2, <2>1, <2>2, <2>3 DEF CacheIsExact
    <3> QED BY <2>1, <2>3, <3>1 DEF Measured
  <2>4. CASE key \notin DOMAIN poolCache
    <3>1. Measured(v, p, 0) = V3LookUp(v, d, p.fee, 0)
      BY <1>2, <2>4 DEF Measured, LookUp
    <3> QED BY <2>1, <3>1, HintIsFirst
  <2> QED BY <2>3, <2>4
<1>3. CASE Kind(v) \in {"V2", "Curve"}
  <2>1. \E t \in Measured(v, p, 0) : TRUE
    <3>1. CASE key \in DOMAIN poolCache
      BY <3>1 DEF Measured
    <3>2. CASE key \notin DOMAIN poolCache
      <4>1. Measured(v, p, 0) = LookUp(v, d, p.fee, 0)
        BY <3>2 DEF Measured
      <4>2. Kind(v) = "V2" => p.pool = DefaultFee /\ DefaultFee # 0
        BY DEF QuotedBy, Own, DefaultFee
      <4>3. Kind(v) = "V2" => p.pool \in LookUp(v, d, p.fee, 0)
        BY <4>2 DEF LookUp, V2LookUp
      <4>4. Kind(v) = "Curve" => CurveFee \in LookUp(v, d, p.fee, 0)
        BY DEF LookUp, CurveLookUp
      <4> QED BY <1>3, <4>1, <4>3, <4>4
    <3> QED BY <3>1, <3>2
  <2>2. PICK t \in Measured(v, p, 0) : TRUE
    BY <2>1
  <2>3. Own(v, t)
    BY <2>2, MeasuredAreOwn
  <2> QED BY <1>3, <2>2, <2>3 DEF QuotedBy, Own
<1> QED BY <1>2, <1>3

LEMMA LookedUpIsExact ==
  ASSUME CacheIsExact, NEW v, NEW fault, fault = NoFault, poolCache' = LookedUp(v, fault), market' = market
  PROVE  CacheIsExact'
<1> SUFFICES ASSUME NEW key \in DOMAIN poolCache', Kind(key.venue) = "V3", IsExecutable(key.fee),
                    [venue |-> key.venue, pair |-> key.pair, tier |-> key.fee] \in DOMAIN market
             PROVE  poolCache'[key] = key.fee
  BY DEF CacheIsExact
<1>1. CASE key \in DOMAIN poolCache /\ poolCache'[key] = poolCache[key]
  BY <1>1 DEF CacheIsExact
<1>2. CASE \E p \in got : /\ KeyOf(v, p) = key /\ key \notin DOMAIN poolCache
                          /\ poolCache'[key] \in Measured(v, p, Lost(v, p, fault))
  <2>1. PICK p \in got : /\ KeyOf(v, p) = key /\ key \notin DOMAIN poolCache
                         /\ poolCache'[key] \in Measured(v, p, Lost(v, p, fault))
    BY <1>2
  <2> DEFINE d == <<p.from, p.to>>
  <2>2. key.venue = v /\ key.fee = p.fee /\ key.pair = PairOf(d)
    BY <2>1 DEF KeyOf, PoolKey
  <2>3. Exists(v, d, p.fee)
    BY <2>2 DEF Exists, Pool
  <2>4. Lost(v, p, fault) = 0
    BY DEF Lost, NoFault
  <2>5. Measured(v, p, 0) = V3LookUp(v, d, p.fee, 0)
    BY <2>1, <2>2 DEF Measured, LookUp
  <2> QED BY <2>1, <2>2, <2>3, <2>4, <2>5, HintIsFirst
<1> QED BY <1>1, <1>2, LookedUpIs

LEMMA WarmIsExact ==
  ASSUME Warm, faults \in Int, faults <= MaxFaults, faults' = MaxFaults
  PROVE  CacheIsExact'
<1>1. CASE WarmUpFails
  <2>1. [kind |-> "token"] = NoFault
    BY <1>1, NothingFailed DEF WarmUpFails
  <2>2. [kind |-> "token"].kind = "token" /\ NoFault.kind = "none"
    BY DEF NoFault
  <2> QED BY <2>1, <2>2
<1>2. CASE WarmUp
  <2>1. PICK fault : /\ Fails(fault)
                     /\ LET keys == {k \in WarmKeys : WarmPool(k, fault) # {}} IN
                        poolCache' = [key \in {PoolKey(k[1], k[2], k[3]) : k \in keys} |->
                          CHOOSE t \in UNION {WarmPool(k, fault) : k \in {j \in keys : PoolKey(j[1], j[2], j[3]) = key}} : TRUE]
    BY <1>2 DEF WarmUp
  <2>2. fault = NoFault
    BY <2>1, NothingFailed
  <2>3. market' = market
    BY DEF Warm
  <2> SUFFICES ASSUME NEW key \in DOMAIN poolCache', Kind(key.venue) = "V3", IsExecutable(key.fee),
                      [venue |-> key.venue, pair |-> key.pair, tier |-> key.fee] \in DOMAIN market
               PROVE  poolCache'[key] = key.fee
    BY <2>3 DEF CacheIsExact
  <2>4. PICK k \in WarmKeys : PoolKey(k[1], k[2], k[3]) = key /\ poolCache'[key] \in WarmPool(k, fault)
    BY <2>1, WarmedIs
  <2>5. key.venue = k[1] /\ key.fee = k[3] /\ key.pair = PairOf(k[2])
    BY <2>4 DEF PoolKey
  <2>6. Exists(k[1], k[2], k[3])
    BY <2>5 DEF Exists, Pool
  <2>7. poolCache'[key] \in LookUp(k[1], k[2], k[3], 0)
    BY <2>2, <2>4 DEF WarmPool, NoFault
  <2>8. LookUp(k[1], k[2], k[3], 0) = {k[3]}
    BY <2>5, <2>6, HintIsFirst DEF LookUp
  <2> QED BY <2>5, <2>7, <2>8
<1> QED BY <1>1, <1>2 DEF Warm

LEMMA QuotedByItsPool ==
  ASSUME NEW v, Kind(v) \in {"V3", "V2", "Curve"}, NEW fault, NEW p \in MulticallPrices(v, fault)
  PROVE  QuotedBy(v, p)
<1>1. PICK d \in Answered(v, fault) : p \in QuoteOf(v, d, fault)
  BY DEF MulticallPrices, PricesFor
<1>2. CASE Kind(v) = "V3"
  <2>1. p \in V3Quote(v, d, fault)
    BY <1>1, <1>2 DEF QuoteOf
  <2>2. PICK t \in SelectExecutable(Offers(v, d, fault)) : p = Price(d, Offers(v, d, fault)[t], t, t)
    BY <2>1 DEF V3Quote
  <2>3. IsExecutable(t)
    BY DEF SelectExecutable
  <2> QED BY <1>2, <2>2, <2>3 DEF QuotedBy, Own, Price
<1>3. CASE Kind(v) \in {"V2", "Curve"}
  BY <1>1, <1>3, QuotedDirection DEF QuotedBy
<1> QED BY <1>2, <1>3

LEMMA ThinStays ==
  ASSUME market' = market
  PROVE  \A v, p : IsThin(v, p, p.pool, NoFault)' = IsThin(v, p, p.pool, NoFault)
  BY DEF IsThin, Tvl, Exists

(* A step that delivers nothing and asks without a failure.                *)
LEMMA AskingKeepsThin ==
  ASSUME ThinInv, faults' \in Int, faults' <= MaxFaults, faults' = MaxFaults => faults = MaxFaults,
         market' = market, direct' = direct, at' = at, priceMap' = priceMap,
         faults' = MaxFaults => stage' # "fallback" /\ CacheIsExact',
         faults' = MaxFaults /\ stage' = "gate" /\ ByMulticall(Venue) => \A p \in got' : QuotedBy(Venue, p)
  PROVE  ThinInv'
<1>1. Venue' = Venue
  BY DEF Venue
<1>2. \A v : ByMulticall(v)' = ByMulticall(v)
  BY DEF ByMulticall
<1>3. \A v : AllThick(v)' = AllThick(v)
  BY ThinStays DEF AllThick
<1>4. faults' = MaxFaults /\ stage' = "gate" /\ ByMulticall(Venue)' => \A p \in got' : QuotedBy(Venue, p)'
  BY <1>1, <1>2 DEF QuotedBy
<1> QED BY <1>1, <1>2, <1>3, <1>4 DEF ThinInv

LEMMA GateKeepsThin ==
  ASSUME ScanInv, HiddenInv, ThinInv, Gate
  PROVE  ThinInv'
<1>1. PICK fault : /\ Fails(fault)
                   /\ priceMap' = [priceMap EXCEPT ![Venue] = Pruned({p \in got : Passes(Venue, p, fault)})]
                   /\ poolCache' = IF MinValue(Venue) = 0 THEN poolCache ELSE LookedUp(Venue, fault)
  BY DEF Gate
<1>2. /\ faults' \in Int /\ faults' <= MaxFaults
      /\ faults' = MaxFaults => fault = NoFault /\ faults = MaxFaults
  BY <1>1, NothingFailed DEF ThinInv
<1>3. market' = market /\ direct' = direct /\ stage = "gate" /\ stage' \notin {"gate", "fallback"}
  BY DEF Gate, NextVenue
<1>4. Kind(Venue) \in {"V3", "V2", "Curve"} /\ Venue \in DOMAIN priceMap /\ at \in DOMAIN Adapters
  BY OwnKinds DEF ScanInv, Venue, Range
<1> SUFFICES ASSUME faults' = MaxFaults
             PROVE  CacheIsExact' /\ \A i \in DOMAIN Adapters : ByMulticall(Adapters[i])' => AllThick(Adapters[i])'
  BY <1>2, <1>3 DEF ThinInv
<1>5. fault = NoFault /\ faults = MaxFaults /\ CacheIsExact /\ CacheFits
  BY <1>2 DEF ThinInv, HiddenInv
<1>6. CacheIsExact'
  <2>1. CASE poolCache' = poolCache
    BY <1>3, <1>5, <2>1 DEF CacheIsExact
  <2>2. CASE poolCache' = LookedUp(Venue, fault)
    BY <1>3, <1>5, <2>2, LookedUpIsExact
  <2> QED BY <1>1, <2>1, <2>2
<1> DEFINE kept == Pruned({p \in got : Passes(Venue, p, fault)})
<1>7. \A p \in kept : p \in got /\ Passes(Venue, p, NoFault)
  BY <1>5 DEF Pruned
<1> HIDE DEF kept
<1>8. priceMap'[Venue] = kept /\ \A v \in DOMAIN priceMap : v # Venue => priceMap'[v] = priceMap[v]
  BY <1>1, <1>4 DEF kept
<1>9. ASSUME ByMulticall(Venue), NEW p \in kept PROVE ~IsThin(Venue, p, p.pool, NoFault)
  <2>1. QuotedBy(Venue, p)
    BY <1>3, <1>5, <1>7, <1>9 DEF ThinInv
  <2>2. CASE ~Exists(Venue, <<p.from, p.to>>, p.pool)
    BY <2>2 DEF IsThin
  <2>3. CASE Exists(Venue, <<p.from, p.to>>, p.pool)
    <3>1. p.pool \in Measured(Venue, p, 0)
      BY <1>4, <1>5, <2>1, <2>3, ItsPoolIsMeasured
    <3>2. Lost(Venue, p, NoFault) = 0
      BY DEF Lost, NoFault
    <3>3. NoFault.kind # "balances" /\ NoFault.kind # "price"
      BY DEF NoFault
    <3> QED BY <1>7, <3>1, <3>2, <3>3 DEF Passes
  <2> QED BY <2>2, <2>3
<1>10. ASSUME NEW i \in DOMAIN Adapters, ByMulticall(Adapters[i])'
       PROVE  AllThick(Adapters[i])'
  <2>1. ByMulticall(Adapters[i])
    BY <1>3, <1>10 DEF ByMulticall
  <2>2. \A p \in priceMap'[Adapters[i]] : ~IsThin(Adapters[i], p, p.pool, NoFault)
    <3>1. CASE i = at
      <4>1. Adapters[i] = Venue
        BY <3>1 DEF Venue
      <4> QED BY <1>8, <1>9, <2>1, <4>1
    <3>2. CASE i # at
      <4>1. Adapters[i] # Venue /\ Adapters[i] \in DOMAIN priceMap
        BY <1>4, <3>2, AdaptersAssumption DEF Venue, ScanInv, Range
      <4>2. AllThick(Adapters[i])
        BY <1>5, <2>1 DEF ThinInv
      <4> QED BY <1>8, <4>1, <4>2 DEF AllThick
    <3> QED BY <3>1, <3>2
  <2> QED BY <1>3, <2>2, ThinStays DEF AllThick
<1> QED BY <1>6, <1>10

LEMMA ScanKeepsThin ==
  ASSUME PoolsStay, ScanInv, HiddenInv, ThinInv, ScanNext
  PROVE  ThinInv'
<1>1. faults \in Int /\ faults <= MaxFaults /\ Kind(Venue) \in {"V3", "V2", "Curve"}
  BY OwnKinds DEF ThinInv, ScanInv
<1>2. faults = MaxFaults => stage # "fallback" /\ CacheIsExact
  BY DEF ThinInv
<1>3. CASE Warm
  <2>1. /\ stage' = "quote" /\ market' = market /\ direct' = direct /\ at' = at /\ priceMap' = priceMap
    BY <1>3 DEF Warm
  <2>2. \E fault : Fails(fault)
    BY <1>3 DEF Warm, WarmUp, WarmUpFails
  <2>3. /\ faults' \in Int /\ faults' <= MaxFaults /\ (faults' = MaxFaults => faults = MaxFaults)
    BY <1>1, <2>2, NothingFailed
  <2>4. faults' = MaxFaults => CacheIsExact'
    BY <1>1, <1>3, WarmIsExact
  <2> QED BY <2>1, <2>3, <2>4, AskingKeepsThin
<1>4. CASE Quote
  <2>1. PICK fault : Fails(fault) /\ got' = MulticallPrices(Venue, fault)
    BY <1>4 DEF Quote
  <2>2. /\ stage' = "gate" /\ market' = market /\ direct' = direct /\ at' = at /\ priceMap' = priceMap
        /\ poolCache' = poolCache
    BY <1>4 DEF Quote
  <2>3. /\ faults' \in Int /\ faults' <= MaxFaults /\ (faults' = MaxFaults => faults = MaxFaults)
    BY <1>1, <2>1, NothingFailed
  <2>4. faults' = MaxFaults => CacheIsExact'
    BY <1>2, <2>2, <2>3 DEF CacheIsExact
  <2>5. \A p \in got' : QuotedBy(Venue, p)
    BY <1>1, <2>1, QuotedByItsPool
  <2> QED BY <2>2, <2>3, <2>4, <2>5, AskingKeepsThin
<1>5. CASE QuoteFails
  <2>1. /\ stage' = "fallback" /\ market' = market /\ direct' = direct /\ at' = at /\ priceMap' = priceMap
        /\ Fails([kind |-> "venue"])
    BY <1>5 DEF QuoteFails
  <2>2. [kind |-> "venue"] # NoFault
    <3>1. [kind |-> "venue"].kind = "venue" /\ NoFault.kind = "none"
      BY DEF NoFault
    <3> QED BY <3>1
  <2>3. /\ faults' \in Int /\ faults' <= MaxFaults /\ faults' # MaxFaults
    BY <1>1, <2>1, <2>2, NothingFailed
  <2> QED BY <2>1, <2>3, AskingKeepsThin
<1>6. CASE Fallback
  <2>1. PICK fault : Fails(fault)
    BY <1>6 DEF Fallback
  <2>2. /\ stage' = "gate" /\ market' = market /\ direct' = direct /\ at' = at /\ priceMap' = priceMap
        /\ poolCache' = poolCache
    BY <1>6 DEF Fallback
  <2>3. /\ faults' \in Int /\ faults' <= MaxFaults /\ (faults' = MaxFaults => faults = MaxFaults)
    BY <1>1, <2>1, NothingFailed
  <2>4. faults' = MaxFaults => CacheIsExact'
    BY <1>2, <2>2, <2>3 DEF CacheIsExact
  <2>5. faults' = MaxFaults => ~ByMulticall(Venue)
    BY <1>2, <1>6, <2>3 DEF Fallback, ByMulticall
  <2> QED BY <2>2, <2>3, <2>4, <2>5, AskingKeepsThin
<1>7. CASE Gate
  BY <1>7, GateKeepsThin
<1>8. CASE NextScan
  <2>1. /\ market' \in Markets /\ poolCache' \in {poolCache, << >>} /\ stage' = "quote"
        /\ faults' = faults /\ \A v \in Range(Adapters) : priceMap'[v] = {}
    BY <1>8 DEF NextScan
  <2>2. \A i \in DOMAIN Adapters : priceMap'[Adapters[i]] = {}
    BY <2>1 DEF Range
  <2>3. \A i \in DOMAIN Adapters : AllThick(Adapters[i])'
    BY <2>2 DEF AllThick
  <2>4. market \in Markets
    BY <1>8 DEF ScanInv
  <2>5. CacheIsExact => CacheIsExact'
    <3> SUFFICES ASSUME CacheIsExact, NEW key \in DOMAIN poolCache', Kind(key.venue) = "V3", IsExecutable(key.fee),
                        [venue |-> key.venue, pair |-> key.pair, tier |-> key.fee] \in DOMAIN market'
                 PROVE  poolCache'[key] = key.fee
      BY DEF CacheIsExact
    <3>1. poolCache' = poolCache
      BY <2>1
    <3> DEFINE pool == [venue |-> key.venue, pair |-> key.pair, tier |-> key.fee]
    <3>2. pool.tier = key.fee
      OBVIOUS
    <3>3. pool \in DOMAIN market
      <4> HIDE DEF pool
      <4>1. pool \in DOMAIN market'
        BY DEF pool
      <4> QED BY <2>1, <2>4, <3>2, <4>1 DEF PoolsStay
    <3> QED BY <3>1, <3>3 DEF CacheIsExact
  <2> QED BY <1>1, <1>2, <2>1, <2>3, <2>5 DEF ThinInv
<1> QED BY <1>3, <1>4, <1>5, <1>6, <1>7, <1>8 DEF ScanNext

ThickIsKept == stage = "apart" \/ ThinInv

LEMMA ThickIsKeptFirst ==
  ASSUME PreparationInit
  PROVE  ThickIsKept
<1>1. CASE NotScanned
  BY <1>1 DEF NotScanned, ThickIsKept
<1>2. CASE ScanInit
  <2>1. /\ stage = "warm" /\ poolCache = << >> /\ faults = MaxFaults
        /\ \A v \in Range(Adapters) : priceMap[v] = {}
    BY <1>2 DEF ScanInit
  <2>2. MaxFaults \in Int
    BY VenuesAssumption
  <2>3. CacheIsExact
    BY <2>1 DEF CacheIsExact
  <2>4. \A i \in DOMAIN Adapters : priceMap[Adapters[i]] = {}
    BY <2>1 DEF Range
  <2>5. \A i \in DOMAIN Adapters : AllThick(Adapters[i])
    BY <2>4 DEF AllThick
  <2> QED BY <2>1, <2>2, <2>3, <2>5 DEF ThinInv, ThickIsKept
<1> QED BY <1>1, <1>2 DEF PreparationInit, PipelineInit

LEMMA PreparationKeepsThick ==
  ASSUME PoolsStay, SearchInv, CoverIsKept, ThickIsKept, [PreparationNext]_preparationVars
  PROVE  ThickIsKept'
<1>1. CASE phase = "scan" /\ ScanNext
  BY <1>1, ScanStaysApart, ScanKeepsThin DEF SearchInv, CoverIsKept, ThickIsKept
<1>2. CASE UNCHANGED scanVars
  <2>1. UNCHANGED <<stage, at, got, priceMap, poolCache, faults, market, direct>>
    BY <1>2 DEF scanVars
  <2>2. Venue' = Venue /\ \A v : ByMulticall(v)' = ByMulticall(v) /\ AllThick(v)' = AllThick(v)
    BY <2>1, ThinStays DEF Venue, ByMulticall, AllThick
  <2>3. ThinInv => ThinInv'
    BY <2>1, <2>2 DEF ThinInv, CacheIsExact, QuotedBy
  <2> QED BY <2>1, <2>3 DEF ThickIsKept
<1> QED BY <1>1, <1>2, StepsOfTheScan DEF ThickIsKept

(* While every read has answered, what comes out of a scan by multicall was*)
(* quoted by a pool that holds its venue's minimum (ThinPoolsAreCut),      *)
(* whatever was cached for other tiers, directions or blocks, if no pool   *)
(* appears between the scans.                                              *)
THEOREM ThinAreCut == ASSUME PoolsStay PROVE PreparationSpec => []ThinPoolsAreCut
<1>1. ThickIsKept => ThinPoolsAreCut
  <2> SUFFICES ASSUME ThinInv, faults = MaxFaults, NEW v \in Range(Adapters), ~(direct /\ Kind(v) = "V3"),
                      NEW p \in priceMap[v]
               PROVE  ~IsThin(v, p, p.pool, NoFault)
    BY DEF ThinPoolsAreCut, ThickIsKept
  <2>1. PICK i \in DOMAIN Adapters : v = Adapters[i]
    BY DEF Range
  <2> QED BY <2>1 DEF ThinInv, ByMulticall, AllThick
<1>2. SearchInv /\ CoverIsKept /\ ThickIsKept /\ [PreparationNext]_preparationVars => ThickIsKept'
  BY PreparationKeepsThick
<1> QED BY <1>1, <1>2, SearchInvHolds, CoverIsKeptFirst, ThickIsKeptFirst, PreparationKeepsSearch,
        PreparationKeepsCover, PTL DEF PreparationSpec

===============================================================================
