-------------------------- MODULE ArbDecisionProofs --------------------------
(***************************************************************************)
(* Proofs about TradeSizing and ArbDecision, for every grid, budget, table *)
(* of profits and set of events that meet their assumptions.               *)
(***************************************************************************)
EXTENDS ArbDecision, FiniteSetTheorems, WellFoundedInduction, TLAPS

Phases ==
  {"event", "gate", "cap", "scan", "probe", "refine", "dip", "basin", "basinHigh",
   "dust", "mid", "end", "sized", "decided"}

\* The swap of a size, as the cache keeps it for the pool of now.
Kept(x, d) == [dx |-> x, input |-> d, swap |-> <<ev.shape, x>>]

\* Whatever a slot holds is the swap it says it is.
PreviewsOK ==
  previews \in [{Slot[k] : k \in DOMAIN Slot} ->
                   {Empty} \cup {Kept(x, d) : x \in Sizes, d \in Directions}]

\* The types of the variables of a search and of the decision.
TypeOK ==
  /\ ev \in Events /\ ctx \in Contexts /\ only \in BOOLEAN
  /\ phase \in Phases /\ dir \in Directions
  /\ seed \in Sizes /\ cap \in Sizes /\ rungs \subseteq Sizes
  /\ seen \in [DOMAIN seen -> Int] /\ DOMAIN seen \subseteq Sizes
  /\ evals \in Nat /\ best \in [some : BOOLEAN, dx : Sizes, profit : Int]
  /\ tri \in [a : Sizes, b : Sizes, c : Sizes, va : Int, vb : Int, vc : Int]
  /\ back \in {"none", "dip", "dust"}
  /\ ends \in [end : Sizes, inner : Sizes, vend : Int, vin : Int]
  /\ tries \in Nat
  /\ answer \in [trade : BOOLEAN, dx : Sizes, profit : Int]
  /\ PreviewsOK

-----------------------------------------------------------------------------
(* Arithmetic of the grid. *)

LEMMA GridFacts ==
  /\ Top \in Nat \ {0} /\ Third \in Nat \ {0} /\ Ninth \in Nat \ {0}
  /\ 0 \in Sizes /\ Top \in Sizes
  /\ \A x \in Sizes : x \in Nat
BY GridAssumption DEF Ninth, Sizes

LEMMA EventFacts ==
  ASSUME NEW e \in Events
  PROVE  /\ e.shape \in Shapes /\ e.native \in BOOLEAN /\ e.ordered \in BOOLEAN
         /\ e.reports \in {"none", "latest", "cached", "one", "many"} /\ e.offered \in 0 .. 2
         /\ e.gap \in Int /\ e.floor \in Nat /\ e.fee \in [Contexts -> Nat]
         /\ e.least \in [Contexts -> [Directions -> Nat]]
         /\ e.may \in [Contexts -> [Directions -> BOOLEAN]]
         /\ e.entry \in Nat /\ e.scarce \in 0 .. 2 /\ e.dip \in Sizes
         /\ e.seeds \in SUBSET Sizes /\ e.room \in BOOLEAN
         /\ \A c \in Contexts : e.floor <= e.fee[c]
BY EventsAssumption DEF EventType

LEMMA ValueType ==
  ASSUME ev \in Events
  PROVE  \A c \in Contexts, x \in Sizes : Value(c, x) \in Int
<1> SUFFICES ASSUME NEW c \in Contexts, NEW x \in Sizes PROVE Value(c, x) \in Int
  OBVIOUS
<1>1. Profit[ev.shape][c][x] \in Int
  BY EventFacts, ProfitAssumption
<1> QED
  BY <1>1, ProfitAssumption DEF Value

\* A set of sizes has a least one.
LEMMA LeastIsLeast ==
  ASSUME NEW S \in SUBSET Sizes, S # {}
  PROVE  LeastOf(S) \in S /\ \A y \in S : LeastOf(S) <= y
<1>1. S \subseteq Nat
  BY GridFacts
<1> DEFINE Less == {ss \in Nat \X Nat : ss[1] < ss[2]}
<1>2. IsWellFoundedOn(Less, Nat)
  BY NatLessThanWellFounded, Zenon DEF OpToRel
<1> HIDE DEF Less
<1>3. PICK x \in S : \A y \in S : ~(<<y, x>> \in Less)
  BY <1>1, <1>2, WFMin, Zenon
<1>4. ASSUME NEW y \in S PROVE x <= y
  <2>1. x \in Nat /\ y \in Nat
    BY <1>1
  <2>2. <<y, x>> \in Less <=> y < x
    BY <2>1 DEF Less
  <2> QED
    BY <1>3, <2>1, <2>2
<1> QED
  BY <1>4 DEF LeastOf

\* So it has a greatest one.
LEMMA GreatestExists ==
  ASSUME NEW S \in SUBSET Sizes, S # {}
  PROVE  \E x \in S : \A y \in S : y <= x
<1> DEFINE U == {u \in Sizes : \A y \in S : y <= u}
<1>1. Top \in U
  BY GridFacts DEF Sizes
<1>2. PICK m \in U : \A u \in U : m <= u
  BY <1>1, LeastIsLeast
<1>3. m \in Sizes /\ m \in Nat /\ \A y \in S : y <= m /\ y \in Nat
  BY <1>2, GridFacts
<1>4. m \in S
  <2> SUFFICES ASSUME m \notin S PROVE FALSE
    OBVIOUS
  <2>1. \A y \in S : y < m
    BY <1>3
  <2>2. \E y \in S : TRUE
    OBVIOUS
  <2>3. m - 1 \in Sizes
    BY <1>3, <2>1, <2>2, GridFacts DEF Sizes
  <2>4. m - 1 \in U
    BY <1>3, <2>1, <2>3
  <2> QED
    BY <1>2, <1>3, <2>4
<1> QED
  BY <1>3, <1>4

\* The rungs are below the seed by steps: at most as many as steps.
LEMMA StepsBounded ==
  ASSUME NEW k \in Int, NEW f, NEW T, DOMAIN f = 1 .. k, T \subseteq {f[j] : j \in 1 .. k}
  PROVE  /\ IsFiniteSet(T)
         /\ Cardinality(T) \in Nat
         /\ Cardinality(T) <= (IF k < 0 THEN 0 ELSE k)
<1>1. IsFiniteSet(1 .. k) /\ Cardinality(1 .. k) = (IF k < 0 THEN 0 ELSE k)
  BY FS_Interval
<1> DEFINE R == {f[j] : j \in 1 .. k}
           g == [j \in 1 .. k |-> f[j]]
<1>2. g \in Surjection(1 .. k, R)
  BY DEF Surjection
<1>3. IsFiniteSet(R) /\ Cardinality(R) <= Cardinality(1 .. k)
  BY <1>1, <1>2, FS_Surjection
<1>4. IsFiniteSet(T) /\ Cardinality(T) <= Cardinality(R) /\ Cardinality(T) \in Nat /\ Cardinality(R) \in Nat
  BY <1>3, FS_Subset, FS_CardinalityType
<1> QED
  BY <1>1, <1>3, <1>4

LEMMA UnionBound ==
  ASSUME NEW S, NEW T, IsFiniteSet(S), IsFiniteSet(T)
  PROVE  /\ IsFiniteSet(S \cup T)
         /\ {Cardinality(S), Cardinality(T), Cardinality(S \cup T)} \subseteq Nat
         /\ Cardinality(S \cup T) <= Cardinality(S) + Cardinality(T)
<1>1. IsFiniteSet(S \cap T) /\ IsFiniteSet(S \cup T)
  BY FS_Intersection, FS_Union
<1>2. {Cardinality(S), Cardinality(T), Cardinality(S \cap T), Cardinality(S \cup T)} \subseteq Nat
  BY <1>1, FS_CardinalityType
<1>3. Cardinality(S \cup T) = Cardinality(S) + Cardinality(T) - Cardinality(S \cap T)
  BY FS_Union
<1> QED
  BY <1>1, <1>2, <1>3

LEMMA OneBound ==
  ASSUME NEW x, NEW S \in SUBSET {x}
  PROVE  IsFiniteSet(S) /\ Cardinality(S) \in Nat /\ Cardinality(S) <= 1
<1>1. IsFiniteSet({x}) /\ Cardinality({x}) = 1
  BY FS_Singleton
<1>2. IsFiniteSet(S) /\ Cardinality(S) <= Cardinality({x})
  BY <1>1, FS_Subset
<1> QED
  BY <1>1, <1>2, FS_CardinalityType

LEMMA LowCoverFacts ==
  ASSUME ev \in Events, NEW s \in Sizes, NEW c \in Sizes
  PROVE  /\ LowCover(s, c) \in Sizes /\ LowCover(s, c) <= s
         /\ DipIn(c) => LowCover(s, c) < ev.dip
         /\ ~ev.native => LowCover(s, c) = 0
<1>1. ev.dip \in Sizes
  BY EventFacts
<1>2. DipIn(c) => 0 < ev.dip
  BY DEF DipIn
<1>3. s \in Nat /\ ev.dip \in Nat /\ Third \in Nat \ {0} /\ s <= Top /\ Top \in Nat
  BY <1>1, GridFacts DEF Sizes
<1> QED
  BY <1>2, <1>3 DEF LowCover, Lesser, Sizes

LEMMA NeighboursFacts ==
  ASSUME NEW x \in Sizes, NEW low \in Sizes, NEW c \in Sizes
  PROVE  /\ \A y \in Neighbours(x, low, c) : y \in Sizes /\ (x <= c => y <= c)
         /\ IsFiniteSet(Neighbours(x, low, c)) /\ Cardinality(Neighbours(x, low, c)) \in 0 .. 2
<1> DEFINE L == {y \in {x - Third} : y > low}
           R == {y \in {x + Third} : y < c}
<1>1. \A y \in L \cup R : y \in Sizes /\ (x <= c => y <= c)
  BY GridFacts DEF Sizes
<1>2. IsFiniteSet(L \cup R) /\ Cardinality(L \cup R) <= 2
  <2>1. IsFiniteSet(L) /\ Cardinality(L) <= 1
    BY OneBound
  <2>2. IsFiniteSet(R) /\ Cardinality(R) <= 1
    BY OneBound
  <2> HIDE DEF L, R
  <2> QED
    BY <2>1, <2>2, UnionBound
<1>3. Cardinality(L \cup R) \in Nat
  BY <1>2, FS_CardinalityType
<1> QED
  BY <1>1, <1>2, <1>3 DEF Neighbours

\* The ladder covers what is refined later, and is never longer than its limit.
LEMMA LadderFacts ==
  ASSUME ev \in Events, NEW s \in Sizes, NEW c \in Sizes, s <= c
  PROVE  /\ Ladder(s, c) \subseteq Sizes
         /\ \A x \in Ladder(s, c) : x <= c
         /\ c \in Ladder(s, c) /\ LowCover(s, c) \in Ladder(s, c)
         /\ DipIn(c) => ev.dip \in Ladder(s, c)
         /\ IsFiniteSet(Ladder(s, c)) /\ Cardinality(Ladder(s, c)) <= AllRungs
<1> DEFINE low  == LowCover(s, c)
           near == Neighbours(s, low, c)
           dips == IF DipIn(c) THEN Neighbours(ev.dip, low, c) ELSE {}
           own  == IF DipIn(c) THEN {ev.dip} \cup dips ELSE {}
           n    == 3 + Cardinality(near) + (IF DipIn(c) THEN 1 + Cardinality(dips) ELSE 0)
           down == RungsDown(s, low, n)
           m    == n + Cardinality(down)
           up   == RungsUp(s, c, m)
<1>1. Ladder(s, c) = {low, c, s} \cup near \cup own \cup down \cup up
  BY DEF Ladder
<1>2. low \in Sizes /\ low <= s
  BY LowCoverFacts
<1>3. ev.dip \in Sizes /\ (DipIn(c) => ev.dip <= c)
  <2>1. ev.dip \in Sizes
    BY EventFacts
  <2>2. DipIn(c) => ev.dip < c
    BY DEF DipIn
  <2>3. ev.dip \in Nat /\ c \in Nat
    BY <2>1, GridFacts
  <2>4. ev.dip < c => ev.dip <= c
    BY <2>3
  <2> QED
    BY <2>1, <2>2, <2>4
<1>4. /\ \A y \in near : y \in Sizes /\ y <= c
      /\ IsFiniteSet(near) /\ Cardinality(near) \in 0 .. 2
  BY <1>2, NeighboursFacts
<1>5. /\ \A y \in own : y \in Sizes /\ y <= c
      /\ IsFiniteSet(own)
      /\ Cardinality(own) <= (IF DipIn(c) THEN 1 + Cardinality(dips) ELSE 0)
      /\ DipIn(c) => Cardinality(dips) \in 0 .. 2
  <2>1. CASE DipIn(c)
    <3>1. /\ \A y \in dips : y \in Sizes /\ y <= c
          /\ IsFiniteSet(dips) /\ Cardinality(dips) \in 0 .. 2
      BY <1>2, <1>3, <2>1, NeighboursFacts
    <3>2. IsFiniteSet({ev.dip}) /\ Cardinality({ev.dip}) = 1
      BY FS_Singleton
    <3> HIDE DEF dips
    <3>3. IsFiniteSet({ev.dip} \cup dips) /\ Cardinality({ev.dip} \cup dips) <= 1 + Cardinality(dips)
      BY <3>1, <3>2, UnionBound
    <3> QED
      BY <1>3, <2>1, <3>1, <3>3
  <2>2. CASE ~DipIn(c)
    BY <2>2, FS_EmptySet
  <2> QED
    BY <2>1, <2>2
<1>6. n \in 3 .. 8
  BY <1>4, <1>5
<1> HIDE DEF low, near, dips, own, n
<1>7. /\ \A y \in down : y \in Sizes /\ y <= c
      /\ IsFiniteSet(down) /\ Cardinality(down) \in 0 .. LowRungs - n
  <2> DEFINE f == [j \in 1 .. LowRungs - n |-> s - j * Ninth]
  <2>1. down \subseteq {f[j] : j \in 1 .. LowRungs - n} /\ DOMAIN f = 1 .. LowRungs - n
    BY DEF RungsDown
  <2>2. LowRungs - n \in Nat
    BY <1>6, RungsAssumption
  <2> DEFINE k == LowRungs - n
  <2>3. /\ IsFiniteSet(down) /\ Cardinality(down) \in Nat
        /\ Cardinality(down) <= (IF k < 0 THEN 0 ELSE k)
    <3>1. k \in Int /\ DOMAIN f = 1 .. k /\ down \subseteq {f[j] : j \in 1 .. k}
      BY <2>1, <2>2
    <3> HIDE DEF f, down, k
    <3> QED
      BY <3>1, StepsBounded
  <2>4. ASSUME NEW j \in 1 .. LowRungs - n PROVE s - j * Ninth \in Int /\ s - j * Ninth <= s
    <3>1. j \in Nat /\ Ninth \in Nat /\ s \in Nat
      BY <2>2, GridFacts
    <3>2. j * Ninth \in Nat
      BY <3>1
    <3> QED
      BY <3>1, <3>2
  <2>5. \A y \in down : y \in Sizes /\ y <= c
    BY <1>2, <2>4, GridFacts DEF RungsDown, Sizes
  <2> QED
    BY <2>2, <2>3, <2>5
<1>8. m \in Nat /\ m <= AllRungs
  BY <1>6, <1>7, RungsAssumption
<1> HIDE DEF down, m
<1>9. /\ \A y \in up : y \in Sizes /\ y <= c
      /\ IsFiniteSet(up) /\ Cardinality(up) <= AllRungs - m
  <2> DEFINE f == [j \in 1 .. AllRungs - m |-> s + j * Ninth]
  <2>1. up \subseteq {f[j] : j \in 1 .. AllRungs - m} /\ DOMAIN f = 1 .. AllRungs - m
    BY DEF RungsUp
  <2>2. AllRungs - m \in Nat
    BY <1>8, RungsAssumption
  <2> DEFINE k == AllRungs - m
  <2>3. IsFiniteSet(up) /\ Cardinality(up) <= (IF k < 0 THEN 0 ELSE k)
    <3>1. k \in Int /\ DOMAIN f = 1 .. k /\ up \subseteq {f[j] : j \in 1 .. k}
      BY <2>1, <2>2
    <3> HIDE DEF f, up, k
    <3> QED
      BY <3>1, StepsBounded
  <2>4. ASSUME NEW j \in 1 .. AllRungs - m PROVE s + j * Ninth \in Nat
    <3>1. j \in Nat /\ Ninth \in Nat /\ s \in Nat
      BY <2>2, GridFacts
    <3>2. j * Ninth \in Nat
      BY <3>1
    <3> QED
      BY <3>1, <3>2
  <2>5. \A y \in up : y \in Sizes /\ y <= c
    BY <2>4, GridFacts DEF RungsUp, Sizes
  <2> QED
    BY <2>2, <2>3, <2>5
<1> HIDE DEF up
<1>10. IsFiniteSet({low, c, s}) /\ Cardinality({low, c, s}) <= 3
  <2>1. /\ IsFiniteSet({low}) /\ Cardinality({low}) <= 1
        /\ IsFiniteSet({c}) /\ Cardinality({c}) <= 1
        /\ IsFiniteSet({s}) /\ Cardinality({s}) <= 1
    BY OneBound
  <2>2. IsFiniteSet({low} \cup {c}) /\ Cardinality({low} \cup {c}) <= 2
    BY <2>1, UnionBound
  <2>3. IsFiniteSet(({low} \cup {c}) \cup {s}) /\ Cardinality(({low} \cup {c}) \cup {s}) <= 3
    BY <2>1, <2>2, UnionBound
  <2>4. ({low} \cup {c}) \cup {s} = {low, c, s}
    OBVIOUS
  <2> QED
    BY <2>3, <2>4
<1>11. IsFiniteSet(Ladder(s, c)) /\ Cardinality(Ladder(s, c)) <= AllRungs
  <2> DEFINE k == IF DipIn(c) THEN 1 + Cardinality(dips) ELSE 0
  <2>1. /\ Cardinality(near) \in Int /\ k \in Int /\ Cardinality(down) \in Int
        /\ m \in Int /\ AllRungs - m \in Int
        /\ n = 3 + Cardinality(near) + k /\ m = n + Cardinality(down)
    BY <1>4, <1>5, <1>7, <1>8, RungsAssumption DEF n, m
  <2>2. Cardinality(own) <= k
    BY <1>5
  <2> HIDE DEF k
  <2>3. IsFiniteSet({low, c, s} \cup near) /\ Cardinality({low, c, s} \cup near) <= 3 + Cardinality(near)
    BY <1>4, <1>10, <2>1, UnionBound
  <2>4. /\ IsFiniteSet({low, c, s} \cup near \cup own)
        /\ Cardinality({low, c, s} \cup near \cup own) <= (3 + Cardinality(near)) + k
    <3> DEFINE A == {low, c, s} \cup near
    <3>1. IsFiniteSet(A) /\ IsFiniteSet(own) /\ Cardinality(A) <= 3 + Cardinality(near)
      BY <1>5, <2>3
    <3> HIDE DEF A
    <3>2. /\ IsFiniteSet(A \cup own)
          /\ {Cardinality(A), Cardinality(own), Cardinality(A \cup own)} \subseteq Nat
          /\ Cardinality(A \cup own) <= Cardinality(A) + Cardinality(own)
      BY <3>1, UnionBound
    <3>3. Cardinality(A \cup own) <= (3 + Cardinality(near)) + k
      BY <2>1, <2>2, <3>1, <3>2
    <3> QED
      BY <3>2, <3>3 DEF A
  <2>5. /\ IsFiniteSet({low, c, s} \cup near \cup own \cup down)
        /\ Cardinality({low, c, s} \cup near \cup own \cup down) <= ((3 + Cardinality(near)) + k) + Cardinality(down)
    BY <1>7, <2>1, <2>4, UnionBound
  <2>6. /\ IsFiniteSet({low, c, s} \cup near \cup own \cup down \cup up)
        /\ Cardinality({low, c, s} \cup near \cup own \cup down \cup up) <= m + (AllRungs - m)
    BY <1>9, <2>1, <2>5, UnionBound
  <2> QED
    BY <1>1, <2>1, <2>6, RungsAssumption
<1>12. \A x \in Ladder(s, c) : x \in Sizes /\ x <= c
  <2>1. c <= c /\ low <= c
    BY <1>2, GridFacts
  <2> QED
    BY <1>1, <1>2, <1>4, <1>5, <1>7, <1>9, <2>1
<1>13. DipIn(c) => ev.dip \in own
  BY DEF own
<1> QED
  BY <1>1, <1>11, <1>12, <1>13 DEF low

\* No size above the cap profits, whichever envelope found it.
LEMMA CapFacts ==
  ASSUME ev \in Events, ctx \in Contexts, NEW s \in Sizes, NEW e \in Envelopes
  PROVE  /\ CapBy(s, e)[1] \in Sizes /\ CapBy(s, e)[2] \in Sizes
         /\ CapBy(s, e)[1] <= CapBy(s, e)[2]
         /\ \A x \in Sizes : x > CapBy(s, e)[2] => Value(ctx, x) <= 0
<1>1. e \in Ends \X Ends /\ \A x \in Sizes : Value(ctx, x) > 0 => Positive(e, x)
  BY DEF Envelopes
<1>2. e[1] \in Nat /\ e[2] \in Nat /\ s \in Nat /\ s <= Top /\ Top \in Nat
  <2>1. Ends \subseteq Nat
    BY ProfitAssumption
  <2>2. e[1] \in Ends /\ e[2] \in Ends
    BY <1>1
  <2>3. s \in Nat /\ s <= Top /\ Top \in Nat
    BY GridFacts DEF Sizes
  <2> QED
    BY <2>1, <2>2, <2>3
<1>3. \A x \in Sizes : x \in Nat /\ x <= Top /\ Value(ctx, x) \in Int
  BY ValueType, GridFacts DEF Sizes
<1>4. ASSUME NEW c \in Sizes, c > e[2]
      PROVE  \A x \in Sizes : x > c => Value(ctx, x) <= 0
  BY <1>1, <1>2, <1>3, <1>4 DEF Positive
<1>5. CASE Positive(e, s)
  <2> DEFINE out == {x \in Above(s) : ~Positive(e, x)}
  <2>1. \A x \in Above(s) : x \in Sizes /\ s <= x
    <3> SUFFICES ASSUME NEW j \in 1 .. Top \div Ninth, s + j * Ninth < Top
                 PROVE  s + j * Ninth \in Sizes /\ s <= s + j * Ninth
      BY DEF Above
    <3>1. j \in Nat /\ Ninth \in Nat
      BY GridFacts
    <3>2. j * Ninth \in Nat
      BY <3>1
    <3> QED
      BY <1>2, <3>2 DEF Sizes
  <2>2. CASE out = {}
    <3>1. CapBy(s, e) = <<s, Top>>
      BY <1>5, <2>2 DEF CapBy
    <3> QED
      BY <1>2, <1>3, <3>1 DEF Sizes
  <2>3. CASE out # {}
    <3>1. out \in SUBSET Sizes
      BY <2>1
    <3>2. LeastOf(out) \in out
      BY <2>3, <3>1, LeastIsLeast
    <3>3. CapBy(s, e) = <<s, LeastOf(out)>>
      BY <1>5, <2>3 DEF CapBy
    <3>4. LeastOf(out) \in Sizes /\ s <= LeastOf(out) /\ ~Positive(e, LeastOf(out))
      BY <2>1, <3>2
    <3>5. LeastOf(out) > e[2]
      <4>1. e[1] <= s /\ ~(e[1] <= LeastOf(out) /\ LeastOf(out) <= e[2])
        BY <1>5, <3>4 DEF Positive
      <4>2. LeastOf(out) \in Nat
        BY <1>3, <3>4
      <4> QED
        BY <1>2, <3>4, <4>1, <4>2
    <3> QED
      BY <1>4, <3>3, <3>4, <3>5
  <2> QED
    BY <2>2, <2>3
<1>6. CASE ~Positive(e, s)
  <2> DEFINE in == {x \in Below(s) : Positive(e, x)}
  <2>1. \A x \in Below(s) : x \in Sizes /\ x <= s
    <3> SUFFICES ASSUME NEW j \in 1 .. Top \div Ninth + 1, s > j * Ninth
                 PROVE  s - j * Ninth \in Sizes /\ s - j * Ninth <= s
      BY <1>2, GridFacts DEF Below
    <3>1. j \in Nat /\ Ninth \in Nat
      BY GridFacts
    <3>2. j * Ninth \in Nat
      BY <3>1
    <3> QED
      BY <1>2, <3>2 DEF Sizes
  <2>2. CASE in = {}
    <3>1. CapBy(s, e) = <<s, Top>>
      BY <1>6, <2>2 DEF CapBy
    <3> QED
      BY <1>2, <1>3, <3>1 DEF Sizes
  <2>3. CASE in # {}
    <3>1. in \in SUBSET Sizes
      BY <2>1
    <3> DEFINE m == CHOOSE x \in in : \A y \in in : y <= x
    <3>2. m \in in
      BY <2>3, <3>1, GreatestExists
    <3>3. CapBy(s, e) = <<m, s>>
      BY <1>6, <2>3 DEF CapBy
    <3> HIDE DEF m
    <3>4. m \in Sizes /\ m <= s /\ Positive(e, m)
      BY <2>1, <3>2
    <3>5. s > e[2]
      BY <1>2, <1>3, <1>6, <3>4 DEF Positive
    <3> QED
      BY <1>4, <3>3, <3>4, <3>5
  <2> QED
    BY <2>2, <2>3
<1> QED
  BY <1>5, <1>6

-----------------------------------------------------------------------------
(* Quotes. *)

\* What the cache has under a size and direction is the swap of that size.
LEMMA QuoteIsValue ==
  ASSUME TypeOK, NEW x \in Sizes
  PROVE  Preview(x) = Kept(x, dir) /\ Quote(x) = Value(ctx, x)
<1> DEFINE e == previews[Slot[<<x, dir>>]]
<1>1. <<x, dir>> \in DOMAIN Slot
  BY SlotAssumption DEF TypeOK
<1>2. e = Empty \/ \E y \in Sizes, d \in Directions : e = Kept(y, d)
  BY <1>1 DEF TypeOK, PreviewsOK
<1> HIDE DEF e
<1>3. ASSUME Hit(x) PROVE e = Kept(x, dir)
  <2>1. Empty.dx # x
    BY GridFacts DEF Empty
  <2>2. e.dx = x /\ e.input = dir
    BY <1>3 DEF Hit, e
  <2>3. PICK y \in Sizes, d \in Directions : e = Kept(y, d)
    BY <1>2, <2>1, <2>2
  <2>4. Kept(y, d).dx = y /\ Kept(y, d).input = d
    BY DEF Kept
  <2>5. y = x /\ d = dir
    BY <2>2, <2>3, <2>4
  <2> QED
    BY <2>3, <2>5
<1>4. Preview(x) = Kept(x, dir)
  BY <1>3 DEF Preview, Kept, e
<1>5. Preview(x).swap = <<ev.shape, x>>
  BY <1>4 DEF Kept
<1> QED
  BY <1>4, <1>5 DEF Quote, Value

\* A quote is counted, kept if it is the best so far, and cached.
LEMMA EvaluateFacts ==
  ASSUME TypeOK, NEW x \in Sizes, Evaluate(x), ev' = ev
  PROVE  /\ evals' = evals + 1 /\ evals' \in Nat
         /\ best' \in [some : BOOLEAN, dx : Sizes, profit : Int] /\ best'.some
         /\ Value(ctx, x) <= best'.profit
         /\ best.some => best.profit <= best'.profit
         /\ (best.some => best.profit = Value(ctx, best.dx)) => best'.profit = Value(ctx, best'.dx)
         /\ PreviewsOK'
<1>1. Quote(x) = Value(ctx, x) /\ Preview(x) = Kept(x, dir) /\ Value(ctx, x) \in Int
  BY QuoteIsValue, ValueType DEF TypeOK
<1>2. evals' = evals + 1 /\ evals' \in Nat
  BY DEF Evaluate, TypeOK
<1>3. best' = IF ~best.some \/ Value(ctx, x) > best.profit
              THEN [some |-> TRUE, dx |-> x, profit |-> Value(ctx, x)] ELSE best
  BY <1>1 DEF Evaluate
<1>4. best.some \in BOOLEAN /\ best.dx \in Sizes /\ best.profit \in Int
  BY DEF TypeOK
<1>5. best' \in [some : BOOLEAN, dx : Sizes, profit : Int] /\ best'.some
  BY <1>1, <1>3, <1>4 DEF TypeOK
<1>6. Value(ctx, x) <= best'.profit /\ (best.some => best.profit <= best'.profit)
  BY <1>1, <1>3, <1>4
<1>7. (best.some => best.profit = Value(ctx, best.dx)) => best'.profit = Value(ctx, best'.dx)
  BY <1>3
<1>8. \A y \in Sizes, d \in Directions : Kept(y, d)' = Kept(y, d)
  BY DEF Kept
<1>9. Kept(x, dir) \in {Kept(y, d) : y \in Sizes, d \in Directions}
  BY DEF TypeOK
<1>10. previews' = previews \/ previews' = [previews EXCEPT ![Slot[<<x, dir>>]] = Kept(x, dir)]
  BY <1>1 DEF Evaluate
<1>11. previews' \in [{Slot[k] : k \in DOMAIN Slot} ->
                        {Empty} \cup {Kept(y, d) : y \in Sizes, d \in Directions}]
  BY <1>9, <1>10 DEF TypeOK, PreviewsOK
<1>12. {Kept(y, d)' : y \in Sizes, d \in Directions} = {Kept(y, d) : y \in Sizes, d \in Directions}
  BY <1>8
<1> QED
  BY <1>2, <1>5, <1>6, <1>7, <1>11, <1>12 DEF PreviewsOK

-----------------------------------------------------------------------------
(* The invariant of a search. *)

Searching == phase = "scan" \/ Searched

\* The ladder is short, ends at the cap, and holds what the basin and the dust rely on.
RungsInv ==
  /\ Cardinality(rungs) <= AllRungs
  /\ Searching => /\ \A x \in rungs : x <= cap
                  /\ cap \in rungs /\ LowCover(seed, cap) \in rungs
                  /\ DipIn(cap) => ev.dip \in rungs

\* What the scan has seen is what it is worth, and no better than the best.
SeenInv ==
  Searching =>
    /\ DOMAIN seen \subseteq rungs
    /\ Searched => DOMAIN seen = rungs
    /\ \A x \in DOMAIN seen : ~ByEnvelope(x) =>
         seen[x] = Value(ctx, x) /\ best.some /\ seen[x] <= best.profit

BestInv == Searching /\ best.some => best.profit = Value(ctx, best.dx)

\* The scan quotes a rung once; after it every quote is preceded by its test.
BudgetInv ==
  /\ evals <= MaxEvals
  /\ phase = "cap" => evals = 0 /\ ~best.some
  /\ phase = "scan" => evals <= Cardinality(DOMAIN seen)
  /\ phase \in {"basinHigh", "mid"} => evals < MaxEvals

\* The inner point of a bracket was quoted.
TriInv ==
  /\ phase \in {"cap", "scan"} => back = "none"
  /\ phase = "refine" => back # "none"
  /\ Searched /\ (back # "none" \/ phase = "basinHigh") =>
       tri.vb = Value(ctx, tri.b) /\ tri.vb <= best.profit

\* The basin is around a dip inside of the range.
BasinInv ==
  /\ phase \in {"basin", "basinHigh"} => DipIn(cap) /\ tries \in Nat \ {0}
  /\ phase = "basinHigh" => tri.a < tri.b /\ tri.b < tri.c

\* An endpoint probe works towards a point that is no better.
ProbeInv == phase = "probe" => ends.end # ends.inner /\ ends.vin <= ends.vend

\* The smallest size was quoted before the end.
DustInv == phase \in {"mid", "end"} => Value(ctx, 0) <= best.profit

\* The answer is worth what it says.
SizedInv ==
  phase = "sized" /\ answer.trade => answer.profit = Value(ctx, answer.dx) /\ answer.profit > 0

SearchInv ==
  /\ TypeOK /\ RungsInv /\ SeenInv /\ BestInv /\ BudgetInv /\ TriInv /\ BracketHolds
  /\ BasinInv /\ ProbeInv /\ DustInv /\ SizedInv /\ ExcludedSizesLose

-----------------------------------------------------------------------------
(* Steps inside of a search. *)

LEMMA EmptyLadder == Cardinality({}) <= AllRungs
  BY FS_EmptySet, RungsAssumption

LEMMA RefuseInv ==
  ASSUME SearchInv, Refuse
  PROVE  SearchInv'
<1>1. TypeOK'
  BY GridFacts DEF SearchInv, TypeOK, Refuse, NoTrade, Phases, PreviewsOK, Kept
<1>2. SizedInv'
  BY DEF SizedInv, Refuse, NoTrade
<1> QED
  BY <1>1, <1>2 DEF SearchInv, Refuse, RungsInv, SeenInv, BestInv, BudgetInv, TriInv, BracketHolds,
     BasinInv, ProbeInv, DustInv, ExcludedSizesLose, Searching, Searched

LEMMA ScreenInv ==
  ASSUME SearchInv, Screen
  PROVE  SearchInv'
<1>1. TypeOK'
  BY GridFacts DEF SearchInv, TypeOK, Screen, NoTrade, Phases, PreviewsOK, Kept
<1>2. SizedInv'
  BY DEF SizedInv, Screen, NoTrade
<1> QED
  BY <1>1, <1>2 DEF SearchInv, Screen, RungsInv, SeenInv, BestInv, BudgetInv, TriInv, BracketHolds,
     BasinInv, ProbeInv, DustInv, ExcludedSizesLose, Searching, Searched

LEMMA AdmitInv ==
  ASSUME SearchInv, Admit
  PROVE  SearchInv'
<1>1. seed' \in Sizes /\ dir' \in Directions
  BY EventFacts DEF SearchInv, TypeOK, Admit, Selected, Directions
<1>2. NoBest \in [some : BOOLEAN, dx : Sizes, profit : Int] /\ ~NoBest.some
  BY GridFacts DEF NoBest
<1>3. TypeOK'
  BY <1>1, <1>2 DEF SearchInv, TypeOK, Admit, Phases, PreviewsOK, Kept
<1>4. BudgetInv'
  BY <1>2, RungsAssumption DEF BudgetInv, Admit
<1> QED
  BY <1>3, <1>4 DEF SearchInv, Admit, RungsInv, SeenInv, BestInv, TriInv, BracketHolds,
     BasinInv, ProbeInv, DustInv, SizedInv, ExcludedSizesLose, Searching, Searched

LEMMA CapInv ==
  ASSUME SearchInv, Cap
  PROVE  SearchInv'
<1>1. PICK e \in Envelopes : seed' = CapBy(seed, e)[1] /\ cap' = CapBy(seed, e)[2]
  BY DEF Cap
<1>2. /\ seed' \in Sizes /\ cap' \in Sizes /\ seed' <= cap'
      /\ \A x \in Sizes : x > cap' => Value(ctx, x) <= 0
  BY <1>1, CapFacts DEF SearchInv, TypeOK
<1>3. /\ rungs' = Ladder(seed', cap') /\ seen' = << >> /\ phase = "cap" /\ phase' = "scan"
      /\ UNCHANGED <<ev, ctx, only, dir, evals, best, tri, back, ends, tries, answer, previews>>
  BY DEF Cap
<1>4. /\ rungs' \subseteq Sizes /\ (\A x \in rungs' : x <= cap')
      /\ cap' \in rungs' /\ LowCover(seed', cap') \in rungs'
      /\ DipIn(cap') => ev.dip \in rungs'
      /\ Cardinality(rungs') <= AllRungs
  BY <1>2, <1>3, LadderFacts DEF SearchInv, TypeOK
<1>5. DOMAIN seen' = {} /\ seen' \in [DOMAIN seen' -> Int]
  BY <1>3
<1>6. TypeOK'
  BY <1>2, <1>3, <1>4, <1>5 DEF SearchInv, TypeOK, Phases, PreviewsOK, Kept
<1>7. RungsInv'
  BY <1>3, <1>4 DEF RungsInv, LowCover, DipIn
<1>8. SeenInv' /\ BestInv' /\ TriInv' /\ BracketHolds' /\ BasinInv' /\ ProbeInv' /\ DustInv' /\ SizedInv'
  BY <1>3, <1>5 DEF SearchInv, SeenInv, BestInv, TriInv, BracketHolds, BasinInv, ProbeInv, DustInv,
     SizedInv, Searched, BudgetInv
<1>9. BudgetInv'
  <2>1. Cardinality(DOMAIN seen') = 0
    BY <1>5, FS_EmptySet
  <2> QED
    BY <1>3, <2>1 DEF SearchInv, BudgetInv
<1>10. ExcludedSizesLose'
  BY <1>2, <1>3 DEF ExcludedSizesLose, Value
<1> QED
  BY <1>6, <1>7, <1>8, <1>9, <1>10 DEF SearchInv

\* A rung that is not the cap's was quoted.
LEMMA InnerRungSeen ==
  ASSUME SearchInv, Searching, NEW x \in DOMAIN seen, x < cap
  PROVE  seen[x] = Value(ctx, x) /\ best.some /\ seen[x] <= best.profit
<1>1. x \in Nat /\ cap \in Nat
  BY GridFacts DEF SearchInv, TypeOK
<1>2. ~ByEnvelope(x)
  BY <1>1 DEF ByEnvelope
<1> QED
  BY <1>2 DEF SearchInv, SeenInv

LEMMA ScanInv ==
  ASSUME SearchInv, Scan
  PROVE  SearchInv'
<1>1. PICK x \in rungs :
        /\ NextRung(x)
        /\ IF ByEnvelope(x)
           THEN /\ \E v \in Value(ctx, x) .. 0 : Seen(x, v)
                /\ UNCHANGED <<evals, best, previews>>
           ELSE Evaluate(x) /\ Seen(x, Quote(x))
  BY DEF Scan
<1>2. /\ phase = "scan" /\ phase' = "scan" /\ x \in Sizes /\ ctx \in Contexts /\ ev \in Events
      /\ UNCHANGED <<ev, ctx, only, dir, seed, cap, rungs, tri, back, ends, tries, answer>>
  BY DEF Scan, SearchInv, TypeOK
<1>3. Value(ctx, x) \in Int /\ Quote(x) = Value(ctx, x)
  BY <1>2, ValueType, QuoteIsValue DEF SearchInv
<1>4. PICK v \in Int : Seen(x, v) /\ (~ByEnvelope(x) => v = Value(ctx, x))
  BY <1>1, <1>3
<1>5. x \notin DOMAIN seen /\ seen \in [DOMAIN seen -> Int] /\ DOMAIN seen \subseteq rungs
  <2>1. ~(x < x)
    BY <1>2, GridFacts
  <2> QED
    BY <1>1, <1>2, <2>1 DEF NextRung, SearchInv, SeenInv, Searching, TypeOK
<1>6. /\ DOMAIN seen' = DOMAIN seen \cup {x} /\ seen'[x] = v
      /\ \A y \in DOMAIN seen : seen'[y] = seen[y]
      /\ seen' \in [DOMAIN seen' -> Int]
  BY <1>4, <1>5 DEF Seen
<1>7. \/ ByEnvelope(x) /\ UNCHANGED <<evals, best, previews>>
      \/ ~ByEnvelope(x) /\ Evaluate(x)
  BY <1>1
<1>8. /\ evals' \in Nat /\ evals' <= evals + 1
      /\ best' \in [some : BOOLEAN, dx : Sizes, profit : Int]
      /\ ~ByEnvelope(x) => best'.some /\ Value(ctx, x) <= best'.profit
      /\ best.some => best'.some /\ best.profit <= best'.profit
      /\ (best.some => best.profit = Value(ctx, best.dx)) => (best'.some => best'.profit = Value(ctx, best'.dx))
  <2>1. CASE Evaluate(x) /\ ~ByEnvelope(x)
    BY <1>2, <2>1, EvaluateFacts DEF SearchInv
  <2>2. CASE ByEnvelope(x) /\ UNCHANGED <<evals, best, previews>>
    BY <2>2 DEF SearchInv, TypeOK
  <2> QED
    BY <1>7, <2>1, <2>2
<1>9. PreviewsOK'
  <2>1. CASE Evaluate(x)
    BY <1>2, <2>1, EvaluateFacts DEF SearchInv
  <2>2. CASE UNCHANGED previews
    BY <1>2, <2>2 DEF SearchInv, TypeOK, PreviewsOK, Kept
  <2> QED
    BY <1>7, <2>1, <2>2
<1>10. TypeOK'
  BY <1>2, <1>5, <1>6, <1>8, <1>9 DEF SearchInv, TypeOK
<1>11. \A y : ByEnvelope(y)' <=> ByEnvelope(y)
  BY <1>2 DEF ByEnvelope
<1>12. \A c, y : Value(c, y)' = Value(c, y)
  BY <1>2 DEF Value
<1>13. SeenInv'
  <2>1. DOMAIN seen' \subseteq rungs' /\ ~Searched'
    BY <1>2, <1>5, <1>6 DEF Searched
  <2>2. ASSUME NEW y \in DOMAIN seen', ~ByEnvelope(y)
        PROVE  seen'[y] = Value(ctx, y) /\ best'.some /\ seen'[y] <= best'.profit
    <3>1. CASE y = x
      BY <1>4, <1>6, <1>8, <2>2, <3>1
    <3>2. CASE y # x
      <4>1. y \in DOMAIN seen
        BY <1>6, <3>2
      <4>2. seen[y] = Value(ctx, y) /\ best.some /\ seen[y] <= best.profit
        BY <1>2, <2>2, <4>1 DEF SearchInv, SeenInv, Searching
      <4>3. seen[y] \in Int /\ best.profit \in Int /\ best'.profit \in Int
        BY <1>5, <1>8, <4>1 DEF SearchInv, TypeOK
      <4> QED
        BY <1>6, <1>8, <4>1, <4>2, <4>3
    <3> QED
      BY <3>1, <3>2
  <2> QED
    BY <1>2, <1>11, <1>12, <2>1, <2>2 DEF SeenInv
<1>14. BestInv'
  BY <1>2, <1>8, <1>12 DEF SearchInv, BestInv, Searching
<1>15. BudgetInv'
  <2>1. IsFiniteSet(DOMAIN seen') /\ IsFiniteSet(rungs) /\ Cardinality(rungs) \in Nat
    <3>1. IsFiniteSet(Sizes)
      BY FS_Interval, GridFacts DEF Sizes
    <3>2. IsFiniteSet(rungs)
      BY <3>1, FS_Subset DEF SearchInv, TypeOK
    <3>3. DOMAIN seen' \in SUBSET rungs
      BY <1>5, <1>6
    <3> QED
      BY <3>2, <3>3, FS_Subset, FS_CardinalityType
  <2>2. Cardinality(DOMAIN seen') = Cardinality(DOMAIN seen) + 1 /\ Cardinality(DOMAIN seen) \in Nat
    <3>1. IsFiniteSet(DOMAIN seen)
      BY <1>6, <2>1, FS_Subset
    <3> QED
      BY <1>5, <1>6, <3>1, FS_AddElement, FS_CardinalityType
  <2>3. Cardinality(DOMAIN seen') <= Cardinality(rungs)
    <3>1. DOMAIN seen' \in SUBSET rungs
      BY <1>5, <1>6
    <3> QED
      BY <2>1, <3>1, FS_Subset
  <2>4. evals' <= Cardinality(DOMAIN seen')
    <3>1. evals <= Cardinality(DOMAIN seen) /\ evals \in Nat
      BY <1>2 DEF SearchInv, BudgetInv, TypeOK
    <3> QED
      BY <1>8, <2>2, <3>1
  <2>5. Cardinality(rungs) <= AllRungs /\ AllRungs <= MaxEvals /\ {AllRungs, MaxEvals} \subseteq Nat
    BY RungsAssumption DEF SearchInv, RungsInv
  <2>6. evals' <= MaxEvals
    BY <1>8, <2>1, <2>2, <2>3, <2>4, <2>5
  <2> QED
    BY <1>2, <2>4, <2>6 DEF BudgetInv
<1>16. RungsInv' /\ ExcludedSizesLose'
  BY <1>2, <1>12 DEF SearchInv, RungsInv, ExcludedSizesLose, Searching, LowCover, DipIn
<1>17. TriInv' /\ BracketHolds' /\ BasinInv' /\ ProbeInv' /\ DustInv' /\ SizedInv'
  BY <1>2 DEF SearchInv, TriInv, BracketHolds, BasinInv, ProbeInv, DustInv, SizedInv, Searched
<1> QED
  BY <1>10, <1>13, <1>14, <1>15, <1>16, <1>17 DEF SearchInv

-----------------------------------------------------------------------------
(* Steps after the scan. *)

\* Some rung is not the cap's own, so something was quoted.
LEMMA SomethingQuoted ==
  ASSUME SearchInv, Searching, DOMAIN seen = rungs
  PROVE  best.some
<1>1. cap \in rungs
  BY DEF SearchInv, RungsInv
<1>2. \E x \in rungs : ~ByEnvelope(x)
  <2>1. CASE rungs = {cap}
    BY <1>1, <2>1 DEF ByEnvelope
  <2>2. CASE rungs # {cap}
    <3>1. PICK y \in rungs : y # cap
      BY <1>1, <2>2
    <3> QED
      BY <3>1 DEF ByEnvelope
  <2> QED
    BY <2>1, <2>2
<1> QED
  BY <1>2 DEF SearchInv, SeenInv

\* What every step after the scan keeps: it makes one quote or none.
LEMMA SearchFrame ==
  ASSUME SearchInv, Searching, DOMAIN seen = rungs,
         Searched' \/ phase' = "sized",
         UNCHANGED <<ev, ctx, dir, seed, cap, rungs, seen>>,
         UNCHANGED <<evals, best, previews>> \/ \E x \in Sizes : Evaluate(x)
  PROVE  /\ RungsInv' /\ SeenInv' /\ BestInv' /\ ExcludedSizesLose'
         /\ PreviewsOK' /\ evals' \in Nat
         /\ best' \in [some : BOOLEAN, dx : Sizes, profit : Int]
         /\ best.some /\ best'.some /\ best.profit <= best'.profit
         /\ best.profit \in Int /\ best'.profit \in Int
         /\ best.profit = Value(ctx, best.dx)
<1>1. best.some
  BY SomethingQuoted
<1>2. /\ PreviewsOK' /\ evals' \in Nat
      /\ best' \in [some : BOOLEAN, dx : Sizes, profit : Int]
      /\ best'.some /\ best.profit <= best'.profit
      /\ best.profit = Value(ctx, best.dx) => best'.profit = Value(ctx, best'.dx)
  <2>1. CASE UNCHANGED <<evals, best, previews>>
    BY <1>1, <2>1 DEF SearchInv, TypeOK, PreviewsOK, Kept
  <2>2. ASSUME NEW x \in Sizes, Evaluate(x)
        PROVE  /\ PreviewsOK' /\ evals' \in Nat
               /\ best' \in [some : BOOLEAN, dx : Sizes, profit : Int]
               /\ best'.some /\ best.profit <= best'.profit
               /\ best.profit = Value(ctx, best.dx) => best'.profit = Value(ctx, best'.dx)
    BY <1>1, <2>2, EvaluateFacts DEF SearchInv
  <2> QED
    BY <2>1, <2>2
<1>3. best.profit \in Int /\ best'.profit \in Int
  BY <1>2 DEF SearchInv, TypeOK
<1>4. best.profit = Value(ctx, best.dx)
  BY <1>1 DEF SearchInv, BestInv
<1>5. \A c, y : Value(c, y)' = Value(c, y)
  BY DEF Value
<1>6. \A y : ByEnvelope(y)' <=> ByEnvelope(y)
  BY DEF ByEnvelope
<1>7. SeenInv'
  <2>1. \A y \in DOMAIN seen : ~ByEnvelope(y) =>
          seen[y] = Value(ctx, y) /\ seen[y] <= best.profit /\ seen[y] \in Int
    BY DEF SearchInv, SeenInv, TypeOK
  <2>2. \A y \in DOMAIN seen : ~ByEnvelope(y) => seen[y] <= best'.profit
    BY <1>2, <1>3, <2>1
  <2> QED
    BY <1>2, <1>5, <1>6, <2>1, <2>2 DEF SeenInv
<1>8. BestInv'
  BY <1>2, <1>4, <1>5 DEF BestInv
<1>9. RungsInv'
  BY DEF SearchInv, RungsInv, Searching, LowCover, DipIn
<1>10. ExcludedSizesLose'
  BY <1>5 DEF SearchInv, ExcludedSizesLose, Searching
<1> QED
  BY <1>1, <1>2, <1>3, <1>4, <1>7, <1>8, <1>9, <1>10

\* The best rung has rungs on both sides: it is below the cap, so it was quoted.
LEMMA PickInnerInv ==
  ASSUME SearchInv, PickInner
  PROVE  SearchInv'
<1>1. PICK a, b, c \in rungs :
        /\ Peak(b) /\ Adjacent(a, b) /\ Adjacent(b, c)
        /\ Bracket(a, b, c, seen[a], seen[b], seen[c])
  BY DEF PickInner
<1>2. /\ phase = "scan" /\ DOMAIN seen = rungs /\ phase' = "refine" /\ back' = "dip"
      /\ UNCHANGED <<ev, ctx, only, dir, seed, cap, rungs, seen, evals, best,
                     ends, tries, answer, previews>>
  BY DEF PickInner
<1>3. /\ RungsInv' /\ SeenInv' /\ BestInv' /\ ExcludedSizesLose' /\ PreviewsOK'
  BY <1>2, SearchFrame DEF Searching, Searched
<1>4. {a, b, c} \subseteq Sizes /\ {a, b, c} \subseteq Nat /\ a < b /\ b < c /\ c <= Top /\ Top \in Nat
  BY <1>1, GridFacts DEF Adjacent, SearchInv, TypeOK, Sizes
<1>5. {seen[a], seen[b], seen[c]} \subseteq Int /\ seen[a] <= seen[b] /\ seen[c] <= seen[b]
  BY <1>1, <1>2 DEF Peak, SearchInv, TypeOK
<1>6. b < cap
  <2>1. c <= cap /\ cap \in Nat
    BY <1>2, GridFacts DEF SearchInv, RungsInv, Searching, TypeOK
  <2> QED
    BY <1>4, <2>1
<1>7. seen[b] = Value(ctx, b) /\ seen[b] <= best.profit
  BY <1>2, <1>6, InnerRungSeen DEF Searching
<1>8. /\ tri'.a = a /\ tri'.b = b /\ tri'.c = c
      /\ tri'.va = seen[a] /\ tri'.vb = seen[b] /\ tri'.vc = seen[c]
      /\ tri' \in [a : Sizes, b : Sizes, c : Sizes, va : Int, vb : Int, vc : Int]
  BY <1>1, <1>4, <1>5 DEF Bracket
<1>9. TypeOK'
  BY <1>2, <1>3, <1>8 DEF SearchInv, TypeOK, Phases
<1>10. Value(ctx, b)' = Value(ctx, b)
  BY <1>2 DEF Value
<1>11. TriInv' /\ BracketHolds'
  BY <1>2, <1>4, <1>5, <1>7, <1>8, <1>10 DEF TriInv, BracketHolds, Value
<1>12. BudgetInv' /\ BasinInv' /\ ProbeInv' /\ DustInv' /\ SizedInv'
  BY <1>2 DEF SearchInv, BudgetInv, BasinInv, ProbeInv, DustInv, SizedInv
<1> QED
  BY <1>3, <1>9, <1>11, <1>12 DEF SearchInv

LEMMA PickEndInv ==
  ASSUME SearchInv, PickEnd
  PROVE  SearchInv'
<1>1. PICK b, n \in rungs :
        /\ Peak(b) /\ (Adjacent(b, n) \/ Adjacent(n, b))
        /\ ends' = [end |-> b, inner |-> n, vend |-> seen[b], vin |-> seen[n]]
  BY DEF PickEnd
<1>2. /\ phase = "scan" /\ DOMAIN seen = rungs /\ phase' = "probe" /\ tries' = 0
      /\ UNCHANGED <<ev, ctx, only, dir, seed, cap, rungs, seen, evals, best, tri, back,
                     answer, previews>>
  BY DEF PickEnd
<1>3. RungsInv' /\ SeenInv' /\ BestInv' /\ ExcludedSizesLose' /\ PreviewsOK'
  BY <1>2, SearchFrame DEF Searching, Searched
<1>4. {b, n} \subseteq Sizes /\ {b, n} \subseteq Nat /\ (b < n \/ n < b)
  BY <1>1, GridFacts DEF Adjacent, SearchInv, TypeOK
<1>5. {seen[b], seen[n]} \subseteq Int /\ seen[n] <= seen[b]
  BY <1>1, <1>2 DEF Peak, SearchInv, TypeOK
<1>6. TypeOK'
  BY <1>1, <1>2, <1>3, <1>4, <1>5 DEF SearchInv, TypeOK, Phases
<1>7. ProbeInv'
  BY <1>1, <1>4, <1>5 DEF ProbeInv
<1>8. BudgetInv' /\ TriInv' /\ BracketHolds' /\ BasinInv' /\ DustInv' /\ SizedInv'
  BY <1>2 DEF SearchInv, BudgetInv, TriInv, BracketHolds, BasinInv, DustInv, SizedInv
<1> QED
  BY <1>3, <1>6, <1>7, <1>8 DEF SearchInv

LEMMA ProbeStepInv ==
  ASSUME SearchInv, Probe
  PROVE  SearchInv'
<1>1. PICK t \in Between(ends.end, ends.inner) :
       /\ Evaluate(t)
       /\ IF Quote(t) > ends.vend
          THEN /\ IF ends.inner < ends.end
                  THEN Bracket(ends.inner, t, ends.end, ends.vin, Quote(t), ends.vend)
                  ELSE Bracket(ends.end, t, ends.inner, ends.vend, Quote(t), ends.vin)
               /\ phase' = "refine" /\ back' = "dip"
               /\ UNCHANGED <<ends, tries>>
          ELSE /\ ends' = [ends EXCEPT !.inner = t, !.vin = Quote(t)]
               /\ tries' = tries + 1
               /\ UNCHANGED <<phase, tri, back>>
  BY DEF Probe
<1>2. /\ phase = "probe" /\ evals < MaxEvals /\ phase' \in {"probe", "refine"}
      /\ UNCHANGED <<ev, ctx, only, dir, seed, cap, rungs, seen, answer>>
  BY <1>1 DEF Probe, MoreProbes
<1>3. DOMAIN seen = rungs /\ Searching /\ Searched' /\ t \in Sizes
  BY <1>1, <1>2 DEF SearchInv, SeenInv, Searching, Searched, Between
<1>4. /\ RungsInv' /\ SeenInv' /\ BestInv' /\ ExcludedSizesLose' /\ PreviewsOK' /\ evals' \in Nat
      /\ best' \in [some : BOOLEAN, dx : Sizes, profit : Int]
      /\ best.profit <= best'.profit /\ best.profit \in Int /\ best'.profit \in Int
  BY <1>1, <1>2, <1>3, SearchFrame
<1>5. evals' = evals + 1 /\ Value(ctx, t) <= best'.profit
  BY <1>1, <1>2, <1>3, EvaluateFacts DEF SearchInv
<1>6. Quote(t) = Value(ctx, t) /\ Value(ctx, t) \in Int /\ \A y : Value(ctx, y)' = Value(ctx, y)
  <2>1. ev \in Events /\ ctx \in Contexts /\ TypeOK
    BY DEF SearchInv, TypeOK
  <2>2. \A y : Value(ctx, y)' = Value(ctx, y)
    BY <1>2 DEF Value
  <2> QED
    BY <1>3, <2>1, <2>2, ValueType, QuoteIsValue
<1>7. /\ ends.end \in Sizes /\ ends.inner \in Sizes /\ ends.vend \in Int /\ ends.vin \in Int
      /\ ends \in [end : Sizes, inner : Sizes, vend : Int, vin : Int]
      /\ ends.vin <= ends.vend
  BY <1>2 DEF SearchInv, TypeOK, ProbeInv
<1>8. /\ ends.end \in Nat /\ ends.inner \in Nat /\ t \in Nat /\ Top \in Nat
      /\ ends.end <= Top /\ ends.inner <= Top
      /\ (ends.end < t /\ t < ends.inner) \/ (ends.inner < t /\ t < ends.end)
  BY <1>1, <1>7, GridFacts DEF Between, Sizes
<1>9. BudgetInv'
  BY <1>2, <1>5, RungsAssumption DEF SearchInv, BudgetInv, TypeOK
<1>10. BasinInv' /\ DustInv' /\ SizedInv'
  BY <1>2 DEF BasinInv, DustInv, SizedInv
<1>11. CASE Quote(t) > ends.vend
  <2>1. /\ phase' = "refine" /\ back' = "dip" /\ UNCHANGED <<ends, tries>>
        /\ tri'.b = t /\ tri'.vb = Quote(t)
        /\ \/ /\ ends.inner < ends.end /\ tri'.a = ends.inner /\ tri'.c = ends.end
              /\ tri'.va = ends.vin /\ tri'.vc = ends.vend
           \/ /\ ~(ends.inner < ends.end) /\ tri'.a = ends.end /\ tri'.c = ends.inner
              /\ tri'.va = ends.vend /\ tri'.vc = ends.vin
        /\ tri' \in [a : Sizes, b : Sizes, c : Sizes, va : Int, vb : Int, vc : Int]
    BY <1>1, <1>3, <1>6, <1>7, <1>11 DEF Bracket
  <2>2. TypeOK'
    BY <1>2, <1>4, <2>1 DEF SearchInv, TypeOK, Phases
  <2>3. BracketHolds'
    <3>1. 0 <= tri'.a /\ tri'.a < tri'.b /\ tri'.b < tri'.c /\ tri'.c <= Top
      BY <1>8, <2>1
    <3>2. tri'.vb >= tri'.va /\ tri'.vb >= tri'.vc
      BY <1>6, <1>7, <1>11, <2>1
    <3> QED
      BY <1>2, <1>6, <2>1, <3>1, <3>2 DEF BracketHolds, Value
  <2>4. TriInv' /\ ProbeInv'
    BY <1>2, <1>5, <1>6, <2>1 DEF TriInv, ProbeInv, Value
  <2> QED
    BY <1>4, <1>9, <1>10, <2>2, <2>3, <2>4 DEF SearchInv
<1>12. CASE ~(Quote(t) > ends.vend)
  <2>1. /\ ends' = [ends EXCEPT !.inner = t, !.vin = Quote(t)]
        /\ tries' = tries + 1 /\ UNCHANGED <<phase, tri, back>>
    BY <1>1, <1>12
  <2>2. /\ ends'.end = ends.end /\ ends'.inner = t /\ ends'.vend = ends.vend /\ ends'.vin = Quote(t)
        /\ ends' \in [end : Sizes, inner : Sizes, vend : Int, vin : Int]
    BY <1>3, <1>6, <1>7, <2>1
  <2>3. TypeOK'
    BY <1>2, <1>4, <2>1, <2>2 DEF SearchInv, TypeOK
  <2>4. ProbeInv'
    BY <1>6, <1>7, <1>8, <1>12, <2>2 DEF ProbeInv
  <2>5. TriInv' /\ BracketHolds'
    <3>1. back # "none" => tri.vb = Value(ctx, tri.b) /\ tri.vb <= best.profit
      BY <1>2 DEF SearchInv, TriInv, Searched
    <3>2. tri.vb \in Int
      BY DEF SearchInv, TypeOK
    <3>3. back # "none" => tri.vb <= best'.profit
      BY <1>4, <3>1, <3>2
    <3> QED
      BY <1>2, <1>6, <2>1, <3>1, <3>3 DEF TriInv, BracketHolds, Value
  <2> QED
    BY <1>4, <1>9, <1>10, <2>3, <2>4, <2>5 DEF SearchInv
<1> QED
  BY <1>11, <1>12

\* A step after the scan that makes no quote and goes to another part of the search.
LEMMA QuietInv ==
  ASSUME SearchInv, Searched, phase' \in {"dip", "basin", "dust"},
         phase' = "basin" => DipIn(cap) /\ tries' \in Nat \ {0},
         tries' \in Nat,
         UNCHANGED <<ev, ctx, only, dir, seed, cap, rungs, seen, evals, best, tri, back, ends,
                     answer, previews>>
  PROVE  SearchInv'
<1>1. DOMAIN seen = rungs /\ Searching /\ Searched'
  BY DEF SearchInv, SeenInv, Searching, Searched
<1>2. RungsInv' /\ SeenInv' /\ BestInv' /\ ExcludedSizesLose' /\ PreviewsOK'
  BY <1>1, SearchFrame
<1>3. TypeOK'
  BY <1>2 DEF SearchInv, TypeOK, Phases
<1>4. BudgetInv' /\ TriInv' /\ BracketHolds' /\ ProbeInv' /\ DustInv' /\ SizedInv'
  BY DEF SearchInv, BudgetInv, TriInv, BracketHolds, ProbeInv, DustInv, SizedInv, Value
<1>5. BasinInv'
  BY DEF BasinInv, DipIn
<1> QED
  BY <1>2, <1>3, <1>4, <1>5 DEF SearchInv

LEMMA QuietStepsInv ==
  ASSUME SearchInv, ProbeEnds \/ Refined \/ DipNext \/ BasinEnds
  PROVE  SearchInv'
<1>1. CASE ProbeEnds
  BY <1>1, QuietInv DEF ProbeEnds, searchVars, Searched, SearchInv, TypeOK
<1>2. CASE Refined
  <2>1. back \in {"dip", "dust"}
    BY <1>2 DEF Refined, SearchInv, TypeOK, TriInv
  <2> QED
    BY <1>2, <2>1, QuietInv DEF Refined, searchVars, Searched, SearchInv, TypeOK
<1>3. CASE DipNext
  <2>1. phase' = "basin" => DipIn(cap)
    BY <1>3 DEF DipNext, DipWorthwhile
  <2> QED
    BY <1>3, <2>1, QuietInv DEF DipNext, Searched
<1>4. CASE BasinEnds
  BY <1>4, QuietInv DEF BasinEnds, searchVars, Searched, SearchInv, TypeOK
<1> QED
  BY <1>1, <1>2, <1>3, <1>4

\* A step after the scan that makes a quote.
LEMMA QuoteStep ==
  ASSUME SearchInv, Searched, Searched', NEW x \in Sizes, Evaluate(x),
         UNCHANGED <<ev, ctx, only, dir, seed, cap, rungs, seen, ends, answer>>
  PROVE  /\ RungsInv' /\ SeenInv' /\ BestInv' /\ ExcludedSizesLose' /\ PreviewsOK'
         /\ evals' = evals + 1 /\ evals \in Nat /\ evals' \in Nat
         /\ best' \in [some : BOOLEAN, dx : Sizes, profit : Int]
         /\ best.profit <= best'.profit /\ best.profit \in Int /\ best'.profit \in Int
         /\ Quote(x) = Value(ctx, x) /\ Value(ctx, x) \in Int /\ Value(ctx, x) <= best'.profit
         /\ \A y : Value(ctx, y)' = Value(ctx, y)
         /\ back # "none" \/ phase = "basinHigh" => tri.vb = Value(ctx, tri.b) /\ tri.vb <= best'.profit
<1>1. DOMAIN seen = rungs /\ Searching
  BY DEF SearchInv, SeenInv, Searching
<1>2. /\ RungsInv' /\ SeenInv' /\ BestInv' /\ ExcludedSizesLose' /\ PreviewsOK'
      /\ best' \in [some : BOOLEAN, dx : Sizes, profit : Int]
      /\ best.profit <= best'.profit /\ best.profit \in Int /\ best'.profit \in Int
  BY <1>1, SearchFrame
<1>3. evals' = evals + 1 /\ evals' \in Nat /\ evals \in Nat /\ Value(ctx, x) <= best'.profit
  BY EvaluateFacts DEF SearchInv, TypeOK
<1>4. Quote(x) = Value(ctx, x) /\ Value(ctx, x) \in Int
  <2>1. ev \in Events /\ ctx \in Contexts /\ TypeOK
    BY DEF SearchInv, TypeOK
  <2> QED
    BY <2>1, ValueType, QuoteIsValue
<1>5. \A y : Value(ctx, y)' = Value(ctx, y)
  BY DEF Value
<1>6. back # "none" \/ phase = "basinHigh" => tri.vb = Value(ctx, tri.b) /\ tri.vb <= best'.profit
  <2>1. tri.vb \in Int
    BY DEF SearchInv, TypeOK
  <2>2. back # "none" \/ phase = "basinHigh" => tri.vb = Value(ctx, tri.b) /\ tri.vb <= best.profit
    BY DEF SearchInv, TriInv
  <2> QED
    BY <1>2, <2>1, <2>2
<1> QED
  BY <1>2, <1>3, <1>4, <1>5, <1>6

\* Whichever of the two inner points is the better one becomes the middle.
LEMMA RefineInv ==
  ASSUME SearchInv, Refine
  PROVE  SearchInv'
<1>1. PICK t \in Between(tri.a, tri.c) \ {tri.b} : Evaluate(t) /\ Narrower(t, Quote(t))
  BY DEF Refine
<1>2. /\ phase = "refine" /\ phase' = "refine" /\ evals < MaxEvals
      /\ UNCHANGED <<ev, ctx, only, dir, seed, cap, rungs, seen, back, ends, tries, answer>>
  BY DEF Refine, Wide
<1>3. Searched /\ Searched' /\ t \in Sizes
  BY <1>1, <1>2 DEF Searched, Between
<1>4. /\ RungsInv' /\ SeenInv' /\ BestInv' /\ ExcludedSizesLose' /\ PreviewsOK'
      /\ evals' = evals + 1 /\ evals \in Nat /\ evals' \in Nat
      /\ best' \in [some : BOOLEAN, dx : Sizes, profit : Int]
      /\ Quote(t) = Value(ctx, t) /\ Value(ctx, t) \in Int /\ Value(ctx, t) <= best'.profit
      /\ \A y : Value(ctx, y)' = Value(ctx, y)
      /\ back # "none" => tri.vb <= best'.profit
  BY <1>1, <1>2, <1>3, QuoteStep
<1>5. /\ tri \in [a : Sizes, b : Sizes, c : Sizes, va : Int, vb : Int, vc : Int]
      /\ tri.a < tri.b /\ tri.b < tri.c /\ tri.vb >= tri.va /\ tri.vb >= tri.vc
      /\ tri.vb = Value(ctx, tri.b) /\ back # "none"
  BY <1>2 DEF SearchInv, TypeOK, BracketHolds, TriInv
<1>6. /\ tri.a \in Sizes /\ tri.b \in Sizes /\ tri.c \in Sizes
      /\ tri.va \in Int /\ tri.vb \in Int /\ tri.vc \in Int
  BY <1>5
<1>7. /\ tri.a \in Nat /\ tri.b \in Nat /\ tri.c \in Nat /\ t \in Nat
      /\ tri.a < t /\ t < tri.c /\ t # tri.b
  <2>1. tri.a \in Nat /\ tri.b \in Nat /\ tri.c \in Nat /\ t \in Nat
    BY <1>3, <1>6, GridFacts
  <2>2. t # tri.b /\ ((tri.a < t /\ t < tri.c) \/ (tri.c < t /\ t < tri.a))
    BY <1>1 DEF Between
  <2> QED
    BY <1>5, <2>1, <2>2
<1> DEFINE v == Value(ctx, t)
<1>8. /\ tri' \in [a : Sizes, b : Sizes, c : Sizes, va : Int, vb : Int, vc : Int]
      /\ tri'.a < tri'.b /\ tri'.b < tri'.c /\ tri'.vb >= tri'.va /\ tri'.vb >= tri'.vc
      /\ tri'.vb = Value(ctx, tri'.b) /\ tri'.vb <= best'.profit
  <2>0. Narrower(t, v) /\ v \in Int /\ v <= best'.profit /\ tri.vb <= best'.profit /\ v = Value(ctx, t)
    BY <1>1, <1>4, <1>5
  <2> HIDE DEF v
  <2>1. CASE t < tri.b /\ v > tri.vb
    <3>1. tri' = [a |-> tri.a, b |-> t, c |-> tri.b, va |-> tri.va, vb |-> v, vc |-> tri.vb]
      BY <2>0, <2>1 DEF Narrower, Bracket
    <3> QED
      BY <1>3, <1>5, <1>6, <1>7, <2>0, <2>1, <3>1
  <2>2. CASE t < tri.b /\ ~(v > tri.vb)
    <3>1. tri' = [a |-> t, b |-> tri.b, c |-> tri.c, va |-> v, vb |-> tri.vb, vc |-> tri.vc]
      BY <2>0, <2>2 DEF Narrower, Bracket
    <3> QED
      BY <1>3, <1>5, <1>6, <1>7, <2>0, <2>2, <3>1
  <2>3. CASE ~(t < tri.b) /\ v > tri.vb
    <3>1. tri' = [a |-> tri.b, b |-> t, c |-> tri.c, va |-> tri.vb, vb |-> v, vc |-> tri.vc]
      BY <2>0, <2>3 DEF Narrower, Bracket
    <3> QED
      BY <1>3, <1>5, <1>6, <1>7, <2>0, <2>3, <3>1
  <2>4. CASE ~(t < tri.b) /\ ~(v > tri.vb)
    <3>1. tri' = [a |-> tri.a, b |-> tri.b, c |-> t, va |-> tri.va, vb |-> tri.vb, vc |-> v]
      BY <2>0, <2>4 DEF Narrower, Bracket
    <3> QED
      BY <1>3, <1>5, <1>6, <1>7, <2>0, <2>4, <3>1
  <2> QED
    BY <2>1, <2>2, <2>3, <2>4
<1>9. TypeOK'
  BY <1>2, <1>4, <1>8 DEF SearchInv, TypeOK
<1>10. BracketHolds'
  <2>1. tri'.a \in Sizes /\ tri'.c \in Sizes
    BY <1>8
  <2>2. 0 <= tri'.a /\ tri'.c <= Top
    BY <2>1, GridFacts DEF Sizes
  <2> QED
    BY <1>4, <1>8, <2>2 DEF BracketHolds
<1>11. TriInv'
  BY <1>2, <1>4, <1>5, <1>8 DEF TriInv
<1>12. BudgetInv'
  BY <1>2, <1>4, RungsAssumption DEF BudgetInv
<1>13. BasinInv' /\ ProbeInv' /\ DustInv' /\ SizedInv'
  BY <1>2 DEF BasinInv, ProbeInv, DustInv, SizedInv
<1> QED
  BY <1>4, <1>9, <1>10, <1>11, <1>12, <1>13 DEF SearchInv

\* The dip is a rung below the cap, and its neighbours are on either side of it.
LEMMA BasinLowInv ==
  ASSUME SearchInv, BasinLow
  PROVE  SearchInv'
<1> DEFINE low == LowCover(seed, cap)
           a == IF ev.dip - Dips[tries] > low THEN ev.dip - Dips[tries] ELSE low
           c == Lesser(cap, ev.dip + Dips[tries])
<1>1. /\ phase = "basin" /\ BasinLeft /\ phase' = "basinHigh"
      /\ Evaluate(a) /\ Bracket(a, ev.dip, c, Quote(a), seen[ev.dip], 0)
      /\ UNCHANGED <<ev, ctx, only, dir, seed, cap, rungs, seen, back, ends, tries, answer>>
  BY DEF BasinLow
<1>2. DipIn(cap) /\ tries \in Nat \ {0} /\ ev \in Events /\ seed \in Sizes /\ cap \in Sizes
  BY <1>1 DEF SearchInv, BasinInv, TypeOK
<1>3. Dips[tries] \in Nat \ {0} /\ evals + 2 <= MaxEvals
  BY <1>1, <1>2, GridAssumption DEF BasinLeft
<1>4. ev.dip \in Sizes /\ ev.dip < cap /\ low \in Sizes /\ low < ev.dip
  <2>1. ev.dip \in Sizes
    BY <1>2, EventFacts
  <2>2. ev.dip < cap
    BY <1>2 DEF DipIn
  <2> QED
    BY <1>2, <2>1, <2>2, LowCoverFacts
<1>5. /\ ev.dip \in Nat /\ cap \in Nat /\ low \in Nat /\ Top \in Nat /\ cap <= Top
  BY <1>2, <1>4, GridFacts DEF Sizes
<1> HIDE DEF low
<1>6. a \in Sizes /\ c \in Sizes /\ a < ev.dip /\ ev.dip < c
  BY <1>3, <1>4, <1>5 DEF Lesser, Sizes
<1> HIDE DEF a, c
<1>7. Searched /\ Searched' /\ Searching /\ ev.dip \in DOMAIN seen
  BY <1>1, <1>2 DEF Searched, Searching, SearchInv, SeenInv, RungsInv
<1>8. /\ RungsInv' /\ SeenInv' /\ BestInv' /\ ExcludedSizesLose' /\ PreviewsOK'
      /\ evals' = evals + 1 /\ evals \in Nat /\ evals' \in Nat
      /\ best' \in [some : BOOLEAN, dx : Sizes, profit : Int]
      /\ best.profit <= best'.profit /\ best.profit \in Int /\ best'.profit \in Int
      /\ Quote(a) = Value(ctx, a) /\ Value(ctx, a) \in Int
      /\ \A y : Value(ctx, y)' = Value(ctx, y)
  BY <1>1, <1>6, <1>7, QuoteStep
<1>9. seen[ev.dip] = Value(ctx, ev.dip) /\ seen[ev.dip] <= best.profit /\ seen[ev.dip] \in Int
  BY <1>4, <1>7, InnerRungSeen DEF SearchInv, TypeOK
<1>10. tri' = [a |-> a, b |-> ev.dip, c |-> c, va |-> Value(ctx, a), vb |-> seen[ev.dip], vc |-> 0]
  BY <1>1, <1>8 DEF Bracket
<1>11. /\ tri'.a = a /\ tri'.b = ev.dip /\ tri'.c = c /\ tri'.vb = seen[ev.dip]
       /\ tri' \in [a : Sizes, b : Sizes, c : Sizes, va : Int, vb : Int, vc : Int]
  BY <1>4, <1>6, <1>8, <1>9, <1>10
<1>12. TypeOK'
  BY <1>1, <1>8, <1>11 DEF SearchInv, TypeOK, Phases
<1>13. TriInv' /\ BracketHolds'
  BY <1>1, <1>8, <1>9, <1>11 DEF TriInv, BracketHolds
<1>14. BudgetInv'
  BY <1>1, <1>3, <1>8, RungsAssumption DEF BudgetInv
<1>15. BasinInv'
  BY <1>1, <1>2, <1>6, <1>11 DEF BasinInv, DipIn
<1>16. ProbeInv' /\ DustInv' /\ SizedInv'
  BY <1>1 DEF ProbeInv, DustInv, SizedInv
<1> QED
  BY <1>8, <1>12, <1>13, <1>14, <1>15, <1>16 DEF SearchInv

LEMMA BasinHighInv ==
  ASSUME SearchInv, BasinHigh
  PROVE  SearchInv'
<1>1. /\ phase = "basinHigh" /\ Evaluate(tri.c) /\ tri' = [tri EXCEPT !.vc = Quote(tri.c)]
      /\ UNCHANGED <<ev, ctx, only, dir, seed, cap, rungs, seen, ends, answer>>
      /\ \/ /\ tri.vb >= tri.va /\ tri.vb >= Quote(tri.c)
            /\ phase' = "refine" /\ back' = "dust" /\ UNCHANGED tries
         \/ phase' = "basin" /\ tries' = tries + 1 /\ UNCHANGED back
  BY DEF BasinHigh
<1>2. /\ tri \in [a : Sizes, b : Sizes, c : Sizes, va : Int, vb : Int, vc : Int]
      /\ tri.a < tri.b /\ tri.b < tri.c /\ tries \in Nat \ {0} /\ DipIn(cap)
  BY <1>1 DEF SearchInv, TypeOK, BasinInv
<1>3. tri.a \in Sizes /\ tri.b \in Sizes /\ tri.c \in Sizes /\ tri.va \in Int /\ tri.vb \in Int
  BY <1>2
<1>4. Searched /\ Searched'
  BY <1>1 DEF Searched
<1>5. /\ RungsInv' /\ SeenInv' /\ BestInv' /\ ExcludedSizesLose' /\ PreviewsOK'
      /\ evals' = evals + 1 /\ evals \in Nat /\ evals' \in Nat
      /\ best' \in [some : BOOLEAN, dx : Sizes, profit : Int]
      /\ Quote(tri.c) = Value(ctx, tri.c) /\ Value(ctx, tri.c) \in Int
      /\ \A y : Value(ctx, y)' = Value(ctx, y)
      /\ tri.vb = Value(ctx, tri.b) /\ tri.vb <= best'.profit
  BY <1>1, <1>3, <1>4, QuoteStep
<1>6. /\ tri'.a = tri.a /\ tri'.b = tri.b /\ tri'.c = tri.c
      /\ tri'.va = tri.va /\ tri'.vb = tri.vb /\ tri'.vc = Quote(tri.c)
      /\ tri' \in [a : Sizes, b : Sizes, c : Sizes, va : Int, vb : Int, vc : Int]
  BY <1>1, <1>2, <1>5
<1>7. TypeOK'
  BY <1>1, <1>5, <1>6 DEF SearchInv, TypeOK, Phases
<1>8. BudgetInv'
  <2>1. evals < MaxEvals
    BY <1>1 DEF SearchInv, BudgetInv
  <2> QED
    BY <1>1, <1>5, <2>1, RungsAssumption DEF BudgetInv
<1>9. TriInv'
  BY <1>1, <1>5, <1>6 DEF TriInv
<1>10. BracketHolds'
  <2>1. 0 <= tri.a /\ tri.c <= Top
    BY <1>3, GridFacts DEF Sizes
  <2> QED
    BY <1>1, <1>2, <1>5, <1>6, <2>1 DEF BracketHolds
<1>11. BasinInv'
  BY <1>1, <1>2 DEF BasinInv, DipIn
<1>12. ProbeInv' /\ DustInv' /\ SizedInv'
  BY <1>1 DEF ProbeInv, DustInv, SizedInv
<1> QED
  BY <1>5, <1>7, <1>8, <1>9, <1>10, <1>11, <1>12 DEF SearchInv

\* After the smallest size was tried it is no better than the best.
LEMMA DustStepInv ==
  ASSUME SearchInv, Dust
  PROVE  SearchInv'
<1>1. /\ phase = "dust" /\ Evaluate(0) /\ phase' \in {"mid", "end"} /\ evals < MaxEvals
      /\ phase' = "mid" => evals + 1 < MaxEvals
      /\ UNCHANGED <<ev, ctx, only, dir, seed, cap, rungs, seen, tri, back, ends, tries, answer>>
  BY DEF Dust, DustWorthwhile
<1>2. Searched /\ Searched' /\ 0 \in Sizes
  BY <1>1, GridFacts DEF Searched
<1>3. /\ RungsInv' /\ SeenInv' /\ BestInv' /\ ExcludedSizesLose' /\ PreviewsOK'
      /\ evals' = evals + 1 /\ evals \in Nat /\ evals' \in Nat
      /\ best' \in [some : BOOLEAN, dx : Sizes, profit : Int]
      /\ Value(ctx, 0) <= best'.profit
      /\ \A y : Value(ctx, y)' = Value(ctx, y)
      /\ back # "none" => tri.vb = Value(ctx, tri.b) /\ tri.vb <= best'.profit
  BY <1>1, <1>2, QuoteStep
<1>4. TypeOK'
  BY <1>1, <1>3 DEF SearchInv, TypeOK, Phases
<1>5. BudgetInv'
  BY <1>1, <1>3, RungsAssumption DEF BudgetInv
<1>6. TriInv' /\ BracketHolds' /\ DustInv'
  BY <1>1, <1>3 DEF TriInv, BracketHolds, DustInv
<1>7. BasinInv' /\ ProbeInv' /\ SizedInv'
  BY <1>1 DEF BasinInv, ProbeInv, SizedInv
<1> QED
  BY <1>3, <1>4, <1>5, <1>6, <1>7 DEF SearchInv

LEMMA MiddleInv ==
  ASSUME SearchInv, Middle
  PROVE  SearchInv'
<1> DEFINE m == LowCover(seed, cap) \div 2
<1>1. /\ phase = "mid" /\ Evaluate(m) /\ phase' = "end"
      /\ UNCHANGED <<ev, ctx, only, dir, seed, cap, rungs, seen, tri, back, ends, tries, answer>>
  BY DEF Middle
<1>2. LowCover(seed, cap) \in Sizes
  BY LowCoverFacts DEF SearchInv, TypeOK
<1>3. m \in Sizes
  BY <1>2, GridFacts DEF Sizes
<1> HIDE DEF m
<1>4. Searched /\ Searched' /\ 0 \in Sizes
  BY <1>1, GridFacts DEF Searched
<1>5. /\ RungsInv' /\ SeenInv' /\ BestInv' /\ ExcludedSizesLose' /\ PreviewsOK'
      /\ evals' = evals + 1 /\ evals \in Nat /\ evals' \in Nat
      /\ best' \in [some : BOOLEAN, dx : Sizes, profit : Int]
      /\ best.profit <= best'.profit /\ best.profit \in Int /\ best'.profit \in Int
      /\ \A y : Value(ctx, y)' = Value(ctx, y)
      /\ back # "none" => tri.vb = Value(ctx, tri.b) /\ tri.vb <= best'.profit
  BY <1>1, <1>3, <1>4, QuoteStep
<1>6. TypeOK'
  BY <1>1, <1>5 DEF SearchInv, TypeOK, Phases
<1>7. BudgetInv'
  BY <1>1, <1>5, RungsAssumption DEF SearchInv, BudgetInv
<1>8. TriInv' /\ BracketHolds'
  BY <1>1, <1>5 DEF TriInv, BracketHolds
<1>9. DustInv'
  <2>1. Value(ctx, 0) <= best.profit /\ Value(ctx, 0) \in Int
    BY <1>1, <1>4, ValueType DEF SearchInv, DustInv, TypeOK
  <2> QED
    BY <1>5, <2>1 DEF DustInv
<1>10. BasinInv' /\ ProbeInv' /\ SizedInv'
  BY <1>1 DEF BasinInv, ProbeInv, SizedInv
<1> QED
  BY <1>5, <1>6, <1>7, <1>8, <1>9, <1>10 DEF SearchInv

LEMMA AnswerInv ==
  ASSUME SearchInv, Answer
  PROVE  SearchInv'
<1>1. /\ Searched /\ phase' = "sized"
      /\ answer' = [trade |-> best.profit > 0, dx |-> best.dx, profit |-> best.profit]
      /\ UNCHANGED <<ev, ctx, only, dir, seed, cap, rungs, seen, evals, best, tri, back,
                     ends, tries, previews>>
  BY DEF Answer, Searched
<1>2. DOMAIN seen = rungs /\ Searching
  BY <1>1 DEF SearchInv, SeenInv, Searching
<1>3. /\ RungsInv' /\ SeenInv' /\ BestInv' /\ ExcludedSizesLose' /\ PreviewsOK'
      /\ best.profit = Value(ctx, best.dx) /\ best.profit \in Int
  BY <1>1, <1>2, SearchFrame
<1>4. best.dx \in Sizes /\ (best.profit > 0) \in BOOLEAN
  BY DEF SearchInv, TypeOK
<1>5. TypeOK'
  BY <1>1, <1>3, <1>4 DEF SearchInv, TypeOK, Phases
<1>6. SizedInv'
  BY <1>1, <1>3 DEF SizedInv, Value
<1>7. BudgetInv' /\ TriInv' /\ BracketHolds' /\ BasinInv' /\ ProbeInv' /\ DustInv'
  BY <1>1 DEF SearchInv, BudgetInv, TriInv, BracketHolds, BasinInv, ProbeInv, DustInv, Searched
<1> QED
  BY <1>3, <1>5, <1>6, <1>7 DEF SearchInv

LEMMA SizingStepInv ==
  ASSUME SearchInv, SizingStep
  PROVE  SearchInv'
BY RefuseInv, AdmitInv, ScreenInv, CapInv, ScanInv, PickInnerInv, PickEndInv, ProbeStepInv,
   QuietStepsInv, RefineInv, BasinLowInv, BasinHighInv, DustStepInv, MiddleInv, AnswerInv
   DEF SizingStep

-----------------------------------------------------------------------------
(* The decision over the contexts of an event. *)

DecisionTypeOK ==
  /\ alts \in Seq(Contexts)
  /\ dec \in [sized : BOOLEAN, trade : BOOLEAN, dx : Sizes, profit : Int]
  /\ win \in Contexts
  /\ answers \subseteq [trade : BOOLEAN, profit : Int]

\* The decision is the best of the answers, and worth what it says where it was sized.
DecisionInv ==
  phase # "event" =>
    /\ NativeMayTrade(ev)
    /\ dec.trade => dec.sized /\ dec.profit = Value(win, dec.dx) /\ dec.profit > 0
    /\ ~dec.sized => answers = {}
    /\ \A a \in answers : a.trade => dec.trade /\ a.profit <= dec.profit
    /\ phase = "decided" => ctx = win

\* At an event that may be skipped no search gets past its gate.
SkipInv ==
  phase # "event" /\ ~MayAct(ev) =>
    /\ phase \in {"gate", "sized", "decided"}
    /\ alts \in Seq(1 .. ev.offered)
    /\ phase = "gate" => IF only THEN ctx \in 1 .. ev.offered ELSE ctx = 0
    /\ phase = "sized" => ~answer.trade /\ answer.profit = 0
    /\ ~dec.trade /\ dec.profit = 0

IInv == SearchInv /\ DecisionTypeOK /\ DecisionInv /\ SkipInv

-----------------------------------------------------------------------------
LEMMA ClearTypes ==
  /\ NoBest \in [some : BOOLEAN, dx : Sizes, profit : Int]
  /\ NoTri \in [a : Sizes, b : Sizes, c : Sizes, va : Int, vb : Int, vc : Int]
  /\ NoEnds \in [end : Sizes, inner : Sizes, vend : Int, vin : Int]
  /\ NoTrade \in [trade : BOOLEAN, dx : Sizes, profit : Int]
  /\ Unsized \in [sized : BOOLEAN, trade : BOOLEAN, dx : Sizes, profit : Int]
  /\ DOMAIN << >> = {} /\ << >> \in [DOMAIN << >> -> Int]
  /\ 0 \in Directions /\ 0 \in Contexts /\ 0 \in Sizes
BY GridFacts DEF NoBest, NoTri, NoEnds, NoTrade, Unsized, Directions, Contexts

LEMMA NoPreviewsOK ==
  ASSUME previews = NoPreviews
  PROVE  PreviewsOK
BY DEF NoPreviews, PreviewsOK

LEMMA InitInv ==
  ASSUME Init
  PROVE  IInv
<1>1. PreviewsOK
  BY NoPreviewsOK DEF Init
<1>2. TypeOK
  BY <1>1, ClearTypes DEF Init, TypeOK, Phases
<1>3. RungsInv /\ SeenInv /\ BestInv /\ BudgetInv /\ TriInv /\ BracketHolds
  BY EmptyLadder, RungsAssumption DEF Init, RungsInv, SeenInv, BestInv, BudgetInv, TriInv, BracketHolds,
     Searching, Searched
<1>4. BasinInv /\ ProbeInv /\ DustInv /\ SizedInv /\ ExcludedSizesLose
  BY DEF Init, BasinInv, ProbeInv, DustInv, SizedInv, ExcludedSizesLose, Searched
<1>5. DecisionTypeOK /\ DecisionInv /\ SkipInv
  BY ClearTypes DEF Init, DecisionTypeOK, DecisionInv, SkipInv
<1> QED
  BY <1>2, <1>3, <1>4, <1>5 DEF IInv, SearchInv

LEMMA AlternativesType ==
  ASSUME NEW e \in Events
  PROVE  /\ Alternatives(e) \in Seq(Contexts)
         /\ e.reports \in {"one", "many"} =>
              Alternatives(e) \in Seq(1 .. e.offered) /\ StartContext(e) = 0
         /\ StartContext(e) \in Contexts
<1>1. e.offered \in 0 .. 2 /\ e.reports \in {"none", "latest", "cached", "one", "many"}
  BY EventFacts
<1>2. StartContext(e) \in Contexts /\ (e.reports \in {"one", "many"} => StartContext(e) = 0)
  BY <1>1 DEF StartContext, Contexts
<1>3. CASE e.offered = 0
  <2>1. Alternatives(e) = << >>
    BY <1>3 DEF Alternatives
  <2>2. \A S : << >> \in Seq(S)
    OBVIOUS
  <2> QED
    BY <1>2, <2>1, <2>2
<1>4. CASE e.offered # 0 /\ e.reports = "cached"
  <2>1. Alternatives(e) = <<0>>
    BY <1>4 DEF Alternatives
  <2> QED
    BY <1>2, <1>4, <2>1 DEF Contexts
<1>5. CASE e.offered # 0 /\ e.reports = "one"
  <2>1. Alternatives(e) = <<1>>
    BY <1>5 DEF Alternatives
  <2>2. 1 \in 1 .. e.offered /\ 1 \in Contexts
    BY <1>1, <1>5 DEF Contexts
  <2> QED
    BY <1>2, <2>1, <2>2
<1>6. CASE e.offered # 0 /\ e.reports = "many"
  <2>1. Alternatives(e) = [k \in 1 .. e.offered |-> k]
    BY <1>6 DEF Alternatives
  <2>2. 1 .. e.offered \subseteq Contexts /\ e.offered \in Nat
    BY <1>1 DEF Contexts
  <2> QED
    BY <1>2, <2>1, <2>2
<1>7. CASE e.offered # 0 /\ e.reports \in {"none", "latest"}
  <2>1. Alternatives(e) = << >>
    BY <1>7 DEF Alternatives
  <2> QED
    BY <1>2, <1>7, <2>1
<1> QED
  BY <1>1, <1>3, <1>4, <1>5, <1>6, <1>7

LEMMA ExecuteArbInv ==
  ASSUME IInv, NEW e \in Events, ExecuteArb(e)
  PROVE  IInv'
<1>1. /\ phase = "event" /\ phase' = "gate" /\ NativeMayTrade(e)
      /\ ev' = e /\ ctx' = StartContext(e) /\ alts' = Alternatives(e) /\ only' = FALSE
      /\ previews' = NoPreviews /\ dec' = Unsized /\ win' = 0 /\ answers' = {}
      /\ UNCHANGED <<dir, seed, cap, rungs, seen, evals, best, tri, back, ends, tries, answer>>
  BY DEF ExecuteArb, searchVars
<1>2. /\ alts' \in Seq(Contexts) /\ ctx' \in Contexts
      /\ e.reports \in {"one", "many"} => alts' \in Seq(1 .. e.offered) /\ ctx' = 0
  BY <1>1, AlternativesType
<1>3. PreviewsOK'
  BY <1>1 DEF NoPreviews, PreviewsOK
<1>4. TypeOK'
  BY <1>1, <1>2, <1>3 DEF IInv, SearchInv, TypeOK, Phases
<1>5. SearchInv'
  BY <1>1, <1>4 DEF IInv, SearchInv, RungsInv, SeenInv, BestInv, BudgetInv, TriInv, BracketHolds,
     BasinInv, ProbeInv, DustInv, SizedInv, ExcludedSizesLose, Searching, Searched
<1>6. DecisionTypeOK'
  BY <1>1, <1>2, ClearTypes DEF DecisionTypeOK
<1>7. DecisionInv'
  BY <1>1 DEF DecisionInv, NativeMayTrade, Edge, Unsized
<1>8. SkipInv'
  <2>1. ~MayAct(e) => e.reports \in {"one", "many"}
    BY <1>1 DEF MayAct
  <2>2. MayAct(ev)' <=> MayAct(e)
    BY <1>1 DEF MayAct, NativeMayTrade, ReportedMayAct, Edge
  <2> QED
    BY <1>1, <1>2, <2>1, <2>2 DEF SkipInv, Unsized
<1> QED
  BY <1>5, <1>6, <1>7, <1>8 DEF IInv

\* At an event that may be skipped the gate refuses: without a report because the
\* context's bounds do, with one because the policy's profit bound does.
LEMMA HopelessIsRefused ==
  ASSUME IInv, phase = "gate", ~MayAct(ev)
  PROVE  ~Admitted
<1>1. ev \in Events /\ NativeMayTrade(ev) /\ (IF only THEN ctx \in 1 .. ev.offered ELSE ctx = 0)
  BY DEF IInv, SearchInv, TypeOK, DecisionInv, SkipInv
<1>2. ~ReportedMayAct(ev)
  BY <1>1 DEF MayAct
<1>3. /\ ev.gap \in Int /\ ev.floor \in Nat /\ ev.fee[0] \in Nat /\ ev.floor <= ev.fee[0]
      /\ \A d \in Directions : ev.least[0][d] \in Nat
  BY <1>1, EventFacts DEF Contexts
<1>4. \A d \in Directions : Edge(ev, d) \in Int
  BY <1>3 DEF Edge
<1>5. CASE ~only
  <2>1. /\ \E d \in Directions : ~(ev.least[0][d] <= ev.floor)
        /\ \A d \in Directions : ~(Edge(ev, d) > ev.least[0][d])
    BY <1>2 DEF ReportedMayAct
  <2>2. \E d \in Directions : ev.least[0][d] > ev.floor
    BY <1>3, <2>1
  <2>3. ~ContextAdmits(ev, 0)
    BY <2>1, <2>2 DEF ContextAdmits
  <2> QED
    BY <1>1, <1>5, <2>3 DEF Admitted
<1>6. CASE only
  <2> SUFFICES ASSUME Admitted PROVE FALSE
    OBVIOUS
  <2> DEFINE d == Selected(ev)
  <2>1. d \in Directions /\ ev.may[ctx][d]
    BY <1>6 DEF Admitted, Selected, Directions
  <2>2. \A k \in Directions : /\ PathFloor(ev, k) \in Nat /\ PathFloor(ev, k) >= ev.floor
                              /\ Rho(ev, k) \in Int /\ Rho(ev, k) = Edge(ev, k) - PathFloor(ev, k)
    BY <1>3, <1>4 DEF PathFloor, Rho
  <2>3. Rho(ev, d) > 0
    <3>1. Rho(ev, 0) > 0 \/ Rho(ev, 1) > 0
      BY DEF Admitted
    <3>2. Rho(ev, 0) \in Int /\ Rho(ev, 1) \in Int
      BY <2>2 DEF Directions
    <3> QED
      BY <3>1, <3>2 DEF Selected
  <2>4. Edge(ev, d) > ev.floor
    BY <1>3, <1>4, <2>1, <2>2, <2>3
  <2> QED
    BY <1>1, <1>2, <1>6, <2>1, <2>4 DEF ReportedMayAct
<1> QED
  BY <1>5, <1>6

LEMMA SizingInv ==
  ASSUME IInv, SizingStep, UNCHANGED decisionVars
  PROVE  IInv'
<1>1. SearchInv'
  BY SizingStepInv DEF IInv
<1>2. /\ UNCHANGED <<ev, ctx, only, alts, dec, win, answers>>
      /\ phase \notin {"event", "decided", "sized"} /\ phase' \notin {"event", "decided"}
  <2>1. UNCHANGED <<ev, ctx, only>>
    BY DEF SizingStep, Refuse, Admit, Screen, Cap, Scan, PickInner, PickEnd, Probe, ProbeEnds, Refine,
       Refined, DipNext, BasinLow, BasinHigh, BasinEnds, Dust, Middle, Answer
  <2>2. phase \notin {"event", "decided", "sized"} /\ phase' \notin {"event", "decided"}
    BY DEF SizingStep, Refuse, Admit, Screen, Cap, Scan, PickInner, PickEnd, Probe, ProbeEnds, Refine,
       Refined, DipNext, BasinLow, BasinHigh, BasinEnds, Dust, Middle, Answer, IInv, SearchInv, TypeOK
  <2> QED
    BY <2>1, <2>2 DEF decisionVars
<1>3. DecisionTypeOK' /\ DecisionInv'
  BY <1>2 DEF IInv, DecisionTypeOK, DecisionInv, NativeMayTrade, Edge, Value
<1>4. SkipInv'
  <2> SUFFICES ASSUME ~MayAct(ev) PROVE SkipInv'
    BY <1>2 DEF SkipInv, MayAct, NativeMayTrade, ReportedMayAct, Edge
  <2>1. phase = "gate"
    BY <1>2 DEF IInv, SkipInv
  <2>2. Refuse
    BY <2>1, HopelessIsRefused DEF SizingStep, Refuse, Admit, Screen, Cap, Scan, PickInner, PickEnd, Probe,
       ProbeEnds, Refine, Refined, DipNext, BasinLow, BasinHigh, BasinEnds, Dust, Middle, Answer
  <2> QED
    BY <1>2, <2>1, <2>2 DEF IInv, SkipInv, Refuse, NoTrade
<1> QED
  BY <1>1, <1>3, <1>4 DEF IInv

LEMMA TailType ==
  ASSUME NEW S, NEW s \in Seq(S), s # << >>
  PROVE  Head(s) \in S /\ Tail(s) \in Seq(S)
OBVIOUS

\* A better trade replaces the decision; anything else leaves it the best.
LEMMA ConsiderInv ==
  ASSUME IInv, Consider
  PROVE  IInv'
<1>1. /\ phase = "sized" /\ phase' \in {"decided", "gate"} /\ UNCHANGED ev
      /\ answers' = answers \cup {[trade |-> answer.trade, profit |-> answer.profit]}
      /\ dec' = IF Replaces THEN Decision ELSE dec
      /\ win' = IF Replaces THEN ctx ELSE win
      /\ \/ /\ alts = << >> /\ phase' = "decided" /\ ctx' = win' /\ previews' = NoPreviews
            /\ UNCHANGED <<alts, only>>
         \/ /\ alts # << >> /\ phase' = "gate" /\ ctx' = Head(alts) /\ alts' = Tail(alts) /\ only' = TRUE
            /\ UNCHANGED previews
      /\ Cleared
  BY DEF Consider
<1>2. /\ answer \in [trade : BOOLEAN, dx : Sizes, profit : Int] /\ ctx \in Contexts /\ ev \in Events
      /\ dec \in [sized : BOOLEAN, trade : BOOLEAN, dx : Sizes, profit : Int] /\ win \in Contexts
      /\ alts \in Seq(Contexts) /\ answers \subseteq [trade : BOOLEAN, profit : Int]
  BY DEF IInv, SearchInv, TypeOK, DecisionTypeOK
<1>3. /\ answer.trade \in BOOLEAN /\ answer.dx \in Sizes /\ answer.profit \in Int
      /\ dec.trade \in BOOLEAN /\ dec.sized \in BOOLEAN /\ dec.profit \in Int
  BY <1>2
<1>4. /\ Decision.sized /\ Decision.trade = answer.trade /\ Decision.dx = answer.dx
      /\ Decision.profit = answer.profit
      /\ Decision \in [sized : BOOLEAN, trade : BOOLEAN, dx : Sizes, profit : Int]
  BY <1>3 DEF Decision
<1>5. DecisionTypeOK'
  <2>1. alts' \in Seq(Contexts)
    <3>1. CASE alts = << >>
      <4>1. alts' = alts
        BY <1>1, <3>1
      <4> QED
        BY <1>2, <4>1
    <3>2. CASE alts # << >>
      <4>1. alts' = Tail(alts)
        BY <1>1, <3>2
      <4> QED
        BY <1>2, <3>2, <4>1, TailType
    <3> QED
      BY <3>1, <3>2
  <2>2. [trade |-> answer.trade, profit |-> answer.profit] \in [trade : BOOLEAN, profit : Int]
    BY <1>3
  <2> QED
    BY <1>1, <1>2, <1>4, <2>1, <2>2 DEF DecisionTypeOK
<1>6. PreviewsOK'
  <2>1. CASE UNCHANGED previews
    BY <1>1, <2>1 DEF IInv, SearchInv, TypeOK, PreviewsOK, Kept
  <2>2. CASE previews' = NoPreviews
    BY <2>2 DEF NoPreviews, PreviewsOK
  <2> QED
    BY <1>1, <2>1, <2>2
<1>7. ctx' \in Contexts /\ only' \in BOOLEAN /\ phase' \in Phases
  <2>1. win' \in Contexts
    BY <1>5 DEF DecisionTypeOK
  <2>2. only \in BOOLEAN
    BY DEF IInv, SearchInv, TypeOK
  <2>3. CASE alts = << >>
    BY <1>1, <2>1, <2>2, <2>3 DEF Phases
  <2>4. CASE alts # << >>
    BY <1>1, <1>2, <2>4, TailType DEF Phases
  <2> QED
    BY <2>3, <2>4
<1>8. TypeOK'
  BY <1>1, <1>2, <1>6, <1>7, ClearTypes DEF TypeOK, Cleared
<1>9. SearchInv'
  BY <1>1, <1>8, EmptyLadder, RungsAssumption DEF SearchInv, Cleared, RungsInv, SeenInv, BestInv, BudgetInv,
     TriInv, BracketHolds, BasinInv, ProbeInv, DustInv, SizedInv, ExcludedSizesLose, Searching, Searched
<1>10. /\ NativeMayTrade(ev)
       /\ dec.trade => dec.sized /\ dec.profit = Value(win, dec.dx) /\ dec.profit > 0
       /\ ~dec.sized => answers = {}
       /\ \A a \in answers : a.trade => dec.trade /\ a.profit <= dec.profit
       /\ answer.trade => answer.profit = Value(ctx, answer.dx) /\ answer.profit > 0
  BY <1>1 DEF IInv, DecisionInv, SearchInv, SizedInv
<1>11. NativeMayTrade(ev)' /\ \A c, x : Value(c, x)' = Value(c, x)
  BY <1>1, <1>10 DEF NativeMayTrade, Edge, Value
<1>12. /\ dec'.trade => dec'.sized /\ dec'.profit = Value(win', dec'.dx) /\ dec'.profit > 0
       /\ ~dec'.sized => answers' = {}
       /\ \A a \in answers' : a.trade => dec'.trade /\ a.profit <= dec'.profit
  <2>1. \A a \in answers : a.profit \in Int /\ a.trade \in BOOLEAN
    BY <1>2
  <2>2. \A a \in answers' : a \in answers \/ (a.trade = answer.trade /\ a.profit = answer.profit)
    BY <1>1
  <2>3. CASE Replaces
    <3>1. ~dec.sized \/ (answer.trade /\ (~dec.trade \/ answer.profit > dec.profit))
      BY <2>3 DEF Replaces
    <3>2. dec' = Decision /\ win' = ctx
      BY <1>1, <2>3
    <3>3. \A a \in answers : a.trade => answer.trade /\ a.profit <= answer.profit
      BY <1>3, <1>10, <2>1, <3>1
    <3> QED
      BY <1>3, <1>4, <1>10, <2>2, <3>2, <3>3
  <2>4. CASE ~Replaces
    <3>1. dec.sized /\ (answer.trade => dec.trade /\ answer.profit <= dec.profit)
      BY <1>3, <2>4 DEF Replaces
    <3>2. dec' = dec /\ win' = win
      BY <1>1, <2>4
    <3> QED
      BY <1>10, <2>2, <3>1, <3>2
  <2> QED
    BY <2>3, <2>4
<1>13. DecisionInv'
  BY <1>1, <1>11, <1>12 DEF DecisionInv
<1>14. SkipInv'
  <2> SUFFICES ASSUME ~MayAct(ev) PROVE SkipInv'
    BY <1>1 DEF SkipInv, MayAct, NativeMayTrade, ReportedMayAct, Edge
  <2>1. /\ alts \in Seq(1 .. ev.offered) /\ ~answer.trade /\ answer.profit = 0
        /\ ~dec.trade /\ dec.profit = 0
    BY <1>1 DEF IInv, SkipInv
  <2>2. ~dec'.trade /\ dec'.profit = 0
    BY <1>1, <1>4, <2>1
  <2>3. alts' \in Seq(1 .. ev.offered) /\ (phase' = "gate" => only' /\ ctx' \in 1 .. ev.offered)
    BY <1>1, <2>1, TailType
  <2> QED
    BY <1>1, <2>2, <2>3 DEF SkipInv
<1> QED
  BY <1>5, <1>9, <1>13, <1>14 DEF IInv

LEMMA FinishInv ==
  ASSUME IInv, Finish
  PROVE  IInv'
<1>1. /\ phase = "decided" /\ phase' = "event" /\ ctx' = 0 /\ only' = FALSE /\ dec' = Unsized /\ win' = 0
      /\ answers' = {}
      /\ UNCHANGED <<ev, dir, seed, cap, rungs, seen, evals, best, tri, back, ends, tries, answer, alts, previews>>
  BY DEF Finish, searchVars
<1>2. TypeOK'
  <2>1. PreviewsOK'
    BY <1>1 DEF IInv, SearchInv, TypeOK, PreviewsOK, Kept
  <2>2. ctx' \in Contexts /\ only' \in BOOLEAN /\ phase' \in Phases
    <3>1. ctx' = 0 /\ only' = FALSE /\ phase' = "event"
      BY <1>1
    <3>2. 0 \in Contexts /\ FALSE \in BOOLEAN /\ "event" \in Phases
      BY DEF Contexts, Phases
    <3> QED
      BY <3>1, <3>2, Zenon
  <2> QED
    BY <1>1, <2>1, <2>2 DEF IInv, SearchInv, TypeOK
<1>3. SearchInv'
  BY <1>1, <1>2 DEF IInv, SearchInv, RungsInv, SeenInv, BestInv, BudgetInv, TriInv, BracketHolds,
     BasinInv, ProbeInv, DustInv, SizedInv, ExcludedSizesLose, Searching, Searched
<1>4. DecisionTypeOK' /\ DecisionInv' /\ SkipInv'
  BY <1>1, ClearTypes DEF IInv, DecisionTypeOK, DecisionInv, SkipInv
<1> QED
  BY <1>3, <1>4 DEF IInv

LEMMA StutterInv ==
  ASSUME IInv, UNCHANGED arbVars
  PROVE  IInv'
<1>1. UNCHANGED <<ev, ctx, only, phase, dir, seed, cap, rungs, seen, evals, best, tri, back, ends, tries,
                 answer, previews, alts, dec, win, answers>>
  BY DEF arbVars, sizingVars, searchVars, decisionVars
<1>2. TypeOK'
  BY <1>1 DEF IInv, SearchInv, TypeOK, PreviewsOK, Kept
<1>3. RungsInv' /\ SeenInv' /\ BestInv' /\ BudgetInv' /\ TriInv' /\ BracketHolds'
  BY <1>1 DEF IInv, SearchInv, RungsInv, SeenInv, BestInv, BudgetInv, TriInv, BracketHolds,
     Searching, Searched, Value, LowCover, DipIn, ByEnvelope
<1>4. BasinInv' /\ ProbeInv' /\ DustInv' /\ SizedInv' /\ ExcludedSizesLose'
  BY <1>1 DEF IInv, SearchInv, BasinInv, ProbeInv, DustInv, SizedInv, ExcludedSizesLose, Searched, Value, DipIn
<1>5. DecisionTypeOK' /\ DecisionInv' /\ SkipInv'
  BY <1>1 DEF IInv, DecisionTypeOK, DecisionInv, SkipInv, NativeMayTrade, Edge, Value, MayAct, ReportedMayAct
<1> QED
  BY <1>2, <1>3, <1>4, <1>5 DEF IInv, SearchInv

LEMMA Invariance == Spec => []IInv
<1>1. IInv /\ [Next]_arbVars => IInv'
  BY ExecuteArbInv, SizingInv, ConsiderInv, FinishInv, StutterInv DEF Next
<1> QED
  BY <1>1, InitInv, PTL DEF Spec

-----------------------------------------------------------------------------
\* MAX_SIZING_EVALS and the arrays of rungs are never overrun, although the scan looks
\* at neither (decide_trade, arbitrageur.hpp).
THEOREM SearchStaysInBudget == Spec => []WithinBudget
<1>1. IInv => WithinBudget
  BY DEF IInv, SearchInv, BudgetInv, RungsInv, WithinBudget
<1> QED
  BY <1>1, Invariance, PTL

\* What spi_refine is given and keeps is a bracket of a maximum ("ga >= 0", "gc >= 0").
THEOREM BracketIsKept == Spec => []BracketHolds
<1>1. IInv => BracketHolds
  BY DEF IInv, SearchInv
<1> QED
  BY <1>1, Invariance, PTL

\* The walk that sets dx_cap excludes no size that would have profited.
THEOREM CapIsSafe == Spec => []ExcludedSizesLose
<1>1. IInv => ExcludedSizesLose
  BY DEF IInv, SearchInv
<1> QED
  BY <1>1, Invariance, PTL

\* decide_trade answers with the best quote it made, and no rung and no bracket beats it.
THEOREM BestQuoteIsAnswered == Spec => []AnswerBeatsLadder
<1>1. ASSUME IInv, Searched
      PROVE  /\ best.some /\ best.profit = Value(ctx, best.dx)
             /\ \A x \in rungs : ~ByEnvelope(x) => Value(ctx, x) <= best.profit
             /\ back # "none" => Value(ctx, tri.b) <= best.profit
  <2>1. SearchInv /\ Searching /\ DOMAIN seen = rungs
    BY <1>1 DEF IInv, SearchInv, SeenInv, Searching
  <2>2. best.some
    BY <2>1, SomethingQuoted
  <2>3. \A x \in rungs : ~ByEnvelope(x) => seen[x] = Value(ctx, x) /\ seen[x] <= best.profit
    BY <2>1 DEF SearchInv, SeenInv
  <2>4. back # "none" => tri.vb = Value(ctx, tri.b) /\ tri.vb <= best.profit
    BY <1>1, <2>1 DEF SearchInv, TriInv
  <2> QED
    BY <2>1, <2>2, <2>3, <2>4 DEF SearchInv, BestInv
<1>2. IInv => AnswerBeatsLadder
  BY <1>1 DEF AnswerBeatsLadder, Searched
<1> QED
  BY <1>2, Invariance, PTL

\* SwapPreviewCache never lends a quote to another size, direction, pool or context.
THEOREM PreviewsStayFresh == Spec => []PreviewsFresh
<1>1. IInv => PreviewsFresh
  BY QuoteIsValue DEF IInv, SearchInv, PreviewsFresh
<1> QED
  BY <1>1, Invariance, PTL

\* A search that ends without a profit has tried the smallest size or spent its budget.
THEOREM SmallestSizeIsTried == Spec => []DustIsTried
<1>1. ASSUME IInv, phase = "end" \/ (phase = "dust" /\ ~DustWorthwhile)
      PROVE  best.profit > 0 \/ evals = MaxEvals \/ Value(ctx, 0) <= 0
  <2>1. SearchInv /\ Searching /\ DOMAIN seen = rungs /\ ev \in Events
    BY <1>1 DEF IInv, SearchInv, SeenInv, Searching, Searched, TypeOK
  <2>2. /\ evals \in Nat /\ evals <= MaxEvals /\ MaxEvals \in Nat /\ best.profit \in Int /\ 0 \in Sizes
        /\ Value(ctx, 0) \in Int /\ seed \in Sizes /\ cap \in Sizes
    BY <2>1, RungsAssumption, GridFacts, ValueType DEF SearchInv, TypeOK, BudgetInv
  <2>3. CASE phase = "end"
    BY <2>1, <2>2, <2>3 DEF SearchInv, DustInv
  <2>4. CASE phase = "dust" /\ ~DustWorthwhile
    <3>1. best.profit > 0 \/ evals = MaxEvals \/ ~ev.native
      BY <2>2, <2>4 DEF DustWorthwhile
    <3>2. ASSUME ~ev.native PROVE Value(ctx, 0) <= best.profit
      <4>1. LowCover(seed, cap) = 0
        BY <2>1, <2>2, <3>2, LowCoverFacts
      <4>2. 0 \in rungs /\ \A x \in rungs : x <= cap /\ x \in Nat
        BY <2>1, <4>1, GridFacts DEF SearchInv, RungsInv, TypeOK
      <4>3. ~ByEnvelope(0)
        <5>1. cap = 0 => rungs = {0}
          BY <4>2
        <5> QED
          BY <5>1 DEF ByEnvelope
      <4> QED
        BY <2>1, <4>2, <4>3 DEF SearchInv, SeenInv
    <3> QED
      BY <2>2, <3>1, <3>2
  <2> QED
    BY <1>1, <2>3, <2>4
<1>2. IInv => DustIsTried
  BY <1>1 DEF DustIsTried
<1> QED
  BY <1>2, Invariance, PTL

\* What execute_arb commits was sized in the context it is committed in, is worth what was
\* promised, and no context that was compared promised more.
THEOREM BestContextIsCommitted == Spec => []BestActionWins
<1>1. IInv => BestActionWins
  BY DEF IInv, DecisionInv, BestActionWins
<1> QED
  BY <1>1, Invariance, PTL

\* indexed_may_act skips no event at which execute_arb would trade or record a loss.
THEOREM SkippingLosesNothing == Spec => []SkipTestSound
<1>1. IInv => SkipTestSound
  BY DEF IInv, SkipInv, SkipTestSound
<1> QED
  BY <1>1, Invariance, PTL
=============================================================================
