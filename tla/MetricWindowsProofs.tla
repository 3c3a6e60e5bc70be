------------------------- MODULE MetricWindowsProofs -------------------------
(***************************************************************************)
(* Proofs about MetricWindows, for any units, windows and horizon: the     *)
(* geometric mean measures each window from the right sample, the ring of  *)
(* the robust rate never runs full, so that it is the unbounded queue, and *)
(* the buckets of the price error add up to its history.                   *)
(* Both queues drop a prefix that is determined by the first sample that   *)
(* is too young to replace its predecessor.                                *)
(***************************************************************************)
EXTENDS MetricWindows, Sequences, FiniteSetTheorems, WellFoundedInduction, TLAPS

Increasing(s) == \A i, j \in 1 .. Len(s) : i < j => s[i] < s[j]

\* The queue of the geometric mean: the samples from the baseline of the next window
\* on; all that are gone are older than one that is already old enough.
GeoInv ==
  /\ samples \in Seq(Nat) /\ geoTaken \in SUBSET Nat /\ Increasing(samples)
  /\ samples = <<>> => geoTaken = {}
  /\ \A i \in 1 .. Len(samples) : samples[i] \in geoTaken
  /\ \A t \in geoTaken :
       /\ t <= samples[Len(samples)]
       /\ \/ \E i \in 1 .. Len(samples) : samples[i] = t
          \/ t < samples[1] /\ samples[1] + GeoS <= samples[Len(samples)]
  /\ GeoWindowsExact

\* The ring as a queue.
RingOf(s, h, n) == [k \in 1 .. n |-> s[(h + k - 1) % (Days + 2)]]
RingQueue == RingOf(slots, head, count)

\* Days lie between its samples, and only the first may be as old as the window: so
\* there is always a slot free for the next one.
RingInv ==
  /\ slots \in [0 .. Days + 1 -> Nat] /\ head \in 0 .. Days + 1 /\ count \in 0 .. Days + 1
  /\ IF count = 0 THEN lastDaily = Horizon + 1
     ELSE lastDaily \in 0 .. Horizon /\ lastDaily = RingQueue[count]
  /\ \A i, j \in 1 .. count : i < j => RingQueue[j] >= RingQueue[i] + (j - i) * Day
  /\ count >= 2 => RingQueue[2] > Robust!Cutoff(lastDaily)

-----------------------------------------------------------------------------
(* Dropping the front. *)

\* d may be dropped from the n samples of q: the successors of the d dropped are old
\* enough, and the next one is not.
Drops(q, n, c, d) ==
  /\ d \in 0 .. n - 1
  /\ \A k \in 1 .. d : q[k + 1] <= c
  /\ d = n - 1 \/ q[d + 2] > c

\* A set of numbers has a least one.
LEMMA LeastNumber ==
  ASSUME NEW S \in SUBSET Nat, S # {}
  PROVE  \E m \in S : \A n \in S : m <= n
<1> DEFINE Less == {ss \in Nat \X Nat : ss[1] < ss[2]}
<1>1. IsWellFoundedOn(Less, Nat)
  BY NatLessThanWellFounded, Zenon DEF OpToRel
<1> HIDE DEF Less
<1>2. PICK m \in S : \A n \in S : ~(<<n, m>> \in Less)
  BY <1>1, WFMin, Zenon
<1>3. ASSUME NEW n \in S PROVE m <= n
  <2>1. <<n, m>> \in Less <=> n < m
    BY DEF Less
  <2> QED
    BY <1>2, <2>1
<1> QED
  BY <1>3

\* One number may be dropped, and only one.
LEMMA DropPoint ==
  ASSUME NEW n \in Nat \ {0}, NEW c \in Nat, NEW q, \A k \in 1 .. n : q[k] \in Nat
  PROVE  \E d \in 0 .. n - 1 : Drops(q, n, c, d) /\ \A e : Drops(q, n, c, e) => e = d
<1> DEFINE S == {d \in 0 .. n - 1 : d = n - 1 \/ q[d + 2] > c}
<1>1. n - 1 \in S /\ S \subseteq Nat
  OBVIOUS
<1>2. PICK d \in S : \A e \in S : d <= e
  BY <1>1, LeastNumber
<1>3. Drops(q, n, c, d)
  <2>1. ASSUME NEW k \in 1 .. d PROVE q[k + 1] <= c
    <3>1. k - 1 \notin S /\ k - 1 \in 0 .. n - 1 /\ k - 1 # n - 1 /\ k + 1 \in 1 .. n
      BY <1>2
    <3>2. ~(q[(k - 1) + 2] > c) /\ (k - 1) + 2 = k + 1
      BY <3>1
    <3> QED
      BY <3>1, <3>2
  <2> QED
    BY <1>2, <2>1 DEF Drops
<1>4. ASSUME NEW e, Drops(q, n, c, e) PROVE e = d
  <2>1. e \in 0 .. n - 1 /\ d \in 0 .. n - 1
    BY <1>2, <1>4 DEF Drops
  <2>2. ~(e < d)
    <3> SUFFICES ASSUME e < d PROVE FALSE
      OBVIOUS
    <3>1. e \in S
      BY <1>4, <2>1 DEF Drops
    <3> QED
      BY <1>2, <2>1, <3>1
  <2>3. ~(d < e)
    <3> SUFFICES ASSUME d < e PROVE FALSE
      OBVIOUS
    <3>1. d + 1 \in 1 .. e /\ d + 2 \in 1 .. n
      BY <2>1
    <3>2. q[(d + 1) + 1] <= c /\ q[d + 2] > c /\ (d + 1) + 1 = d + 2
      BY <1>3, <1>4, <2>1, <3>1 DEF Drops
    <3> QED
      BY <3>1, <3>2
  <2> QED
    BY <2>1, <2>2, <2>3
<1> QED
  BY <1>2, <1>3, <1>4

-----------------------------------------------------------------------------
(* The queue of the geometric mean. *)

LEMMA Appended ==
  ASSUME NEW s \in Seq(Nat), NEW t \in Nat
  PROVE  /\ Append(s, t) \in Seq(Nat) /\ Len(Append(s, t)) = Len(s) + 1
         /\ Append(s, t)[Len(s) + 1] = t
         /\ \A i \in 1 .. Len(s) : Append(s, t)[i] = s[i]
OBVIOUS

LEMMA Suffix ==
  ASSUME NEW s \in Seq(Nat), NEW d \in 0 .. Len(s) - 1
  PROVE  /\ SubSeq(s, d + 1, Len(s)) \in Seq(Nat)
         /\ Len(SubSeq(s, d + 1, Len(s))) = Len(s) - d
         /\ \A i \in 1 .. Len(s) - d : SubSeq(s, d + 1, Len(s))[i] = s[i + d]
OBVIOUS

\* How many samples of s are dropped for a window that begins at c.
Front(s, c) ==
  CHOOSE d \in 0 .. Len(s) - 1 :
    /\ \A k \in 1 .. d : s[k + 1] <= c
    /\ d = Len(s) - 1 \/ s[d + 2] > c

LEMMA FrontIs ==
  ASSUME NEW s \in Seq(Nat), s # <<>>, NEW c \in Nat
  PROVE  /\ Front(s, c) \in 0 .. Len(s) - 1 /\ Drops(s, Len(s), c, Front(s, c))
         /\ \A e : Drops(s, Len(s), c, e) => e = Front(s, c)
<1>1. Len(s) \in Nat \ {0} /\ \A k \in 1 .. Len(s) : s[k] \in Nat
  OBVIOUS
<1>2. PICK d \in 0 .. Len(s) - 1 :
        Drops(s, Len(s), c, d) /\ \A e : Drops(s, Len(s), c, e) => e = d
  BY <1>1, DropPoint
<1>3. Front(s, c) \in 0 .. Len(s) - 1 /\ Drops(s, Len(s), c, Front(s, c))
  BY <1>2, Zenon DEF Drops, Front
<1> QED
  BY <1>2, <1>3

LEMMA GeoPruned == \A s, t : Geo!Pruned(s, t) = SubSeq(s, Front(s, Geo!Cutoff(t)) + 1, Len(s))
BY DEF Geo!Pruned, Front

\* The windows measured among the samples of T.
Measured(T) ==
  {w \in [from : T, to : T] :
     /\ w.from + GeoS <= w.to
     /\ \A t \in T : t + GeoS <= w.to => t <= w.from}

\* One sample more, and what it measures.
LEMMA OneMoreMeasured ==
  ASSUME NEW T \in SUBSET Nat, NEW ts \in Nat, \A t \in T : t < ts, NEW f \in T \cup {ts},
         GeoS \in Nat \ {0},
         \A t \in T \cup {ts} : t + GeoS <= ts => f + GeoS <= ts /\ t <= f
  PROVE  Measured(T \cup {ts}) =
           Measured(T) \cup {[from |-> g, to |-> ts] : g \in {f} \cap 0 .. ts - GeoS}
<1> DEFINE U == T \cup {ts}
           M == {[from |-> g, to |-> ts] : g \in {f} \cap 0 .. ts - GeoS}
<1>1. ASSUME NEW w \in Measured(U) PROVE w \in Measured(T) \cup M
  <2>1. /\ w \in [from : U, to : U] /\ w.from \in U /\ w.to \in U /\ w.from + GeoS <= w.to
        /\ \A t \in U : t + GeoS <= w.to => t <= w.from
    BY DEF Measured
  <2>2. w = [from |-> w.from, to |-> w.to]
    BY <2>1
  <2>3. U \subseteq Nat /\ w.from \in Nat /\ w.to \in Nat
    BY <2>1
  <2>4. CASE w.to = ts
    <3>1. f \in Nat /\ f + GeoS <= ts /\ w.from <= f
      BY <2>1, <2>3, <2>4
    <3>2. f <= w.from
      BY <2>1, <2>4, <3>1
    <3>3. w.from = f /\ f \in 0 .. ts - GeoS
      BY <2>3, <3>1, <3>2
    <3> QED
      BY <2>2, <2>4, <3>3
  <2>5. CASE w.to # ts
    <3>1. w.to \in T /\ w.to < ts
      BY <2>1, <2>5
    <3>2. w.from \in T
      BY <2>1, <2>3, <3>1
    <3>3. w \in [from : T, to : T]
      BY <2>2, <3>1, <3>2
    <3> QED
      BY <2>1, <3>3 DEF Measured
  <2> QED
    BY <2>4, <2>5
<1>2. ASSUME NEW w \in Measured(T) PROVE w \in Measured(U)
  <2>1. /\ w \in [from : T, to : T] /\ w.from \in T /\ w.to \in T /\ w.from + GeoS <= w.to
        /\ \A t \in T : t + GeoS <= w.to => t <= w.from
    BY DEF Measured
  <2>2. ~(ts + GeoS <= w.to)
    <3>1. w.to < ts /\ w.to \in Nat
      BY <2>1
    <3> QED
      BY <3>1
  <2>3. w = [from |-> w.from, to |-> w.to]
    BY <2>1
  <2>4. w \in [from : U, to : U]
    BY <2>1, <2>3
  <2> QED
    BY <2>1, <2>2, <2>4 DEF Measured
<1>3. ASSUME NEW w \in M PROVE w \in Measured(U)
  <2>1. w = [from |-> f, to |-> ts] /\ f \in 0 .. ts - GeoS
    OBVIOUS
  <2>2. w \in [from : U, to : U] /\ w.from = f /\ w.to = ts
    BY <2>1
  <2>3. f + GeoS <= ts
    BY <2>1
  <2>4. \A t \in U : t + GeoS <= w.to => t <= w.from
    BY <2>2
  <2> QED
    BY <2>2, <2>3, <2>4 DEF Measured
<1> HIDE DEF M, U
<1>4. Measured(U) = Measured(T) \cup M
  BY <1>1, <1>2, <1>3
<1> QED
  BY <1>4 DEF M, U
LEMMA GeoInit == UnitsAssumption /\ Geo!Init => GeoInv
BY DEF UnitsAssumption, Geo!Init, GeoInv, Increasing, GeoWindowsExact, Geo!WindowsExact

\* A sample drops none that later windows need, and measures its own.
LEMMA GeoSampled ==
  ASSUME UnitsAssumption, GeoInv, NEW ts \in Nat, Geo!Due(ts),
         samples' = Geo!Pruned(Append(samples, ts), ts),
         geoWindows' = geoWindows \cup
           {[from |-> g, to |-> ts] : g \in {samples'[1]} \cap 0 .. ts - GeoS},
         geoTaken' = geoTaken \cup {ts}
  PROVE  GeoInv'
<1> DEFINE s == Append(samples, ts)
           n == Len(samples) + 1
           c == Geo!Cutoff(ts)
<1>1. GeoS \in Nat \ {0} /\ Hour \in Nat \ {0}
  BY DEF UnitsAssumption
<1>2. c \in Nat /\ (ts > GeoS => c = ts - GeoS) /\ (ts <= GeoS => c = 0)
  BY <1>1 DEF Geo!Cutoff
<1>3. samples \in Seq(Nat) /\ geoTaken \in SUBSET Nat
  BY DEF GeoInv
<1>mem. \A i \in 1 .. Len(samples) : samples[i] \in geoTaken
  BY DEF GeoInv
<1>old. \A t \in geoTaken :
          /\ Len(samples) >= 1 /\ t <= samples[Len(samples)]
          /\ \/ \E i \in 1 .. Len(samples) : samples[i] = t
             \/ t < samples[1] /\ samples[1] + GeoS <= samples[Len(samples)]
  <2> SUFFICES ASSUME NEW t \in geoTaken
               PROVE  /\ Len(samples) >= 1 /\ t <= samples[Len(samples)]
                      /\ \/ \E i \in 1 .. Len(samples) : samples[i] = t
                         \/ t < samples[1] /\ samples[1] + GeoS <= samples[Len(samples)]
    OBVIOUS
  <2>1. samples # <<>>
    BY Zenon DEF GeoInv
  <2>2. Len(samples) >= 1
    BY <1>3, <2>1
  <2>3. /\ t <= samples[Len(samples)]
        /\ \/ \E i \in 1 .. Len(samples) : samples[i] = t
           \/ t < samples[1] /\ samples[1] + GeoS <= samples[Len(samples)]
    BY Zenon DEF GeoInv
  <2> QED
    BY <2>2, <2>3, Zenon
<1>len. n \in Nat \ {0} /\ Len(samples) = n - 1
  BY <1>3
<1>seq. s \in Seq(Nat) /\ Len(s) = n
  BY <1>3, Appended
<1>some. s # <<>>
  BY <1>seq, <1>len
<1>at. s[n] = ts /\ \A i \in 1 .. n - 1 : s[i] = samples[i]
  BY <1>3, Appended
<1>nat. \A i \in 1 .. n : s[i] \in Nat
  BY <1>3, <1>len, <1>at
<1>inc. Increasing(samples)
  BY DEF GeoInv
<1> HIDE DEF s, n, c
<1>5. \A t \in geoTaken : t < ts
  <2> SUFFICES ASSUME NEW t \in geoTaken PROVE t < ts
    OBVIOUS
  <2>1. samples # <<>> /\ t <= samples[Len(samples)] /\ samples[Len(samples)] \in Nat /\ t \in Nat
    BY <1>3, <1>old
  <2> QED
    BY <1>1, <2>1 DEF Geo!Due
<1>6. ASSUME NEW i \in 1 .. n, NEW j \in 1 .. n, i < j PROVE s[i] < s[j]
  <2>1. i \in 1 .. n - 1 /\ s[i] = samples[i] /\ samples[i] \in geoTaken
    BY <1>6, <1>len, <1>at, <1>mem
  <2>2. CASE j = n
    BY <1>at, <1>5, <2>1, <2>2
  <2>3. CASE j # n
    BY <1>6, <1>len, <1>at, <1>inc, <2>1, <2>3 DEF Increasing
  <2> QED
    BY <2>2, <2>3
<1>7. PICK d \in 0 .. n - 1 : Drops(s, n, c, d) /\ samples' = SubSeq(s, d + 1, n)
  <2>1. Front(s, c) \in 0 .. n - 1 /\ Drops(s, n, c, Front(s, c))
    BY <1>2, <1>seq, <1>some, FrontIs
  <2>2. samples' = SubSeq(s, Front(s, c) + 1, n)
    BY <1>seq, GeoPruned DEF c, s
  <2> QED
    BY <2>1, <2>2
<1>8. /\ samples' \in Seq(Nat) /\ Len(samples') = n - d /\ n - d \in 1 .. n
      /\ \A i \in 1 .. n - d : samples'[i] = s[i + d]
  <2> DEFINE rest == SubSeq(s, d + 1, Len(s))
  <2>1. d \in 0 .. Len(s) - 1 /\ samples' = rest
    BY <1>seq, <1>7
  <2>2. /\ rest \in Seq(Nat) /\ Len(rest) = Len(s) - d
        /\ \A i \in 1 .. Len(s) - d : rest[i] = s[i + d]
    BY <1>seq, <2>1, Suffix
  <2> HIDE DEF rest
  <2>3. samples' \in Seq(Nat) /\ Len(samples') = n - d
    BY <1>seq, <2>1, <2>2
  <2>4. \A i \in 1 .. n - d : samples'[i] = s[i + d]
    BY <1>seq, <2>1, <2>2
  <2>5. n - d \in 1 .. n
    BY <1>len, <1>7
  <2> QED
    BY <2>3, <2>4, <2>5
<1>9. samples'[1] = s[d + 1] /\ samples'[Len(samples')] = ts
  BY <1>len, <1>at, <1>8
\* What is dropped has a successor that is old enough.
<1>10. d >= 1 => s[d + 1] <= c /\ ts > GeoS
  <2> SUFFICES ASSUME d >= 1 PROVE s[d + 1] <= c /\ ts > GeoS
    OBVIOUS
  <2>1. s[d + 1] <= c
    BY <1>7 DEF Drops
  <2>2. s[1] < s[d + 1] /\ s[1] \in Nat /\ s[d + 1] \in Nat
    <3>1. 1 \in 1 .. n /\ d + 1 \in 1 .. n /\ 1 < d + 1
      BY <1>len, <1>7
    <3> QED
      BY <1>nat, <1>6, <3>1
  <2> QED
    BY <1>1, <1>2, <2>1, <2>2
<1>11. ASSUME NEW t \in geoTaken \cup {ts}
       PROVE  /\ t <= samples'[Len(samples')]
              /\ \/ \E i \in 1 .. Len(samples') : samples'[i] = t
                 \/ t < samples'[1] /\ samples'[1] + GeoS <= samples'[Len(samples')]
  <2>1. t <= ts /\ t \in Nat
    BY <1>3, <1>5
  <2>2. CASE \E i \in 1 .. n : s[i] = t
    <3>1. PICK i \in 1 .. n : s[i] = t
      BY <2>2
    <3>2. CASE i > d
      <4>1. i - d \in 1 .. n - d /\ samples'[i - d] = s[(i - d) + d] /\ (i - d) + d = i
        BY <1>len, <1>8, <3>2
      <4> QED
        BY <1>8, <1>9, <2>1, <3>1, <4>1
    <3>3. CASE i <= d
      <4>1. s[i] < s[d + 1] /\ s[d + 1] \in Nat /\ d >= 1
        BY <1>len, <1>nat, <1>6, <1>7, <3>3
      <4>2. s[d + 1] + GeoS <= ts
        BY <1>1, <1>2, <1>10, <4>1
      <4> QED
        BY <1>9, <2>1, <3>1, <4>1, <4>2
    <3> QED
      <4>1. i > d \/ i <= d
        BY <1>len, <1>7
      <4> QED
        BY <3>2, <3>3, <4>1
  <2>3. CASE ~(\E i \in 1 .. n : s[i] = t)
    <3>1. t \in geoTaken
      BY <1>len, <1>at, <2>3
    <3>2. n - 1 >= 1 /\ ~(\E i \in 1 .. Len(samples) : samples[i] = t)
      BY <1>len, <1>at, <1>old, <2>3, <3>1
    <3>3. t < samples[1] /\ samples[1] + GeoS <= samples[Len(samples)]
      BY <1>old, <3>1, <3>2
    <3>4. s[1] = samples[1] /\ samples[Len(samples)] < ts /\ samples[1] \in Nat
          /\ samples[Len(samples)] \in Nat
      BY <1>3, <1>len, <1>at, <1>mem, <1>5, <3>2
    <3>5. s[1] <= s[d + 1] /\ s[d + 1] \in Nat
      <4>1. 1 \in 1 .. n /\ d + 1 \in 1 .. n /\ (d = 0 \/ 1 < d + 1)
        BY <1>len, <1>7
      <4> QED
        BY <1>nat, <1>6, <4>1
    <3>6. s[d + 1] + GeoS <= ts
      <4>1. CASE d = 0
        BY <1>1, <3>3, <3>4, <4>1
      <4>2. CASE d # 0
        BY <1>1, <1>2, <1>7, <1>10, <3>5, <4>2
      <4> QED
        BY <4>1, <4>2
    <3> QED
      BY <1>9, <2>1, <3>3, <3>4, <3>5, <3>6
  <2> QED
    BY <2>2, <2>3
\* The new front is the latest sample that is a window old.
<1>12. ASSUME NEW t \in geoTaken \cup {ts}, t + GeoS <= ts
       PROVE  s[d + 1] + GeoS <= ts /\ t <= s[d + 1]
  <2>1. t \in Nat /\ ts >= GeoS /\ t <= c /\ (s[d + 1] <= c => s[d + 1] + GeoS <= ts)
        /\ s[d + 1] \in Nat /\ c < ts
    <3>1. t \in Nat
      BY <1>3
    <3>2. ts >= GeoS /\ t <= c /\ c + GeoS = ts /\ c < ts
      BY <1>1, <1>2, <1>12, <3>1
    <3>3. d + 1 \in 1 .. n
      BY <1>len, <1>7
    <3>4. s[d + 1] \in Nat
      BY <1>nat, <3>3
    <3>5. s[d + 1] <= c => s[d + 1] + GeoS <= ts
      BY <1>1, <1>2, <3>2, <3>4
    <3> QED
      BY <3>1, <3>2, <3>4, <3>5
  <2>2. CASE t <= s[d + 1]
    <3>1. CASE d >= 1
      BY <1>10, <2>1, <2>2, <3>1
    <3>2. CASE d = 0
      <4>1. \/ \E i \in 1 .. Len(samples') : samples'[i] = t
            \/ t < samples'[1] /\ samples'[1] + GeoS <= samples'[Len(samples')]
        BY <1>11
      <4>2. CASE t < samples'[1] /\ samples'[1] + GeoS <= samples'[Len(samples')]
        BY <1>9, <2>2, <4>2
      <4>3. CASE \E i \in 1 .. Len(samples') : samples'[i] = t
        <5>1. PICK i \in 1 .. n : s[i] = t
          <6>1. PICK j \in 1 .. Len(samples') : samples'[j] = t
            BY <4>3
          <6>2. j \in 1 .. n - d /\ j \in 1 .. n /\ j + d = j
            BY <1>len, <1>8, <3>2, <6>1
          <6>3. samples'[j] = s[j + d]
            BY <1>8, <6>2
          <6> QED
            BY <6>1, <6>2, <6>3
        <5>2. i = 1
          BY <1>len, <1>nat, <1>6, <2>1, <2>2, <3>2, <5>1
        <5> QED
          BY <2>1, <2>2, <3>2, <5>1, <5>2
      <4> QED
        BY <4>1, <4>2, <4>3
    <3> QED
      BY <1>7, <3>1, <3>2
  <2>3. CASE ~(t <= s[d + 1])
    <3>1. ~(t < samples'[1])
      BY <1>9, <2>1, <2>3
    <3>2. PICK i \in 1 .. n - d : samples'[i] = t
      BY <1>8, <1>11, <3>1
    <3>3. i >= 2 /\ i + d \in 1 .. n /\ s[i + d] = t /\ d # n - 1
      BY <1>len, <1>7, <1>8, <2>1, <2>3, <3>2
    <3>4. s[d + 2] > c
      BY <1>7, <3>3 DEF Drops
    <3>6. d + 2 \in 1 .. n /\ d + 2 <= i + d
      BY <1>len, <1>7, <3>3
    <3>7. s[d + 2] \in Nat
      BY <1>nat, <3>6
    <3>5. s[d + 2] <= s[i + d]
      <4>1. CASE i = 2
        BY <3>3, <3>7, <4>1
      <4>2. CASE i # 2
        BY <1>6, <1>nat, <3>3, <3>6, <3>7, <4>2
      <4> QED
        BY <4>1, <4>2
    <3> QED
      BY <1>2, <2>1, <3>3, <3>4, <3>5, <3>7
  <2> QED
    BY <2>2, <2>3
<1>13. Increasing(samples')
  <2>1. ASSUME NEW i \in 1 .. Len(samples'), NEW j \in 1 .. Len(samples'), i < j
        PROVE  samples'[i] < samples'[j]
    <3>1. i \in 1 .. n - d /\ j \in 1 .. n - d
      BY <1>8
    <3>2. i + d \in 1 .. n /\ j + d \in 1 .. n /\ i + d < j + d
      BY <1>len, <1>7, <2>1, <3>1
    <3> QED
      BY <1>6, <1>8, <3>1, <3>2
  <2> QED
    BY <2>1 DEF Increasing
<1>14. \A i \in 1 .. Len(samples') : samples'[i] \in geoTaken'
  <2> SUFFICES ASSUME NEW i \in 1 .. n - d PROVE s[i + d] \in geoTaken \cup {ts}
    BY <1>8
  <2>1. i + d \in 1 .. n
    BY <1>len, <1>7
  <2>2. CASE i + d = n
    BY <1>at, <2>2
  <2>3. CASE i + d # n
    <3>1. i + d \in 1 .. n - 1 /\ i + d \in 1 .. Len(samples)
      BY <1>len, <2>1, <2>3
    <3> QED
      BY <1>at, <1>mem, <3>1
  <2> QED
    BY <2>2, <2>3
<1>15. geoWindows = Measured(geoTaken)
  BY DEF GeoInv, GeoWindowsExact, Geo!WindowsExact, Measured
<1>16. geoWindows' = Measured(geoTaken')
  <2>1. s[d + 1] \in geoTaken \cup {ts}
    BY <1>8, <1>9, <1>14
  <2>2. Measured(geoTaken \cup {ts}) =
          Measured(geoTaken) \cup {[from |-> g, to |-> ts] : g \in {s[d + 1]} \cap 0 .. ts - GeoS}
    BY <1>1, <1>3, <1>5, <1>12, <2>1, OneMoreMeasured
  <2> QED
    BY <1>9, <1>15, <2>2
<1>17. (Geo!WindowsExact)'
  BY <1>16 DEF Measured, Geo!WindowsExact
<1>18. geoTaken' \in SUBSET Nat
  BY <1>3
<1>19. samples' # <<>>
  BY <1>8
<1> QED
  BY <1>8, <1>11, <1>13, <1>14, <1>17, <1>18, <1>19 DEF GeoInv, GeoWindowsExact
-----------------------------------------------------------------------------
(* The ring. *)

\* Positions in the ring.
LEMMA RingSlots ==
  ASSUME NEW C \in Nat \ {0}, NEW h \in 0 .. C - 1
  PROVE  /\ \A j \in 0 .. C : (h + j) % C = IF h + j < C THEN h + j ELSE h + j - C
         /\ \A i, j \in 0 .. C - 1 : (h + i) % C = (h + j) % C => i = j
         /\ \A d, j \in 0 .. C - 1 : d + j < C => (((h + d) % C) + j) % C = (h + d + j) % C
<1>1. ASSUME NEW j \in 0 .. C PROVE (h + j) % C = IF h + j < C THEN h + j ELSE h + j - C
  OBVIOUS
<1>2. ASSUME NEW i \in 0 .. C - 1, NEW j \in 0 .. C - 1, (h + i) % C = (h + j) % C PROVE i = j
  BY <1>1, <1>2
<1>3. ASSUME NEW d \in 0 .. C - 1, NEW j \in 0 .. C - 1, d + j < C
      PROVE  (((h + d) % C) + j) % C = (h + d + j) % C
  <2>1. (h + d) % C = IF h + d < C THEN h + d ELSE h + d - C
    BY <1>1
  <2>2. CASE h + d < C
    BY <2>1, <2>2
  <2>3. CASE h + d >= C
    <3>1. h + d - C + j \in 0 .. C - 1 /\ h + (d + j) >= C /\ d + j \in 0 .. C - 1
      BY <1>3, <2>3
    <3>2. (h + (d + j)) % C = h + (d + j) - C
      BY <1>1, <3>1
    <3>3. (h + d - C + j) % C = h + d - C + j
      BY <3>1
    <3> QED
      BY <2>1, <2>3, <3>2, <3>3
  <2> QED
    BY <2>2, <2>3
<1> QED
  BY <1>1, <1>2, <1>3

LEMMA SameSeq ==
  ASSUME NEW S, NEW s \in Seq(S), NEW t \in Seq(S), Len(s) = Len(t),
         \A i \in 1 .. Len(s) : s[i] = t[i]
  PROVE  s = t
OBVIOUS

LEMMA QueuePruned ==
  \A s, t : Robust!Queue!Pruned(s, t) = SubSeq(s, Front(s, Robust!Queue!Cutoff(t)) + 1, Len(s))
BY DEF Robust!Queue!Pruned, Front
LEMMA RingOfIs ==
  ASSUME UnitsAssumption,
         NEW s \in [0 .. Days + 1 -> Nat], NEW h \in 0 .. Days + 1, NEW n \in 0 .. Days + 1
  PROVE  /\ RingOf(s, h, n) \in Seq(Nat) /\ Len(RingOf(s, h, n)) = n
         /\ \A k \in 1 .. n : RingOf(s, h, n)[k] = s[(h + k - 1) % (Days + 2)]
<1>1. Days + 2 \in Nat \ {0} /\ n \in Nat /\ h \in Nat
  BY DEF UnitsAssumption
<1>2. ASSUME NEW k \in 1 .. n PROVE s[(h + k - 1) % (Days + 2)] \in Nat
  <2>1. h + k - 1 \in Nat
    BY <1>1
  <2>2. (h + k - 1) % (Days + 2) \in 0 .. Days + 1
    BY <1>1, <2>1
  <2> QED
    BY <1>1, <2>2
<1>3. RingOf(s, h, n) \in [1 .. n -> Nat]
  BY <1>2 DEF RingOf
<1>4. RingOf(s, h, n) \in Seq(Nat) /\ DOMAIN RingOf(s, h, n) = 1 .. n
  BY <1>1, <1>3
<1>5. Len(RingOf(s, h, n)) = n
  BY <1>1, <1>4
<1> QED
  BY <1>4, <1>5 DEF RingOf

LEMMA RingQueueIs ==
  ASSUME UnitsAssumption, RingInv
  PROVE  /\ RingQueue \in Seq(Nat) /\ Len(RingQueue) = count
         /\ \A k \in 1 .. count : RingQueue[k] = slots[(head + k - 1) % (Days + 2)]
BY RingOfIs DEF RingQueue, RingInv

\* Multiples of a day.
LEMMA Spacing ==
  ASSUME NEW a \in Nat, NEW b \in Nat, NEW p \in Nat
  PROVE  (a + b) * p = a * p + b * p /\ 1 * p = p /\ a * p \in Nat
OBVIOUS

LEMMA Multiples ==
  ASSUME NEW a \in Nat, NEW b \in Nat, NEW p \in Nat \ {0}, a * p < b * p
  PROVE  a < b
<1> SUFFICES ASSUME a >= b PROVE FALSE
  OBVIOUS
<1>1. (b + (a - b)) * p = b * p + (a - b) * p /\ (a - b) * p \in Nat /\ b * p \in Nat
  BY Spacing
<1>2. b + (a - b) = a
  OBVIOUS
<1> QED
  BY <1>1, <1>2

LEMMA RingInit == UnitsAssumption /\ Robust!Init => RingInv /\ RingQueue = <<>>
<1> SUFFICES ASSUME UnitsAssumption, Robust!Init PROVE RingInv /\ RingQueue = <<>>
  OBVIOUS
<1>1. Days \in Nat /\ Robust!Slots = 0 .. Days + 1 /\ Robust!Never = Horizon + 1
  BY DEF UnitsAssumption, Robust!Slots, Robust!Capacity, Robust!Never
<1>2. /\ slots = [k \in 0 .. Days + 1 |-> 0] /\ head = 0 /\ count = 0
      /\ lastDaily = Horizon + 1
  BY <1>1 DEF Robust!Init
<1>3. RingInv
  BY <1>1, <1>2 DEF RingInv
<1>4. RingQueue \in Seq(Nat) /\ Len(RingQueue) = 0
  BY <1>2, <1>3, RingQueueIs
<1> QED
  BY <1>3, <1>4

\* A sample is taken alike by the ring and by the queue it stands for.
LEMMA RingSampled ==
  ASSUME UnitsAssumption, RingInv, NEW ts \in 0 .. Horizon, Robust!Due(ts), Robust!Sample(ts, TRUE)
  PROVE  RingInv' /\ Robust!Queue!Due(ts) /\ Robust!Queue!Sample(ts, TRUE)
<1> DEFINE C == Days + 2
           q == RingQueue
           n == count + 1
           s == Append(q, ts)
           c == Robust!Cutoff(ts)
           d == Robust!Drop(slots', head, n, ts)
<1>types. /\ Days \in Nat \ {0} /\ Day \in Nat \ {0} /\ Horizon \in Nat /\ C \in Nat \ {0}
          /\ head \in 0 .. C - 1 /\ count \in 0 .. C - 1 /\ ts \in Nat
  BY DEF UnitsAssumption, RingInv
<1>slots. slots \in [0 .. C - 1 -> Nat]
  BY DEF RingInv
<1>q. q \in Seq(Nat) /\ Len(q) = count
  BY RingQueueIs
<1>qAt. \A k \in 1 .. count : q[k] = slots[(head + k - 1) % C]
  BY RingQueueIs
<1>far. \A i, j \in 1 .. count : i < j => q[j] >= q[i] + (j - i) * Day
  BY DEF RingInv
<1>last. IF count = 0 THEN lastDaily = Horizon + 1 ELSE lastDaily \in 0 .. Horizon /\ lastDaily = q[count]
  BY DEF RingInv
<1>c. Robust!Window = Days * Day /\ Days * Day \in Nat \ {0} /\ c \in Nat /\ (ts = 0 \/ c < ts)
      /\ c = Robust!Queue!Cutoff(ts) /\ (ts > Days * Day => c = ts - Days * Day)
  <2>1. Days * Day \in Nat \ {0}
    BY <1>types
  <2>2. c = IF ts > Days * Day THEN ts - Days * Day ELSE 0
    BY DEF Robust!Cutoff, Robust!Window
  <2>3. c = Robust!Queue!Cutoff(ts)
    BY <2>2 DEF Robust!Queue!Cutoff, Robust!Window
  <2> QED
    BY <1>types, <2>1, <2>2, <2>3 DEF Robust!Window
<1>s. s \in Seq(Nat) /\ Len(s) = n /\ s[n] = ts /\ \A k \in 1 .. count : s[k] = q[k]
  BY <1>types, <1>q, Appended
<1>n. n \in 1 .. C
  BY <1>types
<1>free. Robust!First = head /\ Robust!Held = count /\ Robust!Capacity = C
  BY <1>types DEF Robust!First, Robust!Held, Robust!Capacity
<1>step. /\ slots' = [slots EXCEPT ![(head + count) % C] = ts]
         /\ head' = (head + d) % C /\ count' = count + 1 - d /\ lastDaily' = ts
         /\ dailyWindows' = dailyWindows \cup
              {[from |-> f, to |-> ts] : f \in {slots'[head']} \cap 0 .. ts - Days * Day}
         /\ dailyTaken' = dailyTaken \cup {ts}
  <2>1. /\ slots' = [slots EXCEPT ![Robust!NewSlot] = ts]
        /\ head' = (Robust!First + Robust!Drop(slots', Robust!First, Robust!Held + 1, ts)) % Robust!Capacity
        /\ count' = Robust!Held + 1 - Robust!Drop(slots', Robust!First, Robust!Held + 1, ts)
        /\ lastDaily' = ts
        /\ dailyWindows' = dailyWindows \cup
             {[from |-> f, to |-> ts] : f \in {slots'[head']} \cap 0 .. ts - Robust!Window}
        /\ dailyTaken' = dailyTaken \cup {ts}
    BY DEF Robust!Sample
  <2>2. Robust!NewSlot = (head + count) % C
    BY <1>free DEF Robust!NewSlot
  <2>3. d = Robust!Drop(slots', Robust!First, Robust!Held + 1, ts)
    BY <1>free
  <2>4. Robust!Window = Days * Day
    BY <1>c
  <2> HIDE DEF d, C
  <2>5. slots' = [slots EXCEPT ![(head + count) % C] = ts]
    BY <2>1, <2>2
  <2>6. head' = (head + d) % C
    BY <1>free, <2>1, <2>3, Zenon
  <2>7. count' = count + 1 - d
    BY <1>free, <2>1, <2>3, Zenon
  <2> QED
    BY <2>1, <2>4, <2>5, <2>6, <2>7
<1>dIs. d = CHOOSE x \in 0 .. n - 1 :
              /\ \A k \in 1 .. x : slots'[(head + k) % C] <= c
              /\ x = n - 1 \/ slots'[(head + x + 1) % C] > c
  BY <1>free DEF Robust!Drop
<1>nIs. n = count + 1 /\ n \in Nat \ {0} /\ C = Days + 2
  BY <1>types
<1> HIDE DEF q, n, s, c, C, d
<1>new. /\ slots' \in [0 .. C - 1 -> Nat]
        /\ \A k \in 1 .. n : slots'[(head + k - 1) % C] = s[k]
  <2>1. (head + count) % C \in 0 .. C - 1
    BY <1>types
  <2>2. ASSUME NEW k \in 1 .. n PROVE slots'[(head + k - 1) % C] = s[k]
    <3>1. CASE k = n
      <4>1. head + k - 1 = head + count
        BY <1>types, <1>nIs, <3>1
      <4> QED
        BY <1>slots, <1>step, <1>s, <2>1, <3>1, <4>1
    <3>2. CASE k # n
      <4>1. k \in 1 .. count /\ k - 1 \in 0 .. C - 1 /\ head + k - 1 = head + (k - 1) /\ k - 1 # count
        BY <1>types, <1>nIs, <3>2
      <4>2. (head + (k - 1)) % C # (head + count) % C
        BY <1>types, <4>1, RingSlots
      <4>3. (head + (k - 1)) % C \in 0 .. C - 1
        BY <1>types, <4>1
      <4> QED
        BY <1>slots, <1>step, <1>s, <1>qAt, <4>1, <4>2, <4>3
    <3> QED
      BY <3>1, <3>2
  <2> QED
    BY <1>types, <1>slots, <1>step, <2>1, <2>2
<1>nat. \A k \in 1 .. n : s[k] \in Nat
  BY <1>s
<1>same. ASSUME NEW x \in 0 .. n - 1
         PROVE  Drops(s, n, c, x) <=> /\ \A k \in 1 .. x : slots'[(head + k) % C] <= c
                                      /\ x = n - 1 \/ slots'[(head + x + 1) % C] > c
  <2>1. \A k \in 1 .. x : slots'[(head + k) % C] = s[k + 1]
    <3> SUFFICES ASSUME NEW k \in 1 .. x PROVE slots'[(head + k) % C] = s[k + 1]
      OBVIOUS
    <3>1. k + 1 \in 1 .. n /\ head + (k + 1) - 1 = head + k
      BY <1>types, <1>nIs
    <3> QED
      BY <1>new, <3>1
  <2>2. x # n - 1 => slots'[(head + x + 1) % C] = s[x + 2]
    <3> SUFFICES ASSUME x # n - 1 PROVE slots'[(head + x + 1) % C] = s[x + 2]
      OBVIOUS
    <3>1. x + 2 \in 1 .. n /\ head + (x + 2) - 1 = head + x + 1
      BY <1>types, <1>nIs
    <3> QED
      BY <1>new, <3>1
  <2> QED
    BY <2>1, <2>2 DEF Drops
<1>drop. d \in 0 .. n - 1 /\ Drops(s, n, c, d) /\ d = Front(s, c)
  <2>1. s # <<>>
    BY <1>s, <1>nIs
  <2>2. /\ Front(s, c) \in 0 .. n - 1 /\ Drops(s, n, c, Front(s, c))
        /\ \A e : Drops(s, n, c, e) => e = Front(s, c)
    BY <1>s, <1>c, <2>1, FrontIs
  <2>3. d \in 0 .. n - 1 /\ \A k \in 1 .. d : slots'[(head + k) % C] <= c
    BY <1>dIs, <1>same, <2>2, Zenon
  <2>4. d = n - 1 \/ slots'[(head + d + 1) % C] > c
    BY <1>dIs, <1>same, <2>2, Zenon
  <2>5. Drops(s, n, c, d)
    BY <1>same, <2>3, <2>4
  <2> QED
    BY <2>2, <2>3, <2>5
<1>count. count' = n - d
  BY <1>types, <1>nIs, <1>step, <1>drop
<1>gap. ASSUME NEW i \in 1 .. n, NEW j \in 1 .. n, i < j PROVE s[j] >= s[i] + (j - i) * Day
  <2>1. i \in 1 .. count /\ count # 0 /\ count \in 1 .. count
    BY <1>gap, <1>nIs, <1>types
  <2>2. CASE j # n
    <3>1. j \in 1 .. count
      BY <1>nIs, <1>types, <2>2
    <3> QED
      BY <1>gap, <1>far, <1>s, <2>1, <3>1
  <2>3. CASE j = n
    <3>1. ts >= q[count] + Day
      BY <1>last, <1>types, <2>1 DEF Robust!Due, Robust!Never
    <3>2. q[count] \in Nat /\ q[i] \in Nat /\ s[i] = q[i] /\ s[n] = ts
      BY <1>q, <1>s, <2>1
    <3>3. j - i = (count - i) + 1 /\ count - i \in Nat
      BY <1>nIs, <2>1, <2>3
    <3>4. (j - i) * Day = (count - i) * Day + Day /\ (count - i) * Day \in Nat
      BY <1>types, <3>3, Spacing
    <3>5. q[count] >= q[i] + (count - i) * Day
      <4>1. CASE i = count
        <5>1. (count - i) * Day = 0
          BY <1>types, <4>1
        <5> QED
          BY <3>2, <4>1, <5>1
      <4>2. CASE i # count
        BY <1>far, <2>1, <4>2
      <4> QED
        BY <4>1, <4>2
    <3> QED
      BY <1>types, <2>3, <3>1, <3>2, <3>4, <3>5
  <2> QED
    BY <2>2, <2>3
\* The ring does not run full.
<1>short. n - d \in 1 .. C - 1
  <2> SUFFICES ASSUME ~(n - d <= C - 1) PROVE FALSE
    BY <1>types, <1>nIs, <1>drop
  <2>1. d = 0 /\ n = C /\ n - 2 = Days /\ 2 \in 1 .. n /\ n \in 1 .. n /\ 2 < n /\ d # n - 1
    BY <1>types, <1>nIs, <1>drop
  <2>2. s[2] > c /\ s[2] \in Nat
    BY <1>drop, <1>nat, <2>1 DEF Drops
  <2>3. ts >= s[2] + Days * Day
    BY <1>gap, <1>s, <2>1
  <2> QED
    BY <1>c, <1>types, <2>2, <2>3
\* What is left is the queue's suffix.
<1>q2. /\ head' \in 0 .. C - 1 /\ count' = n - d
       /\ \A k \in 1 .. n - d : RingQueue'[k] = s[k + d]
  <2>1. head' \in 0 .. C - 1
    BY <1>types, <1>drop, <1>nIs, <1>step
  <2>2. ASSUME NEW k \in 1 .. n - d PROVE RingQueue'[k] = s[k + d]
    <3>1. RingQueue'[k] = slots'[(head' + k - 1) % C]
      BY <1>count, <1>nIs, <2>2 DEF RingQueue, RingOf
    <3>2. d \in 0 .. C - 1 /\ k - 1 \in 0 .. C - 1 /\ d + (k - 1) < C /\ k + d \in 1 .. n
          /\ head' + k - 1 = head' + (k - 1) /\ head + d + (k - 1) = head + (k + d) - 1
      BY <1>types, <1>drop, <1>nIs, <1>n, <1>short, <2>1
    <3>3. (((head + d) % C) + (k - 1)) % C = (head + d + (k - 1)) % C
      <4>1. \A e, j \in 0 .. C - 1 : e + j < C => (((head + e) % C) + j) % C = (head + e + j) % C
        BY <1>types, RingSlots
      <4> QED
        BY <3>2, <4>1, Zenon
    <3>4. (head' + k - 1) % C = (head + (k + d) - 1) % C
      BY <1>step, <3>2, <3>3
    <3>5. slots'[(head + (k + d) - 1) % C] = s[k + d]
      BY <1>new, <3>2
    <3> QED
      BY <3>1, <3>4, <3>5
  <2> QED
    BY <1>count, <2>1, <2>2
<1>inv. RingInv'
  <2>1. /\ slots' \in [0 .. Days + 1 -> Nat] /\ head' \in 0 .. Days + 1 /\ count' \in 0 .. Days + 1
        /\ count' # 0 /\ count' \in 1 .. count'
    <3>1. C - 1 = Days + 1
      BY <1>types, <1>nIs
    <3> QED
      BY <1>types, <1>step, <1>new, <1>short, <1>q2, <3>1
  <2>2. lastDaily' \in 0 .. Horizon /\ lastDaily' = RingQueue'[count']
    <3>1. RingQueue'[count'] = s[count' + d] /\ count' + d = n
      <4>1. count' \in 1 .. n - d /\ count' + d = n
        BY <1>nIs, <1>drop, <1>count, <2>1
      <4> QED
        BY <1>q2, <4>1
    <3> QED
      BY <1>s, <1>step, <3>1
  <2>3. ASSUME NEW i \in 1 .. count', NEW j \in 1 .. count', i < j
        PROVE  RingQueue'[j] >= RingQueue'[i] + (j - i) * Day
    <3>1. i + d \in 1 .. n /\ j + d \in 1 .. n /\ i + d < j + d /\ (j + d) - (i + d) = j - i
      BY <1>nIs, <1>drop, <1>q2, <2>3
    <3>2. s[j + d] >= s[i + d] + (j - i) * Day
      BY <1>gap, <3>1
    <3> QED
      BY <1>q2, <3>2
  <2>4. count' >= 2 => RingQueue'[2] > (Robust!Cutoff(lastDaily))'
    <3> SUFFICES ASSUME count' >= 2 PROVE RingQueue'[2] > (Robust!Cutoff(lastDaily))'
      OBVIOUS
    <3>1. RingQueue'[2] = s[2 + d] /\ 2 + d = d + 2 /\ d # n - 1
      <4>1. 2 \in 1 .. n - d /\ 2 + d = d + 2 /\ d # n - 1
        <5>1. 2 <= n - d
          BY <1>count
        <5> QED
          BY <1>types, <1>nIs, <1>drop, <5>1
      <4> QED
        BY <1>q2, <4>1
    <3>2. s[d + 2] > c
      BY <1>drop, <3>1 DEF Drops
    <3>3. (Robust!Cutoff(lastDaily))' = c
      BY <1>step DEF c, Robust!Cutoff, Robust!Window
    <3> QED
      BY <3>1, <3>2, <3>3
  <2> QED
    BY <2>1, <2>2, <2>3, <2>4 DEF RingInv
<1>pruned. RingQueue' = SubSeq(s, d + 1, n)
  <2>1. slots' \in [0 .. Days + 1 -> Nat] /\ head' \in 0 .. Days + 1 /\ count' \in 0 .. Days + 1
    BY <1>inv DEF RingInv
  <2>2. RingQueue' \in Seq(Nat) /\ Len(RingQueue') = count'
    BY <2>1, RingOfIs DEF RingQueue
  <2>3. d \in 0 .. Len(s) - 1
    BY <1>s, <1>drop
  <2>4. /\ SubSeq(s, d + 1, Len(s)) \in Seq(Nat) /\ Len(SubSeq(s, d + 1, Len(s))) = Len(s) - d
        /\ \A i \in 1 .. Len(s) - d : SubSeq(s, d + 1, Len(s))[i] = s[i + d]
    BY <1>s, <2>3, Suffix
  <2> DEFINE t == SubSeq(s, d + 1, n)
  <2>5. t \in Seq(Nat) /\ Len(t) = n - d /\ \A i \in 1 .. n - d : t[i] = s[i + d]
    BY <1>s, <2>4
  <2> HIDE DEF t
  <2>6. Len(RingQueue') = n - d /\ \A i \in 1 .. n - d : RingQueue'[i] = t[i]
    BY <1>q2, <2>2, <2>5
  <2>7. RingQueue' = t
    BY <2>2, <2>5, <2>6, SameSeq
  <2> QED
    BY <2>7 DEF t
<1>due. Robust!Queue!Due(ts)
  <2>1. RingQueue = <<>> \/ ts >= RingQueue[Len(RingQueue)] + Day
    <3>1. CASE count = 0
      BY <1>q, <3>1 DEF q
    <3>2. CASE count # 0
      BY <1>last, <1>q, <1>types, <3>2 DEF q, Robust!Due, Robust!Never
    <3> QED
      BY <3>1, <3>2
  <2> QED
    BY <2>1 DEF Robust!Queue!Due, RingQueue, RingOf, Robust!Capacity
<1>sample. Robust!Queue!Sample(ts, TRUE)
  <2>1. RingQueue' = Robust!Queue!Pruned(Append(RingQueue, ts), ts)
    <3>1. Robust!Queue!Pruned(s, ts) = SubSeq(s, Front(s, c) + 1, Len(s))
      BY <1>c, QueuePruned
    <3> QED
      BY <1>s, <1>drop, <1>pruned, <3>1 DEF s, q
  <2>2. dailyWindows' = dailyWindows \cup
          {[from |-> f, to |-> ts] : f \in {RingQueue'[1]} \cap 0 .. ts - Robust!Window}
    <3>1. RingQueue'[1] = slots'[head']
      <4>1. 1 \in 1 .. count' /\ head' + 1 - 1 = head' /\ head' \in 0 .. C - 1
        <5>1. count' \in 1 .. C - 1 /\ head' \in 0 .. C - 1
          BY <1>short, <1>q2
        <5>2. C \in Nat
          BY <1>types, <1>nIs
        <5>3. head' \in Nat /\ count' \in Nat /\ count' >= 1
          BY <5>1, <5>2
        <5>4. head' + 1 - 1 = head'
          <6>1. \A h \in Nat : h + 1 - 1 = h
            OBVIOUS
          <6> QED
            BY <5>3, <6>1, Zenon
        <5>5. 1 \in 1 .. count'
          BY <5>3
        <5> QED
          BY <5>1, <5>4, <5>5
      <4>2. head' % C = head'
        <5>1. C \in Nat \ {0} /\ \A x \in 0 .. C - 1 : x % C = x
          BY <1>types
        <5> QED
          BY <4>1, <5>1
      <4> QED
        BY <1>nIs, <4>1, <4>2 DEF RingQueue, RingOf
    <3> QED
      BY <1>step, <1>c, <3>1
  <2>3. dailyTaken' = dailyTaken \cup {ts}
    BY <1>step
  <2> QED
    BY <1>due, <2>1, <2>2, <2>3 DEF Robust!Queue!Sample, RingQueue, RingOf, Robust!Capacity
<1> QED
  BY <1>inv, <1>due, <1>sample
-----------------------------------------------------------------------------
(* Sums over finite sets. *)

\* What holds of a set once it holds of its proper subsets.
LEMMA FromSubsets ==
  ASSUME NEW S, IsFiniteSet(S), NEW Good,
         \A u \in SUBSET S : (\A v \in SUBSET u : v # u => v \in Good) => u \in Good
  PROVE  \A u \in SUBSET S : u \in Good
<1> DEFINE Bad == {u \in SUBSET S : u \notin Good}
           Sizes == {Cardinality(u) : u \in Bad}
<1>1. \A u \in SUBSET S : IsFiniteSet(u) /\ Cardinality(u) \in Nat
  BY FS_Subset, FS_CardinalityType
<1>2. ASSUME Bad # {} PROVE FALSE
  <2>1. Sizes \in SUBSET Nat /\ Sizes # {}
    BY <1>1, <1>2
  <2>2. PICK n \in Sizes : \A m \in Sizes : n <= m
    <3> HIDE DEF Sizes
    <3> QED
      BY <2>1, LeastNumber
  <2>3. PICK u \in Bad : Cardinality(u) = n
    BY <2>2
  <2>4. ASSUME NEW v \in SUBSET u, v # u PROVE v \in Good
    <3>1. v \in SUBSET S /\ IsFiniteSet(u) /\ IsFiniteSet(v)
      BY <1>1, <2>3
    <3>2. Cardinality(v) <= Cardinality(u) /\ Cardinality(v) # Cardinality(u)
      BY <3>1, <2>4, FS_Subset
    <3>3. Cardinality(v) \in Nat /\ Cardinality(u) \in Nat
      BY <3>1, FS_CardinalityType
    <3>4. ~(n <= Cardinality(v))
      BY <2>3, <3>2, <3>3
    <3> QED
      BY <3>1, <3>4, <2>2
  <2> QED
    BY <2>3, <2>4
<1> QED
  BY <1>2

\* What holds of the empty set and stays with one more element.
LEMMA OneByOne ==
  ASSUME NEW S, IsFiniteSet(S), NEW Good, {} \in Good,
         \A u \in SUBSET S : \A x \in S \ u : u \in Good => u \cup {x} \in Good
  PROVE  S \in Good
<1>1. ASSUME NEW u \in SUBSET S, \A v \in SUBSET u : v # u => v \in Good PROVE u \in Good
  <2>1. CASE u = {}
    BY <2>1
  <2>2. CASE u # {}
    <3> PICK x \in u : TRUE
      BY <2>2
    <3> DEFINE v == u \ {x}
    <3>1. v \in SUBSET u /\ v # u /\ v \in SUBSET S /\ x \in S \ v /\ v \cup {x} = u
      OBVIOUS
    <3> HIDE DEF v
    <3>2. v \in Good
      BY <1>1, <3>1
    <3>3. v \cup {x} \in Good
      BY <3>1, <3>2, Zenon
    <3> QED
      BY <3>1, <3>3
  <2> QED
    BY <2>1, <2>2
<1> QED
  BY <1>1, FromSubsets, Zenon

Some(u) == CHOOSE x \in u : TRUE
Sum(f, S) == Err!SumFunctionOnSet(f, S)

IsSum(s, f, S) ==
  s = [u \in SUBSET S |-> IF u = {} THEN 0 ELSE f[Some(u)] + s[u \ {Some(u)}]]

LEMMA SumIs == ASSUME NEW f, NEW S PROVE Sum(f, S) = (CHOOSE s : IsSum(s, f, S))[S]
BY Zenon DEF Sum, Err!SumFunctionOnSet, Err!FoldFunctionOnSet, Err!MapThenFoldSet, IsSum, Some

LEMMA SumUnique ==
  ASSUME NEW f, NEW S, IsFiniteSet(S), NEW T, NEW s, IsSum(s, f, S), NEW t, IsSum(t, f, T)
  PROVE  \A u \in SUBSET S : u \subseteq T => s[u] = t[u]
<1> DEFINE Good == {u \in SUBSET S : u \subseteq T => s[u] = t[u]}
<1>1. ASSUME NEW u \in SUBSET S, \A v \in SUBSET u : v # u => v \in Good PROVE u \in Good
  <2> SUFFICES ASSUME u \subseteq T PROVE s[u] = t[u]
    OBVIOUS
  <2> DEFINE x == Some(u)
             v == u \ {x}
  <2>1. u \in SUBSET S /\ u \in SUBSET T
    OBVIOUS
  <2>2. /\ s[u] = IF u = {} THEN 0 ELSE f[x] + s[v]
        /\ t[u] = IF u = {} THEN 0 ELSE f[x] + t[v]
    BY <2>1, Zenon DEF IsSum
  <2>3. u # {} => x \in u
    BY DEF Some
  <2>4. u # {} => v \in SUBSET u /\ v # u
    BY <2>3
  <2>5. u # {} => v \in Good /\ v \subseteq T
    BY <2>1, <2>4, <1>1
  <2>6. u # {} => s[v] = t[v]
    BY <2>5
  <2> HIDE DEF x, v
  <2> QED
    BY <2>2, <2>6
<1> HIDE DEF Good
<1>2. \A u \in SUBSET S : u \in Good
  BY <1>1, FromSubsets, Zenon
<1> QED
  BY <1>2 DEF Good

LEMMA SumExists ==
  ASSUME NEW f, NEW S, IsFiniteSet(S)
  PROVE  \E s : IsSum(s, f, S)
<1> DEFINE Good == {u \in SUBSET S : \E s : IsSum(s, f, u)}
<1>1. ASSUME NEW u \in SUBSET S, \A v \in SUBSET u : v # u => v \in Good PROVE u \in Good
  <2> DEFINE T(v) == CHOOSE t : IsSum(t, f, v)
             Val(v) == IF v = {} THEN 0 ELSE f[Some(v)] + T(v \ {Some(v)})[v \ {Some(v)}]
             s == [v \in SUBSET u |-> Val(v)]
  <2>1. \A v \in SUBSET u : v # u => IsSum(T(v), f, v) /\ IsFiniteSet(v)
    <3> SUFFICES ASSUME NEW v \in SUBSET u, v # u PROVE IsSum(T(v), f, v) /\ IsFiniteSet(v)
      OBVIOUS
    <3>1. v \in Good /\ v \in SUBSET S
      BY <1>1
    <3>2. \E t : IsSum(t, f, v)
      BY <3>1
    <3>3. IsFiniteSet(v)
      BY <3>1, FS_Subset
    <3> QED
      BY <3>2, <3>3, Zenon
  <2>2. \A v \in SUBSET u : v # {} => Some(v) \in v
    BY DEF Some
  <2>3. ASSUME NEW v \in SUBSET u, v # u PROVE T(v)[v] = Val(v)
    <3> DEFINE w == v \ {Some(v)}
    <3>1. IsSum(T(v), f, v) /\ v \in SUBSET v /\ IsFiniteSet(v)
      BY <2>1, <2>3
    <3>2. T(v)[v] = IF v = {} THEN 0 ELSE f[Some(v)] + T(v)[w]
      <4> HIDE DEF T
      <4> QED
        BY <3>1, Zenon DEF IsSum
    <3>3. CASE v # {}
      <4>1. w \in SUBSET v /\ w # v /\ w \in SUBSET u /\ w # u
        BY <2>2, <2>3, <3>3
      <4>2. IsSum(T(w), f, w) /\ IsFiniteSet(w)
        BY <2>1, <4>1
      <4> HIDE DEF T, w
      <4>3. T(w)[w] = T(v)[w]
        BY <3>1, <4>1, <4>2, SumUnique
      <4> QED
        BY <3>2, <3>3, <4>3 DEF w
    <3> QED
      BY <3>2, <3>3
  <2>4. ASSUME NEW v \in SUBSET u
        PROVE  s[v] = IF v = {} THEN 0 ELSE f[Some(v)] + s[v \ {Some(v)}]
    <3> DEFINE w == v \ {Some(v)}
    <3>1. s[v] = Val(v)
      OBVIOUS
    <3>2. CASE v = {}
      BY <3>1, <3>2
    <3>3. CASE v # {}
      <4>1. w \in SUBSET u /\ w # u
        BY <2>2, <3>3
      <4>2. s[w] = T(w)[w]
        <5>1. T(w)[w] = Val(w)
          BY <2>3, <4>1
        <5> QED
          BY <5>1, <4>1
      <4> HIDE DEF T
      <4> QED
        BY <3>1, <3>3, <4>2
    <3> QED
      BY <3>2, <3>3
  <2>5. IsSum(s, f, u)
    <3> HIDE DEF Val
    <3>1. s = [v \in SUBSET u |-> s[v]]
      OBVIOUS
    <3> HIDE DEF s
    <3> QED
      BY <2>4, <3>1 DEF IsSum
  <2> QED
    BY <2>5
<1> HIDE DEF Good
<1>2. S \in Good
  BY <1>1, FromSubsets, Zenon
<1> QED
  BY <1>2 DEF Good

LEMMA SumStep ==
  ASSUME NEW f, NEW S, IsFiniteSet(S)
  PROVE  Sum(f, S) = IF S = {} THEN 0 ELSE f[Some(S)] + Sum(f, S \ {Some(S)})
<1> DEFINE T(v) == CHOOSE t : IsSum(t, f, v)
           w == S \ {Some(S)}
<1>1. IsFiniteSet(w)
  BY FS_RemoveElement
<1>2. IsSum(T(S), f, S) /\ IsSum(T(w), f, w)
  BY <1>1, SumExists, Zenon
<1>3. Sum(f, S) = T(S)[S] /\ Sum(f, w) = T(w)[w]
  BY SumIs
<1> HIDE DEF T
<1>4. T(S)[S] = IF S = {} THEN 0 ELSE f[Some(S)] + T(S)[w]
  BY <1>2, Zenon DEF IsSum
<1>5. T(w)[w] = T(S)[w]
  <2>1. w \subseteq S /\ w \in SUBSET w
    OBVIOUS
  <2> DEFINE a == T(S)
             b == T(w)
  <2>2. IsSum(a, f, S) /\ IsSum(b, f, w)
    BY <1>2
  <2> HIDE DEF w, a, b
  <2>3. \A u \in SUBSET w : u \subseteq S => b[u] = a[u]
    BY <1>1, <2>2, SumUnique
  <2>4. b[w] = a[w]
    BY <2>1, <2>3
  <2> QED
    BY <2>4 DEF a, b
<1> QED
  BY <1>3, <1>4, <1>5

\* A list of numbers, element by element in any order.
LEMMA SumOfNone == ASSUME NEW f PROVE Sum(f, {}) = 0
BY SumStep, FS_EmptySet

LEMMA SumNat ==
  ASSUME NEW f, NEW S, IsFiniteSet(S), \A x \in S : f[x] \in Nat
  PROVE  Sum(f, S) \in Nat
<1> DEFINE Good == {u \in SUBSET S : Sum(f, u) \in Nat}
<1>1. ASSUME NEW u \in SUBSET S, \A v \in SUBSET u : v # u => v \in Good PROVE u \in Good
  <2>1. IsFiniteSet(u)
    BY FS_Subset
  <2>2. CASE u = {}
    BY <2>2, SumOfNone
  <2>3. CASE u # {}
    <3>1. Some(u) \in u
      BY <2>3 DEF Some
    <3>2. Sum(f, u \ {Some(u)}) \in Nat
      BY <3>1, <1>1
    <3>3. f[Some(u)] \in Nat
      BY <3>1
    <3>4. Sum(f, u) = f[Some(u)] + Sum(f, u \ {Some(u)})
      BY <2>1, <2>3, SumStep
    <3> QED
      BY <3>2, <3>3, <3>4
  <2> QED
    BY <2>2, <2>3
<1> HIDE DEF Good
<1>2. S \in Good
  BY <1>1, FromSubsets, Zenon
<1> QED
  BY <1>2 DEF Good

LEMMA SumWithout ==
  ASSUME NEW f, NEW S, IsFiniteSet(S), \A x \in S : f[x] \in Nat
  PROVE  \A u \in SUBSET S : \A x \in u : Sum(f, u) = f[x] + Sum(f, u \ {x})
<1> DEFINE Good == {u \in SUBSET S : \A x \in u : Sum(f, u) = f[x] + Sum(f, u \ {x})}
<1>1. ASSUME NEW u \in SUBSET S, \A v \in SUBSET u : v # u => v \in Good PROVE u \in Good
  <2> SUFFICES ASSUME NEW x \in u PROVE Sum(f, u) = f[x] + Sum(f, u \ {x})
    OBVIOUS
  <2> DEFINE c == Some(u)
  <2>1. c \in u /\ IsFiniteSet(u)
    BY FS_Subset DEF Some
  <2>2. Sum(f, u) = f[c] + Sum(f, u \ {c})
    BY <2>1, SumStep
  <2> HIDE DEF c
  <2>3. CASE c = x
    BY <2>2, <2>3
  <2>4. CASE c # x
    <3> DEFINE w == (u \ {c}) \ {x}
    <3>1. /\ x \in u \ {c} /\ c \in u \ {x} /\ (u \ {x}) \ {c} = w
          /\ u \ {c} \in Good /\ u \ {x} \in Good
      BY <2>1, <2>4, <1>1
    <3>2. Sum(f, u \ {c}) = f[x] + Sum(f, w)
      BY <3>1
    <3>3. Sum(f, u \ {x}) = f[c] + Sum(f, w)
      BY <3>1
    <3>4. Sum(f, w) \in Nat
      <4>1. IsFiniteSet(w) /\ \A y \in w : f[y] \in Nat
        BY <2>1, FS_RemoveElement
      <4> HIDE DEF w
      <4> QED
        BY <4>1, SumNat
    <3>5. f[c] \in Nat /\ f[x] \in Nat
      BY <2>1
    <3> HIDE DEF w
    <3> QED
      BY <2>2, <3>2, <3>3, <3>4, <3>5
  <2> QED
    BY <2>3, <2>4
<1> HIDE DEF Good
<1>2. \A u \in SUBSET S : u \in Good
  BY <1>1, FromSubsets, Zenon
<1> QED
  BY <1>2 DEF Good

LEMMA SumWith ==
  ASSUME NEW f, NEW S, IsFiniteSet(S), NEW x, x \notin S, f[x] \in Nat,
         \A y \in S : f[y] \in Nat
  PROVE  Sum(f, S \cup {x}) = f[x] + Sum(f, S)
<1> DEFINE u == S \cup {x}
<1>1. IsFiniteSet(u) /\ x \in u /\ u \ {x} = S /\ \A y \in u : f[y] \in Nat
  BY FS_AddElement
<1> HIDE DEF u
<1>2. Sum(f, u) = f[x] + Sum(f, u \ {x})
  BY <1>1, SumWithout
<1> QED
  BY <1>1, <1>2 DEF u

LEMMA SumSame ==
  ASSUME NEW f, NEW g, NEW S, IsFiniteSet(S), \A x \in S : f[x] = g[x]
  PROVE  Sum(f, S) = Sum(g, S)
<1> DEFINE Good == {u \in SUBSET S : Sum(f, u) = Sum(g, u)}
<1>1. ASSUME NEW u \in SUBSET S, \A v \in SUBSET u : v # u => v \in Good PROVE u \in Good
  <2>1. IsFiniteSet(u)
    BY FS_Subset
  <2>2. CASE u = {}
    BY <2>2, SumOfNone
  <2>3. CASE u # {}
    <3>1. Some(u) \in u /\ u \ {Some(u)} \in Good
      BY <2>3, <1>1 DEF Some
    <3>2. /\ Sum(f, u) = f[Some(u)] + Sum(f, u \ {Some(u)})
          /\ Sum(g, u) = g[Some(u)] + Sum(g, u \ {Some(u)})
      BY <2>1, <2>3, SumStep
    <3> QED
      BY <3>1, <3>2
  <2> QED
    BY <2>2, <2>3
<1> HIDE DEF Good
<1>2. S \in Good
  BY <1>1, FromSubsets, Zenon
<1> QED
  BY <1>2 DEF Good

LEMMA SumOfBoth ==
  ASSUME NEW f, NEW A, IsFiniteSet(A), NEW B, IsFiniteSet(B), A \cap B = {},
         \A x \in A \cup B : f[x] \in Nat
  PROVE  Sum(f, A \cup B) = Sum(f, A) + Sum(f, B)
<1> DEFINE Good == {u \in SUBSET B : Sum(f, A \cup u) = Sum(f, A) + Sum(f, u)}
<1>1. {} \in Good
  <2>1. A \cup {} = A /\ Sum(f, A) \in Nat
    BY SumNat
  <2> QED
    BY <2>1, SumOfNone
<1>2. ASSUME NEW u \in SUBSET B, NEW x \in B \ u, u \in Good PROVE u \cup {x} \in Good
  <2>1. IsFiniteSet(u)
    BY FS_Subset
  <2>2. IsFiniteSet(A \cup u)
    BY <2>1, FS_Union
  <2>3. x \notin u /\ x \notin A \cup u /\ f[x] \in Nat
    OBVIOUS
  <2>4. (\A y \in u : f[y] \in Nat) /\ \A y \in A \cup u : f[y] \in Nat
    OBVIOUS
  <2>5. Sum(f, u \cup {x}) = f[x] + Sum(f, u)
    BY <2>1, <2>3, <2>4, SumWith
  <2>6. Sum(f, (A \cup u) \cup {x}) = f[x] + Sum(f, A \cup u)
    <3> DEFINE w == A \cup u
    <3> HIDE DEF w
    <3> QED
      BY <2>2, <2>3, <2>4, SumWith DEF w
  <2>7. Sum(f, A) \in Nat /\ Sum(f, u) \in Nat
    BY <2>1, <2>4, SumNat
  <2>8. Sum(f, A \cup u) = Sum(f, A) + Sum(f, u)
    BY <1>2
  <2>9. A \cup (u \cup {x}) = (A \cup u) \cup {x}
    OBVIOUS
  <2>10. Sum(f, A \cup (u \cup {x})) = Sum(f, A) + Sum(f, u \cup {x})
    <3> DEFINE a == Sum(f, A)
               b == Sum(f, u)
               y == f[x]
    <3>1. a \in Nat /\ b \in Nat /\ y \in Nat
      BY <2>3, <2>7
    <3>2. Sum(f, u \cup {x}) = y + b /\ Sum(f, A \cup (u \cup {x})) = y + (a + b)
      BY <2>5, <2>6, <2>8, <2>9, Zenon
    <3> HIDE DEF a, b, y
    <3>3. Sum(f, A \cup (u \cup {x})) = a + Sum(f, u \cup {x})
      BY <3>1, <3>2
    <3> QED
      BY <3>3 DEF a
  <2> QED
    BY <2>10
<1> HIDE DEF Good
<1>3. B \in Good
  BY <1>1, <1>2, OneByOne, Zenon
<1> QED
  BY <1>3 DEF Good

\* What is added up group by group is the sum of all.
LEMMA SumOfGroups ==
  ASSUME NEW K, IsFiniteSet(K), NEW T, IsFiniteSet(T), NEW f, NEW g, NEW h,
         \A t \in T : g[t] \in Nat /\ h[t] \in K,
         \A k \in K : f[k] = Sum(g, {t \in T : h[t] = k})
  PROVE  Sum(f, K) = Sum(g, T)
<1> DEFINE Of(u) == {t \in T : h[t] \in u}
           Good == {u \in SUBSET K : Sum(f, u) = Sum(g, Of(u))}
<1>1. {} \in Good
  <2>1. Of({}) = {}
    OBVIOUS
  <2> QED
    BY <2>1, SumOfNone
<1>2. \A u : IsFiniteSet(Of(u)) /\ \A t \in Of(u) : g[t] \in Nat
  BY FS_Subset
<1>3. \A k \in K : f[k] \in Nat
  <2> SUFFICES ASSUME NEW k \in K PROVE f[k] \in Nat
    OBVIOUS
  <2>1. Of({k}) = {t \in T : h[t] = k}
    OBVIOUS
  <2> HIDE DEF Of
  <2>2. Sum(g, Of({k})) \in Nat
    BY <1>2, SumNat
  <2> QED
    BY <2>1, <2>2
<1>4. ASSUME NEW u \in SUBSET K, NEW k \in K \ u, u \in Good PROVE u \cup {k} \in Good
  <2> DEFINE A == Of(u)
             B == {t \in T : h[t] = k}
  <2>1. Of(u \cup {k}) = A \cup B /\ A \cap B = {} /\ B = Of({k})
    OBVIOUS
  <2>2. IsFiniteSet(u)
    BY FS_Subset
  <2>3. Sum(f, u \cup {k}) = f[k] + Sum(f, u)
    BY <1>3, <2>2, SumWith
  <2>4. IsFiniteSet(A) /\ IsFiniteSet(B) /\ \A t \in A \cup B : g[t] \in Nat
    <3>1. IsFiniteSet(A) /\ IsFiniteSet(B)
      BY <1>2, <2>1
    <3> QED
      BY <3>1
  <2>5. Sum(f, u) = Sum(g, A) /\ f[k] = Sum(g, B)
    BY <1>4
  <2> HIDE DEF A, B
  <2>6. Sum(g, A \cup B) = Sum(g, A) + Sum(g, B)
    BY <2>1, <2>4, SumOfBoth
  <2>7. Sum(g, A) \in Nat /\ Sum(g, B) \in Nat
    BY <2>4, SumNat
  <2>8. Sum(f, u \cup {k}) = Sum(g, A \cup B)
    BY <2>3, <2>5, <2>6, <2>7
  <2> HIDE DEF Of
  <2> QED
    BY <2>1, <2>8
<1>5. Of(K) = T
  OBVIOUS
<1> HIDE DEF Good, Of
<1>6. K \in Good
  BY <1>1, <1>4, OneByOne, Zenon
<1> QED
  BY <1>5, <1>6 DEF Good

\* The same number, so many times.
LEMMA SumOfEqual ==
  ASSUME NEW f, NEW e \in Nat, NEW S, IsFiniteSet(S), \A x \in S : f[x] = e
  PROVE  Sum(f, S) = e * Cardinality(S)
<1> DEFINE Good == {u \in SUBSET S : Sum(f, u) = e * Cardinality(u)}
<1>1. {} \in Good
  BY SumOfNone, FS_EmptySet
<1>2. ASSUME NEW u \in SUBSET S, NEW x \in S \ u, u \in Good PROVE u \cup {x} \in Good
  <2>1. IsFiniteSet(u)
    BY FS_Subset
  <2>2. f[x] = e /\ \A y \in u : f[y] \in Nat
    OBVIOUS
  <2>3. Sum(f, u \cup {x}) = e + Sum(f, u)
    BY <2>1, <2>2, SumWith
  <2> DEFINE n == Cardinality(u)
  <2>4. Cardinality(u \cup {x}) = n + 1 /\ n \in Nat /\ Sum(f, u) = e * n
    BY <1>2, <2>1, FS_AddElement, FS_CardinalityType
  <2> HIDE DEF n
  <2>5. e + e * n = e * (n + 1)
    BY <2>4
  <2> QED
    BY <2>3, <2>4, <2>5
<1> HIDE DEF Good
<1>3. S \in Good
  BY <1>1, <1>2, OneByOne, Zenon
<1> QED
  BY <1>3 DEF Good

-----------------------------------------------------------------------------
(* Hours and their slots. *)

HourOf(t) == t \div Hour
Slots == ErrHours + 2

LEMMA Hours ==
  ASSUME UnitsAssumption, NEW t \in Nat
  PROVE  HourOf(t) \in Nat /\ HourOf(t) * Hour <= t /\ t < HourOf(t) * Hour + Hour
<1>1. Hour \in Nat \ {0}
  BY DEF UnitsAssumption
<1>2. \A x \in Nat, h \in Nat \ {0} :
        /\ x \div h \in Nat /\ x = h * (x \div h) + (x % h) /\ x % h \in 0 .. h - 1
  OBVIOUS
<1> DEFINE q == t \div Hour
           r == t % Hour
<1>3. q \in Nat /\ t = Hour * q + r /\ r \in 0 .. Hour - 1
  BY <1>1, <1>2
<1> HIDE DEF q, r
<1>4. q * Hour <= t /\ t < q * Hour + Hour
  BY <1>1, <1>3
<1> QED
  BY <1>3, <1>4 DEF q, HourOf

LEMMA TimesGrow == \A a, b, h \in Nat : a <= b => a * h <= b * h /\ a * h \in Nat /\ b * h \in Nat
<1> SUFFICES ASSUME NEW a \in Nat, NEW b \in Nat, NEW h \in Nat, a <= b
             PROVE  a * h <= b * h /\ a * h \in Nat /\ b * h \in Nat
  OBVIOUS
<1>1. b = a + (b - a) /\ b - a \in Nat
  OBVIOUS
<1> DEFINE d == b - a
<1>2. b * h = a * h + d * h /\ d * h \in Nat /\ a * h \in Nat
  BY <1>1
<1> HIDE DEF d
<1> QED
  BY <1>2

\* An hour is over before a moment, or not.
LEMMA HourBelow ==
  ASSUME UnitsAssumption, NEW t \in Nat, NEW q \in Nat
  PROVE  (HourOf(t) < q) <=> (t < q * Hour)
<1> DEFINE r == HourOf(t)
<1>1. r \in Nat /\ r * Hour <= t /\ t < r * Hour + Hour /\ Hour \in Nat \ {0}
  BY Hours DEF UnitsAssumption
<1> HIDE DEF r
<1>2. r * Hour \in Nat /\ q * Hour \in Nat /\ (r + 1) * Hour = r * Hour + Hour
  BY <1>1
<1>3. r < q => t < q * Hour
  <2> SUFFICES ASSUME r < q PROVE t < q * Hour
    OBVIOUS
  <2>1. (r + 1) * Hour <= q * Hour
    BY <1>1, TimesGrow
  <2> QED
    BY <1>1, <1>2, <2>1
<1>4. ~(r < q) => ~(t < q * Hour)
  <2> SUFFICES ASSUME ~(r < q) PROVE ~(t < q * Hour)
    OBVIOUS
  <2>1. q * Hour <= r * Hour
    BY <1>1, TimesGrow
  <2> QED
    BY <1>1, <1>2, <2>1
<1> QED
  BY <1>3, <1>4 DEF r

LEMMA HourIs ==
  ASSUME UnitsAssumption, NEW t \in Nat, NEW q \in Nat
  PROVE  (HourOf(t) = q) <=> (q * Hour <= t /\ t < (q + 1) * Hour)
<1>1. (HourOf(t) < q) <=> (t < q * Hour)
  BY HourBelow
<1>2. (HourOf(t) < q + 1) <=> (t < (q + 1) * Hour)
  BY HourBelow
<1>3. HourOf(t) \in Nat /\ Hour \in Nat
  BY Hours DEF UnitsAssumption
<1> DEFINE a == q * Hour
           b == (q + 1) * Hour
<1>4. a \in Nat /\ b \in Nat
  BY <1>3
<1> HIDE DEF a, b
<1> QED
  BY <1>1, <1>2, <1>3, <1>4 DEF a, b

LEMMA HourGrows ==
  ASSUME UnitsAssumption, NEW t \in Nat, NEW u \in Nat, t <= u
  PROVE  HourOf(t) <= HourOf(u)
<1>1. (HourOf(u) < HourOf(t)) <=> (u < HourOf(t) * Hour)
  BY Hours, HourBelow
<1>2. HourOf(t) \in Nat /\ HourOf(u) \in Nat /\ HourOf(t) * Hour <= t /\ Hour \in Nat
  BY Hours DEF UnitsAssumption
<1> DEFINE a == HourOf(t) * Hour
<1>3. a \in Nat
  BY <1>2
<1> HIDE DEF a
<1> QED
  BY <1>1, <1>2, <1>3 DEF a

\* Two hours of a slot are as many hours apart as there are slots.
LEMMA Apart ==
  ASSUME NEW n \in Nat \ {0}, NEW a \in Nat, NEW b \in Nat, a % n = b % n, a < b
  PROVE  a + n <= b
<1>1. \A x \in Nat : x \div n \in Nat /\ x = n * (x \div n) + (x % n) /\ x % n \in 0 .. n - 1
  OBVIOUS
<1> DEFINE p == a \div n
           q == b \div n
           r == a % n
<1>2. p \in Nat /\ q \in Nat /\ r \in Nat /\ a = n * p + r /\ b = n * q + r
  BY <1>1
<1> HIDE DEF p, q, r
<1>3. n * p \in Nat /\ n * q \in Nat /\ n * p < n * q
  BY <1>2
<1>4. p < q
  <2> SUFFICES ASSUME ~(p < q) PROVE FALSE
    OBVIOUS
  <2>1. q * n <= p * n
    BY <1>2, TimesGrow
  <2> QED
    BY <1>2, <1>3, <2>1
<1>5. (p + 1) * n <= q * n
  BY <1>2, <1>4, TimesGrow
<1>6. (p + 1) * n = n * p + n /\ q * n = n * q
  BY <1>2
<1> QED
  BY <1>2, <1>3, <1>5, <1>6

\* The seconds of an hour in a span of time.
Seconds(id, from, to) == {t \in from .. to - 1 : HourOf(t) = id}

LEMMA SecondsAre ==
  ASSUME UnitsAssumption, NEW from \in Nat, NEW to \in Nat, from < to, NEW id \in Nat
  PROVE  /\ IsFiniteSet(Seconds(id, from, to))
         /\ id \in from \div Hour .. (to - 1) \div Hour <=> Seconds(id, from, to) # {}
         /\ Seconds(id, from, to) # {} =>
              Cardinality(Seconds(id, from, to)) = Err!Overlap(id, from, to)
<1> DEFINE a == id * Hour
           b == (id + 1) * Hour
           lo == IF from >= a THEN from ELSE a
           hi == IF to <= b THEN to ELSE b
           S == Seconds(id, from, to)
<1>1. a \in Nat /\ b \in Nat /\ a < b
  BY DEF UnitsAssumption
<1>2. \A t \in from .. to - 1 : (HourOf(t) = id) <=> (a <= t /\ t < b)
  <2> SUFFICES ASSUME NEW t \in from .. to - 1 PROVE (HourOf(t) = id) <=> (a <= t /\ t < b)
    OBVIOUS
  <2>1. t \in Nat
    OBVIOUS
  <2> QED
    BY <2>1, HourIs
<1>3. (HourOf(to - 1) < id) <=> (to - 1 < a)
  BY HourBelow
<1>4. (HourOf(from) < id + 1) <=> (from < b)
  BY HourBelow
<1>5. HourOf(from) \in Nat /\ HourOf(to - 1) \in Nat
  BY Hours
<1>6. Err!Overlap(id, from, to) = hi - lo
  BY DEF Err!Overlap, Err!EarlierOf, Err!LaterOf
<1> HIDE DEF a, b
<1>7. S = lo .. hi - 1
  BY <1>1, <1>2 DEF Seconds
<1>8. lo \in Nat /\ hi \in Nat
  BY <1>1
<1>9. IsFiniteSet(S) /\ (S # {} => Cardinality(S) = hi - lo)
  <2> HIDE DEF lo, hi, S
  <2>1. IsFiniteSet(S) /\ Cardinality(S) = IF lo > hi - 1 THEN 0 ELSE (hi - 1) - lo + 1
    BY <1>7, <1>8, FS_Interval
  <2>2. S # {} => ~(lo > hi - 1)
    BY <1>7, <1>8
  <2> QED
    BY <1>8, <2>1, <2>2
<1>10. (S # {}) <=> (lo <= hi - 1)
  <2> HIDE DEF lo, hi, S
  <2>1. lo <= hi - 1 => lo \in S
    BY <1>7, <1>8
  <2>2. \A t \in S : lo <= hi - 1
    BY <1>7, <1>8
  <2> QED
    BY <2>1, <2>2
<1>11. (lo <= hi - 1) <=> (a <= to - 1 /\ from < b)
  BY <1>1
<1>12. (S # {}) <=> (HourOf(from) <= id /\ id <= HourOf(to - 1))
  <2> HIDE DEF lo, hi, S
  <2>1. (HourOf(to - 1) < id) <=> ~(a <= to - 1)
    BY <1>1, <1>3
  <2>2. (HourOf(from) <= id) <=> (from < b)
    BY <1>4, <1>5
  <2>3. (id <= HourOf(to - 1)) <=> (a <= to - 1)
    BY <1>5, <2>1
  <2> QED
    BY <1>10, <1>11, <2>2, <2>3
<1>13. (S # {}) <=> (id \in from \div Hour .. (to - 1) \div Hour)
  <2> HIDE DEF S
  <2> QED
    BY <1>5, <1>12 DEF HourOf
<1> QED
  BY <1>6, <1>9, <1>13

LEMMA SecondsFinite ==
  ASSUME NEW id, NEW from \in Nat, NEW to \in Nat PROVE IsFiniteSet(Seconds(id, from, to))
<1>1. IsFiniteSet(from .. to - 1)
  BY FS_Interval
<1>2. Seconds(id, from, to) \in SUBSET (from .. to - 1)
  BY DEF Seconds
<1> QED
  BY <1>1, <1>2, FS_Subset

LEMMA GreatestIs ==
  ASSUME NEW a \in Nat, NEW b \in Nat, NEW S \in SUBSET (a .. b), S # {}
  PROVE  Err!Max(S) \in S /\ \A y \in S : Err!Max(S) >= y
<1> DEFINE Gaps == {b - x : x \in S}
<1>1. Gaps \in SUBSET Nat /\ Gaps # {}
  <2>1. \A x \in S : b - x \in Nat
    OBVIOUS
  <2> QED
    BY <2>1
<1>2. PICK d \in Gaps : \A e \in Gaps : d <= e
  <2> HIDE DEF Gaps
  <2> QED
    BY <1>1, LeastNumber
<1>3. PICK x \in S : d = b - x
  BY <1>2
<1>4. \A y \in S : x >= y
  <2> SUFFICES ASSUME NEW y \in S PROVE x >= y
    OBVIOUS
  <2>1. b - x <= b - y
    BY <1>2, <1>3
  <2> QED
    BY <2>1
<1> QED
  BY <1>4, Zenon DEF Err!Max

-----------------------------------------------------------------------------
(* The buckets of the price error. *)

\* A bucket holds the latest hour of its slot that has been sampled, and of that hour
\* what has been sampled; the samples go from..to, and q are their distances.
Holds(b, k, from, to, q) ==
  \/ b = Err!Unused /\ \A t \in from .. to - 1 : HourOf(t) % Slots # k
  \/ \E id \in Nat :
       /\ b = [live |-> TRUE, id |-> id, sum |-> Sum(q, Seconds(id, from, to)),
               dt |-> Cardinality(Seconds(id, from, to))]
       /\ id % Slots = k /\ Seconds(id, from, to) # {}
       /\ \A t \in from .. to - 1 : HourOf(t) % Slots = k => HourOf(t) <= id

ErrInv ==
  /\ err \in Nat /\ past \in [0 .. Horizon - 1 -> Nat]
  /\ buckets = [k \in 0 .. Slots - 1 |-> buckets[k]]
  /\ \/ last = Err!Never /\ \A k \in 0 .. Slots - 1 : buckets[k] = Err!Unused
     \/ /\ last \in Nat /\ first \in Nat /\ first <= last /\ last <= Horizon
        /\ \A k \in 0 .. Slots - 1 : Holds(buckets[k], k, first, last, past)

\* What a bucket of slot k becomes when the distance e held from mid to to (Spread).
After(b, k, mid, to, e) ==
  LET ids == {id \in mid \div Hour .. (to - 1) \div Hour : id % Slots = k}
      id == Err!Max(ids)
      old == IF b.live /\ b.id = id THEN b ELSE Err!Unused
  IN IF ids = {} THEN b
     ELSE [live |-> TRUE, id |-> id,
           sum |-> old.sum + e * Err!Overlap(id, mid, to),
           dt |-> old.dt + Err!Overlap(id, mid, to)]

LEMMA SlotSpread ==
  ASSUME UnitsAssumption, NEW from \in Nat, NEW mid \in Nat, NEW to \in Nat,
         from <= mid, mid < to, NEW e \in Nat, NEW p, NEW q,
         \A t \in from .. mid - 1 : p[t] \in Nat /\ q[t] = p[t],
         \A t \in mid .. to - 1 : q[t] = e,
         NEW k \in 0 .. Slots - 1, NEW b, Holds(b, k, from, mid, p)
  PROVE  Holds(After(b, k, mid, to, e), k, from, to, q)
<1> DEFINE lo == mid \div Hour
           hi == (to - 1) \div Hour
           ids == {id \in lo .. hi : id % Slots = k}
           id == Err!Max(ids)
           old == IF b.live /\ b.id = id THEN b ELSE Err!Unused
           new == IF ids = {} THEN b
                  ELSE [live |-> TRUE, id |-> id,
                        sum |-> old.sum + e * Err!Overlap(id, mid, to),
                        dt |-> old.dt + Err!Overlap(id, mid, to)]
<1> SUFFICES Holds(new, k, from, to, q)
  BY DEF After
<1>1. lo \in Nat /\ hi \in Nat /\ lo = HourOf(mid) /\ hi = HourOf(to - 1)
  <2>1. to - 1 \in Nat
    OBVIOUS
  <2>2. HourOf(mid) \in Nat /\ HourOf(to - 1) \in Nat
    BY <2>1, Hours
  <2> QED
    BY <2>2 DEF HourOf
<1>2. \A t \in from .. to - 1 : t \in Nat /\ HourOf(t) \in Nat
  BY Hours
<1>3. \A t \in from .. mid - 1 : t \in from .. to - 1 /\ HourOf(t) <= lo
  <2> SUFFICES ASSUME NEW t \in from .. mid - 1 PROVE t \in from .. to - 1 /\ HourOf(t) <= lo
    OBVIOUS
  <2>1. t \in Nat /\ t <= mid
    OBVIOUS
  <2> QED
    BY <2>1, <1>1, HourGrows
<1>4. \A t \in mid .. to - 1 : t \in from .. to - 1 /\ HourOf(t) \in lo .. hi
  <2> SUFFICES ASSUME NEW t \in mid .. to - 1 PROVE t \in from .. to - 1 /\ HourOf(t) \in lo .. hi
    OBVIOUS
  <2>1. t \in Nat /\ mid <= t /\ t <= to - 1 /\ to - 1 \in Nat
    OBVIOUS
  <2>2. HourOf(mid) <= HourOf(t) /\ HourOf(t) <= HourOf(to - 1)
    BY <2>1, HourGrows
  <2> QED
    BY <2>1, <2>2, <1>1, Hours
<1>5. \A t \in from .. to - 1 : t \in from .. mid - 1 \/ t \in mid .. to - 1
  OBVIOUS
\* The seconds of an hour, before and after mid.
<1>6. \A h : Seconds(h, from, to) = Seconds(h, from, mid) \cup Seconds(h, mid, to)
              /\ Seconds(h, from, mid) \cap Seconds(h, mid, to) = {}
  BY <1>3, <1>4, <1>5 DEF Seconds
<1> HIDE DEF lo, hi
<1>7. CASE ids = {}
  <2>0. new = b
    BY <1>7
  <2> HIDE DEF new, id, old
  <2>1. \A t \in mid .. to - 1 : HourOf(t) % Slots # k
    BY <1>4, <1>7
  <2>2. CASE b = Err!Unused /\ \A t \in from .. mid - 1 : HourOf(t) % Slots # k
    <3>1. \A t \in from .. to - 1 : HourOf(t) % Slots # k
      BY <2>1, <2>2, <1>5
    <3> QED
      BY <2>0, <2>2, <3>1 DEF Holds
  <2>3. ASSUME NEW i \in Nat,
               b = [live |-> TRUE, id |-> i, sum |-> Sum(p, Seconds(i, from, mid)),
                    dt |-> Cardinality(Seconds(i, from, mid))],
               i % Slots = k, Seconds(i, from, mid) # {},
               \A t \in from .. mid - 1 : HourOf(t) % Slots = k => HourOf(t) <= i
        PROVE  Holds(new, k, from, to, q)
    <3>1. Seconds(i, mid, to) = {}
      BY <2>1, <2>3 DEF Seconds
    <3>2. Seconds(i, from, to) = Seconds(i, from, mid)
      BY <3>1, <1>6
    <3>3. Sum(q, Seconds(i, from, mid)) = Sum(p, Seconds(i, from, mid))
      <4>1. IsFiniteSet(Seconds(i, from, mid))
        BY SecondsFinite
      <4>2. \A t \in Seconds(i, from, mid) : q[t] = p[t]
        BY DEF Seconds
      <4> QED
        BY <4>1, <4>2, SumSame
    <3>4. \A t \in from .. to - 1 : HourOf(t) % Slots = k => HourOf(t) <= i
      BY <2>1, <2>3, <1>5
    <3> QED
      BY <2>0, <2>3, <3>2, <3>3, <3>4 DEF Holds
  <2> HIDE DEF ids
  <2> QED
    BY <2>0, <2>2, <2>3 DEF Holds
<1>8. CASE ids # {}
  <2>1. id \in ids /\ \A i \in ids : id >= i
    BY <1>1, <1>8, GreatestIs
  <2> HIDE DEF id, new, old
  <2>2. id \in Nat /\ id \in lo .. hi /\ id % Slots = k /\ lo <= id
    BY <2>1, <1>1
  <2> DEFINE A == Seconds(id, from, mid)
             B == Seconds(id, mid, to)
  <2>3. B # {} /\ IsFiniteSet(B) /\ Cardinality(B) = Err!Overlap(id, mid, to)
    BY <2>2, SecondsAre DEF lo, hi
  <2>4. IsFiniteSet(A)
    BY SecondsFinite
  <2>5. \A t \in from .. to - 1 : HourOf(t) % Slots = k => HourOf(t) <= id
    <3> SUFFICES ASSUME NEW t \in from .. to - 1, HourOf(t) % Slots = k PROVE HourOf(t) <= id
      OBVIOUS
    <3>1. CASE t \in from .. mid - 1
      BY <3>1, <1>1, <1>2, <1>3, <2>2
    <3>2. CASE t \in mid .. to - 1
      BY <3>2, <1>2, <1>4, <2>1, <2>2
    <3> QED
      BY <1>5, <3>1, <3>2
  \* What the slot already has of this hour.
  <2>6. old.sum = Sum(p, A) /\ old.dt = Cardinality(A)
    <3>1. CASE b = Err!Unused /\ \A t \in from .. mid - 1 : HourOf(t) % Slots # k
      <4>1. A = {}
        BY <3>1, <2>2 DEF Seconds
      <4>2. old = Err!Unused
        BY <3>1 DEF Err!Unused, old
      <4> QED
        BY <4>1, <4>2, SumOfNone, FS_EmptySet DEF Err!Unused
    <3>2. ASSUME NEW i \in Nat,
                 b = [live |-> TRUE, id |-> i, sum |-> Sum(p, Seconds(i, from, mid)),
                      dt |-> Cardinality(Seconds(i, from, mid))],
                 i % Slots = k, Seconds(i, from, mid) # {},
                 \A t \in from .. mid - 1 : HourOf(t) % Slots = k => HourOf(t) <= i
          PROVE  old.sum = Sum(p, A) /\ old.dt = Cardinality(A)
      <4>1. CASE i = id
        BY <3>2, <4>1 DEF old
      <4>2. CASE i # id
        <5>1. old = Err!Unused
          BY <3>2, <4>2 DEF old
        <5>2. i <= lo
          <6> PICK t \in from .. mid - 1 : HourOf(t) = i
            BY <3>2 DEF Seconds
          <6> QED
            BY <1>3
        <5>3. A = {}
          <6> SUFFICES ASSUME NEW t \in A PROVE FALSE
            OBVIOUS
          <6>1. t \in from .. mid - 1 /\ HourOf(t) = id
            BY DEF Seconds
          <6>2. id <= i
            BY <6>1, <2>2, <3>2
          <6> QED
            BY <6>2, <5>2, <2>2, <1>1, <4>2
        <5> QED
          BY <5>1, <5>3, SumOfNone, FS_EmptySet DEF Err!Unused
      <4> QED
        BY <4>1, <4>2
    <3> QED
      BY <3>1, <3>2 DEF Holds
  <2>7. Seconds(id, from, to) = A \cup B /\ A \cap B = {}
    BY <1>6
  <2>8. /\ \A t \in A : q[t] = p[t] /\ p[t] \in Nat
        /\ \A t \in B : q[t] = e
    BY DEF Seconds
  <2> DEFINE o == Err!Overlap(id, mid, to)
  <2> HIDE DEF A, B, o
  <2>9. Sum(q, A) = Sum(p, A) /\ Sum(q, B) = e * o
    BY <2>3, <2>4, <2>8, SumSame, SumOfEqual DEF o
  <2>10. Sum(q, A \cup B) = Sum(q, A) + Sum(q, B)
    <3>1. \A t \in A \cup B : q[t] \in Nat
      BY <2>8
    <3> QED
      BY <2>3, <2>4, <2>7, <3>1, SumOfBoth
  <2>11. Cardinality(A \cup B) = Cardinality(A) + o
    <3>1. /\ Cardinality(A \cup B) = Cardinality(A) + Cardinality(B) - Cardinality(A \cap B)
          /\ Cardinality(A \cap B) = 0 /\ Cardinality(A) \in Nat /\ Cardinality(B) \in Nat
      BY <2>3, <2>4, <2>7, FS_Union, FS_EmptySet, FS_CardinalityType
    <3>2. Cardinality(B) = o
      BY <2>3 DEF o
    <3> QED
      BY <3>1, <3>2
  <2>12. new = [live |-> TRUE, id |-> id, sum |-> Sum(q, Seconds(id, from, to)),
                dt |-> Cardinality(Seconds(id, from, to))]
    BY <1>8, <2>6, <2>7, <2>9, <2>10, <2>11 DEF o, new
  <2>13. Seconds(id, from, to) # {}
    BY <2>3, <2>7
  <2> QED
    BY <2>2, <2>5, <2>12, <2>13 DEF Holds
<1> QED
  BY <1>7, <1>8

LEMMA ErrBegins == UnitsAssumption /\ Err!Init => ErrInv
<1> SUFFICES ASSUME UnitsAssumption, Err!Init PROVE ErrInv
  OBVIOUS
<1>1. /\ last = Err!Never /\ err = 0 /\ past = [t \in 0 .. Horizon - 1 |-> 0]
      /\ buckets = [k \in 0 .. Slots - 1 |-> Err!Unused]
  BY DEF Err!Init, Err!NumBuckets, Slots
<1> QED
  BY <1>1 DEF ErrInv

LEMMA ErrSampled ==
  ASSUME UnitsAssumption, ErrInv, NEW ts \in 0 .. Horizon, NEW e \in Nat,
         last = Err!Never \/ ts > last, Err!Sample(ts, e)
  PROVE  ErrInv'
<1>1. /\ first' = IF last = Err!Never THEN ts ELSE first
      /\ err' = e /\ last' = ts /\ ts \in Nat /\ ts <= Horizon /\ Horizon \in Nat
      /\ Slots \in Nat
  BY DEF Err!Sample, UnitsAssumption, Slots
<1>2. CASE last = Err!Never
  <2>1. UNCHANGED <<buckets, past>> /\ first' = ts
    BY <1>1, <1>2 DEF Err!Sample
  <2>2. \A k \in 0 .. Slots - 1 : buckets[k] = Err!Unused
    BY <1>2 DEF ErrInv, Err!Never
  <2>3. \A k : \A t \in ts .. ts - 1 : HourOf(t) % Slots # k
    BY <1>1
  <2>4. \A k \in 0 .. Slots - 1 : Holds(buckets'[k], k, first', last', past')
    BY <2>1, <2>2, <2>3, <1>1 DEF Holds
  <2> QED
    BY <1>1, <2>1, <2>4 DEF ErrInv
<1>3. CASE last # Err!Never
  <2>1. /\ last \in Nat /\ first \in Nat /\ first <= last /\ last < ts
        /\ \A k \in 0 .. Slots - 1 : Holds(buckets[k], k, first, last, past)
    BY <1>3 DEF ErrInv
  <2>2. /\ buckets' = Err!Spread(last, ts) /\ first' = first
        /\ past' = [t \in DOMAIN past |-> IF last <= t /\ t < ts THEN err ELSE past[t]]
    BY <1>1, <1>3, <2>1 DEF Err!Sample
  <2>3. past \in [0 .. Horizon - 1 -> Nat] /\ err \in Nat /\ DOMAIN buckets = 0 .. Slots - 1
    BY DEF ErrInv
  <2>4. past' \in [0 .. Horizon - 1 -> Nat]
    BY <2>2, <2>3
  <2>5. \A t \in first .. last - 1 : past[t] \in Nat /\ past'[t] = past[t]
    <3> SUFFICES ASSUME NEW t \in first .. last - 1 PROVE past[t] \in Nat /\ past'[t] = past[t]
      OBVIOUS
    <3>1. t \in 0 .. Horizon - 1 /\ ~(last <= t)
      BY <1>1, <2>1
    <3> QED
      BY <3>1, <2>2, <2>3
  <2>6. \A t \in last .. ts - 1 : past'[t] = err
    <3> SUFFICES ASSUME NEW t \in last .. ts - 1 PROVE past'[t] = err
      OBVIOUS
    <3>1. t \in 0 .. Horizon - 1 /\ last <= t /\ t < ts
      BY <1>1, <2>1
    <3> QED
      BY <3>1, <2>2, <2>3
  <2>7. ASSUME NEW k \in 0 .. Slots - 1 PROVE Holds(buckets'[k], k, first', last', past')
    <3> DEFINE q == past'
               b == buckets[k]
               new == After(b, k, last, ts, err)
    <3>1. buckets'[k] = new
      BY <2>2, <2>3 DEF Err!Spread, Err!NumBuckets, Slots, After
    <3> HIDE DEF q
    <3>2. Holds(b, k, first, last, past)
      BY <2>1
    <3>3. /\ \A t \in first .. last - 1 : past[t] \in Nat /\ q[t] = past[t]
          /\ \A t \in last .. ts - 1 : q[t] = err
      BY <2>5, <2>6 DEF q
    <3> HIDE DEF b
    <3>4. Holds(new, k, first, ts, q)
      <4>1. first \in Nat /\ last \in Nat /\ ts \in Nat /\ first <= last /\ last < ts /\ err \in Nat
        BY <1>1, <2>1, <2>3
      <4> QED
        BY <4>1, <3>2, <3>3, SlotSpread
    <3> HIDE DEF new
    <3> QED
      BY <1>1, <2>2, <3>1, <3>4 DEF q
  <2>8. buckets' = [k \in 0 .. Slots - 1 |-> buckets'[k]]
    <3> DEFINE B(k) == After(buckets[k], k, last, ts, err)
    <3>1. buckets' = [k \in DOMAIN buckets |-> B(k)]
      BY <2>2, Zenon DEF Err!Spread, Err!NumBuckets, Slots, After
    <3> HIDE DEF B
    <3> QED
      BY <2>3, <3>1
  <2> QED
    BY <1>1, <2>1, <2>2, <2>4, <2>7, <2>8 DEF ErrInv
<1> QED
  BY <1>2, <1>3

\* The live buckets that reach into the window are those of its hours, one for each.
LEMMA WindowSums == ASSUME UnitsAssumption, ErrInv PROVE Err!WindowSumsExact
<1> DEFINE lo == Err!LaterOf(last - Err!WindowS, 0)
           L == lo \div Hour
           hour == L * Hour
           from == Err!LaterOf(first, hour)
           T == from .. last - 1
           K == Err!InWindow(buckets, last)
           h == [t \in T |-> HourOf(t) % Slots]
           sums == [k \in DOMAIN buckets |-> buckets[k].sum]
           dts == [k \in DOMAIN buckets |-> buckets[k].dt]
           ones == [t \in T |-> 1]
<1> SUFFICES ASSUME last # Err!Never
             PROVE  Sum(sums, K) = Sum(past, T) /\ Sum(dts, K) = last - from
  BY DEF Err!WindowSumsExact, Err!WindowOf, Sum
<1>1. /\ last \in Nat /\ first \in Nat /\ first <= last /\ last <= Horizon /\ Horizon \in Nat
      /\ \A k \in 0 .. Slots - 1 : Holds(buckets[k], k, first, last, past)
      /\ DOMAIN buckets = 0 .. Slots - 1 /\ past \in [0 .. Horizon - 1 -> Nat]
      /\ Hour \in Nat \ {0} /\ ErrHours \in Nat \ {0} /\ Slots \in Nat \ {0}
  BY DEF ErrInv, UnitsAssumption, Slots
<1> DEFINE W == ErrHours * Hour
<1>2. W \in Nat /\ lo \in Nat /\ lo <= last /\ last <= lo + W
  <2>1. W \in Nat
    BY <1>1
  <2>2. lo = IF last - W >= 0 THEN last - W ELSE 0
    BY DEF Err!LaterOf, Err!WindowS
  <2> HIDE DEF lo, W
  <2> QED
    BY <2>1, <2>2, <1>1
<1>3. L = HourOf(lo) /\ L \in Nat /\ hour <= lo /\ lo < hour + Hour /\ hour \in Nat
  <2>1. L = HourOf(lo)
    BY DEF HourOf
  <2> HIDE DEF lo
  <2>2. HourOf(lo) \in Nat /\ HourOf(lo) * Hour <= lo /\ lo < HourOf(lo) * Hour + Hour
    BY <1>2, Hours
  <2> HIDE DEF L
  <2> QED
    BY <2>1, <2>2, <1>1
<1>4. from = IF first >= hour THEN first ELSE hour
  BY DEF Err!LaterOf
<1> HIDE DEF lo, L, from
<1>5. from \in Nat /\ first <= from /\ hour <= from /\ from <= last
  <2> HIDE DEF hour
  <2> QED
    BY <1>1, <1>2, <1>3, <1>4
<1>6. \A t \in first .. last - 1 : t \in Nat /\ (t \in T <=> HourOf(t) >= L) /\ HourOf(t) < L + Slots
  <2> SUFFICES ASSUME NEW t \in first .. last - 1
               PROVE  t \in Nat /\ (t \in T <=> HourOf(t) >= L) /\ HourOf(t) < L + Slots
    OBVIOUS
  <2>0. t \in Nat
    BY <1>1
  <2>1. t \in Nat /\ HourOf(t) \in Nat
    BY <2>0, Hours
  <2>2. (HourOf(t) < L) <=> (t < hour)
    BY <2>1, <1>3, HourBelow
  <2>3. t \in T <=> ~(t < hour)
    <3> HIDE DEF hour
    <3> QED
      BY <2>1, <1>1, <1>3, <1>4, <1>5
  <2> DEFINE m == L + 1 + ErrHours
  <2>4. m \in Nat /\ ((HourOf(t) < m) <=> (t < m * Hour)) /\ m <= L + Slots
    <3>0. L \in Nat /\ ErrHours \in Nat
      BY <1>1, <1>3
    <3>1. m \in Nat /\ m <= L + Slots
      BY <3>0 DEF Slots
    <3> HIDE DEF m
    <3> QED
      BY <2>1, <3>1, HourBelow
  <2>5. m * Hour = hour + Hour + W
    <3>1. \A a, b, c \in Nat : (a + 1 + b) * c = a * c + c + b * c
      OBVIOUS
    <3>2. L \in Nat /\ ErrHours \in Nat /\ Hour \in Nat
      BY <1>1, <1>3
    <3>3. (L + 1 + ErrHours) * Hour = L * Hour + Hour + ErrHours * Hour
      BY <3>1, <3>2
    <3> QED
      BY <3>3
  <2> HIDE DEF m, hour, W
  <2>6. t < m * Hour
    BY <2>1, <2>5, <1>1, <1>2, <1>3
  <2> QED
    BY <2>1, <2>2, <2>3, <2>4, <2>6, <1>1, <1>3
<1>7. ASSUME NEW k \in 0 .. Slots - 1, NEW i \in Nat,
             buckets[k] = [live |-> TRUE, id |-> i, sum |-> Sum(past, Seconds(i, first, last)),
                           dt |-> Cardinality(Seconds(i, first, last))],
             i % Slots = k, Seconds(i, first, last) # {},
             \A t \in first .. last - 1 : HourOf(t) % Slots = k => HourOf(t) <= i
      PROVE  /\ k \in K <=> i >= L
             /\ k \in K => {t \in T : h[t] = k} = Seconds(i, first, last)
  <2>1. PICK u \in first .. last - 1 : HourOf(u) = i
    BY <1>7 DEF Seconds
  <2>2. i * Hour < last /\ i < L + Slots
    <3>1. i * Hour <= u /\ u < last /\ u \in Nat
      BY <2>1, <1>1, <1>6, Hours
    <3>2. i * Hour \in Nat
      BY <1>1, <1>7
    <3> DEFINE a == i * Hour
    <3> HIDE DEF a
    <3>3. a < last
      BY <3>1, <3>2, <1>1 DEF a
    <3> QED
      BY <3>3, <2>1, <1>6 DEF a
  <2>3. (lo < (i + 1) * Hour) <=> (L < i + 1)
    <3>1. i + 1 \in Nat
      OBVIOUS
    <3> QED
      BY <3>1, <1>2, <1>3, HourBelow
  <2>4. k \in K <=> i >= L
    <3>1. k \in K <=> ((i + 1) * Hour > lo /\ i * Hour < last)
      <4>1. buckets[k].live /\ buckets[k].id = i
        BY <1>7
      <4>2. k \in DOMAIN buckets
        BY <1>1
      <4> QED
        BY <4>1, <4>2, Zenon DEF Err!InWindow, lo
    <3>2. ((i + 1) * Hour > lo) <=> (lo < (i + 1) * Hour)
      <4>1. (i + 1) * Hour \in Nat
        BY <1>1
      <4> DEFINE a == (i + 1) * Hour
      <4> HIDE DEF a
      <4> QED
        BY <4>1, <1>2 DEF a
    <3>3. (L < i + 1) <=> i >= L
      BY <1>3
    <3> HIDE DEF K
    <3> QED
      BY <3>1, <3>2, <3>3, <2>2, <2>3, Zenon
  <2>5. ASSUME i >= L PROVE {t \in T : h[t] = k} = Seconds(i, first, last)
    <3>1. ASSUME NEW t \in T, h[t] = k PROVE t \in Seconds(i, first, last)
      <4>1. t \in first .. last - 1 /\ HourOf(t) % Slots = k
        BY <3>1, <1>1, <1>5
      <4>2. HourOf(t) \in Nat /\ HourOf(t) <= i /\ HourOf(t) >= L
        BY <4>1, <1>6, <1>7, <3>1, Hours
      <4>3. ~(HourOf(t) < i)
        <5> SUFFICES ASSUME HourOf(t) < i PROVE FALSE
          OBVIOUS
        <5> DEFINE r == HourOf(t)
        <5>1. r \in Nat /\ r % Slots = i % Slots /\ r < i /\ r >= L
          BY <4>1, <4>2, <1>7
        <5> HIDE DEF r
        <5>2. r + Slots <= i
          BY <5>1, <1>1, Apart
        <5> QED
          BY <5>1, <5>2, <2>2, <1>1, <1>3
      <4>4. HourOf(t) = i
        BY <4>2, <4>3
      <4> QED
        BY <4>1, <4>4 DEF Seconds
    <3>2. ASSUME NEW t \in Seconds(i, first, last) PROVE t \in T /\ h[t] = k
      <4>1. t \in first .. last - 1 /\ HourOf(t) = i
        BY DEF Seconds
      <4>2. t \in T
        BY <4>1, <2>5, <1>6
      <4> QED
        BY <4>1, <4>2, <1>7
    <3> HIDE DEF T, h
    <3> QED
      BY <3>1, <3>2
  <2> HIDE DEF K, T, h
  <2> QED
    BY <2>4, <2>5
\* Every second of the window is in a live bucket of it.
<1>8. ASSUME NEW t \in T PROVE h[t] \in K
  <2> DEFINE k == HourOf(t) % Slots
  <2>1. t \in first .. last - 1 /\ h[t] = k
    BY <1>1, <1>5
  <2>2. HourOf(t) \in Nat /\ HourOf(t) >= L
    BY <2>1, <1>6, <1>8, Hours
  <2>3. k \in 0 .. Slots - 1
    BY <2>2, <1>1
  <2>4. Holds(buckets[k], k, first, last, past)
    BY <2>3, <1>1
  <2> DEFINE kk == k
  <2>5. kk = HourOf(t) % Slots
    OBVIOUS
  <2> HIDE DEF k, K, T, h
  <2>6. PICK i \in Nat :
          /\ buckets[k] = [live |-> TRUE, id |-> i, sum |-> Sum(past, Seconds(i, first, last)),
                           dt |-> Cardinality(Seconds(i, first, last))]
          /\ i % Slots = k /\ Seconds(i, first, last) # {}
          /\ \A u \in first .. last - 1 : HourOf(u) % Slots = k => HourOf(u) <= i
    BY <2>1, <2>4, <2>5 DEF Holds
  <2>7. i >= L
    BY <2>1, <2>2, <2>5, <2>6, <1>3
  <2> QED
    BY <2>1, <2>3, <2>6, <2>7, <1>7
<1>9. ASSUME NEW k \in K
      PROVE  /\ sums[k] = Sum(past, {t \in T : h[t] = k})
             /\ dts[k] = Cardinality({t \in T : h[t] = k})
  <2>1. k \in 0 .. Slots - 1 /\ buckets[k].live
    BY <1>1, <1>9 DEF Err!InWindow
  <2>2. Holds(buckets[k], k, first, last, past) /\ buckets[k] # Err!Unused
    BY <2>1, <1>1 DEF Err!Unused
  <2> HIDE DEF K, T, h
  <2>3. PICK i \in Nat :
          /\ buckets[k] = [live |-> TRUE, id |-> i, sum |-> Sum(past, Seconds(i, first, last)),
                           dt |-> Cardinality(Seconds(i, first, last))]
          /\ i % Slots = k /\ Seconds(i, first, last) # {}
          /\ \A u \in first .. last - 1 : HourOf(u) % Slots = k => HourOf(u) <= i
    BY <2>2 DEF Holds
  <2>4. {t \in T : h[t] = k} = Seconds(i, first, last)
    BY <2>1, <2>3, <1>7, <1>9
  <2>5. buckets[k].sum = Sum(past, Seconds(i, first, last)) /\ buckets[k].dt = Cardinality(Seconds(i, first, last))
    BY <2>3
  <2>6. sums[k] = buckets[k].sum /\ dts[k] = buckets[k].dt
    BY <2>1, <1>1
  <2> HIDE DEF sums, dts
  <2> QED
    BY <2>4, <2>5, <2>6
<1>10. IsFiniteSet(K) /\ IsFiniteSet(T) /\ Cardinality(T) = last - from
  <2>1. IsFiniteSet(0 .. Slots - 1) /\ K \in SUBSET (0 .. Slots - 1)
    BY <1>1, FS_Interval DEF Err!InWindow
  <2>2. IsFiniteSet(K)
    BY <2>1, FS_Subset
  <2>0. from \in Int /\ last - 1 \in Int
    BY <1>1, <1>5
  <2>3. IsFiniteSet(T) /\ Cardinality(T) = IF from > last - 1 THEN 0 ELSE (last - 1) - from + 1
    BY <2>0, FS_Interval
  <2> HIDE DEF T, K
  <2> QED
    BY <2>2, <2>3, <1>1, <1>5
<1>11. \A t \in T : past[t] \in Nat /\ ones[t] = 1
  <2>1. \A t \in T : t \in 0 .. Horizon - 1
    BY <1>1, <1>5
  <2> QED
    BY <2>1, <1>1
<1> HIDE DEF K, T, h, sums, dts, ones
<1>12. Sum(sums, K) = Sum(past, T)
  <2>1. \A k \in K : sums[k] = Sum(past, {t \in T : h[t] = k})
    BY <1>9
  <2>2. \A t \in T : past[t] \in Nat /\ h[t] \in K
    BY <1>8, <1>11
  <2>3. IsFiniteSet(K) /\ IsFiniteSet(T)
    BY <1>10
  <2> QED
    BY <2>1, <2>2, <2>3, SumOfGroups, SMTT(30)
<1>13. Sum(dts, K) = Sum(ones, T)
  <2>1. \A k \in K : dts[k] = Sum(ones, {t \in T : h[t] = k})
    <3> SUFFICES ASSUME NEW k \in K PROVE dts[k] = Sum(ones, {t \in T : h[t] = k})
      OBVIOUS
    <3> DEFINE S == {t \in T : h[t] = k}
    <3>1. IsFiniteSet(S) /\ \A t \in S : ones[t] = 1
      BY <1>10, <1>11, FS_Subset
    <3>2. dts[k] = Cardinality(S) /\ Cardinality(S) \in Nat
      BY <1>9, <3>1, FS_CardinalityType
    <3> HIDE DEF S
    <3>3. Sum(ones, S) = 1 * Cardinality(S)
      BY <3>1, SumOfEqual
    <3>4. dts[k] = Sum(ones, S)
      BY <3>2, <3>3
    <3> QED
      BY <3>4 DEF S
  <2>2. \A t \in T : ones[t] \in Nat /\ h[t] \in K
    BY <1>8, <1>11
  <2>3. IsFiniteSet(K) /\ IsFiniteSet(T)
    BY <1>10
  <2> QED
    BY <2>1, <2>2, <2>3, SumOfGroups, SMTT(30)
<1>14. Sum(ones, T) = last - from
  <2>1. Sum(ones, T) = 1 * Cardinality(T)
    BY <1>10, <1>11, SumOfEqual
  <2> QED
    BY <2>1, <1>1, <1>5, <1>10
<1> QED
  BY <1>12, <1>13, <1>14

-----------------------------------------------------------------------------
(* The events of a run. *)

MetricInv == now \in Int /\ now >= -1 /\ ErrInv /\ GeoInv /\ RingInv

LEMMA MetricInvariance == Spec => []MetricInv
<1>1. Init => MetricInv
  BY UnitsAssumption, ErrBegins, GeoInit, RingInit DEF Init, MetricInv
<1>2. MetricInv /\ [Next]_vars => MetricInv'
  <2> SUFFICES ASSUME MetricInv, [Next]_vars PROVE MetricInv'
    OBVIOUS
  <2>e. UNCHANGED errVars => ErrInv'
    BY DEF errVars, MetricInv, ErrInv
  <2>1. CASE UNCHANGED vars
    <3>1. UNCHANGED <<now, errVars, geoVars, robustVars>>
      BY <2>1 DEF vars
    <3>2. GeoInv' /\ RingInv'
      BY <3>1 DEF geoVars, robustVars, MetricInv, GeoInv, Increasing, GeoWindowsExact,
                  Geo!WindowsExact, RingInv, RingQueue
    <3> QED
      BY <2>e, <3>1, <3>2 DEF MetricInv
  <2>2. CASE Next
    <3>1. PICK ts \in now + 1 .. Horizon, e \in Errors, ok \in BOOLEAN : Event(ts, e, ok)
      BY <2>2 DEF Next
    <3>2. ts \in 0 .. Horizon /\ ts \in Nat /\ now' = ts
      BY <3>1, UnitsAssumption DEF Event, MetricInv, UnitsAssumption
    <3>3. Geo!Sample(ts, ok) /\ Robust!Sample(ts, ok)
      BY <3>1 DEF Event, SampleNetApy
    <3>4. GeoInv'
      <4>1. CASE ok /\ Geo!Due(ts)
        BY <3>2, <3>3, <4>1, UnitsAssumption, GeoSampled DEF MetricInv, Geo!Sample
      <4>2. CASE ~(ok /\ Geo!Due(ts))
        <5>1. UNCHANGED geoVars
          BY <3>3, <4>2 DEF Geo!Sample, Geo!wvars, geoVars
        <5> QED
          BY <5>1 DEF geoVars, MetricInv, GeoInv, Increasing, GeoWindowsExact, Geo!WindowsExact
      <4> QED
        BY <4>1, <4>2
    <3>5. RingInv'
      <4>1. CASE ok /\ Robust!Due(ts)
        BY <3>2, <3>3, <4>1, UnitsAssumption, RingSampled DEF MetricInv
      <4>2. CASE ~(ok /\ Robust!Due(ts))
        BY <3>3, <4>2 DEF MetricInv, Robust!Sample, Robust!rvars, RingInv, RingQueue
      <4> QED
        BY <4>1, <4>2
    <3>6. ErrInv'
      <4>1. CASE last = Err!Never \/ ts >= last + Hour
        <5>1. Err!Sample(ts, e) /\ e \in Nat
          BY <3>1, <4>1, UnitsAssumption DEF Event, SamplePreTrade, UnitsAssumption
        <5>2. last = Err!Never \/ ts > last
          <6>1. last = Err!Never \/ last \in Nat
            BY DEF MetricInv, ErrInv
          <6> QED
            BY <3>2, <4>1, <6>1, UnitsAssumption DEF UnitsAssumption
        <5> QED
          BY <3>2, <5>1, <5>2, UnitsAssumption, ErrSampled DEF MetricInv
      <4>2. CASE ~(last = Err!Never \/ ts >= last + Hour)
        BY <3>1, <4>2, <2>e DEF Event, SamplePreTrade
      <4> QED
        BY <4>1, <4>2
    <3> QED
      BY <3>2, <3>4, <3>5, <3>6 DEF MetricInv
  <2> QED
    BY <2>1, <2>2
<1> QED
  BY <1>1, <1>2, PTL DEF Spec

\* Whatever gaps the samples leave and however often a bucket is reused, the buckets of
\* the window add up to the distances of every second since the hour in which it begins
\* (sample_7d_price_error, metrics.hpp): a slot holds the latest of its hours (ErrInv),
\* and hours of one slot are further apart than the window is long.
THEOREM PriceErrorIsExact == Spec => []PriceErrorExact
<1>1. MetricInv => PriceErrorExact
  BY UnitsAssumption, WindowSums DEF MetricInv, PriceErrorExact
<1> QED
  BY <1>1, MetricInvariance, PTL

\* Every window of the geometric mean is measured from the latest of all samples ever
\* taken that is a window old, though only some are kept (RollingGeoApyWindow::sample,
\* metrics.hpp).
THEOREM GeoWindowsAreExact == Spec => []GeoWindowsExact
<1>1. MetricInv => GeoWindowsExact
  BY DEF MetricInv, GeoInv
<1> QED
  BY <1>1, MetricInvariance, PTL

\* The ring of WINDOW_S / SAMPLE_S + 2 slots is the unbounded queue of RollingWindow: it
\* never overwrites a sample that is or may become the start of a window
\* (NetApyRobust90d::sample, metrics.hpp).
THEOREM RingIsTheQueue == Spec => RingImplementsQueue
<1>1. Init => Robust!Queue!Init
  <2> SUFFICES ASSUME Init PROVE Robust!Queue!Init
    OBVIOUS
  <2>1. RingQueue = <<>>
    BY UnitsAssumption, RingInit DEF Init
  <2> QED
    BY <2>1 DEF Init, Robust!Init, Robust!Queue!Init, RingQueue, RingOf, Robust!Capacity
<1>2. MetricInv /\ [Next]_vars => [Robust!Queue!Next]_Robust!Queue!wvars
  <2> SUFFICES ASSUME MetricInv, [Next]_vars
               PROVE  [Robust!Queue!Next]_Robust!Queue!wvars
    OBVIOUS
  <2>1. CASE UNCHANGED vars
    BY <2>1 DEF vars, robustVars, Robust!Queue!wvars
  <2>2. CASE Next
    <3>1. PICK ts \in now + 1 .. Horizon, e \in Errors, ok \in BOOLEAN : Event(ts, e, ok)
      BY <2>2 DEF Next
    <3>2. ts \in 0 .. Horizon
      BY <3>1, UnitsAssumption DEF MetricInv, UnitsAssumption
    <3>3. Robust!Sample(ts, ok)
      BY <3>1 DEF Event, SampleNetApy
    <3>4. CASE ok /\ Robust!Due(ts)
      <4>1. Robust!Queue!Sample(ts, TRUE)
        BY <3>2, <3>3, <3>4, UnitsAssumption, RingSampled DEF MetricInv
      <4> QED
        BY <3>2, <4>1 DEF Robust!Queue!Next
    <3>5. CASE ~(ok /\ Robust!Due(ts))
      BY <3>3, <3>5 DEF Robust!Sample, Robust!rvars, Robust!Queue!wvars
    <3> QED
      BY <3>4, <3>5
  <2> QED
    BY <2>1, <2>2
<1>3. Spec => Robust!Queue!Spec
  BY <1>1, <1>2, MetricInvariance, PTL DEF Spec, Robust!Queue!Spec
<1> QED
  BY <1>3 DEF RingImplementsQueue, Robust!RingImplementsQueue
=============================================================================
