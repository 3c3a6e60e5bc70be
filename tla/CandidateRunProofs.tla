-------------------------- MODULE CandidateRunProofs --------------------------
(***************************************************************************)
(* Proofs about CandidateRun, for any files, ranges, grids and batches.    *)
(* The market comes first (MarketTape): the order of events and reports,   *)
(* what the cursor attaches, and the bins of the candle tape.  Once it is  *)
(* loaded it stays, and the windows of reports and the starts of the runs  *)
(* are read off it.                                                        *)
(***************************************************************************)
EXTENDS CandidateRun, FiniteSetTheorems, WellFoundedInduction, TLAPS

Stages == {"open", "rows", "feed", "bins", "blocks", "attach", "index", "loaded", "failed"}
Candle == [ts : Nat, close : Nat \ {0}]
Report == [ts : Nat, price : Nat, ok : BOOLEAN]
MarketEvent == [ts : Nat, price : Nat, feed : Nat, feedTs : Nat]

TapeTypeOK ==
  /\ req \in Requests /\ stage \in Stages /\ next \in Nat
  /\ kept \in Seq(Candle) /\ mark \in Nat
  /\ events \in Seq(MarketEvent) /\ reports \in Seq(Report) /\ cursor \in Nat

\* What is there at each stage of a load.
TapeFlow ==
  /\ stage \in {"open", "rows", "feed"} =>
       events = << >> /\ reports = << >> /\ mark = NoTrade
  /\ stage = "rows" => next \in Nat \ {0}
  /\ stage = "bins" => req.mode # "block"
  /\ stage = "blocks" => req.mode = "block"
  /\ stage = "attach" =>
       req.mode # "block" /\ cursor \in 1 .. Len(reports) /\ next \in 1 .. Len(events) + 1
  /\ stage \in {"feed", "bins", "attach", "index", "loaded"} /\ req.mode # "block" =>
       kept # << >> /\ OneRegularClock

\* Everything is dropped when a load or a session is refused.
Emptied ==
  /\ stage' = "failed" /\ next' = 1 /\ kept' = << >> /\ mark' = NoTrade /\ events' = << >>
  /\ reports' = << >> /\ cursor' = 1 /\ upper' = << >> /\ req' = req

\* What the whole pipeline may do to the market.
TapeStep ==
  \/ Open \/ ReadRow \/ MakeTape \/ ReadFeed \/ GenBin \/ GenBlock \/ EndEvents
  \/ Advance \/ AttachPrice \/ EndAttach \/ IndexReports \/ Emptied

-----------------------------------------------------------------------------
(* Sequences and sets of numbers. *)

LEMMA Element == ASSUME NEW S, NEW s \in Seq(S), NEW i \in DOMAIN s PROVE s[i] \in S
OBVIOUS

LEMMA Pushed ==
  ASSUME NEW S, NEW s \in Seq(S), NEW e \in S
  PROVE  /\ Append(s, e) \in Seq(S) /\ Len(Append(s, e)) = Len(s) + 1
         /\ DOMAIN Append(s, e) = 1 .. Len(s) + 1 /\ Append(s, e)[Len(s) + 1] = e
         /\ \A i \in 1 .. Len(s) : Append(s, e)[i] = s[i]
OBVIOUS

\* A set of numbers has a least one.
LEMMA LeastNumber ==
  ASSUME NEW S \in SUBSET Nat, S # {}
  PROVE  \E m \in S : \A n \in S : m <= n
<1> DEFINE Less == {ss \in Nat \X Nat : ss[1] < ss[2]}
<1>1. IsWellFoundedOn(Less, Nat)
  BY NatLessThanWellFounded, Zenon DEF OpToRel
<1> HIDE DEF Less
<1>2. PICK m \in S : \A n \in S : ~(<<n, m>> \in Less)
  BY <1>1, WFMin, Zenon
<1>3. ASSUME NEW n \in S PROVE m <= n
  <2>1. <<n, m>> \in Less <=> n < m
    BY DEF Less
  <2> QED
    BY <1>2, <2>1
<1> QED
  BY <1>3

-----------------------------------------------------------------------------
(* The steps of the market, and its types. *)

LEMMA TapeSteps == [Next]_vars => [TapeStep]_tapeVars
<1> SUFFICES ASSUME [Next]_vars PROVE [TapeStep]_tapeVars
  OBVIOUS
<1>1. CASE UNCHANGED vars
  BY <1>1 DEF vars
<1>2. CASE Load
  BY <1>2 DEF Load, TapeNext, TapeStep, Refuse, Emptied
<1>3. CASE RefuseSession
  BY <1>3 DEF RefuseSession, TapeStep, Emptied
<1>4. CASE OpenSession \/ RegisterGrid \/ EvaluateBatch \/ MaterializeNext \/ RunPool
             \/ FailCandidate \/ EndBatch
  BY <1>4 DEF OpenSession, RegisterGrid, EvaluateBatch, MaterializeNext, RunPool, FailCandidate,
              EndBatch
<1> QED
  BY <1>1, <1>2, <1>3, <1>4 DEF Next

-----------------------------------------------------------------------------
(* The clock of the candles. *)

\* A list of numbers has a greatest one.
LEMMA GreatestOf ==
  ASSUME NEW f, NEW n \in Nat \ {0}, \A i \in 1 .. n : f[i] \in Nat
  PROVE  \E j \in 1 .. n : \A i \in 1 .. n : f[i] <= f[j]
<1> DEFINE Tops(m) == {j \in 1 .. m : \A i \in 1 .. m : f[i] <= f[j]}
           Flat == {m \in 1 .. n : Tops(m) = {}}
<1>1. ASSUME Flat # {} PROVE FALSE
  <2>1. Flat \subseteq Nat
    OBVIOUS
  <2>2. PICK m \in Flat : \A k \in Flat : m <= k
    <3> HIDE DEF Flat
    <3> QED
      BY <1>1, <2>1, LeastNumber, Zenon
  <2>3. CASE m = 1
    <3>1. 1 \in Tops(m)
      BY <2>3
    <3> QED
      BY <3>1, <2>2
  <2>4. CASE m # 1
    <3>1. m - 1 \in 1 .. n /\ m - 1 \notin Flat
      BY <2>2, <2>4
    <3>2. PICK j \in 1 .. m - 1 : \A i \in 1 .. m - 1 : f[i] <= f[j]
      BY <3>1
    <3>3. f[m] \in Nat /\ f[j] \in Nat /\ m \in 1 .. n
      BY <3>1, <2>2
    <3>4. CASE f[m] <= f[j]
      <4>1. j \in Tops(m)
        BY <3>1, <3>2, <3>3, <3>4
      <4> QED
        BY <4>1, <2>2
    <3>5. CASE f[m] > f[j]
      <4>1. m \in Tops(m)
        BY <3>1, <3>2, <3>3, <3>5
      <4> QED
        BY <4>1, <2>2
    <3> QED
      BY <3>3, <3>4, <3>5
  <2> QED
    BY <2>3, <2>4
<1> QED
  BY <1>1

\* Candles on a clock have a first, a last, a step and a number of bins.
LEMMA ClockFacts ==
  ASSUME kept \in Seq(Candle), kept # << >>
  PROVE  /\ T0 \in Stamps /\ \A u \in Stamps : T0 <= u
         /\ TEnd \in Stamps /\ \A u \in Stamps : u <= TEnd
         /\ Stamps \subseteq Nat /\ BinS \in Nat \ {0} /\ Bins \in Nat \ {0}
<1>0. /\ Len(kept) \in Nat \ {0} /\ DOMAIN kept = 1 .. Len(kept)
      /\ \A i \in 1 .. Len(kept) : kept[i] \in [ts : Nat, close : Nat \ {0}]
  <2>2. Len(kept) \in Nat /\ DOMAIN kept = 1 .. Len(kept) /\ \A i \in 1 .. Len(kept) : kept[i] \in Candle
    OBVIOUS
  <2>3. Len(kept) # 0
    OBVIOUS
  <2> QED
    BY <2>2, <2>3 DEF Candle
<1>00. \A i \in 1 .. Len(kept) : kept[i].ts \in Nat
  BY <1>0
<1>1. Stamps \subseteq Nat /\ Stamps # {}
  BY <1>0, <1>00 DEF Stamps
<1>2. T0 \in Stamps /\ \A u \in Stamps : T0 <= u
  <2>1. \E t \in Stamps : \A u \in Stamps : t <= u
    BY <1>1, LeastNumber, Zenon
  <2> QED
    BY <2>1, Zenon DEF T0
<1>3. TEnd \in Stamps /\ \A u \in Stamps : TEnd >= u
  <2> DEFINE f == [i \in DOMAIN kept |-> kept[i].ts]
  <2>1. \A i \in 1 .. Len(kept) : f[i] \in Nat
    BY <1>0, <1>00
  <2>2. PICK j \in 1 .. Len(kept) : \A i \in 1 .. Len(kept) : f[i] <= f[j]
    <3> HIDE DEF f
    <3> QED
      BY <1>0, <2>1, GreatestOf, Zenon
  <2>3. kept[j].ts \in Stamps /\ \A u \in Stamps : kept[j].ts >= u
    BY <2>2, <1>0, <1>00 DEF Stamps
  <2> QED
    BY <2>3, Zenon DEF TEnd
<1>4. BinS \in Nat \ {0}
  <2>1. StepSizes \subseteq Nat \ {0}
    BY <1>1 DEF StepSizes
  <2>2. CASE StepSizes = {}
    BY <2>2 DEF BinS
  <2>3. CASE StepSizes # {}
    <3>1. \E s \in StepSizes : \A r \in StepSizes : s <= r
      BY <2>1, <2>3, LeastNumber, Zenon
    <3>2. BinS \in StepSizes
      BY <3>1, <2>3, Zenon DEF BinS
    <3> QED
      BY <3>2, <2>1
  <2> QED
    BY <2>2, <2>3
<1>5. Bins \in Nat \ {0}
  <2>1. TEnd - T0 \in Nat
    BY <1>1, <1>2, <1>3
  <2>2. \A x \in Nat, b \in Nat \ {0} : x \div b + 1 \in Nat \ {0}
    OBVIOUS
  <2> QED
    BY <2>1, <2>2, <1>4 DEF Bins
<1> QED
  BY <1>1, <1>2, <1>3, <1>4, <1>5

-----------------------------------------------------------------------------
(* What the feed lets through. *)

Clean(r) ==
  /\ r \in Seq(Report) /\ \A i \in DOMAIN r : r[i].ts > 0 /\ ~Excluded(r[i].ts)
  /\ \A i, j \in DOMAIN r : i < j => r[i].ts <= r[j].ts

LEMMA PointsInOrder ==
  ASSUME req \in Requests, FeedReadable, NEW points \in FeedPoints
  PROVE  /\ points \in Seq(Report) /\ \A i \in DOMAIN points : points[i].ts > 0
         /\ \A i, j \in DOMAIN points : i < j => points[i].ts <= points[j].ts
<1>1. /\ req.feed \in Seq(Report) /\ \A i \in DOMAIN req.feed : req.feed[i].ok => req.feed[i].ts > 0
      /\ req.feedKind \in {"none", "csv", "npz"} /\ (req.feedKind = "none" => req.feed = << >>)
      /\ MsFrom \in Nat /\ MsFrom >= 1000
  BY RequestsAssumption, Zenon DEF Report
<1>2. CASE req.feedKind = "csv"
  <2>1. points \in SortedRows
    BY <1>2, Zenon DEF FeedPoints
  <2>2. PICK q \in [1 .. Cardinality(Usable) -> Usable] :
           points = [k \in DOMAIN q |-> InSecs(req.feed[q[k]])]
    BY <2>1, Zenon DEF SortedRows
  <2>3. Cardinality(Usable) \in Nat
    <3>1. IsFiniteSet(Usable)
      <4>1. Usable \subseteq 1 .. Len(req.feed) /\ Len(req.feed) \in Nat
        BY <1>1 DEF Usable
      <4> QED
        BY <4>1, FS_Interval, FS_Subset, 1 \in Int, Len(req.feed) \in Int
    <3> QED
      BY <3>1, FS_CardinalityType
  <2>4. \A u \in Usable : InSecs(req.feed[u]) \in Report /\ InSecs(req.feed[u]).ts > 0
    <3> SUFFICES ASSUME NEW u \in Usable
                 PROVE  InSecs(req.feed[u]) \in Report /\ InSecs(req.feed[u]).ts > 0
      OBVIOUS
    <3>0. u \in DOMAIN req.feed /\ req.feed[u].ok
      BY DEF Usable
    <3>1. req.feed[u] \in Report /\ req.feed[u].ts > 0 /\ req.feed[u].ts \in Nat
      <4>1. req.feed[u] \in Report
        BY <3>0, <1>1
      <4> QED
        BY <3>0, <4>1, <1>1 DEF Report
    <3>2. Seconds(req.feed[u].ts) \in Nat /\ Seconds(req.feed[u].ts) > 0
      BY <3>1, <1>1 DEF Seconds
    <3> QED
      BY <3>1, <3>2 DEF InSecs, Report
  <2>5. InOrder(points)
    BY <2>1, Zenon DEF SortedRows
  <2> QED
    BY <2>2, <2>3, <2>4, <2>5 DEF InOrder
<1>3. CASE req.feedKind # "csv"
  <2>1. points = req.feed
    BY <1>3, Zenon DEF FeedPoints
  <2>2. CASE req.feedKind = "none"
    BY <2>1, <2>2, <1>1
  <2>3. CASE req.feedKind = "npz"
    <3>1. /\ Usable = DOMAIN req.feed
          /\ \A i, j \in DOMAIN req.feed : i < j => req.feed[i].ts < req.feed[j].ts
      BY <2>3, Zenon DEF FeedReadable
    <3>2. \A i \in DOMAIN req.feed : req.feed[i].ts > 0
      BY <3>1, <1>1 DEF Usable
    <3>3. \A i \in DOMAIN req.feed : req.feed[i].ts \in Nat
      <4>1. \A i \in DOMAIN req.feed : req.feed[i] \in Report
        BY <1>1
      <4> QED
        BY <4>1 DEF Report
    <3>4. \A i, j \in DOMAIN req.feed : i < j => req.feed[i].ts <= req.feed[j].ts
      BY <3>1, <3>3
    <3> QED
      BY <3>2, <3>4, <2>1, <1>1
  <2> QED
    BY <2>2, <2>3, <1>1, <1>3
<1> QED
  BY <1>2, <1>3

LEMMA FeedRead ==
  ASSUME req \in Requests, ReadFeed
  PROVE  Clean(reports')
<1>1. PICK points \in FeedPoints :
         \E clear \in InTurn({k \in DOMAIN points : ~Excluded(points[k].ts)}) :
           reports' = [k \in DOMAIN clear |-> points[clear[k]]]
  BY Zenon DEF ReadFeed
<1> DEFINE I == {k \in DOMAIN points : ~Excluded(points[k].ts)}
<1>2. PICK clear \in InTurn(I) : reports' = [k \in DOMAIN clear |-> points[clear[k]]]
  BY <1>1
<1>3. FeedReadable
  BY DEF ReadFeed
<1>4. /\ points \in Seq(Report) /\ \A i \in DOMAIN points : points[i].ts > 0
      /\ \A i, j \in DOMAIN points : i < j => points[i].ts <= points[j].ts
  BY <1>3, PointsInOrder, Zenon
<1>5. Cardinality(I) \in Nat
  <2>1. I \subseteq 1 .. Len(points) /\ Len(points) \in Nat
    BY <1>4
  <2>2. IsFiniteSet(I)
    BY <2>1, FS_Interval, FS_Subset
  <2> QED
    BY <2>2, FS_CardinalityType
<1>6. /\ clear \in [1 .. Cardinality(I) -> I]
      /\ \A i, j \in DOMAIN clear : i < j => clear[i] < clear[j]
  BY <1>2, Zenon DEF InTurn
<1>7. \A k \in I : k \in DOMAIN points /\ points[k] \in Report /\ points[k].ts > 0
                   /\ ~Excluded(points[k].ts)
  BY <1>4
<1> HIDE DEF I
<1>8. reports' \in Seq(Report)
  BY <1>2, <1>5, <1>6, <1>7
<1>9. \A i \in DOMAIN reports' : reports'[i].ts > 0 /\ ~Excluded(reports'[i].ts)
  BY <1>2, <1>6, <1>7
<1>10. \A i, j \in DOMAIN reports' : i < j => reports'[i].ts <= reports'[j].ts
  BY <1>2, <1>6, <1>7, <1>4
<1> QED
  BY <1>8, <1>9, <1>10 DEF Clean

-----------------------------------------------------------------------------
(* The types, and what is there at each stage. *)

LEMMA CloseTyped ==
  ASSUME kept \in Seq(Candle), NEW begin, begin \in Stamps
  PROVE  \E c \in {kept[i] : i \in DOMAIN kept} :
            c.ts = begin /\ CloseAt(begin) = c.close /\ c.close \in Nat \ {0}
<1> DEFINE C == {kept[i] : i \in DOMAIN kept}
<1>1. \E c \in C : c.ts = begin
  BY DEF Stamps
<1>2. PICK c \in C : c.ts = begin /\ CloseAt(begin) = c.close
  BY <1>1, Zenon DEF CloseAt
<1>3. C \subseteq Candle
  OBVIOUS
<1> QED
  BY <1>2, <1>3 DEF Candle

LEMMA CarriedTyped ==
  ASSUME kept \in Seq(Candle), mark \in Nat, NEW begin
  PROVE  MarkAfter(begin) \in Nat
<1>1. CloseAt(begin) \in Nat
  BY CloseTyped DEF CloseAt, NoTrade
<1> QED
  BY <1>1 DEF MarkAfter, Carried

LEMMA TapeTypes ==
  ASSUME TapeTypeOK, TapeFlow, [TapeStep]_tapeVars
  PROVE  TapeTypeOK' /\ TapeFlow'
<1> USE DEF TapeTypeOK
<1>r. /\ req \in Requests /\ req.rows \in Seq([ts : Nat, close : Nat, ok : BOOLEAN])
      /\ \A i \in DOMAIN req.rows : req.rows[i].ok => req.rows[i].close > 0
      /\ req.block.t0 \in Nat /\ req.block.delay \in 0 .. 2 /\ req.block.price \in Seq(Seq(Nat))
      /\ \A k \in DOMAIN req.block.price : Len(req.block.price[k]) = 5
      /\ MsFrom \in Nat /\ MsFrom >= 1000
  BY RequestsAssumption, Zenon
<1>k. kept' = kept => (OneRegularClock <=> OneRegularClock')
  BY DEF OneRegularClock, T0, BinS, StepSizes, Stamps
<1>1. CASE UNCHANGED tapeVars
  BY <1>1, <1>k DEF tapeVars, TapeFlow
<1>2. CASE Open
  BY <1>2, <1>k DEF Open, TapeFlow, Stages, Loadable
<1>3. CASE ReadRow
  <2>1. next \in DOMAIN req.rows /\ req.rows[next].ok /\ next \in Nat \ {0}
    BY <1>3, <1>r DEF ReadRow, TapeFlow
  <2>2. /\ req.rows[next] \in [ts : Nat, close : Nat, ok : BOOLEAN]
        /\ req.rows[next].close > 0
    BY <2>1, <1>r, Element, Zenon
  <2>20. req.rows[next].ts \in Nat /\ req.rows[next].close \in Nat
    BY <2>2
  <2>3. Seconds(req.rows[next].ts) \in Nat /\ req.rows[next].close \in Nat \ {0}
    <3>1. MsFrom \in Nat /\ MsFrom >= 1000
      BY <1>r
    <3>2. \A x \in Nat : x \div 1000 \in Nat
      OBVIOUS
    <3>3. req.rows[next].close \in Nat \ {0}
      BY <2>2, <2>20
    <3> QED
      BY <2>20, <3>2, <3>3 DEF Seconds
  <2>4. [ts |-> Seconds(req.rows[next].ts), close |-> req.rows[next].close] \in Candle
    BY <2>3 DEF Candle
  <2>5. kept' \in Seq(Candle)
    BY <1>3, <2>4 DEF ReadRow
  <2> QED
    BY <1>3, <2>1, <2>5 DEF ReadRow, TapeFlow, Stages
<1>4. CASE MakeTape
  BY <1>4, <1>k DEF MakeTape, RowsRead, TapeFlow, Stages
<1>5. CASE ReadFeed
  <2>1. reports' \in Seq(Report)
    BY <1>5, FeedRead DEF Clean
  <2> QED
    BY <1>5, <2>1, <1>k DEF ReadFeed, TapeFlow, Stages
<1>6. CASE GenBin
  <2>1. kept # << >>
    BY <1>6 DEF GenBin, TapeFlow
  <2>2. T0 \in Nat /\ BinS \in Nat
    BY <2>1, ClockFacts
  <2>3. mark' = MarkAfter(T0 + next * BinS) /\ mark' \in Nat
    BY <1>6, CarriedTyped DEF GenBin
  <2>4. T0 + next * BinS + BinS \in Nat
    BY <2>2
  <2>5. EventOf(T0 + next * BinS + BinS, mark') \in MarketEvent
    BY <2>3, <2>4 DEF EventOf, MarketEvent, NoTrade
  <2>6. events' \in Seq(MarketEvent)
    BY <1>6, <2>3, <2>5 DEF GenBin
  <2> QED
    BY <1>6, <2>3, <2>6, <1>k
       DEF GenBin, TapeFlow, Stages
<1>7. CASE GenBlock
  <2> DEFINE ts == req.block.t0 + next * BlockS
             row == req.block.price[next + 1]
  <2>1. next + 1 \in DOMAIN req.block.price
    BY <1>7, <1>r DEF GenBlock, Blocks
  <2>2. row \in Seq(Nat) /\ Len(row) = 5
    BY <2>1, <1>r
  <2>20. req.block.delay + 1 \in DOMAIN row /\ req.block.t0 \in Nat
    BY <2>2, <1>r
  <2>3. row[req.block.delay + 1] \in Nat /\ ts \in Nat
    <3>1. row[req.block.delay + 1] \in Nat
      <4> HIDE DEF row
      <4> QED
        BY <2>2, <2>20, Element
    <3>2. ts \in Nat
      BY <2>20 DEF BlockS
    <3> QED
      BY <3>1, <3>2
  <2>4. EventOf(ts, row[req.block.delay + 1]) \in MarketEvent
    BY <2>3 DEF EventOf, MarketEvent, NoTrade
  <2>5. events' = events \/ events' = Append(events, EventOf(ts, row[req.block.delay + 1]))
    BY <1>7 DEF GenBlock
  <2>6. events' \in Seq(MarketEvent)
    <3> DEFINE e == EventOf(ts, row[req.block.delay + 1])
    <3>1. e \in MarketEvent /\ (events' = events \/ events' = Append(events, e))
      BY <2>4, <2>5
    <3> HIDE DEF e
    <3> QED
      BY <3>1
  <2> HIDE DEF ts, row
  <2> QED
    BY <1>7, <2>6, <1>k
       DEF GenBlock, TapeFlow, Stages
<1>8. CASE EndEvents
  <2>1. stage \in {"bins", "blocks"}
    BY <1>8 DEF EndEvents, EventsMade
  <2>2. reports # << >> => 1 \in 1 .. Len(reports)
    OBVIOUS
  <2>3. 1 \in 1 .. Len(events) + 1
    OBVIOUS
  <2> QED
    BY <1>8, <2>1, <2>2, <2>3, <1>k
       DEF EndEvents, TapeFlow, Stages
<1>9. CASE Advance
  BY <1>9, <1>k DEF Advance, NextIsKnown, TapeFlow, Stages
<1>10. CASE AttachPrice
  <2>1. cursor \in DOMAIN reports /\ next \in DOMAIN events
    BY <1>10 DEF AttachPrice, TapeFlow
  <2>2. reports[cursor] \in Report /\ events[next] \in MarketEvent
    BY <2>1
  <2>3. [events[next] EXCEPT !.feed = reports[cursor].price, !.feedTs = reports[cursor].ts]
          \in MarketEvent
    BY <2>2 DEF MarketEvent, Report
  <2>4. events' \in Seq(MarketEvent) /\ Len(events') = Len(events)
    BY <1>10, <2>1, <2>3 DEF AttachPrice
  <2> QED
    BY <1>10, <2>1, <2>4, <1>k
       DEF AttachPrice, TapeFlow, Stages
<1>11. CASE EndAttach
  BY <1>11, <1>k DEF EndAttach, TapeFlow, Stages
<1>12. CASE IndexReports
  BY <1>12, <1>k DEF IndexReports, TapeFlow, Stages
<1>13. CASE Emptied
  BY <1>13 DEF Emptied, TapeFlow, Stages, NoTrade
<1> QED
  BY <1>1, <1>2, <1>3, <1>4, <1>5, <1>6, <1>7, <1>8, <1>9, <1>10, <1>11, <1>12, <1>13 DEF TapeStep

LEMMA TapeBegins == Init => TapeTypeOK /\ TapeFlow
BY DEF Init, TapeInit, TapeTypeOK, TapeFlow, Stages, NoTrade

-----------------------------------------------------------------------------
(* The feed: what is attached to an event is the last thing published. *)

\* A report that its event could have seen, and the last such.
Attached(e) ==
  /\ e.feedTs <= e.ts /\ ~Excluded(e.feedTs)
  /\ \A k \in DOMAIN reports : reports[k].ts <= e.ts => reports[k].ts <= e.feedTs

FeedInv ==
  /\ Clean(reports)
  /\ \A i \in DOMAIN events : events[i].feedTs # 0 => Attached(events[i])
  /\ stage = "attach" => \A i \in 1 .. next - 1 : events[i].feedTs # 0
  /\ stage \in {"index", "loaded"} /\ req.mode # "block" /\ reports # << >> =>
       \A i \in DOMAIN events : events[i].feedTs # 0

LEMMA FeedStep ==
  ASSUME TapeTypeOK, TapeFlow, FeedInv, [TapeStep]_tapeVars
  PROVE  FeedInv'
<1>t. /\ req \in Requests /\ events \in Seq(MarketEvent) /\ reports \in Seq(Report)
      /\ next \in Nat /\ cursor \in Nat
  BY DEF TapeTypeOK
<1>u. req' = req
  BY DEF TapeStep, tapeVars, Open, ReadRow, MakeTape, ReadFeed, GenBin, GenBlock, EndEvents, Advance,
         AttachPrice, EndAttach, IndexReports, Emptied
<1>x. \A ts : Excluded(ts)' <=> Excluded(ts)
  BY <1>u DEF Excluded
<1>c. reports' = reports => Clean(reports)' /\ \A e : Attached(e)' <=> Attached(e)
  BY <1>x DEF FeedInv, Clean, Attached
<1>1. CASE UNCHANGED <<events, reports, stage, next>>
  BY <1>1, <1>c, <1>u DEF FeedInv
<1>2. CASE events = << >> /\ UNCHANGED <<events, reports>> /\ stage' # "attach"
  <2>1. DOMAIN events = {}
    BY <1>2
  <2> QED
    BY <1>2, <2>1, <1>c, <1>u DEF FeedInv
<1>3. CASE Open \/ ReadRow \/ MakeTape
  BY <1>3, <1>2 DEF Open, ReadRow, MakeTape, RowsRead, TapeFlow
<1>4. CASE ReadFeed
  <2>1. Clean(reports')
    BY <1>4, <1>t, FeedRead
  <2>2. Clean(reports)'
    BY <2>1, <1>x DEF Clean
  <2>3. events' = << >> /\ stage' \in {"bins", "blocks"}
    BY <1>4 DEF ReadFeed, TapeFlow
  <2> QED
    BY <2>2, <2>3 DEF FeedInv
<1>5. CASE GenBin \/ GenBlock
  <2>1. /\ UNCHANGED <<reports, stage>> /\ stage \in {"bins", "blocks"}
        /\ events' = events \/ \E ts, price : events' = Append(events, EventOf(ts, price))
    <3>1. CASE GenBin
      BY <3>1 DEF GenBin
    <3>2. CASE GenBlock
      BY <3>2 DEF GenBlock
    <3> QED
      BY <1>5, <3>1, <3>2
  <2>2. \A i \in DOMAIN events' : (i \in DOMAIN events /\ events'[i] = events[i])
                                 \/ events'[i].feedTs = 0
    <3>1. CASE events' = events
      BY <3>1
    <3>2. ASSUME NEW ts, NEW price, events' = Append(events, EventOf(ts, price))
          PROVE  \A i \in DOMAIN events' : (i \in DOMAIN events /\ events'[i] = events[i])
                                 \/ events'[i].feedTs = 0
      <4> DEFINE e == EventOf(ts, price)
      <4>1. e.feedTs = 0 /\ events' = Append(events, e)
        BY <3>2 DEF EventOf
      <4>2. \A i \in DOMAIN Append(events, e) :
               (i \in DOMAIN events /\ Append(events, e)[i] = events[i]) \/ Append(events, e)[i] = e
        <5> HIDE DEF e
        <5> QED
          BY <1>t
      <4> QED
        BY <4>1, <4>2
    <3> QED
      BY <2>1, <3>1, <3>2
  <2>3. \A i \in DOMAIN events' : events'[i].feedTs # 0 => Attached(events'[i])
    BY <2>2 DEF FeedInv
  <2>4. \A i \in DOMAIN events' : events'[i].feedTs # 0 => Attached(events[i])'
    <3>1. \A i \in DOMAIN events' : Attached(events'[i]) => Attached(events[i])'
      BY <1>c, <1>x, <2>1 DEF Attached
    <3> QED
      BY <2>3, <3>1
  <2> QED
    BY <2>1, <2>4, <1>c DEF FeedInv
<1>6. CASE EndEvents
  <2>1. UNCHANGED <<events, reports>> /\ next' = 1
    BY <1>6 DEF EndEvents
  <2>2. stage' = "index" => reports = << >> \/ req.mode = "block"
    BY <1>6 DEF EndEvents, EventsMade, TapeFlow
  <2>3. stage' \in {"attach", "index"} /\ 1 .. next' - 1 = {}
    BY <1>6, <2>1 DEF EndEvents
  <2> QED
    BY <2>1, <2>2, <2>3, <1>c, <1>u DEF FeedInv
<1>7. CASE Advance
  BY <1>7, <1>1 DEF Advance
<1>8. CASE AttachPrice
  <2> DEFINE e == [events[next] EXCEPT !.feed = reports[cursor].price, !.feedTs = reports[cursor].ts]
  <2>1. /\ stage = "attach" /\ UNCHANGED <<stage, reports>> /\ next' = next + 1
        /\ next \in DOMAIN events /\ cursor \in DOMAIN reports
    BY <1>8, <1>t DEF AttachPrice, TapeFlow
  <2>2. events' = [events EXCEPT ![next] = e]
    BY <1>8 DEF AttachPrice
  <2>3. events[next] \in MarketEvent /\ reports[cursor] \in Report
    BY <2>1, <1>t, Element
  <2>4. e.feedTs = reports[cursor].ts /\ e.ts = events[next].ts
    BY <2>3 DEF MarketEvent
  <2>5. reports[cursor].ts > 0 /\ ~Excluded(reports[cursor].ts)
    BY <2>1 DEF FeedInv, Clean
  <2>6. \A k \in DOMAIN reports : reports[k].ts \in Nat
    <3>1. \A k \in DOMAIN reports : reports[k] \in Report
      BY <1>t, Element
    <3> QED
      BY <3>1 DEF Report
  <2>60. events[next].ts \in Nat
    BY <2>3 DEF MarketEvent
  <2>7. \A k \in DOMAIN reports : reports[k].ts <= events[next].ts => reports[k].ts <= reports[cursor].ts
    <3> SUFFICES ASSUME NEW k \in DOMAIN reports, reports[k].ts <= events[next].ts
                 PROVE  reports[k].ts <= reports[cursor].ts
      OBVIOUS
    <3>1. \A i, j \in DOMAIN reports : i < j => reports[i].ts <= reports[j].ts
      BY DEF FeedInv, Clean
    <3>2. CASE k <= cursor
      BY <3>1, <3>2, <2>1, <2>6, <1>t
    <3>3. CASE k > cursor
      <4>1. cursor + 1 \in DOMAIN reports /\ cursor + 1 <= k /\ cursor < Len(reports)
        BY <3>3, <2>1, <1>t
      <4>2. reports[cursor + 1].ts > events[next].ts
        BY <4>1, <1>8, <2>6, <2>60 DEF AttachPrice, NextIsKnown
      <4>3. reports[cursor + 1].ts <= reports[k].ts
        BY <4>1, <3>1, <1>t, <2>6
      <4> QED
        BY <4>1, <4>2, <4>3, <2>6, <2>60
    <3> QED
      BY <3>2, <3>3, <1>t
  <2>8. reports[cursor].ts <= events[next].ts
    BY <1>8 DEF AttachPrice
  <2>9. Attached(e) /\ e.feedTs # 0
    BY <2>4, <2>5, <2>7, <2>8, <2>6 DEF Attached
  <2>10. DOMAIN events' = DOMAIN events
         /\ \A i \in DOMAIN events : events'[i] = IF i = next THEN e ELSE events[i]
    <3> HIDE DEF e
    <3> QED
      BY <2>2
  <2>11. \A i \in DOMAIN events' : events'[i].feedTs # 0 => Attached(events'[i])
    BY <2>9, <2>10 DEF FeedInv
  <2>12. \A i \in DOMAIN events' : Attached(events'[i]) => Attached(events[i])'
    BY <1>c, <1>x, <2>1 DEF Attached
  <2>13. \A i \in 1 .. next' - 1 : events'[i].feedTs # 0
    <3> HIDE DEF e
    <3>1. \A i \in 1 .. next' - 1 : i \in DOMAIN events /\ (i = next \/ i \in 1 .. next - 1)
      BY <2>1, <1>t
    <3>2. \A i \in 1 .. next - 1 : events[i].feedTs # 0
      BY <2>1 DEF FeedInv
    <3> QED
      BY <2>9, <2>10, <3>1, <3>2
  <2>14. stage' = "attach" /\ Clean(reports)'
    BY <2>1, <1>c
  <2> HIDE DEF e
  <2> QED
    BY <2>11, <2>12, <2>13, <2>14 DEF FeedInv
<1>9. CASE EndAttach
  <2>1. UNCHANGED <<events, reports>> /\ stage' = "index" /\ stage = "attach"
    BY <1>9 DEF EndAttach
  <2>2. DOMAIN events \subseteq 1 .. next - 1
    BY <1>9, <1>t DEF EndAttach
  <2>3. \A i \in DOMAIN events : events[i].feedTs # 0
    BY <2>1, <2>2 DEF FeedInv
  <2> QED
    BY <2>1, <2>3, <1>c, <1>u DEF FeedInv
<1>10. CASE IndexReports
  BY <1>10, <1>c, <1>u DEF IndexReports, FeedInv
<1>11. CASE Emptied
  BY <1>11 DEF Emptied, FeedInv, Clean
<1>12. CASE UNCHANGED tapeVars
  BY <1>12, <1>1 DEF tapeVars
<1> QED
  BY <1>3, <1>4, <1>5, <1>6, <1>7, <1>8, <1>9, <1>10, <1>11, <1>12 DEF TapeStep

\* Whatever a load does, the observation attached to an event is the latest published by
\* then outside the exclusions, and an attached feed leaves no event without one
\* (read_price_feed, attach_price_feed).
THEOREM FeedAlwaysCausal == Spec => []FeedIsCausal
<1> DEFINE I == TapeTypeOK /\ TapeFlow /\ FeedInv
<1>1. Init => I
  BY TapeBegins DEF Init, TapeInit, FeedInv, Clean
<1>2. I /\ [Next]_vars => I'
  BY TapeSteps, TapeTypes, FeedStep
<1>3. I => FeedIsCausal
  BY DEF FeedInv, Attached, FeedIsCausal, Loaded
<1> QED
  BY <1>1, <1>2, <1>3, PTL DEF Spec

-----------------------------------------------------------------------------
(* The candle tape, bin by bin. *)

Rising == \A i, j \in DOMAIN events : i < j => events[i].ts < events[j].ts
Times == {events[i].ts : i \in DOMAIN events}

\* The end of the n-th bin, and the ends of the trusted bins up to it that have a price.
EndOf(n) == T0 + n * BinS
Ends(n) ==
  {e \in {EndOf(k) : k \in 1 .. n} :
     /\ ~BinExcluded(e - BinS) /\ InWindow(e)
     /\ \E c \in Trusted : c.ts < e}

\* The price is the close of the last trusted candle before e.
LastClose(price, e) ==
  \E c \in Trusted :
    /\ c.close = price /\ c.ts < e
    /\ \A d \in Trusted : d.ts < e => d.ts <= c.ts

MarkExact(price, e) ==
  IF \E c \in Trusted : c.ts < e THEN LastClose(price, e) ELSE price = NoTrade

Priced == \A i \in DOMAIN events : LastClose(events[i].price, events[i].ts)

BinInv ==
  /\ Rising
  /\ stage = "bins" =>
       /\ next <= Bins /\ MarkExact(mark, EndOf(next))
       /\ Times = Ends(next) /\ Priced /\ \A i \in DOMAIN events : events[i].ts <= EndOf(next)
  /\ stage = "blocks" =>
       \A i \in DOMAIN events : events[i].ts < req.block.t0 + next * BlockS
  /\ stage \in {"attach", "index", "loaded"} /\ req.mode # "block" =>
       Times = Ends(Bins) /\ Priced

\* Between two ends of bins no candle begins.
LEMMA OnlyMultiple ==
  ASSUME NEW b \in Nat \ {0}, NEW n \in Nat, NEW x \in Nat, x % b = 0, n * b <= x, x < n * b + b
  PROVE  x = n * b
<1>1. \A y \in Nat : y < b => y % b = y
  OBVIOUS
<1>2. x = b * (x \div b) + (x % b) /\ x \div b \in Nat
  OBVIOUS
<1> DEFINE q == x \div b
<1>3. x = b * q /\ q \in Nat
  BY <1>2
<1> HIDE DEF q
<1>4. CASE q <= n - 1
  <2>1. \A k \in Nat : k <= n - 1 => k * b + b <= n * b
    OBVIOUS
  <2> QED
    BY <2>1, <1>3, <1>4
<1>5. CASE q >= n + 1
  <2>1. \A k \in Nat : k >= n + 1 => k * b >= n * b + b
    OBVIOUS
  <2> QED
    BY <2>1, <1>3, <1>5
<1>6. CASE q = n
  BY <1>3, <1>6
<1> QED
  BY <1>3, <1>4, <1>5, <1>6

\* What a bin does to the price that is carried.
LEMMA MarkCarried ==
  ASSUME kept \in Seq(Candle), mark \in Nat, OneRegularClock, kept # << >>, NEW n \in Nat,
         MarkExact(mark, EndOf(n))
  PROVE  /\ EndOf(n) \in Nat /\ EndOf(n + 1) = EndOf(n) + BinS
         /\ MarkExact(MarkAfter(EndOf(n)), EndOf(n + 1))
<1> DEFINE a == EndOf(n)
           z == EndOf(n + 1)
<1>1. /\ T0 \in Nat /\ BinS \in Nat \ {0} /\ Stamps \subseteq Nat
      /\ \A u \in Stamps : T0 <= u
  BY ClockFacts
<1>2. \A u \in Stamps : (u - T0) % BinS = 0
  BY Zenon DEF OneRegularClock
<1>3. a = T0 + n * BinS /\ a \in Nat /\ z = a + BinS /\ z \in Nat
  <2>1. n * BinS \in Nat /\ (n + 1) * BinS = n * BinS + BinS
    BY <1>1
  <2> QED
    BY <1>1, <2>1 DEF EndOf
<1>4. \A c \in Trusted : c \in Candle /\ c.ts \in Stamps /\ c.ts \in Nat /\ ~BinExcluded(c.ts)
                          /\ c.close \in Nat \ {0}
  <2>1. \A i \in DOMAIN kept : kept[i] \in Candle
    BY Element
  <2> QED
    BY <2>1 DEF Trusted, Stamps, Candle
<1> HIDE DEF a, z
<1>5. ASSUME NEW c \in Trusted PROVE c.ts < z <=> c.ts < a \/ c.ts = a
  <2>1. c.ts \in Stamps /\ c.ts \in Nat
    BY <1>4
  <2>2. T0 <= c.ts /\ (c.ts - T0) % BinS = 0 /\ c.ts - T0 \in Nat
    BY <2>1, <1>1, <1>2
  <2>3. ASSUME c.ts < z, ~(c.ts < a) PROVE c.ts = a
    <3>1. n * BinS \in Nat
      BY <1>1
    <3>2. n * BinS <= c.ts - T0 /\ c.ts - T0 < n * BinS + BinS
      BY <2>1, <2>3, <1>1, <1>3, <3>1
    <3>3. c.ts - T0 = n * BinS
      BY <2>2, <3>2, <1>1, OnlyMultiple
    <3> QED
      BY <3>1, <3>3, <1>1, <1>3, <2>1
  <2> QED
    BY <2>1, <2>3, <1>1, <1>3
<1>6. MarkExact(MarkAfter(a), z)
  <2>1. MarkExact(mark, a)
    BY DEF a
  <2>2. ASSUME \A c \in Trusted : c.ts # a PROVE MarkExact(mark, z)
    <3>1. \A c \in Trusted : c.ts < z <=> c.ts < a
      BY <2>2, <1>5
    <3> QED
      BY <2>1, <3>1 DEF MarkExact, LastClose
  <2>3. CASE BinExcluded(a)
    BY <2>2, <2>3, <1>4 DEF MarkAfter
  <2>4. CASE ~BinExcluded(a) /\ a \in Stamps
    <3>1. PICK c \in {kept[i] : i \in DOMAIN kept} :
             c.ts = a /\ CloseAt(a) = c.close /\ c.close \in Nat \ {0}
      BY <2>4, CloseTyped
    <3>2. c \in Trusted
      BY <3>1, <2>4 DEF Trusted
    <3>3. MarkAfter(a) = c.close
      BY <3>1, <2>4 DEF MarkAfter, Carried, NoTrade
    <3>4. c.ts < z /\ \A d \in Trusted : d.ts < z => d.ts <= c.ts
      BY <3>1, <3>2, <1>1, <1>3, <1>4, <1>5
    <3>5. LastClose(MarkAfter(a), z)
      BY <3>2, <3>3, <3>4 DEF LastClose
    <3> QED
      BY <3>2, <3>4, <3>5 DEF MarkExact
  <2>5. CASE ~BinExcluded(a) /\ a \notin Stamps
    <3>1. MarkAfter(a) = mark
      BY <2>5 DEF MarkAfter, Carried, CloseAt
    <3> QED
      BY <3>1, <2>2, <2>5, <1>4
  <2> QED
    BY <2>3, <2>4, <2>5
<1> QED
  BY <1>3, <1>6 DEF a, z

\* The ends up to one more bin.
LEMMA OneMoreEnd ==
  ASSUME kept \in Seq(Candle), kept # << >>, NEW n \in Nat, NEW a, NEW z, a = EndOf(n),
         z = EndOf(n + 1), a \in Nat, z = a + BinS
  PROVE  Ends(n + 1) =
           Ends(n) \cup {e \in {z} : /\ ~BinExcluded(a) /\ InWindow(z)
                                     /\ \E c \in Trusted : c.ts < z}
<1>1. BinS \in Nat \ {0}
  BY ClockFacts
<1>2. z - BinS = a
  BY <1>1
<1>3. 1 .. n + 1 = (1 .. n) \cup {n + 1}
  OBVIOUS
<1>4. {EndOf(k) : k \in 1 .. n + 1} = {EndOf(k) : k \in 1 .. n} \cup {z}
  BY <1>3
<1>5. \A e : e \in Ends(n + 1) <=>
         e \in Ends(n) \/ (e = z /\ ~BinExcluded(a) /\ InWindow(z) /\ \E c \in Trusted : c.ts < z)
  BY <1>2, <1>4, Zenon DEF Ends
<1> QED
  BY <1>5

\* The bins depend on the candles and the request only.
LEMMA BinsFixed ==
  ASSUME UNCHANGED <<req, kept>>
  PROVE  /\ T0' = T0 /\ BinS' = BinS /\ Bins' = Bins
         /\ \A p, x : (LastClose(p, x)' <=> LastClose(p, x)) /\ (MarkExact(p, x)' <=> MarkExact(p, x))
         /\ \A n : EndOf(n)' = EndOf(n) /\ Ends(n)' = Ends(n)
<1>1. T0' = T0 /\ BinS' = BinS /\ Bins' = Bins
  BY DEF T0, BinS, Bins, TEnd, StepSizes, Stamps
<1>2. \A x : (BinExcluded(x)' <=> BinExcluded(x)) /\ (InWindow(x)' <=> InWindow(x))
  BY <1>1 DEF BinExcluded, InWindow, Excluded, Touches
<1>3. Trusted' = Trusted
  BY <1>2 DEF Trusted
<1>4. \A p, x : (LastClose(p, x)' <=> LastClose(p, x)) /\ (MarkExact(p, x)' <=> MarkExact(p, x))
  BY <1>3 DEF LastClose, MarkExact
<1>5. \A n : EndOf(n)' = EndOf(n)
  BY <1>1 DEF EndOf
<1>6. \A n : Ends(n)' = Ends(n)
  <2>1. \A n, x : x \in Ends(n)' <=> x \in Ends(n)
    BY <1>1, <1>2, <1>3, <1>5 DEF Ends
  <2> QED
    BY <2>1
<1> QED
  BY <1>1, <1>4, <1>5, <1>6

\* An event after all the others keeps them in order.
LEMMA StillRising ==
  ASSUME NEW s \in Seq(MarketEvent), NEW e \in MarketEvent,
         \A i, j \in DOMAIN s : i < j => s[i].ts < s[j].ts, \A i \in DOMAIN s : s[i].ts < e.ts
  PROVE  \A i, j \in DOMAIN Append(s, e) : i < j => Append(s, e)[i].ts < Append(s, e)[j].ts
<1>1. DOMAIN s = 1 .. Len(s) /\ Len(s) \in Nat
  OBVIOUS
<1>2. /\ DOMAIN Append(s, e) = 1 .. Len(s) + 1 /\ Append(s, e)[Len(s) + 1] = e
      /\ \A i \in 1 .. Len(s) : Append(s, e)[i] = s[i]
  BY Pushed
<1> QED
  BY <1>1, <1>2

LEMMA GenBinExact ==
  ASSUME TapeTypeOK, TapeFlow, BinInv, GenBin
  PROVE  BinInv'
<1> DEFINE a == EndOf(next)
           z == EndOf(next + 1)
<1>1. /\ kept \in Seq(Candle) /\ mark \in Nat /\ next \in Nat /\ events \in Seq(MarketEvent)
      /\ kept # << >> /\ OneRegularClock /\ stage = "bins" /\ next < Bins
  BY DEF TapeTypeOK, TapeFlow, GenBin
<1>2. /\ MarkExact(mark, EndOf(next)) /\ Times = Ends(next) /\ Priced /\ Rising
      /\ \A i \in DOMAIN events : events[i].ts <= EndOf(next)
  BY <1>1 DEF BinInv
<1>3. a \in Nat /\ z = a + BinS /\ MarkExact(MarkAfter(a), z)
  BY <1>1, <1>2, MarkCarried
<1>4. /\ BinS \in Nat \ {0} /\ Bins \in Nat
  BY <1>1, ClockFacts
<1>5. /\ mark' = MarkAfter(a) /\ next' = next + 1 /\ UNCHANGED <<req, stage, kept>>
      /\ events' = IF ~BinExcluded(a) /\ InWindow(z) /\ mark' # NoTrade
                   THEN Append(events, EventOf(z, mark')) ELSE events
  <2>1. a = T0 + next * BinS
    BY DEF EndOf
  <2> HIDE DEF a, z
  <2> QED
    BY <2>1, <1>3 DEF GenBin
<1>6. mark' \in Nat
  BY <1>1, <1>5, CarriedTyped
<1> HIDE DEF a, z
<1>7. mark' # NoTrade <=> \E c \in Trusted : c.ts < z
  <2>1. \A c \in Trusted : c.close # NoTrade
    <3>1. \A i \in DOMAIN kept : kept[i] \in Candle
      BY <1>1, Element
    <3> QED
      BY <3>1 DEF Trusted, Candle, NoTrade
  <2>2. MarkExact(mark', z)
    BY <1>3, <1>5
  <2> QED
    BY <2>1, <2>2 DEF MarkExact, LastClose
<1> DEFINE e == EventOf(z, mark')
           Made == ~BinExcluded(a) /\ InWindow(z) /\ mark' # NoTrade
<1>8. e \in MarketEvent /\ e.ts = z /\ e.price = mark'
  BY <1>3, <1>4, <1>6 DEF EventOf, MarketEvent, NoTrade
<1>9. /\ \A i \in DOMAIN events : events[i].ts \in Nat /\ events[i].ts < z
  <2>1. \A i \in DOMAIN events : events[i].ts \in Nat
    <3>1. \A i \in DOMAIN events : events[i] \in MarketEvent
      BY <1>1, Element
    <3> QED
      BY <3>1 DEF MarketEvent
  <2> QED
    BY <2>1, <1>2, <1>3, <1>4 DEF a
<1>10. Ends(next + 1) = Ends(next) \cup (IF Made THEN {z} ELSE {})
  <2>1. Ends(next + 1) =
           Ends(next) \cup {x \in {z} : /\ ~BinExcluded(a) /\ InWindow(z)
                                     /\ \E c \in Trusted : c.ts < z}
    BY <1>1, <1>3, OneMoreEnd DEF a, z
  <2> QED
    BY <2>1, <1>7
<1>11. /\ \A i, j \in DOMAIN events' : i < j => events'[i].ts < events'[j].ts
       /\ \A i \in DOMAIN events' : events'[i].ts <= z
       /\ {events'[i].ts : i \in DOMAIN events'} = Ends(next + 1)
       /\ \A i \in DOMAIN events' : LastClose(events'[i].price, events'[i].ts)
  <2>1. CASE ~Made
    <3>1. events' = events
      BY <2>1, <1>5
    <3> QED
      BY <2>1, <3>1, <1>2, <1>9, <1>10, <1>3, <1>4 DEF Rising, Priced, Times
  <2>2. CASE Made
    <3>1. events' = Append(events, e)
      BY <2>2, <1>5
    <3> HIDE DEF e, Made
    <3>2. /\ DOMAIN events' = 1 .. Len(events) + 1 /\ events'[Len(events) + 1] = e
          /\ \A i \in 1 .. Len(events) : events'[i] = events[i]
      BY <3>1, <1>1, <1>8, Pushed
    <3>3. DOMAIN events = 1 .. Len(events) /\ Len(events) \in Nat
      BY <1>1
    <3>4. \A i \in DOMAIN events' :
            (i \in DOMAIN events /\ events'[i] = events[i]) \/ (i = Len(events) + 1 /\ events'[i] = e)
      <4>1. \A i \in 1 .. Len(events) + 1 : i \in 1 .. Len(events) \/ i = Len(events) + 1
        BY <3>3
      <4> QED
        BY <3>2, <3>3, <4>1, Zenon
    <3>5. \A i, j \in DOMAIN events' : i < j => events'[i].ts < events'[j].ts
      BY <3>1, <1>1, <1>2, <1>8, <1>9, StillRising DEF Rising
    <3>6. \A i \in DOMAIN events' : events'[i].ts <= z
      BY <3>4, <1>8, <1>9, <1>3, <1>4
    <3>7. {events'[i].ts : i \in DOMAIN events'} = Times \cup {z}
      BY <3>2, <3>3, <3>4, <1>8 DEF Times
    <3>8. LastClose(e.price, e.ts)
      <4>1. MarkExact(mark', z) /\ mark' # NoTrade
        BY <2>2, <1>3, <1>5 DEF Made
      <4> QED
        BY <4>1, <1>8 DEF MarkExact
    <3>9. \A i \in DOMAIN events' : LastClose(events'[i].price, events'[i].ts)
      BY <3>4, <3>8, <1>2 DEF Priced
    <3> QED
      BY <3>5, <3>6, <3>7, <3>9, <1>2, <1>10, <2>2
  <2> QED
    BY <2>1, <2>2
<1>12. /\ T0' = T0 /\ BinS' = BinS /\ Bins' = Bins
       /\ \A p, x : (LastClose(p, x)' <=> LastClose(p, x)) /\ (MarkExact(p, x)' <=> MarkExact(p, x))
       /\ \A n : EndOf(n)' = EndOf(n) /\ Ends(n)' = Ends(n)
  BY <1>5, BinsFixed
<1>15. \A p, x : (LastClose(p, x)' <=> LastClose(p, x)) /\ (MarkExact(p, x)' <=> MarkExact(p, x))
  BY <1>12
<1>16. \A n : EndOf(n)' = EndOf(n)
  BY <1>12
<1>17. \A n : Ends(n)' = Ends(n)
  BY <1>12
<1>18. stage' = "bins" /\ next' <= Bins'
  BY <1>1, <1>4, <1>5, <1>12
<1>19. Rising' /\ Times' = Ends(next)'
  <2>1. Rising'
    BY <1>11 DEF Rising
  <2>2. Times' = Ends(next + 1)
    BY <1>11 DEF Times
  <2>3. Ends(next)' = Ends(next + 1)
    BY <1>17, <1>5
  <2> QED
    BY <2>1, <2>2, <2>3
<1>20. MarkExact(mark, EndOf(next))'
  <2>1. EndOf(next)' = z
    BY <1>16, <1>5 DEF z
  <2>2. MarkExact(mark', z)
    BY <1>3, <1>5
  <2> QED
    BY <2>1, <2>2, <1>15
<1>21. Priced' /\ (\A i \in DOMAIN events : events[i].ts <= EndOf(next))'
  <2>1. EndOf(next)' = z
    BY <1>16, <1>5 DEF z
  <2>2. Priced'
    BY <1>11, <1>15 DEF Priced
  <2> QED
    BY <2>1, <2>2, <1>11
<1> QED
  BY <1>18, <1>19, <1>20, <1>21 DEF BinInv

LEMMA BinStep ==
  ASSUME TapeTypeOK, TapeFlow, BinInv, [TapeStep]_tapeVars
  PROVE  BinInv'
<1>t. /\ req \in Requests /\ kept \in Seq(Candle) /\ events \in Seq(MarketEvent)
      /\ reports \in Seq(Report) /\ next \in Nat /\ req.block.t0 \in Nat
  BY RequestsAssumption, Zenon DEF TapeTypeOK
<1>f. ASSUME UNCHANGED <<req, kept>>
      PROVE  /\ Bins' = Bins /\ \A n : EndOf(n)' = EndOf(n) /\ Ends(n)' = Ends(n)
             /\ \A p, x : (LastClose(p, x)' <=> LastClose(p, x)) /\ (MarkExact(p, x)' <=> MarkExact(p, x))
  BY <1>f, BinsFixed
<1>e. ASSUME UNCHANGED events PROVE Rising' /\ Times' = Times
  BY <1>e DEF BinInv, Rising, Times
<1>p. ASSUME UNCHANGED <<req, kept, events>> PROVE Priced => Priced'
  BY <1>p, <1>f DEF Priced
<1>1. CASE UNCHANGED tapeVars
  <2>1. UNCHANGED <<req, kept, events, mark, next, stage>>
    BY <1>1 DEF tapeVars
  <2>2. Rising' /\ Times' = Times /\ (Priced => Priced')
    BY <2>1, <1>e, <1>p
  <2>3. Bins' = Bins /\ EndOf(next)' = EndOf(next) /\ Ends(next)' = Ends(next) /\ Ends(Bins)' = Ends(Bins)
    BY <2>1, <1>f
  <2>4. MarkExact(mark, EndOf(next)) => MarkExact(mark, EndOf(next))'
    BY <2>1, <2>3, <1>f
  <2> QED
    BY <2>1, <2>2, <2>3, <2>4 DEF BinInv
<1>2. CASE events' = << >> /\ stage' \notin {"bins", "blocks", "attach", "index", "loaded"}
  BY <1>2 DEF BinInv, Rising
<1>3. CASE Open \/ ReadRow \/ MakeTape \/ Emptied
  BY <1>3, <1>2 DEF Open, ReadRow, MakeTape, RowsRead, Emptied, TapeFlow
<1>4. CASE ReadFeed
  <2>1. /\ events = << >> /\ UNCHANGED <<req, kept, events, mark>> /\ next' = 0 /\ mark = NoTrade
        /\ stage' = IF req.mode = "block" THEN "blocks" ELSE "bins"
        /\ (req.mode # "block" => kept # << >>)
    BY <1>4 DEF ReadFeed, TapeFlow
  <2>2. Rising' /\ Times' = {} /\ Priced' /\ DOMAIN events' = {}
    BY <2>1 DEF Rising, Times, Priced
  <2>3. CASE req.mode = "block"
    BY <2>1, <2>2, <2>3 DEF BinInv
  <2>4. CASE req.mode # "block"
    <3>1. /\ T0 \in Nat /\ BinS \in Nat /\ Bins \in Nat /\ Stamps \subseteq Nat
          /\ \A u \in Stamps : T0 <= u
      BY <2>1, <2>4, <1>t, ClockFacts
    <3>2. EndOf(0) = T0
      BY <3>1 DEF EndOf
    <3>3. \A c \in Trusted : ~(c.ts < T0)
      BY <3>1 DEF Trusted, Stamps
    <3>4. MarkExact(mark, EndOf(0))
      BY <2>1, <3>2, <3>3 DEF MarkExact
    <3>5. Ends(0) = {}
      BY DEF Ends
    <3>6. Ends(next)' = {} /\ EndOf(next)' = EndOf(0)
      BY <3>5, <2>1, <1>f
    <3>7. MarkExact(mark, EndOf(next))'
      BY <3>4, <3>6, <2>1, <1>f
    <3>8. stage' = "bins" /\ next' <= Bins'
      BY <2>1, <2>4, <3>1, <1>f
    <3> QED
      BY <2>2, <3>6, <3>7, <3>8 DEF BinInv
  <2> QED
    BY <2>3, <2>4
<1>5. CASE GenBin
  BY <1>5, GenBinExact
<1>6. CASE GenBlock
  <2> DEFINE ts == req.block.t0 + next * BlockS
             row == req.block.price[next + 1]
             e == EventOf(ts, row[req.block.delay + 1])
  <2>1. /\ stage = "blocks" /\ UNCHANGED <<req, kept, stage>> /\ next' = next + 1
        /\ events' = events \/ events' = Append(events, e)
    BY <1>6 DEF GenBlock
  <2>2. e.ts = ts /\ ts \in Nat
    BY <1>t DEF EventOf, BlockS
  <2>3. \A i \in DOMAIN events : events[i].ts < ts
    BY <2>1 DEF BinInv
  <2>4. req'.block.t0 + next' * BlockS = ts + 12 /\ req'.block.t0 + next' * BlockS \in Nat
    <3>1. next' = next + 1 /\ req' = req /\ next \in Nat /\ req.block.t0 \in Nat
      BY <2>1, <1>t
    <3>2. \A t, n \in Nat : t + (n + 1) * 12 = (t + n * 12) + 12 /\ t + (n + 1) * 12 \in Nat
      OBVIOUS
    <3> QED
      BY <3>1, <3>2 DEF BlockS
  <2>5. \A i \in DOMAIN events : events[i].ts \in Nat
    <3>1. \A i \in DOMAIN events : events[i] \in MarketEvent
      BY <1>t, Element
    <3> QED
      BY <3>1 DEF MarketEvent
  <2>6. CASE events' = events
    <3>1. \A i \in DOMAIN events' : events'[i].ts < req'.block.t0 + next' * BlockS
      BY <2>2, <2>3, <2>4, <2>5, <2>6
    <3> QED
      BY <2>1, <2>6, <3>1, <1>e DEF BinInv
  <2>7. CASE events' = Append(events, e)
    <3> HIDE DEF e, ts
    <3>1. DOMAIN events = 1 .. Len(events) /\ Len(events) \in Nat
      BY <1>t
    <3>2. /\ DOMAIN events' = 1 .. Len(events) + 1 /\ events'[Len(events) + 1] = e
          /\ \A i \in 1 .. Len(events) : events'[i] = events[i]
      BY <2>7, <1>t, <3>1
    <3>3. \A i, j \in DOMAIN events : i < j => events[i].ts < events[j].ts
      BY DEF BinInv, Rising
    <3>4. \A i, j \in DOMAIN events' : i < j => events'[i].ts < events'[j].ts
      BY <3>1, <3>2, <3>3, <2>2, <2>3
    <3>5. \A i \in DOMAIN events' : events'[i].ts < req'.block.t0 + next' * BlockS
      BY <3>1, <3>2, <2>2, <2>3, <2>4, <2>5
    <3> QED
      BY <2>1, <3>4, <3>5 DEF BinInv, Rising
  <2> QED
    BY <2>1, <2>6, <2>7
<1>7. CASE EndEvents
  <2>1. /\ UNCHANGED <<req, kept, events>> /\ stage' \in {"attach", "index"}
        /\ (stage = "bins" /\ next >= Bins) \/ stage = "blocks"
    BY <1>7 DEF EndEvents, EventsMade
  <2>2. Rising' /\ Times' = Times /\ (Priced => Priced')
    BY <2>1, <1>e, <1>p
  <2>3. CASE stage = "blocks"
    BY <2>1, <2>2, <2>3 DEF BinInv, TapeFlow
  <2>4. CASE stage = "bins"
    <3>1. Bins \in Nat
      BY <2>4, <1>t, ClockFacts DEF TapeFlow
    <3>2. next = Bins
      BY <2>1, <2>4, <3>1, <1>t DEF BinInv
    <3>3. Times' = Ends(Bins)' /\ Priced'
      BY <3>2, <2>1, <2>2, <2>4, <1>f DEF BinInv
    <3> QED
      BY <2>1, <2>2, <3>3 DEF BinInv
  <2> QED
    BY <2>1, <2>3, <2>4
<1>8. CASE Advance \/ EndAttach \/ IndexReports
  <2>1. /\ UNCHANGED <<req, kept, events>> /\ stage \in {"attach", "index"}
        /\ stage' \in {"attach", "index", "loaded"}
    BY <1>8 DEF Advance, EndAttach, IndexReports
  <2>2. Rising' /\ Times' = Times /\ (Priced => Priced') /\ Ends(Bins)' = Ends(Bins)
    BY <2>1, <1>e, <1>p, <1>f
  <2> QED
    BY <2>1, <2>2 DEF BinInv
<1>9. CASE AttachPrice
  <2> DEFINE e == [events[next] EXCEPT !.feed = reports[cursor].price, !.feedTs = reports[cursor].ts]
  <2>1. /\ stage = "attach" /\ UNCHANGED <<stage, req, kept>>
        /\ next \in DOMAIN events /\ events' = [events EXCEPT ![next] = e]
    BY <1>9, <1>t DEF AttachPrice, TapeFlow
  <2>2. e.ts = events[next].ts /\ e.price = events[next].price
    <3>1. events[next] \in MarketEvent
      BY <2>1, <1>t, Element
    <3> QED
      BY <3>1 DEF MarketEvent
  <2> HIDE DEF e
  <2>3. /\ DOMAIN events' = DOMAIN events
        /\ \A i \in DOMAIN events : events'[i].ts = events[i].ts /\ events'[i].price = events[i].price
    BY <2>1, <2>2
  <2>4. Rising' /\ Times' = Times
    BY <2>3 DEF BinInv, Rising, Times
  <2>5. Priced => Priced'
    BY <2>1, <2>3, <1>f DEF Priced
  <2>6. Ends(Bins)' = Ends(Bins)
    BY <2>1, <1>f
  <2> QED
    BY <2>1, <2>4, <2>5, <2>6 DEF BinInv
<1> QED
  BY <1>1, <1>3, <1>4, <1>5, <1>6, <1>7, <1>8, <1>9 DEF TapeStep

-----------------------------------------------------------------------------
(* The block tape, block by block. *)

BlockInv ==
  /\ stage \notin {"open", "failed"} => RangesValid(req.excluded)
  /\ stage = "blocks" => next <= Blocks /\ Quoted = Quotes(next)
  /\ stage \in {"index", "loaded"} /\ req.mode = "block" => Quoted = Quotes(Blocks)

\* Two intervals touch exactly if a second lies in both.
LEMMA TouchesASecond ==
  ASSUME RangesValid(req.excluded), req.excluded \in Seq(Nat \X Nat),
         NEW a \in Int, NEW z \in Int, a < z
  PROVE  Touches(a, z) <=> \E s \in a .. z - 1 : Excluded(s)
<1>1. \A i \in DOMAIN req.excluded :
        /\ req.excluded[i][1] \in Nat /\ req.excluded[i][2] \in Nat
        /\ req.excluded[i][1] < req.excluded[i][2]
  <2>1. \A i \in DOMAIN req.excluded : req.excluded[i] \in Nat \X Nat
    BY Element
  <2> QED
    BY <2>1 DEF RangesValid
<1>2. ASSUME NEW i \in DOMAIN req.excluded, a < req.excluded[i][2], z > req.excluded[i][1]
      PROVE  \E s \in a .. z - 1 : Excluded(s)
  <2> DEFINE s == IF a < req.excluded[i][1] THEN req.excluded[i][1] ELSE a
  <2>1. s \in a .. z - 1 /\ req.excluded[i][1] <= s /\ s < req.excluded[i][2]
    BY <1>1, <1>2
  <2> QED
    BY <2>1 DEF Excluded
<1>3. ASSUME NEW s \in a .. z - 1, NEW i \in DOMAIN req.excluded,
             req.excluded[i][1] <= s, s < req.excluded[i][2]
      PROVE  a < req.excluded[i][2] /\ z > req.excluded[i][1]
  BY <1>1, <1>3
<1> QED
  BY <1>2, <1>3 DEF Touches, Excluded

LEMMA QuotesFixed ==
  ASSUME UNCHANGED req
  PROVE  Blocks' = Blocks /\ \A n : Quotes(n)' = Quotes(n)
<1>1. \A k : BlockAt(k)' = BlockAt(k) /\ (WindowClear(k)' <=> WindowClear(k))
  BY DEF BlockAt, WindowClear, Excluded
<1>2. \A ts : InWindow(ts)' <=> InWindow(ts)
  BY DEF InWindow
<1> QED
  BY <1>1, <1>2 DEF Blocks, Quotes

LEMMA GenBlockExact ==
  ASSUME TapeTypeOK, BlockInv, GenBlock
  PROVE  next' <= Blocks /\ Quoted' = Quotes(next')
<1> DEFINE n == next + 1
           ts == BlockAt(n)
           price == req.block.price[n][req.block.delay + 1]
           e == EventOf(ts, price)
           Made == InWindow(ts) /\ price # NoTrade /\ WindowClear(n)
<1>1. /\ req.excluded \in Seq(Nat \X Nat) /\ req.block.t0 \in Nat
      /\ req.block.price \in Seq(Seq(Nat)) /\ events \in Seq(MarketEvent) /\ next \in Nat
      /\ \A k \in DOMAIN req.block.price : Len(req.block.price[k]) = 5
  BY RequestsAssumption, Zenon DEF TapeTypeOK
<1>2. /\ stage = "blocks" /\ next < Blocks /\ next' = n /\ Quoted = Quotes(next)
      /\ RangesValid(req.excluded)
  BY DEF BlockInv, GenBlock
<1>3. Blocks \in Nat /\ Len(req.block.price[n]) = 5
  BY <1>1, <1>2 DEF Blocks
<1>4. ts \in Nat /\ ts = req.block.t0 + next * BlockS
  BY <1>1 DEF BlockAt, BlockS
<1>5. Touches(ts - BlockS, ts + 4) <=> ~WindowClear(n)
  <2>1. ts - BlockS \in Int /\ ts + 4 \in Int /\ ts - BlockS < ts + 4 /\ (ts + 4) - 1 = ts + 3
    BY <1>4 DEF BlockS
  <2>2. Touches(ts - BlockS, ts + 4) <=> \E s \in ts - BlockS .. (ts + 4) - 1 : Excluded(s)
    BY <1>1, <1>2, <2>1, TouchesASecond
  <2> QED
    BY <2>1, <2>2 DEF WindowClear
<1>6. events' = IF Made THEN Append(events, e) ELSE events
  <2>1. ts + Len(req.block.price[n]) - 1 = ts + 4
    BY <1>3, <1>4
  <2> DEFINE row == req.block.price[n]
  <2>2. events' = IF InWindow(ts) /\ row[req.block.delay + 1] # NoTrade
                     /\ ~Touches(ts - BlockS, ts + Len(row) - 1)
                  THEN Append(events, EventOf(ts, row[req.block.delay + 1])) ELSE events
    BY <1>4 DEF GenBlock
  <2> HIDE DEF ts
  <2> QED
    BY <1>5, <2>1, <2>2
<1>7. Quotes(n) = Quotes(next) \cup (IF Made THEN {<<ts, price>>} ELSE {})
  <2>1. 1 .. n = (1 .. next) \cup {n}
    BY <1>1
  <2> HIDE DEF n
  <2> QED
    BY <2>1 DEF Quotes
<1>8. Quoted' = Quoted \cup (IF Made THEN {<<ts, price>>} ELSE {})
  <2>1. e.ts = ts /\ e.price = price
    BY DEF EventOf
  <2> HIDE DEF e, ts, price, Made
  <2>2. CASE Made
    <3>1. /\ DOMAIN events' = 1 .. Len(events) + 1 /\ events'[Len(events) + 1] = e
          /\ \A i \in 1 .. Len(events) : events'[i] = events[i]
      <4>1. \A s, x : s \in Seq(MarketEvent) => s \in Seq(MarketEvent \cup {x})
        OBVIOUS
      <4>2. events \in Seq(MarketEvent \cup {e}) /\ e \in MarketEvent \cup {e}
        BY <1>1, <4>1
      <4> HIDE DEF e
      <4> QED
        BY <1>6, <2>2, <4>2, Pushed
    <3>2. DOMAIN events = 1 .. Len(events) /\ Len(events) \in Nat
      BY <1>1
    <3>3. DOMAIN events' = DOMAIN events \cup {Len(events) + 1} /\ Len(events) + 1 \notin DOMAIN events
      BY <3>1, <3>2
    <3> QED
      BY <2>1, <2>2, <3>1, <3>2, <3>3 DEF Quoted
  <2>3. CASE ~Made
    BY <1>6, <2>3 DEF Quoted
  <2> QED
    BY <2>2, <2>3
<1> HIDE DEF n, Made
<1>9. n <= Blocks
  BY <1>1, <1>2, <1>3 DEF n
<1> QED
  BY <1>2, <1>7, <1>8, <1>9

LEMMA BlockStep ==
  ASSUME TapeTypeOK, TapeFlow, BlockInv, [TapeStep]_tapeVars
  PROVE  BlockInv'
<1>f. ASSUME UNCHANGED req
      PROVE  Blocks' = Blocks /\ \A n : Quotes(n)' = Quotes(n)
  BY <1>f, QuotesFixed
<1>e. ASSUME UNCHANGED events PROVE Quoted' = Quoted
  BY <1>e DEF Quoted
<1>b. Blocks \in Nat
  <2>1. req.block.price \in Seq(Seq(Nat))
    BY RequestsAssumption, Zenon DEF TapeTypeOK
  <2> QED
    BY <2>1 DEF Blocks
<1>1. CASE UNCHANGED tapeVars
  <2>1. UNCHANGED <<req, stage, next, events>>
    BY <1>1 DEF tapeVars
  <2> QED
    BY <2>1, <1>e, <1>f DEF BlockInv
<1>2. CASE Open
  BY <1>2 DEF Open, Loadable, BlockInv
<1>3. CASE ReadRow \/ MakeTape \/ GenBin \/ Advance \/ AttachPrice
  <2>1. /\ UNCHANGED req /\ stage' \notin {"blocks", "index", "loaded"}
        /\ stage \notin {"open", "failed"}
    BY <1>3 DEF ReadRow, MakeTape, RowsRead, GenBin, Advance, AttachPrice
  <2> QED
    BY <2>1 DEF BlockInv
<1>4. CASE ReadFeed
  <2>1. UNCHANGED <<req, events>> /\ stage = "feed" /\ stage' \in {"blocks", "bins"}
        /\ next' = 0 /\ events = << >>
    BY <1>4 DEF ReadFeed, TapeFlow
  <2>2. Quoted = {} /\ Quotes(0) = {}
    BY <2>1 DEF Quoted, Quotes
  <2>3. Quoted' = Quotes(next)' /\ next' <= Blocks'
    BY <2>1, <2>2, <1>b, <1>e, <1>f
  <2> QED
    BY <2>1, <2>3 DEF BlockInv
<1>5. CASE GenBlock
  <2>1. UNCHANGED req /\ stage = "blocks" /\ stage' = "blocks"
    BY <1>5 DEF GenBlock
  <2>2. next' <= Blocks /\ Quoted' = Quotes(next')
    BY <1>5, GenBlockExact
  <2>3. Quotes(next)' = Quotes(next') /\ Blocks' = Blocks
    BY <2>1, <1>f
  <2> QED
    BY <2>1, <2>2, <2>3 DEF BlockInv
<1>6. CASE EndEvents
  <2>1. /\ UNCHANGED <<req, events>> /\ stage' \in {"attach", "index"}
        /\ stage = "bins" \/ (stage = "blocks" /\ next >= Blocks)
    BY <1>6 DEF EndEvents, EventsMade
  <2>2. CASE stage = "bins"
    BY <2>1, <2>2 DEF BlockInv, TapeFlow
  <2>3. CASE stage = "blocks"
    <3>1. next = Blocks
      BY <2>1, <2>3, <1>b DEF BlockInv, TapeTypeOK
    <3>2. Quoted' = Quotes(Blocks)'
      BY <3>1, <2>1, <2>3, <1>e, <1>f DEF BlockInv
    <3> QED
      BY <2>1, <2>3, <3>2 DEF BlockInv
  <2> QED
    BY <2>1, <2>2, <2>3
<1>7. CASE EndAttach
  BY <1>7 DEF EndAttach, BlockInv, TapeFlow
<1>8. CASE IndexReports
  <2>1. UNCHANGED <<req, events>> /\ stage = "index" /\ stage' = "loaded"
    BY <1>8 DEF IndexReports
  <2> QED
    BY <2>1, <1>e, <1>f DEF BlockInv
<1>9. CASE Emptied
  BY <1>9 DEF Emptied, BlockInv
<1> QED
  BY <1>1, <1>2, <1>3, <1>4, <1>5, <1>6, <1>7, <1>8, <1>9 DEF TapeStep

\* A loaded market has its events in order; those of a candle tape are the ends of the
\* trusted bins at the last trusted close (BinInv), and those of a block tape the blocks
\* whose window is clear, at the price of their row (BlockInv); gen_candle_events,
\* gen_block_events.
THEOREM TapeAlwaysExact == Spec => []TapeExact
<1> DEFINE I == TapeTypeOK /\ TapeFlow /\ BinInv /\ BlockInv
<1>1. Init => I
  BY TapeBegins DEF Init, TapeInit, BinInv, Rising, BlockInv
<1>2. I /\ [Next]_vars => I'
  BY TapeSteps, TapeTypes, BinStep, BlockStep
<1>3. I => TapeExact
  <2> SUFFICES ASSUME I, Loaded PROVE TapeExact
    BY DEF TapeExact
  <2>1. \A i, j \in DOMAIN events : i < j => events[i].ts < events[j].ts
    BY DEF BinInv, Rising
  <2>2. req.mode = "candles" => CandleEventsExact
    BY DEF BinInv, Loaded, CandleEventsExact, Times, Ends, EndOf, Priced, LastClose
  <2>3. req.mode = "block" => Quoted = Quotes(Blocks)
    BY DEF BlockInv, Loaded
  <2> QED
    BY <2>1, <2>2, <2>3 DEF TapeExact
<1> QED
  BY <1>1, <1>2, <1>3, PTL DEF Spec

-----------------------------------------------------------------------------
(* The windows of reports. *)

UpperInv ==
  stage = "loaded" /\ reports # << >> => upper = [i \in DOMAIN events |-> Known(events[i].ts)]

LEMMA UpperStep ==
  ASSUME TapeFlow, UpperInv, [TapeStep]_tapeVars
  PROVE  UpperInv'
<1>1. CASE UNCHANGED tapeVars
  <2>1. UNCHANGED <<stage, reports, events, upper>>
    BY <1>1 DEF tapeVars
  <2> QED
    BY <2>1 DEF UpperInv, Known
<1>2. CASE IndexReports
  BY <1>2 DEF IndexReports, UpperInv, Known
<1>3. ASSUME stage' # "loaded" PROVE UpperInv'
  BY <1>3 DEF UpperInv
<1>4. CASE Open \/ ReadRow \/ MakeTape \/ ReadFeed \/ GenBin \/ GenBlock
  BY <1>3, <1>4 DEF Open, ReadRow, MakeTape, ReadFeed, GenBin, GenBlock
<1>5. CASE EndEvents \/ Advance \/ AttachPrice \/ EndAttach \/ Emptied
  BY <1>3, <1>5 DEF EndEvents, Advance, AttachPrice, EndAttach, Emptied
<1> QED
  BY <1>1, <1>2, <1>4, <1>5 DEF TapeStep

\* A set of positions with all the earlier ones is known by their number.
LEMMA Leading ==
  ASSUME NEW n \in Nat, NEW S \in SUBSET (1 .. n), \A k \in S : \A j \in 1 .. k : j \in S
  PROVE  Cardinality(S) \in 0 .. n /\ S = 1 .. Cardinality(S)
<1> DEFINE U == {u \in Nat : \A k \in S : k <= u}
<1>1. n \in U
  OBVIOUS
<1>2. PICK u \in U : \A v \in U : u <= v
  <2> HIDE DEF U
  <2>1. U \subseteq Nat
    BY DEF U
  <2> QED
    BY <1>1, <2>1, LeastNumber, Zenon
<1>3. u \in 0 .. n /\ S \subseteq 1 .. u
  BY <1>1, <1>2
<1>4. u # 0 => u \in S
  <2>1. ASSUME u # 0, u \notin S PROVE u - 1 \in U
    BY <2>1, <1>3
  <2>2. ~(u <= u - 1)
    BY <1>3
  <2> QED
    BY <2>1, <2>2, <1>2
<1>5. S = 1 .. u
  <2>1. \A j \in 1 .. u : j \in S
    BY <1>3, <1>4
  <2> QED
    BY <1>3, <2>1
<1>6. Cardinality(1 .. u) = u
  BY <1>3, FS_Interval
<1> QED
  BY <1>3, <1>5, <1>6

\* The reports of the past are the first ones.
LEMMA PastIsPrefix ==
  ASSUME Clean(reports), NEW now \in Nat
  PROVE  /\ Known(now) \in 0 .. Len(reports)
         /\ {k \in DOMAIN reports : reports[k].ts <= now} = 1 .. Known(now)
<1> DEFINE S == {k \in DOMAIN reports : reports[k].ts <= now}
<1>1. /\ reports \in Seq(Report) /\ Len(reports) \in Nat /\ DOMAIN reports = 1 .. Len(reports)
      /\ \A i, j \in DOMAIN reports : i < j => reports[i].ts <= reports[j].ts
  BY DEF Clean
<1>2. \A k \in DOMAIN reports : reports[k].ts \in Nat
  <2>1. \A k \in DOMAIN reports : reports[k] \in Report
    BY <1>1, Element
  <2> QED
    BY <2>1 DEF Report
<1>3. \A k \in S : \A j \in 1 .. k : j \in S
  BY <1>1, <1>2
<1>4. S \in SUBSET (1 .. Len(reports))
  BY <1>1
<1> HIDE DEF S
<1>5. Cardinality(S) \in 0 .. Len(reports) /\ S = 1 .. Cardinality(S)
  BY <1>1, <1>3, <1>4, Leading
<1> QED
  BY <1>5 DEF S, Known

\* How many come after one of them.
LEMMA LaterThan ==
  ASSUME NEW n \in Nat, NEW k \in 1 .. n
  PROVE  Cardinality({j \in 1 .. n : j > k}) = n - k
<1>1. {j \in 1 .. n : j > k} = k + 1 .. n
  OBVIOUS
<1>2. k + 1 \in Int /\ n \in Int
  OBVIOUS
<1>3. Cardinality(k + 1 .. n) = IF k + 1 > n THEN 0 ELSE n - (k + 1) + 1
  BY <1>2, FS_Interval
<1>4. Cardinality(k + 1 .. n) = n - k
  BY <1>3
<1> QED
  BY <1>1, <1>4, Zenon

\* The positions that a drawing among the last c of n can reach.
LEMMA DrawsReach ==
  ASSUME NEW n \in Nat, NEW c \in Nat \ {0}, c <= n, NEW D \in SUBSET Nat, 0 .. c - 1 \subseteq D
  PROVE  {n - (d % c) : d \in D} = n - c + 1 .. n
<1>1. \A d \in Nat : d % c \in 0 .. c - 1
  OBVIOUS
<1>2. \A d \in D : n - (d % c) \in n - c + 1 .. n
  BY <1>1
<1>3. ASSUME NEW k \in n - c + 1 .. n PROVE \E d \in D : k = n - (d % c)
  <2>1. n - k \in 0 .. c - 1 /\ n - k \in Nat /\ n - k < c
    OBVIOUS
  <2>2. \A x \in Nat : x < c => x % c = x
    OBVIOUS
  <2>3. n - k \in D /\ (n - k) % c = n - k
    BY <2>1, <2>2
  <2> QED
    BY <2>3
<1> QED
  BY <1>2, <1>3

\* What WindowExact says of one event.
WindowsRight(now, i) ==
  LET past == {k \in DOMAIN reports : reports[k].ts <= now}
      Later(k) == Cardinality({j \in past : j > k})
      latest(n) == {k \in past : Later(k) < n}
  IN /\ \A age \in Ages : Each(now, i, age, 0) = {k \in past : now - reports[k].ts <= age}
     /\ \A n \in Lengths :
          /\ Each(now, i, 0, n) = latest(n)
          /\ AtOffset(now, i, n) = {k \in past : Later(k) = n}
          /\ UNION {SampleLast(now, i, n, d) : d \in Draws} = latest(n)

LEMMA WindowsAt ==
  ASSUME Clean(reports), NEW now \in Nat, NEW i, i \in DOMAIN upper, upper[i] = Known(now)
  PROVE  WindowsRight(now, i)
<1> DEFINE past == {k \in DOMAIN reports : reports[k].ts <= now}
           Later(k) == Cardinality({j \in past : j > k})
           latest(n) == {k \in past : Later(k) < n}
           last == Known(now)
<1>1. last \in Nat /\ last <= Len(reports) /\ past = 1 .. last
  BY PastIsPrefix DEF Clean
<1>2. UpperBound(now, i) = last
  BY DEF UpperBound
<1>3. /\ reports \in Seq(Report) /\ Len(reports) \in Nat /\ DOMAIN reports = 1 .. Len(reports)
      /\ \A k, j \in DOMAIN reports : k < j => reports[k].ts <= reports[j].ts
  BY DEF Clean
<1>4. \A k \in DOMAIN reports : reports[k].ts \in Nat
  <2>1. \A k \in DOMAIN reports : reports[k] \in Report
    BY <1>3, Element
  <2> QED
    BY <2>1 DEF Report
<1> HIDE DEF past, last
<1>5. \A k \in past : Later(k) = last - k
  BY <1>1, LaterThan
<1> HIDE DEF Later
<1>6. \A n \in Nat : latest(n) = {k \in 1 .. last : last - k < n}
  BY <1>1, <1>5
<1>7. ASSUME NEW age \in Ages
      PROVE  Each(now, i, age, 0) = {k \in past : now - reports[k].ts <= age}
  <2> DEFINE Old == {k \in 1 .. last : reports[k].ts < now - age}
  <2>1. age \in Nat
    BY WindowsAssumption
  <2>2. Old \in SUBSET (1 .. last)
    OBVIOUS
  <2>3. \A k \in Old : \A j \in 1 .. k : j \in Old
    BY <2>1, <1>1, <1>3, <1>4
  <2>4. Each(now, i, age, 0) = Cardinality(Old) + 1 .. last
    BY <1>2 DEF Each
  <2>5. \A k \in 1 .. last : k \notin Old <=> now - reports[k].ts <= age
    BY <2>1, <1>1, <1>3, <1>4
  <2> HIDE DEF Old
  <2>6. Cardinality(Old) \in 0 .. last /\ Old = 1 .. Cardinality(Old)
    BY <1>1, <2>2, <2>3, Leading
  <2>7. \A k : k \in Cardinality(Old) + 1 .. last <=> k \in 1 .. last /\ k \notin Old
    <3> DEFINE c == Cardinality(Old)
    <3>1. c \in 0 .. last /\ Old = 1 .. c
      BY <2>6
    <3> HIDE DEF c
    <3>2. \A k : k \in c + 1 .. last <=> k \in 1 .. last /\ k \notin 1 .. c
      BY <3>1, <1>1
    <3> QED
      BY <3>1, <3>2 DEF c
  <2> QED
    BY <2>4, <2>5, <2>7, <1>1
<1>8. ASSUME NEW n \in Lengths
      PROVE  /\ Each(now, i, 0, n) = latest(n)
             /\ AtOffset(now, i, n) = {k \in past : Later(k) = n}
             /\ UNION {SampleLast(now, i, n, d) : d \in Draws} = latest(n)
  <2>1. n \in Nat \ {0} /\ 0 .. n - 1 \subseteq Draws /\ Draws \in SUBSET Nat
    BY WindowsAssumption
  <2>2. LeastOf(n, last) = IF n < last THEN n ELSE last
    BY DEF LeastOf
  <2>3. Each(now, i, 0, n) = latest(n)
    <3>1. Each(now, i, 0, n) = (last - LeastOf(n, last)) + 1 .. last
      BY <2>1, <1>2 DEF Each
    <3>2. latest(n) = {k \in 1 .. last : last - k < n}
      BY <1>6, <2>1
    <3> HIDE DEF latest
    <3> QED
      BY <3>1, <3>2, <2>1, <2>2, <1>1
  <2>4. AtOffset(now, i, n) = {k \in past : Later(k) = n}
    <3>1. {k \in past : Later(k) = n} = {k \in 1 .. last : last - k = n}
      BY <1>1, <1>5
    <3>2. AtOffset(now, i, n) = IF n >= last THEN {} ELSE {last - n}
      BY <1>2 DEF AtOffset
    <3>3. {k \in 1 .. last : last - k = n} = IF n >= last THEN {} ELSE {last - n}
      BY <1>1, <2>1
    <3> QED
      BY <3>1, <3>2, <3>3
  <2>5. UNION {SampleLast(now, i, n, d) : d \in Draws} = latest(n)
    <3> DEFINE c == LeastOf(n, last)
    <3>1. c \in Nat /\ c <= last /\ (c = 0 <=> last = 0) /\ 0 .. c - 1 \subseteq Draws
      BY <2>1, <2>2, <1>1
    <3>2. latest(n) = {k \in 1 .. last : last - k < n}
      BY <1>6, <2>1
    <3>3. latest(n) = last - c + 1 .. last
      <4> HIDE DEF latest
      <4> QED
        BY <3>2, <2>1, <2>2, <1>1
    <3>4. \A d : SampleLast(now, i, n, d) = IF c = 0 THEN {} ELSE {last - (d % c)}
      BY <1>2 DEF SampleLast
    <3> HIDE DEF c, latest
    <3>5. CASE c = 0
      BY <3>1, <3>3, <3>4, <3>5
    <3>6. CASE c # 0
      <4>1. UNION {SampleLast(now, i, n, d) : d \in Draws} = {last - (d % c) : d \in Draws}
        BY <3>4, <3>6
      <4>2. {last - (d % c) : d \in Draws} = last - c + 1 .. last
        BY <3>1, <3>6, <2>1, <1>1, DrawsReach
      <4> QED
        BY <4>1, <4>2, <3>3
    <3> QED
      BY <3>5, <3>6
  <2> QED
    BY <2>3, <2>4, <2>5
<1> QED
  BY <1>7, <1>8 DEF past, Later, WindowsRight

\* Seen from any event of a loaded market, the windows by age, by count, at an offset and
\* drawn hold exactly the reports they name, none of the future (ReportWindow).
THEOREM WindowAlwaysExact == Spec => []WindowExact
<1> DEFINE I == TapeTypeOK /\ TapeFlow /\ FeedInv /\ UpperInv
<1>1. Init => I
  BY TapeBegins DEF Init, TapeInit, FeedInv, Clean, UpperInv
<1>2. I /\ [Next]_vars => I'
  BY TapeSteps, TapeTypes, FeedStep, UpperStep
<1>3. I => WindowExact
  <2> SUFFICES ASSUME I, Loaded, reports # << >>, NEW i \in DOMAIN events
               PROVE  WindowsRight(events[i].ts, i)
    BY DEF WindowExact, WindowsRight
  <2>1. events[i].ts \in Nat
    <3>1. events[i] \in MarketEvent
      BY Element DEF TapeTypeOK
    <3> QED
      BY <3>1 DEF MarketEvent
  <2>2. Clean(reports) /\ i \in DOMAIN upper /\ upper[i] = Known(events[i].ts)
    BY DEF FeedInv, UpperInv, Loaded
  <2> QED
    BY <2>1, <2>2, WindowsAt
<1> QED
  BY <1>1, <1>2, <1>3, PTL DEF Spec

-----------------------------------------------------------------------------
(* Patches, one on the other. *)

IsStack(s, base, patches, n) ==
  s = [a \in 0 .. n |-> IF a = 0 THEN base ELSE Overlay(s[a - 1], patches[a])]

LEMMA StackExists ==
  ASSUME NEW base, NEW patches, NEW n \in Nat
  PROVE  \E s : IsStack(s, base, patches, n)
<1> DEFINE Rec(m, s) == s = [a \in 0 .. m |-> IF a = 0 THEN base ELSE Overlay(s[a - 1], patches[a])]
           Bad == {m \in Nat : ~\E s : Rec(m, s)}
<1>1. ASSUME Bad # {} PROVE FALSE
  <2>1. Bad \in SUBSET Nat
    OBVIOUS
  <2>2. PICK m \in Bad : \A k \in Bad : m <= k
    <3> HIDE DEF Bad
    <3> QED
      BY <1>1, <2>1, LeastNumber, Zenon
  <2>3. CASE m = 0
    <3>1. Rec(0, [a \in 0 .. 0 |-> base])
      OBVIOUS
    <3> QED
      BY <2>2, <2>3, <3>1
  <2>4. CASE m # 0
    <3>1. m - 1 \in Nat /\ m - 1 \notin Bad
      <4>1. m \in Nat
        BY <2>1, <2>2
      <4> HIDE DEF Bad
      <4> QED
        BY <4>1, <2>2, <2>4
    <3>2. PICK t : Rec(m - 1, t)
      BY <3>1
    <3> DEFINE s == [a \in 0 .. m |-> IF a = m THEN Overlay(t[m - 1], patches[m]) ELSE t[a]]
    <3>3. \A a \in 0 .. m : s[a] = IF a = 0 THEN base ELSE Overlay(s[a - 1], patches[a])
      <4> SUFFICES ASSUME NEW a \in 0 .. m
                   PROVE  s[a] = IF a = 0 THEN base ELSE Overlay(s[a - 1], patches[a])
        OBVIOUS
      <4>1. CASE a = m
        BY <4>1, <3>1, <2>4
      <4>2. CASE a # m
        <5>1. a \in 0 .. m - 1 /\ s[a] = t[a]
          BY <4>2, <3>1
        <5>2. t[a] = IF a = 0 THEN base ELSE Overlay(t[a - 1], patches[a])
          BY <3>2, <5>1
        <5>3. a # 0 => s[a - 1] = t[a - 1]
          BY <5>1, <3>1
        <5> QED
          BY <5>1, <5>2, <5>3
      <4> QED
        BY <4>1, <4>2
    <3>4. Rec(m, s)
      BY <3>3
    <3> QED
      BY <3>4, <2>2
  <2> QED
    BY <2>3, <2>4
<1>2. n \notin Bad
  BY <1>1
<1>3. \E s : Rec(n, s)
  BY <1>2
<1> QED
  BY <1>3 DEF IsStack

\* The value of a field is that of the last patch that sets it, of the base if none does.
FieldFrom(base, patches, n, f, value) ==
  \/ /\ f \in DOMAIN base /\ \A a \in 1 .. n : f \notin DOMAIN patches[a]
     /\ value = base[f]
  \/ \E a \in 1 .. n :
       /\ f \in DOMAIN patches[a] /\ value = patches[a][f]
       /\ \A b \in a + 1 .. n : f \notin DOMAIN patches[b]

LEMMA StackField ==
  ASSUME NEW base, NEW patches, NEW n \in Nat, Len(patches) = n, DOMAIN patches = 1 .. n
  PROVE  /\ DOMAIN Stacked(base, patches) = DOMAIN base \cup UNION {DOMAIN patches[a] : a \in 1 .. n}
         /\ \A f \in DOMAIN Stacked(base, patches) :
              FieldFrom(base, patches, n, f, Stacked(base, patches)[f])
<1> DEFINE s == CHOOSE t : IsStack(t, base, patches, n)
<1>1. IsStack(s, base, patches, n)
  BY StackExists, Zenon
<1>2. Stacked(base, patches) = s[n]
  BY DEF Stacked, IsStack
<1> HIDE DEF s
<1>3. s[0] = base /\ \A a \in 1 .. n : s[a] = Overlay(s[a - 1], patches[a])
  BY <1>1 DEF IsStack
<1> DEFINE Holds(m) ==
             /\ DOMAIN s[m] = DOMAIN base \cup UNION {DOMAIN patches[a] : a \in 1 .. m}
             /\ \A f \in DOMAIN s[m] :
                  \/ /\ f \in DOMAIN base /\ \A a \in 1 .. m : f \notin DOMAIN patches[a]
                     /\ s[m][f] = base[f]
                  \/ \E a \in 1 .. m :
                       /\ f \in DOMAIN patches[a] /\ s[m][f] = patches[a][f]
                       /\ \A b \in a + 1 .. m : f \notin DOMAIN patches[b]
           Bad == {m \in 0 .. n : ~Holds(m)}
<1>4. ASSUME Bad # {} PROVE FALSE
  <2>1. Bad \in SUBSET Nat
    OBVIOUS
  <2>2. PICK m \in Bad : \A k \in Bad : m <= k
    <3> HIDE DEF Bad
    <3> QED
      BY <1>4, <2>1, LeastNumber, Zenon
  <2>3. CASE m = 0
    <3>1. 1 .. 0 = {}
      OBVIOUS
    <3>2. Holds(0)
      BY <1>3, <3>1
    <3> QED
      BY <2>2, <2>3, <3>2
  <2>4. CASE m # 0
    <3>1. m \in 1 .. n /\ m - 1 \in 0 .. n /\ m - 1 \notin Bad
      BY <2>2, <2>4
    <3>2. Holds(m - 1)
      BY <3>1
    <3> DEFINE t == s[m - 1]
               q == patches[m]
    <3>3. s[m] = [f \in DOMAIN t \cup DOMAIN q |-> IF f \in DOMAIN q THEN q[f] ELSE t[f]]
      BY <1>3, <3>1 DEF Overlay
    <3>4. 1 .. m = (1 .. m - 1) \cup {m}
      BY <3>1
    <3>5. DOMAIN s[m] = DOMAIN base \cup UNION {DOMAIN patches[a] : a \in 1 .. m}
      <4>1. DOMAIN s[m] = DOMAIN t \cup DOMAIN q
        BY <3>3
      <4>2. DOMAIN t = DOMAIN base \cup UNION {DOMAIN patches[a] : a \in 1 .. m - 1}
        BY <3>2
      <4> QED
        BY <4>1, <4>2, <3>4
    <3>6. ASSUME NEW f \in DOMAIN s[m]
          PROVE  \/ /\ f \in DOMAIN base /\ \A a \in 1 .. m : f \notin DOMAIN patches[a]
                    /\ s[m][f] = base[f]
                 \/ \E a \in 1 .. m :
                      /\ f \in DOMAIN patches[a] /\ s[m][f] = patches[a][f]
                      /\ \A b \in a + 1 .. m : f \notin DOMAIN patches[b]
      <4>1. CASE f \in DOMAIN q
        <5>1. s[m][f] = patches[m][f] /\ m + 1 .. m = {} /\ m \in 1 .. m
          BY <3>1, <3>3, <4>1
        <5> QED
          BY <5>1, <4>1
      <4>2. CASE f \notin DOMAIN q
        <5>1. f \in DOMAIN t /\ s[m][f] = t[f]
          BY <3>3, <4>2
        <5>2. CASE /\ f \in DOMAIN base /\ \A a \in 1 .. m - 1 : f \notin DOMAIN patches[a]
                   /\ t[f] = base[f]
          BY <5>1, <5>2, <4>2, <3>4
        <5>3. ASSUME NEW a \in 1 .. m - 1, f \in DOMAIN patches[a], t[f] = patches[a][f],
                     \A b \in a + 1 .. m - 1 : f \notin DOMAIN patches[b]
              PROVE  \E c \in 1 .. m :
                      /\ f \in DOMAIN patches[c] /\ s[m][f] = patches[c][f]
                      /\ \A b \in c + 1 .. m : f \notin DOMAIN patches[b]
          <6>1. a \in 1 .. m /\ \A b \in a + 1 .. m : b \in a + 1 .. m - 1 \/ b = m
            BY <3>1
          <6> QED
            BY <6>1, <5>1, <5>3, <4>2
        <5>4. \/ /\ f \in DOMAIN base /\ \A a \in 1 .. m - 1 : f \notin DOMAIN patches[a]
                 /\ t[f] = base[f]
              \/ \E a \in 1 .. m - 1 :
                   /\ f \in DOMAIN patches[a] /\ t[f] = patches[a][f]
                   /\ \A b \in a + 1 .. m - 1 : f \notin DOMAIN patches[b]
          BY <3>2, <5>1
        <5> QED
          BY <5>2, <5>3, <5>4
      <4> QED
        BY <4>1, <4>2
    <3>7. Holds(m)
      BY <3>5, <3>6
    <3> QED
      BY <3>7, <2>2
  <2> QED
    BY <2>3, <2>4
<1>5. Holds(n)
  BY <1>4
<1> QED
  BY <1>2, <1>5 DEF FieldFrom

-----------------------------------------------------------------------------
(* Mixed radix. *)

\* A function on numbers may be defined step by step.
LEMMA Steps ==
  ASSUME NEW n \in Nat, NEW first \in Nat, NEW step \in [1 .. n -> [Nat -> Nat]]
  PROVE  \E s \in [0 .. n -> Nat] : s[0] = first /\ \A a \in 1 .. n : s[a] = step[a][s[a - 1]]
<1> DEFINE Rec(m, s) == s[0] = first /\ \A a \in 1 .. m : s[a] = step[a][s[a - 1]]
           Bad == {m \in 0 .. n : ~\E s \in [0 .. m -> Nat] : Rec(m, s)}
<1>1. ASSUME Bad # {} PROVE FALSE
  <2>1. Bad \in SUBSET Nat /\ Bad \subseteq 0 .. n
    OBVIOUS
  <2>2. PICK m \in Bad : \A k \in Bad : m <= k
    <3> HIDE DEF Bad
    <3> QED
      BY <1>1, <2>1, LeastNumber, Zenon
  <2>3. CASE m = 0
    <3> DEFINE s == [a \in 0 .. 0 |-> first]
    <3>1. s \in [0 .. 0 -> Nat] /\ Rec(0, s)
      OBVIOUS
    <3> HIDE DEF s
    <3> QED
      BY <2>2, <2>3, <3>1
  <2>4. CASE m # 0
    <3>1. m - 1 \in 0 .. n /\ m - 1 \notin Bad /\ m \in 1 .. n
      <4>1. m \in 0 .. n
        BY <2>1, <2>2
      <4> HIDE DEF Bad
      <4> QED
        BY <4>1, <2>2, <2>4
    <3>2. PICK t \in [0 .. m - 1 -> Nat] : Rec(m - 1, t)
      BY <3>1
    <3> DEFINE s == [a \in 0 .. m |-> IF a = m THEN step[m][t[m - 1]] ELSE t[a]]
    <3>20. /\ m \in Nat \ {0} /\ m - 1 \in Nat /\ 0 \in 0 .. m - 1 /\ m - 1 \in 0 .. m - 1
           /\ \A a \in 0 .. m : a = m \/ a \in 0 .. m - 1
      <4>1. m \in 1 .. n
        BY <3>1
      <4>2. m \in Nat \ {0}
        BY <4>1
      <4>3. \A x \in Nat \ {0} : /\ x - 1 \in Nat /\ 0 \in 0 .. x - 1 /\ x - 1 \in 0 .. x - 1
                                /\ \A a \in 0 .. x : a = x \/ a \in 0 .. x - 1
        OBVIOUS
      <4> QED
        BY <4>2, <4>3, Zenon
    <3>21. t[0] = first /\ \A a \in 0 .. m - 1 : t[a] \in Nat
      BY <3>2
    <3>3. step[m][t[m - 1]] \in Nat
      BY <3>1, <3>20, <3>21
    <3>4. s \in [0 .. m -> Nat]
      BY <3>20, <3>21, <3>3
    <3>5. /\ s[m] = step[m][t[m - 1]] /\ \A a \in 0 .. m - 1 : s[a] = t[a]
      BY <3>1
    <3> HIDE DEF s
    <3>6. Rec(m, s)
      <4>1. s[0] = first
        BY <3>20, <3>21, <3>5
      <4>2. ASSUME NEW a \in 1 .. m PROVE s[a] = step[a][s[a - 1]]
        <5>1. CASE a = m
          BY <5>1, <3>20, <3>5
        <5>2. CASE a # m
          <6>1. a \in 1 .. m - 1 /\ a \in 0 .. m - 1 /\ a - 1 \in 0 .. m - 1
            BY <3>1, <5>2
          <6>2. t[a] = step[a][t[a - 1]]
            BY <3>2, <6>1
          <6> QED
            BY <6>1, <6>2, <3>5
        <5> QED
          BY <5>1, <5>2
      <4> QED
        BY <4>1, <4>2
    <3> QED
      BY <3>4, <3>6, <2>2
  <2> QED
    BY <2>3, <2>4
<1>2. n \notin Bad /\ n \in 0 .. n
  <2> HIDE DEF Bad
  <2> QED
    BY <1>1
<1>3. \E s \in [0 .. n -> Nat] : Rec(n, s)
  <2> HIDE DEF Rec
  <2> QED
    BY <1>2
<1> QED
  BY <1>3

\* The parsed lists of a grid, and no empty axis.
Shaped(g) ==
  /\ Len(g.order) \in Nat /\ AxisNumbers(g) = 1 .. Len(g.order)
  /\ \A a \in AxisNumbers(g) :
       Len(Values(g, a)) \in Nat \ {0} /\ DOMAIN Values(g, a) = 1 .. Len(Values(g, a))

IsTotal(s, g, n) ==
  s = [a \in 0 .. n |-> IF a = 0 THEN 1 ELSE s[a - 1] * Len(Values(g, a))]

LEMMA OrdinalsOf ==
  ASSUME NEW g, Shaped(g)
  PROVE  /\ Ordinals(g, 0) = 1
         /\ \A m \in AxisNumbers(g) : Ordinals(g, m) = Ordinals(g, m - 1) * Len(Values(g, m))
         /\ \A m \in 0 .. Len(g.order) : Ordinals(g, m) \in Nat \ {0}
<1> DEFINE N == Len(g.order)
           L(a) == Len(Values(g, a))
<1>1. N \in Nat /\ AxisNumbers(g) = 1 .. N /\ \A a \in 1 .. N : L(a) \in Nat \ {0}
  BY DEF Shaped
<1> HIDE DEF N, L
<1>2. PICK s \in [0 .. N -> Nat] : s[0] = 1 /\ \A a \in 1 .. N : s[a] = s[a - 1] * L(a)
  <2> DEFINE step == [a \in 1 .. N |-> [x \in Nat |-> x * L(a)]]
  <2>1. step \in [1 .. N -> [Nat -> Nat]]
    BY <1>1
  <2>2. \A a \in 1 .. N, x \in Nat : step[a][x] = x * L(a)
    OBVIOUS
  <2> HIDE DEF step
  <2>3. PICK s \in [0 .. N -> Nat] : s[0] = 1 /\ \A a \in 1 .. N : s[a] = step[a][s[a - 1]]
    BY <2>1, <1>1, 1 \in Nat, Steps, Zenon
  <2>4. \A a \in 1 .. N : s[a - 1] \in Nat
    BY <1>1
  <2> QED
    BY <2>2, <2>3, <2>4
<1>3. ASSUME NEW m \in 0 .. N
      PROVE  Ordinals(g, m) = s[m]
  <2> DEFINE t == CHOOSE t : IsTotal(t, g, m)
             u == [a \in 0 .. m |-> s[a]]
  <2>1. IsTotal(u, g, m)
    <3>1. \A a \in 0 .. m : u[a] = IF a = 0 THEN 1 ELSE u[a - 1] * L(a)
      BY <1>1, <1>2
    <3> QED
      BY <3>1 DEF IsTotal, L
  <2>2. IsTotal(t, g, m)
    BY <2>1, Zenon
  <2>3. Ordinals(g, m) = t[m]
    BY DEF Ordinals, IsTotal
  <2> HIDE DEF t, u
  <2>4. \A a \in 0 .. m : t[a] = IF a = 0 THEN 1 ELSE t[a - 1] * L(a)
    BY <2>2 DEF IsTotal, L
  <2> DEFINE Bad == {a \in 0 .. m : t[a] # s[a]}
  <2>5. ASSUME Bad # {} PROVE FALSE
    <3>1. Bad \in SUBSET Nat
      OBVIOUS
    <3>2. PICK a \in Bad : \A b \in Bad : a <= b
      <4> HIDE DEF Bad
      <4> QED
        BY <2>5, <3>1, LeastNumber, Zenon
    <3>3. a \in 0 .. m /\ t[a] # s[a]
      BY <3>2
    <3>4. a # 0
      BY <3>3, <2>4, <1>2
    <3>5. a - 1 \in 0 .. m /\ a \in 1 .. N /\ ~(a <= a - 1)
      BY <3>3, <3>4, <1>1
    <3>6. t[a - 1] = s[a - 1]
      BY <3>2, <3>5
    <3> QED
      BY <3>3, <3>4, <3>5, <3>6, <2>4, <1>2
  <2>6. t[m] = s[m]
    BY <2>5
  <2> QED
    BY <2>3, <2>6
<1>4. ASSUME NEW m \in 1 .. N PROVE Ordinals(g, m) = Ordinals(g, m - 1) * L(m)
  <2>1. m \in 0 .. N /\ m - 1 \in 0 .. N
    BY <1>1
  <2> QED
    BY <2>1, <1>2, <1>3
<1>5. \A m \in 0 .. N : s[m] # 0
  <2> DEFINE Bad == {m \in 0 .. N : s[m] = 0}
  <2>1. ASSUME Bad # {} PROVE FALSE
    <3>1. Bad \in SUBSET Nat
      OBVIOUS
    <3>2. PICK a \in Bad : \A b \in Bad : a <= b
      <4> HIDE DEF Bad
      <4> QED
        BY <2>1, <3>1, LeastNumber, Zenon
    <3>3. a \in 0 .. N /\ s[a] = 0 /\ a # 0
      BY <3>2, <1>2
    <3>4. a - 1 \in 0 .. N /\ a \in 1 .. N /\ ~(a <= a - 1)
      BY <3>3, <1>1
    <3>5. s[a - 1] # 0 /\ s[a - 1] \in Nat
      BY <3>2, <3>4, <1>2
    <3>6. \A x, y \in Nat \ {0} : x * y # 0
      OBVIOUS
    <3> QED
      BY <3>3, <3>4, <3>5, <3>6, <1>1, <1>2
  <2> QED
    BY <2>1
<1>6. Ordinals(g, 0) = 1
  BY <1>1, <1>2, <1>3
<1>7. \A m \in 0 .. N : Ordinals(g, m) \in Nat \ {0}
  BY <1>2, <1>3, <1>5
<1> QED
  BY <1>1, <1>4, <1>6, <1>7 DEF N, L

LEMMA Digits ==
  ASSUME NEW l \in Nat \ {0}
  PROVE  /\ \A x \in Nat : x \div l \in Nat /\ x % l \in 0 .. l - 1 /\ x = l * (x \div l) + (x % l)
         /\ \A h \in Nat, d \in 0 .. l - 1 : (h * l + d) \div l = h /\ (h * l + d) % l = d
<1>1. \A x \in Nat : x \div l \in Nat /\ x % l \in 0 .. l - 1 /\ x = l * (x \div l) + (x % l)
  OBVIOUS
<1>2. ASSUME NEW h \in Nat, NEW d \in 0 .. l - 1
      PROVE  (h * l + d) \div l = h /\ (h * l + d) % l = d
  <2> DEFINE x == h * l + d
             q == x \div l
             e == x % l
  <2>1. x \in Nat
    OBVIOUS
  <2>2. q \in Nat /\ e \in 0 .. l - 1 /\ x = l * q + e
    BY <2>1, <1>1
  <2> HIDE DEF q, e
  <2>3. h * l + d = l * q + e
    BY <2>2
  <2>4. CASE q < h
    <3>1. q + 1 <= h
      BY <2>2, <2>4
    <3>2. (q + 1) * l <= h * l
      BY <3>1, <2>2
    <3> QED
      BY <3>2, <2>2, <2>3
  <2>5. CASE q > h
    <3>1. h + 1 <= q
      BY <2>2, <2>5
    <3>2. (h + 1) * l <= q * l
      BY <3>1, <2>2
    <3> QED
      BY <3>2, <2>2, <2>3
  <2>6. q = h
    BY <2>2, <2>4, <2>5
  <2>7. e = d
    BY <2>3, <2>6, <2>2
  <2> QED
    BY <2>6, <2>7 DEF q, e
<1> QED
  BY <1>1, <1>2

\* Digits keep the order of numbers.
LEMMA DigitsOrdered ==
  ASSUME NEW l \in Nat \ {0}, NEW x \in Nat, NEW y \in Nat, x < y
  PROVE  x \div l <= y \div l /\ (x \div l = y \div l => x % l < y % l)
<1> DEFINE p == x \div l
           q == y \div l
           c == x % l
           d == y % l
<1>1. /\ p \in Nat /\ q \in Nat /\ c \in 0 .. l - 1 /\ d \in 0 .. l - 1
      /\ x = l * p + c /\ y = l * q + d
  BY Digits
<1> HIDE DEF p, q, c, d
<1>2. ~(q < p)
  <2>1. ASSUME q < p PROVE FALSE
    <3>1. q + 1 <= p
      BY <2>1, <1>1
    <3>2. (q + 1) * l <= p * l
      BY <3>1, <1>1
    <3> QED
      BY <3>2, <1>1
  <2> QED
    BY <2>1
<1>3. p = q => c < d
  BY <1>1
<1> QED
  BY <1>1, <1>2, <1>3 DEF p, q, c, d

LEMMA QuotientBelow ==
  ASSUME NEW l \in Nat \ {0}, NEW x \in Nat, NEW t \in Nat, x < t * l
  PROVE  x \div l < t
<1> DEFINE q == x \div l
           c == x % l
<1>1. q \in Nat /\ c \in 0 .. l - 1 /\ x = l * q + c
  BY Digits
<1> HIDE DEF q, c
<1>2. ASSUME q >= t PROVE FALSE
  <2>1. q * l >= t * l
    BY <1>1, <1>2
  <2> QED
    BY <2>1, <1>1
<1> QED
  BY <1>1, <1>2 DEF q

\* What is left of an ordinal when its last axes have been taken.
IsLeft(s, g, ordinal) ==
  s = [k \in 0 .. Len(g.order) |->
         IF k = 0 THEN ordinal ELSE s[k - 1] \div Len(Values(g, Len(g.order) - k + 1))]
Left(g, ordinal) == CHOOSE s : IsLeft(s, g, ordinal)

LEMMA LeftOf ==
  ASSUME NEW g, Shaped(g), NEW o \in Nat
  PROVE  LET n == Len(g.order) IN
         /\ Left(g, o) \in [0 .. n -> Nat] /\ Left(g, o)[0] = o
         /\ \A k \in 1 .. n : Left(g, o)[k] = Left(g, o)[k - 1] \div Len(Values(g, n - k + 1))
         /\ Coordinates(g, o) = [a \in 1 .. n |-> (Left(g, o)[n - a] % Len(Values(g, a))) + 1]
<1> DEFINE N == Len(g.order)
           L(a) == Len(Values(g, a))
<1>1. N \in Nat /\ AxisNumbers(g) = 1 .. N /\ \A a \in 1 .. N : L(a) \in Nat \ {0}
  BY DEF Shaped
<1> HIDE DEF N, L
<1>2. \A k \in 1 .. N : N - k + 1 \in 1 .. N
  BY <1>1
<1>3. PICK s \in [0 .. N -> Nat] :
         s[0] = o /\ \A k \in 1 .. N : s[k] = s[k - 1] \div L(N - k + 1)
  <2> DEFINE step == [k \in 1 .. N |-> [x \in Nat |-> x \div L(N - k + 1)]]
  <2>1. \A k \in 1 .. N, x \in Nat : x \div L(N - k + 1) \in Nat
    BY <1>1, <1>2, Digits
  <2>2. step \in [1 .. N -> [Nat -> Nat]]
    BY <2>1
  <2>3. \A a \in 1 .. N, x \in Nat : step[a][x] = x \div L(N - a + 1)
    OBVIOUS
  <2> HIDE DEF step
  <2>4. PICK s \in [0 .. N -> Nat] : s[0] = o /\ \A a \in 1 .. N : s[a] = step[a][s[a - 1]]
    BY <2>2, <1>1, Steps, Zenon
  <2>5. \A a \in 1 .. N : s[a - 1] \in Nat
    BY <1>1
  <2>6. ASSUME NEW a \in 1 .. N PROVE s[a] = s[a - 1] \div L(N - a + 1)
    <3>1. s[a] = step[a][s[a - 1]] /\ s[a - 1] \in Nat
      BY <2>4, <2>5, Zenon
    <3>2. step[a][s[a - 1]] = s[a - 1] \div L(N - a + 1)
      BY <2>3, <3>1, Zenon
    <3> QED
      BY <3>1, <3>2, Zenon
  <2> QED
    BY <2>4, <2>6, Zenon
<1>4. IsLeft(s, g, o)
  <2>1. \A k \in 0 .. N : s[k] = IF k = 0 THEN o ELSE s[k - 1] \div L(N - k + 1)
    BY <1>1, <1>3
  <2> QED
    BY <2>1 DEF IsLeft, L, N
<1>5. IsLeft(Left(g, o), g, o)
  BY <1>4, Zenon DEF Left
<1> DEFINE t == Left(g, o)
<1>6. Coordinates(g, o) = [a \in 1 .. N |-> (t[N - a] % L(a)) + 1]
  BY <1>1 DEF Coordinates, Left, IsLeft, N, L
<1> HIDE DEF t
<1>7. \A k \in 0 .. N : t[k] = IF k = 0 THEN o ELSE t[k - 1] \div L(N - k + 1)
  BY <1>5 DEF IsLeft, L, N, t
<1>8. DOMAIN t = 0 .. N /\ t = [k \in DOMAIN t |-> t[k]]
  BY <1>5 DEF IsLeft, L, N, t
<1>9. \A k \in 0 .. N : t[k] = s[k]
  <2> DEFINE Bad == {k \in 0 .. N : t[k] # s[k]}
  <2>1. ASSUME Bad # {} PROVE FALSE
    <3>1. Bad \in SUBSET Nat
      OBVIOUS
    <3>2. PICK a \in Bad : \A b \in Bad : a <= b
      <4> HIDE DEF Bad
      <4> QED
        BY <2>1, <3>1, LeastNumber, Zenon
    <3>3. a \in 0 .. N /\ t[a] # s[a]
      BY <3>2
    <3>4. a # 0
      BY <3>3, <1>7, <1>3
    <3>5. a - 1 \in 0 .. N /\ a \in 1 .. N /\ ~(a <= a - 1)
      BY <3>3, <3>4, <1>1
    <3>6. t[a - 1] = s[a - 1]
      BY <3>2, <3>5
    <3> QED
      BY <3>3, <3>4, <3>5, <3>6, <1>7, <1>3
  <2> QED
    BY <2>1
<1>10. t \in [0 .. N -> Nat]
  BY <1>8, <1>9, <1>3
<1>11. t[0] = o /\ \A k \in 1 .. N : t[k] = t[k - 1] \div L(N - k + 1)
  BY <1>7, <1>1
<1> QED
  BY <1>6, <1>10, <1>11 DEF N, L, t

\* After k axes less is left than the others have points.
LEMMA LeftBelow ==
  ASSUME NEW g, Shaped(g), NEW o \in Nat, o < Ordinals(g, Len(g.order)),
         NEW k \in 0 .. Len(g.order)
  PROVE  Left(g, o)[k] < Ordinals(g, Len(g.order) - k)
<1> DEFINE N == Len(g.order)
           L(a) == Len(Values(g, a))
           T(m) == Ordinals(g, m)
           t == Left(g, o)
<1>1. N \in Nat /\ AxisNumbers(g) = 1 .. N /\ \A a \in 1 .. N : L(a) \in Nat \ {0}
  BY DEF Shaped
<1>2. /\ t \in [0 .. N -> Nat] /\ t[0] = o
      /\ \A j \in 1 .. N : t[j] = t[j - 1] \div L(N - j + 1)
  BY LeftOf
<1>3. /\ \A m \in 1 .. N : T(m) = T(m - 1) * L(m)
      /\ \A m \in 0 .. N : T(m) \in Nat \ {0}
  BY <1>1, OrdinalsOf
<1>4. k \in 0 .. N /\ o < T(N)
  OBVIOUS
<1> HIDE DEF N, L, T, t
<1> DEFINE Bad == {j \in 0 .. N : ~(t[j] < T(N - j))}
<1>5. ASSUME Bad # {} PROVE FALSE
  <2>1. Bad \in SUBSET Nat
    OBVIOUS
  <2>2. PICK a \in Bad : \A b \in Bad : a <= b
    <3> HIDE DEF Bad
    <3> QED
      BY <1>5, <2>1, LeastNumber, Zenon
  <2>3. a \in 0 .. N /\ ~(t[a] < T(N - a))
    BY <2>2
  <2>4. a # 0
    <3>1. N - 0 = N
      BY <1>1
    <3> QED
      BY <2>3, <1>2, <1>4, <3>1
  <2>5. a - 1 \in 0 .. N /\ a \in 1 .. N /\ ~(a <= a - 1)
    BY <2>3, <2>4, <1>1
  <2>6. t[a - 1] < T(N - (a - 1)) /\ t[a - 1] \in Nat
    BY <2>2, <2>5, <1>2
  <2>7. N - (a - 1) = N - a + 1 /\ N - a + 1 \in 1 .. N /\ N - a \in 0 .. N /\ (N - a + 1) - 1 = N - a
    BY <2>5, <1>1
  <2>8. T(N - a + 1) = T(N - a) * L(N - a + 1) /\ T(N - a) \in Nat /\ L(N - a + 1) \in Nat \ {0}
    BY <2>7, <1>1, <1>3
  <2>9. t[a] = t[a - 1] \div L(N - a + 1)
    BY <2>5, <1>2
  <2>10. t[a - 1] < T(N - a) * L(N - a + 1)
    BY <2>6, <2>7, <2>8
  <2>11. t[a - 1] \div L(N - a + 1) < T(N - a)
    BY <2>6, <2>8, <2>10, QuotientBelow
  <2> QED
    BY <2>3, <2>9, <2>11
<1>6. t[k] < T(N - k)
  BY <1>4, <1>5
<1> QED
  BY <1>6 DEF N, T, t

\* The ordinals of a grid in their order are its points in theirs.
LEMMA OrderKept ==
  ASSUME NEW g, Shaped(g), NEW o1 \in Nat, NEW o2 \in Nat, o1 < o2, o2 < Ordinals(g, Len(g.order))
  PROVE  Before(g, Coordinates(g, o1), Coordinates(g, o2))
<1> DEFINE N == Len(g.order)
           L(a) == Len(Values(g, a))
           s == Left(g, o1)
           t == Left(g, o2)
           v == Coordinates(g, o1)
           w == Coordinates(g, o2)
<1>1. N \in Nat /\ AxisNumbers(g) = 1 .. N /\ \A a \in 1 .. N : L(a) \in Nat \ {0}
  BY DEF Shaped
<1>2. /\ s \in [0 .. N -> Nat] /\ s[0] = o1
      /\ \A j \in 1 .. N : s[j] = s[j - 1] \div L(N - j + 1)
      /\ v = [a \in 1 .. N |-> (s[N - a] % L(a)) + 1]
  BY LeftOf
<1>3. /\ t \in [0 .. N -> Nat] /\ t[0] = o2
      /\ \A j \in 1 .. N : t[j] = t[j - 1] \div L(N - j + 1)
      /\ w = [a \in 1 .. N |-> (t[N - a] % L(a)) + 1]
  BY LeftOf
<1>4. s[N] = 0 /\ t[N] = 0
  <2>1. Ordinals(g, 0) = 1
    BY OrdinalsOf
  <2>2. N \in 0 .. Len(g.order) /\ Len(g.order) - N = 0
    BY <1>1
  <2>3. Ordinals(g, Len(g.order)) \in Nat
    BY <2>2, OrdinalsOf
  <2>4. o1 < Ordinals(g, Len(g.order))
    BY <2>3
  <2>5. s[N] < Ordinals(g, Len(g.order) - N) /\ t[N] < Ordinals(g, Len(g.order) - N)
    BY <2>2, <2>4, LeftBelow
  <2>6. s[N] < 1 /\ t[N] < 1
    BY <2>1, <2>2, <2>5
  <2> QED
    <3> HIDE DEF N, s, t
    <3>1. s[N] \in Nat /\ t[N] \in Nat
      BY <1>1, <1>2, <1>3
    <3> QED
      BY <2>6, <3>1
<1> HIDE DEF N, L, s, t, v, w
<1> DEFINE Same == {k \in 0 .. N : s[k] = t[k]}
<1>5. PICK k \in Same : \A j \in Same : k <= j
  <2>1. Same \in SUBSET Nat /\ N \in Same
    BY <1>1, <1>4
  <2> HIDE DEF Same
  <2> QED
    BY <2>1, LeastNumber
<1>6. k \in 1 .. N /\ s[k] = t[k] /\ k - 1 \in 0 .. N
  <2>1. k \in 0 .. N /\ s[k] = t[k]
    BY <1>5
  <2>2. k # 0
    BY <2>1, <1>2, <1>3
  <2> QED
    BY <2>1, <2>2, <1>1
<1>7. \A j \in 0 .. k - 1 : s[j] # t[j]
  <2>1. \A j \in 0 .. k - 1 : j \in 0 .. N /\ ~(k <= j)
    BY <1>6, <1>1
  <2> QED
    BY <2>1, <1>5
<1>8. \A j \in 0 .. k - 1 : s[j] < t[j]
  <2> DEFINE Bad == {j \in 0 .. k - 1 : ~(s[j] < t[j])}
  <2>1. ASSUME Bad # {} PROVE FALSE
    <3>1. Bad \in SUBSET Nat
      OBVIOUS
    <3>2. PICK a \in Bad : \A b \in Bad : a <= b
      <4> HIDE DEF Bad
      <4> QED
        BY <2>1, <3>1, LeastNumber, Zenon
    <3>3. a \in 0 .. k - 1 /\ ~(s[a] < t[a])
      BY <3>2
    <3>4. a # 0
      BY <3>3, <1>2, <1>3
    <3>5. a - 1 \in 0 .. k - 1 /\ a \in 1 .. N /\ ~(a <= a - 1) /\ a - 1 \in 0 .. N /\ a \in 0 .. N
      BY <3>3, <3>4, <1>1, <1>6
    <3>6. s[a - 1] < t[a - 1] /\ s[a - 1] \in Nat /\ t[a - 1] \in Nat
      BY <3>2, <3>5, <1>2, <1>3
    <3>7. L(N - a + 1) \in Nat \ {0}
      BY <3>5, <1>1
    <3>8. s[a] <= t[a]
      BY <3>5, <3>6, <3>7, <1>2, <1>3, DigitsOrdered
    <3>9. s[a] # t[a] /\ s[a] \in Nat /\ t[a] \in Nat
      BY <3>3, <3>5, <1>2, <1>3, <1>7
    <3> QED
      BY <3>3, <3>8, <3>9
  <2> QED
    BY <2>1
<1>9. \A j \in k .. N : s[j] = t[j]
  <2> DEFINE Bad == {j \in k .. N : s[j] # t[j]}
  <2>1. ASSUME Bad # {} PROVE FALSE
    <3>1. Bad \in SUBSET Nat
      BY <1>6
    <3>2. PICK a \in Bad : \A b \in Bad : a <= b
      <4> HIDE DEF Bad
      <4> QED
        BY <2>1, <3>1, LeastNumber, Zenon
    <3>3. a \in k .. N /\ s[a] # t[a]
      BY <3>2
    <3>4. a # k
      BY <3>3, <1>6
    <3>5. a - 1 \in k .. N /\ a \in 1 .. N /\ ~(a <= a - 1)
      BY <3>3, <3>4, <1>1, <1>6
    <3>6. s[a - 1] = t[a - 1]
      BY <3>2, <3>5
    <3> QED
      BY <3>3, <3>5, <3>6, <1>2, <1>3
  <2> QED
    BY <2>1
<1> DEFINE a == N - k + 1
<1>10. a \in 1 .. N /\ N - a = k - 1 /\ k - 1 \in 0 .. k - 1
  BY <1>1, <1>6
<1>11. v[a] < w[a]
  <2>1. s[k - 1] < t[k - 1] /\ s[k - 1] \in Nat /\ t[k - 1] \in Nat /\ L(a) \in Nat \ {0}
    BY <1>1, <1>2, <1>3, <1>6, <1>8, <1>10
  <2>2. s[k - 1] \div L(a) = t[k - 1] \div L(a)
    BY <1>2, <1>3, <1>6
  <2>3. s[k - 1] % L(a) < t[k - 1] % L(a)
    BY <2>1, <2>2, DigitsOrdered
  <2>4. v[a] = (s[k - 1] % L(a)) + 1 /\ w[a] = (t[k - 1] % L(a)) + 1
    <3> HIDE DEF a
    <3> QED
      BY <1>10, <1>2, <1>3
  <2>5. s[k - 1] % L(a) \in Nat /\ t[k - 1] % L(a) \in Nat
    <3>1. \A l \in Nat \ {0}, x \in Nat : x % l \in Nat
      OBVIOUS
    <3> HIDE DEF a
    <3> QED
      BY <2>1, <3>1
  <2> HIDE DEF a
  <2> QED
    BY <2>3, <2>4, <2>5
<1>12. \A b \in 1 .. a - 1 : v[b] = w[b]
  <2>1. \A b \in 1 .. a - 1 : b \in 1 .. N /\ N - b \in k .. N
    BY <1>1, <1>6
  <2> QED
    BY <2>1, <1>2, <1>3, <1>9
<1> HIDE DEF a
<1>13. a \in AxisNumbers(g)
  BY <1>1, <1>10
<1> QED
  BY <1>11, <1>12, <1>13 DEF Before, v, w

\* Every point of a grid has an ordinal.
LEMMA EveryPointNamed ==
  ASSUME NEW g, Shaped(g), NEW v \in Vectors(g)
  PROVE  \E o \in 0 .. Ordinals(g, Len(g.order)) - 1 : Coordinates(g, o) = v
<1> DEFINE N == Len(g.order)
           L(a) == Len(Values(g, a))
           T(m) == Ordinals(g, m)
<1>1. /\ N \in Nat /\ AxisNumbers(g) = 1 .. N /\ \A a \in 1 .. N : L(a) \in Nat \ {0}
      /\ \A a \in 1 .. N : DOMAIN Values(g, a) = 1 .. L(a)
  BY DEF Shaped
<1>2. DOMAIN v = 1 .. N /\ v = [a \in 1 .. N |-> v[a]] /\ \A a \in 1 .. N : v[a] \in 1 .. L(a)
  BY <1>1 DEF Vectors
<1>3. /\ T(0) = 1 /\ \A m \in 1 .. N : T(m) = T(m - 1) * L(m)
      /\ \A m \in 0 .. N : T(m) \in Nat \ {0}
  BY <1>1, OrdinalsOf
<1> HIDE DEF N, L, T
<1>4. PICK h \in [0 .. N -> Nat] :
         h[0] = 0 /\ \A a \in 1 .. N : h[a] = h[a - 1] * L(a) + (v[a] - 1)
  <2> DEFINE step == [a \in 1 .. N |-> [x \in Nat |-> x * L(a) + (v[a] - 1)]]
  <2>1. \A a \in 1 .. N, x \in Nat : x * L(a) + (v[a] - 1) \in Nat
    <3> SUFFICES ASSUME NEW a \in 1 .. N, NEW x \in Nat PROVE x * L(a) + (v[a] - 1) \in Nat
      OBVIOUS
    <3>1. v[a] - 1 \in Nat /\ L(a) \in Nat
      BY <1>1, <1>2
    <3>2. x * L(a) \in Nat
      BY <3>1
    <3> QED
      BY <3>1, <3>2
  <2>2. step \in [1 .. N -> [Nat -> Nat]]
    BY <2>1
  <2>3. \A a \in 1 .. N, x \in Nat : step[a][x] = x * L(a) + (v[a] - 1)
    OBVIOUS
  <2> HIDE DEF step
  <2>4. PICK s \in [0 .. N -> Nat] : s[0] = 0 /\ \A a \in 1 .. N : s[a] = step[a][s[a - 1]]
    BY <2>2, <1>1, 0 \in Nat, Steps, Zenon
  <2>5. \A a \in 1 .. N : s[a - 1] \in Nat
    BY <1>1
  <2>6. ASSUME NEW a \in 1 .. N PROVE s[a] = s[a - 1] * L(a) + (v[a] - 1)
    <3>1. s[a] = step[a][s[a - 1]] /\ s[a - 1] \in Nat
      BY <2>4, <2>5, Zenon
    <3>2. step[a][s[a - 1]] = s[a - 1] * L(a) + (v[a] - 1)
      BY <2>3, <3>1, Zenon
    <3> QED
      BY <3>1, <3>2, Zenon
  <2> QED
    BY <2>4, <2>6, Zenon
<1>5. \A m \in 0 .. N : h[m] < T(m)
  <2> DEFINE Bad == {m \in 0 .. N : ~(h[m] < T(m))}
  <2>1. ASSUME Bad # {} PROVE FALSE
    <3>1. Bad \in SUBSET Nat
      OBVIOUS
    <3>2. PICK a \in Bad : \A b \in Bad : a <= b
      <4> HIDE DEF Bad
      <4> QED
        BY <2>1, <3>1, LeastNumber, Zenon
    <3>3. a \in 0 .. N /\ ~(h[a] < T(a))
      BY <3>2
    <3>4. a # 0
      BY <3>3, <1>3, <1>4
    <3>5. a - 1 \in 0 .. N /\ a \in 1 .. N /\ ~(a <= a - 1)
      BY <3>3, <3>4, <1>1
    <3>6. h[a - 1] < T(a - 1) /\ h[a - 1] \in Nat /\ T(a - 1) \in Nat
      BY <3>2, <3>5, <1>3, <1>4
    <3>7. v[a] - 1 \in 0 .. L(a) - 1 /\ L(a) \in Nat \ {0}
      BY <3>5, <1>1, <1>2
    <3>8. h[a] = h[a - 1] * L(a) + (v[a] - 1) /\ T(a) = T(a - 1) * L(a)
      BY <3>5, <1>3, <1>4
    <3>9. \A x, y \in Nat, l \in Nat \ {0}, d \in Nat : x < y /\ d < l => x * l + d < y * l
      <4> SUFFICES ASSUME NEW x \in Nat, NEW y \in Nat, NEW l \in Nat \ {0}, NEW d \in Nat,
                          x < y, d < l
                   PROVE  x * l + d < y * l
        OBVIOUS
      <4>1. (x + 1) * l <= y * l
        <5>1. x + 1 <= y
          OBVIOUS
        <5> QED
          BY <5>1
      <4>2. (x + 1) * l = x * l + l
        OBVIOUS
      <4> QED
        BY <4>1, <4>2
    <3>10. v[a] - 1 \in Nat /\ v[a] - 1 < L(a)
      BY <3>7
    <3>11. h[a - 1] * L(a) + (v[a] - 1) < T(a - 1) * L(a)
      BY <3>6, <3>7, <3>9, <3>10
    <3> QED
      BY <3>3, <3>8, <3>11
  <2> QED
    BY <2>1
<1> DEFINE o == h[N]
           t == Left(g, o)
<1>6. o \in Nat /\ o < T(N) /\ T(N) \in Nat
  BY <1>1, <1>3, <1>4, <1>5
<1>7. /\ t \in [0 .. N -> Nat] /\ t[0] = o
      /\ \A j \in 1 .. N : t[j] = t[j - 1] \div L(N - j + 1)
      /\ Coordinates(g, o) = [a \in 1 .. N |-> (t[N - a] % L(a)) + 1]
  BY <1>6, LeftOf DEF N, L
<1> HIDE DEF o, t
<1>8. \A j \in 0 .. N : t[j] = h[N - j]
  <2> DEFINE Bad == {j \in 0 .. N : t[j] # h[N - j]}
  <2>1. ASSUME Bad # {} PROVE FALSE
    <3>1. Bad \in SUBSET Nat
      OBVIOUS
    <3>2. PICK a \in Bad : \A b \in Bad : a <= b
      <4> HIDE DEF Bad
      <4> QED
        BY <2>1, <3>1, LeastNumber, Zenon
    <3>3. a \in 0 .. N /\ t[a] # h[N - a]
      BY <3>2
    <3>4. a # 0
      <4>1. N - 0 = N
        BY <1>1
      <4> QED
        BY <3>3, <1>7, <4>1 DEF o
    <3>5. /\ a - 1 \in 0 .. N /\ a \in 1 .. N /\ ~(a <= a - 1)
          /\ N - (a - 1) = N - a + 1 /\ N - a + 1 \in 1 .. N /\ (N - a + 1) - 1 = N - a /\ N - a \in 0 .. N
      BY <3>3, <3>4, <1>1
    <3>6. t[a - 1] = h[N - a + 1]
      BY <3>2, <3>5
    <3> DEFINE b == N - a + 1
    <3>7. h[b] = h[N - a] * L(b) + (v[b] - 1) /\ h[N - a] \in Nat /\ b \in 1 .. N
      BY <3>5, <1>4
    <3>8. t[a] = t[a - 1] \div L(b)
      BY <3>5, <1>7
    <3> HIDE DEF b
    <3>9. v[b] - 1 \in 0 .. L(b) - 1 /\ L(b) \in Nat \ {0}
      BY <3>7, <1>1, <1>2
    <3>10. (h[N - a] * L(b) + (v[b] - 1)) \div L(b) = h[N - a]
      BY <3>7, <3>9, Digits
    <3>11. t[a - 1] = h[b]
      BY <3>6 DEF b
    <3> QED
      BY <3>3, <3>7, <3>8, <3>10, <3>11
  <2> QED
    BY <2>1
<1>9. ASSUME NEW a \in 1 .. N PROVE (t[N - a] % L(a)) + 1 = v[a]
  <2>1. N - a \in 0 .. N /\ N - (N - a) = a /\ a - 1 \in 0 .. N
    BY <1>1
  <2>2. t[N - a] = h[a] /\ h[a - 1] \in Nat
    BY <2>1, <1>4, <1>8
  <2>3. h[a] = h[a - 1] * L(a) + (v[a] - 1)
    BY <1>4
  <2>4. v[a] - 1 \in 0 .. L(a) - 1 /\ L(a) \in Nat \ {0} /\ v[a] \in Nat
    BY <1>1, <1>2
  <2>5. (h[a - 1] * L(a) + (v[a] - 1)) % L(a) = v[a] - 1
    BY <2>2, <2>4, Digits
  <2> QED
    BY <2>2, <2>3, <2>4, <2>5
<1>10. Coordinates(g, o) = v
  BY <1>2, <1>7, <1>9
<1>11. o \in 0 .. T(N) - 1
  BY <1>6
<1> QED
  BY <1>10, <1>11 DEF N, T

LEMMA PointNamed ==
  ASSUME NEW g, Shaped(g), NEW o \in Nat
  PROVE  Coordinates(g, o) \in Vectors(g)
<1> DEFINE N == Len(g.order)
           L(a) == Len(Values(g, a))
           t == Left(g, o)
           v == Coordinates(g, o)
<1>1. /\ N \in Nat /\ AxisNumbers(g) = 1 .. N /\ \A a \in 1 .. N : L(a) \in Nat \ {0}
      /\ \A a \in 1 .. N : DOMAIN Values(g, a) = 1 .. L(a)
  BY DEF Shaped
<1>2. t \in [0 .. N -> Nat] /\ v = [a \in 1 .. N |-> (t[N - a] % L(a)) + 1]
  BY LeftOf
<1> HIDE DEF N, L, t, v
<1>3. ASSUME NEW a \in 1 .. N PROVE v[a] \in DOMAIN Values(g, a)
  <2>1. N - a \in 0 .. N
    BY <1>1
  <2>2. t[N - a] \in Nat /\ L(a) \in Nat \ {0}
    BY <2>1, <1>1, <1>2
  <2>3. t[N - a] % L(a) \in 0 .. L(a) - 1
    BY <2>2, Digits
  <2>4. v[a] \in 1 .. L(a)
    BY <2>2, <2>3, <1>2
  <2> QED
    BY <2>4, <1>1
<1>4. \A a \in 1 .. N : v[a] \in Positions(g)
  BY <1>1, <1>3 DEF Positions
<1>5. v \in [1 .. N -> Positions(g)]
  BY <1>2, <1>4
<1> QED
  BY <1>1, <1>3, <1>5 DEF Vectors, v

LEMMA OneOrder ==
  ASSUME NEW g, Shaped(g), NEW v \in Vectors(g), NEW w \in Vectors(g), Before(g, v, w)
  PROVE  ~Before(g, w, v)
<1>1. /\ AxisNumbers(g) = 1 .. Len(g.order) /\ Len(g.order) \in Nat
      /\ \A a \in AxisNumbers(g) : v[a] \in Nat /\ w[a] \in Nat
  <2>1. \A a \in AxisNumbers(g) : v[a] \in DOMAIN Values(g, a) /\ w[a] \in DOMAIN Values(g, a)
    BY DEF Vectors
  <2>2. \A a \in AxisNumbers(g) : DOMAIN Values(g, a) \subseteq Nat
    BY DEF Shaped
  <2> QED
    BY <2>1, <2>2 DEF Shaped
<1>2. PICK a \in AxisNumbers(g) : v[a] < w[a] /\ \A b \in 1 .. a - 1 : v[b] = w[b]
  BY DEF Before
<1>3. ASSUME NEW c \in AxisNumbers(g), w[c] < v[c], \A b \in 1 .. c - 1 : w[b] = v[b]
      PROVE  FALSE
  <2>1. CASE a < c
    <3>1. a \in 1 .. c - 1
      BY <2>1, <1>1
    <3> QED
      BY <3>1, <1>1, <1>2, <1>3
  <2>2. CASE c < a
    <3>1. c \in 1 .. a - 1
      BY <2>2, <1>1
    <3> QED
      BY <3>1, <1>1, <1>2, <1>3
  <2>3. CASE a = c
    BY <2>3, <1>1, <1>2, <1>3
  <2>4. a \in Nat /\ c \in Nat
    BY <1>1
  <2> QED
    BY <2>1, <2>2, <2>3, <2>4
<1> QED
  BY <1>3 DEF Before

\* As many points come before a point as its ordinal says.
LEMMA RankIsOrdinal ==
  ASSUME NEW g, Shaped(g), NEW o \in Nat, o < Ordinals(g, Len(g.order))
  PROVE  Cardinality({w \in Vectors(g) : Before(g, w, Coordinates(g, o))}) = o
<1> DEFINE T == Ordinals(g, Len(g.order))
           S == {w \in Vectors(g) : Before(g, w, Coordinates(g, o))}
           f == [p \in 1 .. o |-> Coordinates(g, p - 1)]
<1>1. T \in Nat
  <2>1. Len(g.order) \in 0 .. Len(g.order)
    BY DEF Shaped
  <2> QED
    BY <2>1, OrdinalsOf
<1>2. \A p \in 1 .. o : p - 1 \in Nat /\ p - 1 < o /\ p - 1 < T
  BY <1>1
<1>3. \A p \in 1 .. o : f[p] \in S
  <2> SUFFICES ASSUME NEW p \in 1 .. o PROVE f[p] \in S
    OBVIOUS
  <2>1. Before(g, Coordinates(g, p - 1), Coordinates(g, o))
    BY <1>2, OrderKept
  <2>2. Coordinates(g, p - 1) \in Vectors(g)
    BY <1>2, PointNamed
  <2> QED
    BY <2>1, <2>2
<1>4. ASSUME NEW p \in 1 .. o, NEW q \in 1 .. o, p < q PROVE f[p] # f[q]
  <2>1. Before(g, Coordinates(g, p - 1), Coordinates(g, q - 1))
    <3>1. p - 1 \in Nat /\ q - 1 \in Nat /\ p - 1 < q - 1 /\ q - 1 < T
      BY <1>2, <1>4
    <3> QED
      BY <3>1, OrderKept
  <2>2. Coordinates(g, p - 1) \in Vectors(g) /\ Coordinates(g, q - 1) \in Vectors(g)
    BY <1>2, PointNamed
  <2>3. Coordinates(g, p - 1) # Coordinates(g, q - 1)
    BY <2>1, <2>2, OneOrder
  <2> QED
    BY <2>3
<1>5. ASSUME NEW w \in S PROVE \E p \in 1 .. o : f[p] = w
  <2>1. w \in Vectors(g) /\ Before(g, w, Coordinates(g, o))
    OBVIOUS
  <2>2. PICK p \in 0 .. T - 1 : Coordinates(g, p) = w
    BY <2>1, EveryPointNamed
  <2>3. p \in Nat /\ p < T
    BY <1>1
  <2>4. ~(o < p)
    <3>1. ASSUME o < p PROVE FALSE
      <4>1. Before(g, Coordinates(g, o), w)
        BY <3>1, <2>2, <2>3, OrderKept
      <4>2. Coordinates(g, o) \in Vectors(g)
        BY PointNamed
      <4> QED
        BY <4>1, <4>2, <2>1, OneOrder
    <3> QED
      BY <3>1
  <2>5. p # o
    BY <2>1, <2>2, OneOrder
  <2>6. p + 1 \in 1 .. o /\ (p + 1) - 1 = p
    BY <2>3, <2>4, <2>5
  <2> QED
    BY <2>2, <2>6
<1> HIDE DEF S
<1>6. f \in Bijection(1 .. o, S)
  <2>1. f \in [1 .. o -> S]
    BY <1>3
  <2>2. \A p, q \in 1 .. o : f[p] = f[q] => p = q
    <3>1. \A p, q \in 1 .. o : p < q \/ q < p \/ p = q
      OBVIOUS
    <3> HIDE DEF f
    <3> QED
      BY <1>4, <3>1
  <2> HIDE DEF f
  <2> QED
    BY <2>1, <2>2, <1>5 DEF Bijection, Injection, Surjection, IsInjective
<1>7. IsFiniteSet(1 .. o) /\ Cardinality(1 .. o) = o
  BY FS_Interval
<1>8. Cardinality(S) = Cardinality(1 .. o)
  <2>1. ExistsBijection(1 .. o, S)
    BY <1>6 DEF ExistsBijection
  <2> QED
    BY <2>1, <1>7, FS_Bijection
<1> QED
  BY <1>7, <1>8 DEF S

-----------------------------------------------------------------------------
(* A candidate of a grid. *)

\* The patches that set a field, and the last number of a set.
Setting(patches, n, f) == {a \in 1 .. n : f \in DOMAIN patches[a]}
LastIn(S) == CHOOSE a \in S : \A b \in S : b <= a

\* The last patch that sets a field, chosen as the property does.
LEMMA LastPatch ==
  ASSUME NEW base, NEW patches, NEW n \in Nat, Len(patches) = n, DOMAIN patches = 1 .. n,
         NEW f \in DOMAIN Stacked(base, patches)
  PROVE  LET setting == Setting(patches, n, f) IN
         /\ setting # {} => LastIn(setting) \in 1 .. n
         /\ Stacked(base, patches)[f] =
              IF setting = {} THEN base[f] ELSE patches[LastIn(setting)][f]
<1> DEFINE setting == {a \in 1 .. n : f \in DOMAIN patches[a]}
           last == CHOOSE a \in setting : \A b \in setting : b <= a
           r == Stacked(base, patches)[f]
<1>1. \/ /\ \A a \in 1 .. n : f \notin DOMAIN patches[a]
         /\ r = base[f]
      \/ \E a \in 1 .. n :
           /\ f \in DOMAIN patches[a] /\ r = patches[a][f]
           /\ \A b \in a + 1 .. n : f \notin DOMAIN patches[b]
  <2>1. FieldFrom(base, patches, n, f, r)
    BY StackField
  <2> QED
    BY <2>1 DEF FieldFrom
<1> HIDE DEF r
<1>3. ASSUME NEW a \in 1 .. n, f \in DOMAIN patches[a], r = patches[a][f],
             \A b \in a + 1 .. n : f \notin DOMAIN patches[b]
      PROVE  setting # {} /\ last \in 1 .. n /\ r = patches[last][f]
  <2>1. a \in setting /\ \A b \in setting : b <= a
    BY <1>3
  <2>2. setting \subseteq Nat
    OBVIOUS
  <2>3. last \in setting /\ \A b \in setting : b <= last
    <3> HIDE DEF setting
    <3> QED
      BY <2>1, Zenon
  <2>4. last = a
    <3> HIDE DEF setting, last
    <3> QED
      BY <2>1, <2>2, <2>3
  <2> QED
    BY <2>1, <2>4, <1>3
<1>4. (setting # {} => last \in 1 .. n) /\ r = IF setting = {} THEN base[f] ELSE patches[last][f]
  <2>1. CASE \A a \in 1 .. n : f \notin DOMAIN patches[a]
    <3>1. setting = {} /\ r = base[f]
      BY <2>1, <1>1
    <3> HIDE DEF setting, last
    <3> QED
      BY <3>1
  <2>2. CASE ~\A a \in 1 .. n : f \notin DOMAIN patches[a]
    <3>1. setting # {} /\ last \in 1 .. n /\ r = patches[last][f]
      BY <2>2, <1>1, <1>3
    <3> HIDE DEF setting, last
    <3> QED
      BY <3>1
  <2> QED
    BY <2>1, <2>2
<1> QED
  BY <1>4 DEF r, Setting, LastIn

LEMMA Numbered ==
  ASSUME NEW n \in Nat, NEW f, f = [a \in 1 .. n |-> f[a]]
  PROVE  Len(f) = n /\ DOMAIN f = 1 .. n
<1>1. DOMAIN f = 1 .. n
  OBVIOUS
<1>2. f \in Seq({f[a] : a \in 1 .. n})
  OBVIOUS
<1> QED
  BY <1>1, <1>2

\* What CandidateMatchesOrdinal says of one candidate.
NamesItsPoint(g, c) ==
  LET ParamsOf(v) == v.params
      PoolOf(v) == Typed(v.pool)
  IN \E v \in Vectors(g) :
       /\ Cardinality({w \in Vectors(g) : Before(g, w, v)}) = c.ordinal
       /\ \A p \in DOMAIN c.params : c.params[p] = LastOf(g, v, ParamsOf, g.params, p)
       /\ \A f \in DOMAIN c.override : c.override[f] = LastOf(g, v, PoolOf, Typed(g.pool), f)
       /\ DOMAIN c.override =
            DOMAIN g.pool \cup UNION {DOMAIN Values(g, a)[v[a]].pool : a \in AxisNumbers(g)}

LEMMA CandidateExact ==
  ASSUME NEW g, Shaped(g), NEW o \in Nat, o < Ordinals(g, Len(g.order)),
         Ordinals(g, Len(g.order)) <= MaxTotal
  PROVE  Candidate(g, o).ordinal = o /\ NamesItsPoint(g, Candidate(g, o))
<1> DEFINE N == Len(g.order)
           v == Coordinates(g, o)
           P == [a \in AxisNumbers(g) |-> Values(g, a)[v[a]].params]
           Q == [a \in AxisNumbers(g) |-> Typed(Values(g, a)[v[a]].pool)]
           c == Candidate(g, o)
<1>1. N \in Nat /\ AxisNumbers(g) = 1 .. N
  BY DEF Shaped
<1>2. c.ordinal = o % MaxTotal /\ c.params = Stacked(g.params, P) /\ c.override = Stacked(Typed(g.pool), Q)
  <2>1. \A a \in AxisNumbers(g) :
          [b \in AxisNumbers(g) |-> Values(g, b)[Coordinates(g, o)[b]]][a] = Values(g, a)[v[a]]
    OBVIOUS
  <2>2. c.ordinal = o % MaxTotal
    BY Zenon DEF Candidate
  <2>3. c.params = Stacked(g.params, [a \in AxisNumbers(g) |->
           [b \in AxisNumbers(g) |-> Values(g, b)[Coordinates(g, o)[b]]][a].params])
    BY Zenon DEF Candidate
  <2>4. c.override = Stacked(Typed(g.pool), [a \in AxisNumbers(g) |->
           Typed([b \in AxisNumbers(g) |-> Values(g, b)[Coordinates(g, o)[b]]][a].pool)])
    BY Zenon DEF Candidate
  <2> QED
    BY <2>2, <2>3, <2>4
<1>3. c.ordinal = o
  <2>1. Ordinals(g, Len(g.order)) \in Nat
    BY <1>1, OrdinalsOf
  <2>2. o < MaxTotal /\ MaxTotal \in Nat \ {0}
    BY <2>1, LimitsAssumption
  <2>3. \A x \in Nat, m \in Nat \ {0} : x < m => x % m = x
    OBVIOUS
  <2> QED
    BY <1>2, <2>2, <2>3
<1>4. v \in Vectors(g)
  BY PointNamed
<1>5. Cardinality({w \in Vectors(g) : Before(g, w, v)}) = c.ordinal
  BY <1>3, RankIsOrdinal
<1>6. Len(P) = N /\ DOMAIN P = 1 .. N /\ Len(Q) = N /\ DOMAIN Q = 1 .. N
  <2>1. P = [a \in 1 .. N |-> P[a]] /\ Q = [a \in 1 .. N |-> Q[a]]
    BY <1>1
  <2> HIDE DEF P, Q, N
  <2> QED
    BY <1>1, <2>1, Numbered
<1>7. /\ \A a \in AxisNumbers(g) : P[a] = Values(g, a)[v[a]].params
      /\ \A a \in AxisNumbers(g) : Q[a] = Typed(Values(g, a)[v[a]].pool)
  OBVIOUS
<1> HIDE DEF P, Q, N, v, c
<1>8. ASSUME NEW f \in DOMAIN c.params
      PROVE  LET setting == {a \in AxisNumbers(g) : f \in DOMAIN Values(g, a)[v[a]].params}
                 last == CHOOSE a \in setting : \A b \in setting : b <= a
             IN c.params[f] = IF setting = {} THEN g.params[f]
                              ELSE Values(g, last)[v[last]].params[f]
  <2> DEFINE setting == {a \in AxisNumbers(g) : f \in DOMAIN Values(g, a)[v[a]].params}
             last == LastIn(setting)
  <2>1. Setting(P, N, f) = setting
    BY <1>1, <1>7 DEF Setting
  <2>2. f \in DOMAIN Stacked(g.params, P) /\ c.params[f] = Stacked(g.params, P)[f]
    BY <1>2
  <2> HIDE DEF setting, last
  <2>3. /\ setting # {} => LastIn(Setting(P, N, f)) \in 1 .. N
        /\ Stacked(g.params, P)[f] =
             IF setting = {} THEN g.params[f] ELSE P[LastIn(Setting(P, N, f))][f]
    BY <1>1, <1>6, <2>1, <2>2, LastPatch
  <2>4. setting # {} => P[last] = Values(g, last)[v[last]].params
    BY <2>1, <2>3, <1>1, <1>7 DEF last
  <2>5. c.params[f] = IF setting = {} THEN g.params[f] ELSE Values(g, last)[v[last]].params[f]
    BY <2>1, <2>2, <2>3, <2>4 DEF last
  <2> QED
    BY <2>5 DEF setting, last, LastIn
<1>9. ASSUME NEW f \in DOMAIN c.override
      PROVE  LET setting == {a \in AxisNumbers(g) : f \in DOMAIN Typed(Values(g, a)[v[a]].pool)}
                 last == CHOOSE a \in setting : \A b \in setting : b <= a
             IN c.override[f] = IF setting = {} THEN Typed(g.pool)[f]
                              ELSE Typed(Values(g, last)[v[last]].pool)[f]
  <2> DEFINE setting == {a \in AxisNumbers(g) : f \in DOMAIN Typed(Values(g, a)[v[a]].pool)}
             last == LastIn(setting)
  <2>1. Setting(Q, N, f) = setting
    BY <1>1, <1>7 DEF Setting
  <2>2. f \in DOMAIN Stacked(Typed(g.pool), Q) /\ c.override[f] = Stacked(Typed(g.pool), Q)[f]
    BY <1>2
  <2> HIDE DEF setting, last
  <2>3. /\ setting # {} => LastIn(Setting(Q, N, f)) \in 1 .. N
        /\ Stacked(Typed(g.pool), Q)[f] =
             IF setting = {} THEN Typed(g.pool)[f] ELSE Q[LastIn(Setting(Q, N, f))][f]
    BY <1>1, <1>6, <2>1, <2>2, LastPatch
  <2>4. setting # {} => Q[last] = Typed(Values(g, last)[v[last]].pool)
    BY <2>1, <2>3, <1>1, <1>7 DEF last
  <2>5. c.override[f] = IF setting = {} THEN Typed(g.pool)[f] ELSE Typed(Values(g, last)[v[last]].pool)[f]
    BY <2>1, <2>2, <2>3, <2>4 DEF last
  <2> QED
    BY <2>5 DEF setting, last, LastIn
<1>10. DOMAIN c.override =
         DOMAIN g.pool \cup UNION {DOMAIN Values(g, a)[v[a]].pool : a \in AxisNumbers(g)}
  <2>1. DOMAIN c.override = DOMAIN Typed(g.pool) \cup UNION {DOMAIN Q[a] : a \in 1 .. N}
    <3>1. DOMAIN Stacked(Typed(g.pool), Q) = DOMAIN Typed(g.pool) \cup UNION {DOMAIN Q[a] : a \in 1 .. N}
      BY <1>1, <1>6, StackField, Zenon
    <3> QED
      BY <1>2, <3>1
  <2>2. \A entry : DOMAIN Typed(entry) = DOMAIN entry
    BY DEF Typed
  <2>3. \A a \in 1 .. N : DOMAIN Q[a] = DOMAIN Values(g, a)[v[a]].pool
    BY <1>1, <1>7, <2>2
  <2> QED
    BY <1>1, <2>1, <2>2, <2>3
<1>11. NamesItsPoint(g, c)
  BY <1>4, <1>5, <1>8, <1>9, <1>10 DEF NamesItsPoint, LastOf
<1> QED
  BY <1>3, <1>11 DEF c

-----------------------------------------------------------------------------
(* The candidates of a batch. *)

Asked(i) == batch.ranges[i][1] .. batch.ranges[i][1] + batch.ranges[i][2] - 1
Upcoming == batch.ranges[range][1] + at
Made == {cands[i].ordinal : i \in DOMAIN cands}

RangeInv ==
  /\ grid # NoGrid /\ RangesOk(batch.ranges)
  /\ range \in 1 .. Len(batch.ranges) + 1 /\ at \in Nat
  /\ Materializing =>
       at < batch.ranges[range][2] /\ \A i \in DOMAIN cands : cands[i].ordinal < Upcoming
  /\ \A i \in DOMAIN cands :
       cands[i].ordinal \in 0 .. Total - 1 /\ cands[i] = Candidate(grid.of, cands[i].ordinal)
  /\ \A i, j \in DOMAIN cands : i < j => cands[i].ordinal < cands[j].ordinal
  /\ Made = (UNION {Asked(i) : i \in 1 .. range - 1})
              \cup (IF Materializing THEN batch.ranges[range][1] .. Upcoming - 1 ELSE {})

GridInv ==
  /\ req \in Requests
  /\ grid # NoGrid => grid.of \in req.grids /\ GridValid(grid.of)
  /\ batch # NoBatch => batch \in req.batches
  /\ cands \in Seq({cands[i] : i \in DOMAIN cands})
  /\ batch = NoBatch => cands = << >>
  /\ batch.kind = "ranges" => RangeInv
  /\ batch.kind = "list" => cands = [i \in DOMAIN batch.list |-> ListCandidate(batch.list[i])]

LEMMA GridShaped ==
  ASSUME req \in Requests, NEW g \in req.grids, GridValid(g)
  PROVE  /\ Shaped(g) /\ Ordinals(g, Len(g.order)) \in Nat \ {0}
         /\ Ordinals(g, Len(g.order)) <= MaxTotal
<1> DEFINE N == Len(g.order)
<1>1. N \in Nat /\ AxisNumbers(g) = 1 .. N
  BY SessionsAssumption DEF AxisNumbers
<1>2. \A x \in DOMAIN g.axes : Len(g.axes[x]) \in Nat /\ DOMAIN g.axes[x] = 1 .. Len(g.axes[x])
  BY SessionsAssumption, Zenon
<1>3. /\ {g.order[a] : a \in AxisNumbers(g)} = DOMAIN g.axes
      /\ \A a \in AxisNumbers(g) : g.shape[a] > 0 /\ g.shape[a] = Len(Values(g, a))
      /\ \A a \in AxisNumbers(g) : Ordinals(g, a - 1) <= MaxTotal \div g.shape[a]
  BY Zenon DEF GridValid, ShapeValid
<1>4. \A a \in AxisNumbers(g) :
        Len(Values(g, a)) \in Nat /\ DOMAIN Values(g, a) = 1 .. Len(Values(g, a))
  <2>1. \A a \in AxisNumbers(g) : g.order[a] \in DOMAIN g.axes
    BY <1>3
  <2> QED
    BY <2>1, <1>2 DEF Values
<1>5. \A a \in AxisNumbers(g) : Len(Values(g, a)) \in Nat \ {0}
  BY <1>3, <1>4
<1>6. Shaped(g)
  BY <1>1, <1>4, <1>5 DEF Shaped
<1>7. Ordinals(g, N) \in Nat \ {0}
  <2>1. N \in 0 .. N
    BY <1>1
  <2> QED
    BY <1>6, <2>1, OrdinalsOf
<1>8. MaxTotal \in Nat \ {0}
  BY LimitsAssumption
<1>9. CASE N = 0
  <2>1. Ordinals(g, N) = 1
    BY <1>6, <1>9, OrdinalsOf
  <2> QED
    BY <1>6, <1>8, <2>1
<1>10. CASE N # 0
  <2> DEFINE l == Len(Values(g, N))
             t == Ordinals(g, N - 1)
  <2>1. N \in AxisNumbers(g) /\ N - 1 \in 0 .. N
    BY <1>1, <1>10
  <2>2. Ordinals(g, N) = t * l /\ t \in Nat
    BY <2>1, <1>6, OrdinalsOf
  <2>3. t <= MaxTotal \div l /\ l \in Nat \ {0}
    BY <2>1, <1>3, <1>5
  <2> HIDE DEF l, t
  <2>4. MaxTotal \div l \in Nat /\ MaxTotal = l * (MaxTotal \div l) + (MaxTotal % l) /\ MaxTotal % l \in Nat
    <3>1. \A x \in Nat, m \in Nat \ {0} : x \div m \in Nat /\ x = m * (x \div m) + (x % m) /\ x % m \in Nat
      OBVIOUS
    <3> QED
      BY <1>8, <2>3, <3>1, Zenon
  <2> DEFINE q == MaxTotal \div l
  <2>5. q \in Nat /\ t <= q
    BY <2>3, <2>4
  <2>6. l * q <= MaxTotal
    <3> DEFINE m == MaxTotal % l
    <3>1. m \in Nat /\ MaxTotal = l * q + m
      BY <2>4
    <3> HIDE DEF m, q
    <3> QED
      BY <2>3, <2>5, <3>1
  <2> HIDE DEF q
  <2>7. t * l <= q * l
    BY <2>2, <2>3, <2>5
  <2>8. t * l <= MaxTotal
    BY <2>2, <2>3, <2>5, <2>6, <2>7, <1>8
  <2> QED
    BY <1>6, <1>7, <2>2, <2>8
<1> QED
  BY <1>6, <1>7, <1>9, <1>10

LEMMA OwnElements == ASSUME NEW S, NEW s \in Seq(S) PROVE s \in Seq({s[i] : i \in DOMAIN s})
OBVIOUS

LEMMA ReqKept == [TapeStep]_tapeVars => req' = req
BY DEF TapeStep, tapeVars, Open, ReadRow, MakeTape, ReadFeed, GenBin, GenBlock, EndEvents, Advance,
       AttachPrice, EndAttach, IndexReports, Emptied

LEMMA BatchBegins ==
  ASSUME GridInv, NEW b \in req.batches, Submit(b), req' = req
  PROVE  GridInv'
<1>1. /\ batch' = b /\ range' = 1 /\ at' = 0 /\ grid' = grid
      /\ cands' = IF b.kind = "list" THEN [i \in DOMAIN b.list |-> ListCandidate(b.list[i])]
                  ELSE << >>
      /\ b.kind = "ranges" => grid # NoGrid /\ RangesOk(b.ranges)
  BY DEF Submit
<1>2. /\ b.kind \in {"list", "ranges"}
      /\ b.kind = "list" => Len(b.list) \in Nat /\ DOMAIN b.list = 1 .. Len(b.list)
      /\ b.kind = "ranges" => b.ranges \in Seq(Nat \X Nat)
  BY SessionsAssumption DEF GridInv
<1>3. b # NoBatch
  BY <1>2 DEF NoBatch
<1>4. req' \in Requests /\ (grid' # NoGrid => grid'.of \in req'.grids /\ GridValid(grid'.of))
  BY <1>1 DEF GridInv
<1>5. CASE b.kind = "list"
  <2> DEFINE c == [i \in DOMAIN b.list |-> ListCandidate(b.list[i])]
  <2>1. c \in Seq({c[i] : i \in DOMAIN c})
    <3>1. c = [i \in 1 .. Len(b.list) |-> c[i]] /\ Len(b.list) \in Nat
      BY <1>2, <1>5
    <3> HIDE DEF c
    <3> QED
      BY <3>1
  <2>2. cands' = c
    BY <1>1, <1>5
  <2>3. cands' \in Seq({cands'[i] : i \in DOMAIN cands'})
    BY <2>1, <2>2
  <2>4. batch'.kind = "list" /\ batch' # NoBatch /\ batch' \in req'.batches
    BY <1>1, <1>3, <1>5
  <2>5. cands' = [i \in DOMAIN batch'.list |-> ListCandidate(batch'.list[i])]
    BY <1>1, <1>5
  <2> QED
    BY <2>3, <2>4, <2>5, <1>4 DEF GridInv
<1>6. CASE b.kind = "ranges"
  <2>1. /\ b.ranges # << >> /\ b.ranges \in Seq(Nat \X Nat) /\ RangesOk(b.ranges)
        /\ Len(b.ranges) \in Nat /\ 1 \in DOMAIN b.ranges /\ 1 <= Len(b.ranges)
    BY <1>1, <1>2, <1>6 DEF RangesOk
  <2>2. b.ranges[1] \in Nat \X Nat /\ b.ranges[1][2] > 0
    BY <2>1 DEF RangesOk
  <2>3. b.ranges[1][1] \in Nat
    BY <2>2
  <2>4. cands' = << >> /\ DOMAIN cands' = {} /\ batch'.kind = "ranges"
    BY <1>1, <1>6
  <2>5. Materializing' /\ at' < batch'.ranges[range'][2]
    BY <1>1, <1>6, <2>1, <2>2 DEF Materializing
  <2>6. RangesOk(batch.ranges)'
    BY <1>1, <2>1 DEF RangesOk, Total
  <2>7. batch'.ranges[range'][1] .. Upcoming' - 1 = {}
    BY <1>1, <2>3 DEF Upcoming
  <2>8. Made' = {} /\ 1 .. range' - 1 = {}
    BY <2>4, <1>1 DEF Made
  <2>9. range' \in 1 .. Len(batch'.ranges) + 1 /\ at' \in Nat /\ grid' # NoGrid
    BY <1>1, <1>6, <2>1
  <2>10. RangeInv'
    BY <2>4, <2>5, <2>6, <2>7, <2>8, <2>9 DEF RangeInv
  <2>11. batch' # NoBatch /\ batch' \in req'.batches /\ cands' \in Seq({cands'[i] : i \in DOMAIN cands'})
    BY <1>1, <1>3, <2>4
  <2> QED
    BY <2>4, <2>10, <2>11, <1>4 DEF GridInv
<1> QED
  BY <1>2, <1>5, <1>6

\* The part of the ranges that is materialized grows by the ordinal in turn.
LEMMA OneMoreMade ==
  ASSUME GridInv, Materialize, req' = req
  PROVE  GridInv'
<1> DEFINE rs == batch.ranges
           g == grid.of
           o == Upcoming
           c == Candidate(g, o)
           N == Len(cands)
<1>1. /\ batch.kind = "ranges" /\ range <= Len(rs) /\ Materializing /\ RangeInv
      /\ UNCHANGED <<grid, batch>> /\ cands' = Append(cands, c)
      /\ \/ at + 1 < rs[range][2] /\ at' = at + 1 /\ range' = range
         \/ ~(at + 1 < rs[range][2]) /\ at' = 0 /\ range' = range + 1
  BY DEF Materialize, Materializing, GridInv, Upcoming
<1>2. /\ batch # NoBatch /\ batch \in req.batches /\ rs \in Seq(Nat \X Nat)
  <2>1. batch # NoBatch /\ batch \in req.batches /\ req \in Requests
    BY <1>1 DEF GridInv, NoBatch
  <2> QED
    BY <1>1, <2>1, SessionsAssumption, Zenon
<1>3. /\ Shaped(g) /\ Total \in Nat \ {0} /\ Total <= MaxTotal
  BY <1>1, GridShaped DEF GridInv, RangeInv, Total
<1>4. /\ range \in 1 .. Len(rs) /\ at \in Nat /\ at < rs[range][2] /\ RangesOk(rs) /\ Len(rs) \in Nat
      /\ \A i \in DOMAIN cands : cands[i].ordinal < o
  BY <1>1, <1>2 DEF RangeInv
<1>5. \A i \in 1 .. Len(rs) : rs[i][1] \in Nat /\ rs[i][2] \in Nat
  <2>1. \A i \in 1 .. Len(rs) : rs[i] \in Nat \X Nat
    BY <1>2
  <2> QED
    BY <2>1
<1>6. /\ \A i \in 1 .. Len(rs) : rs[i][2] > 0 /\ rs[i][1] < Total /\ rs[i][2] <= Total - rs[i][1]
      /\ \A i \in 1 .. Len(rs) : i > 1 => rs[i][1] >= rs[i - 1][1] + rs[i - 1][2]
  <2>1. DOMAIN rs = 1 .. Len(rs)
    BY <1>2
  <2> HIDE DEF rs
  <2>2. \A i \in DOMAIN rs :
          /\ rs[i][2] > 0 /\ rs[i][1] < Total /\ rs[i][2] <= Total - rs[i][1]
          /\ i > 1 => rs[i][1] >= rs[i - 1][1] + rs[i - 1][2]
    BY <1>4, Zenon DEF RangesOk
  <2> QED
    BY <2>1, <2>2, Zenon
<1> DEFINE first == rs[range][1]
           count == rs[range][2]
<1>7. /\ first \in Nat /\ count \in Nat /\ at < count /\ count <= Total - first /\ o = first + at
  BY <1>4, <1>5, <1>6 DEF Upcoming
<1> HIDE DEF rs, first, count
<1>8. o \in 0 .. Total - 1 /\ o \in Nat /\ o < Total
  BY <1>3, <1>4, <1>7
<1>9. c.ordinal = o
  <2>1. Total = Ordinals(g, Len(g.order))
    BY DEF Total
  <2> QED
    BY <1>3, <1>8, <2>1, CandidateExact
<1> HIDE DEF o, c, g
<1>10. /\ N \in Nat /\ DOMAIN cands = 1 .. N /\ Len(cands') = N + 1
       /\ DOMAIN cands' = 1 .. N + 1 /\ cands'[N + 1] = c /\ \A i \in 1 .. N : cands'[i] = cands[i]
  <2> DEFINE S == {cands[i] : i \in DOMAIN cands} \cup {c}
  <2>1. cands \in Seq({cands[i] : i \in DOMAIN cands})
    BY DEF GridInv
  <2> HIDE DEF S
  <2>2. cands \in Seq(S) /\ c \in S
    BY <2>1 DEF S
  <2> QED
    BY <2>2, <1>1, Pushed
<1> HIDE DEF N
<1>11. cands' \in Seq({cands'[i] : i \in DOMAIN cands'})
  <2>1. cands' = [i \in 1 .. N + 1 |-> cands'[i]]
    <3> DEFINE S == {cands[i] : i \in DOMAIN cands} \cup {c}
    <3>1. cands \in Seq({cands[i] : i \in DOMAIN cands})
      BY DEF GridInv
    <3> HIDE DEF S
    <3>2. cands \in Seq(S) /\ c \in S
      BY <3>1 DEF S
    <3>3. cands' \in Seq(S)
      BY <3>2, <1>1
    <3> QED
      BY <3>3, <1>10
  <2> QED
    BY <2>1, <1>10
<1>12. \A i \in 1 .. N + 1 : i \in 1 .. N \/ i = N + 1
  BY <1>10
<1>13. \A i \in DOMAIN cands' : (i \in DOMAIN cands /\ cands'[i] = cands[i]) \/ (i = N + 1 /\ cands'[i] = c)
  BY <1>10, <1>12, Zenon
<1>14. \A i \in DOMAIN cands' :
         cands'[i].ordinal \in 0 .. Total - 1 /\ cands'[i] = Candidate(g, cands'[i].ordinal)
  <2>1. c = Candidate(g, c.ordinal)
    BY <1>9 DEF c
  <2>2. \A i \in DOMAIN cands :
          cands[i].ordinal \in 0 .. Total - 1 /\ cands[i] = Candidate(g, cands[i].ordinal)
    BY <1>1 DEF RangeInv, g
  <2> QED
    BY <2>1, <2>2, <1>8, <1>9, <1>13
<1>15. \A i, j \in DOMAIN cands' : i < j => cands'[i].ordinal < cands'[j].ordinal
  <2> SUFFICES ASSUME NEW i \in DOMAIN cands', NEW j \in DOMAIN cands', i < j
               PROVE  cands'[i].ordinal < cands'[j].ordinal
    OBVIOUS
  <2>1. i \in DOMAIN cands /\ cands'[i] = cands[i]
    BY <1>10
  <2>2. CASE j \in DOMAIN cands
    BY <2>1, <2>2, <1>1, <1>10 DEF RangeInv
  <2>3. CASE j = N + 1
    BY <2>1, <2>3, <1>4, <1>9, <1>10
  <2> QED
    BY <2>2, <2>3, <1>13
<1>16. \A i \in DOMAIN cands' : cands'[i].ordinal <= o
  BY <1>4, <1>8, <1>9, <1>13, <1>14, <1>3
<1>17. Made' = Made \cup {o}
  BY <1>9, <1>10, <1>13 DEF Made
<1>18. Made = (UNION {Asked(i) : i \in 1 .. range - 1}) \cup (first .. o - 1)
  BY <1>1 DEF RangeInv, first, rs, o
<1>19. Made' = (UNION {Asked(i) : i \in 1 .. range - 1}) \cup (first .. o)
  <2>1. first \in Nat /\ o \in Nat /\ first <= o
    BY <1>4, <1>7, <1>8
  <2>2. \A x, y \in Nat : x <= y => x .. y = (x .. y - 1) \cup {y}
    OBVIOUS
  <2>3. first .. o = (first .. o - 1) \cup {o}
    BY <2>1, <2>2, Zenon
  <2> DEFINE S == UNION {Asked(i) : i \in 1 .. range - 1}
             before == first .. o - 1
  <2>4a. Made' = (S \cup before) \cup {o}
    BY <1>17, <1>18, Zenon
  <2>4. first .. o = before \cup {o}
    BY <2>3, Zenon
  <2> HIDE DEF S, before
  <2>5. Made' = S \cup (first .. o)
    BY <2>4, <2>4a, Zenon
  <2> QED
    BY <2>5, Zenon DEF S
<1>20. \A i : Asked(i)' = Asked(i)
  BY <1>1 DEF Asked
<1>21. RangesOk(batch.ranges)' /\ Total' = Total /\ grid' # NoGrid
  BY <1>1 DEF RangeInv, RangesOk, Total
<1>22. batch'.ranges = rs /\ batch'.kind = "ranges" /\ grid'.of = g
  BY <1>1 DEF rs, g
<1>23. CASE at + 1 < count
  <2>1. at' = at + 1 /\ range' = range
    BY <1>1, <1>23 DEF count
  <2>2. Materializing'
    BY <2>1, <1>1 DEF Materializing
  <2>3. Upcoming' = o + 1 /\ batch'.ranges[range'][1] = first /\ batch'.ranges[range'][2] = count
    BY <2>1, <1>7, <1>22, <1>4 DEF Upcoming, first, count
  <2>4. Made' = (UNION {Asked(i) : i \in 1 .. range - 1}) \cup (first .. Upcoming' - 1)
    BY <2>3, <1>8, <1>19
  <2>5. UNION {Asked(i)' : i \in 1 .. range' - 1} = UNION {Asked(i) : i \in 1 .. range - 1}
    BY <2>1, <1>20
  <2>6. Made' = (UNION {Asked(i)' : i \in 1 .. range' - 1})
                  \cup (IF Materializing' THEN batch'.ranges[range'][1] .. Upcoming' - 1 ELSE {})
    BY <2>2, <2>3, <2>4, <2>5
  <2>7. at' < batch'.ranges[range'][2] /\ \A i \in DOMAIN cands' : cands'[i].ordinal < Upcoming'
    <3>1. \A i \in DOMAIN cands' : cands'[i].ordinal \in Nat
      BY <1>14, <1>3
    <3> QED
      BY <2>1, <2>3, <3>1, <1>23, <1>8, <1>16
  <2>8. range' \in 1 .. Len(batch'.ranges) + 1 /\ at' \in Nat
    BY <2>1, <1>4, <1>22
  <2>9. RangeInv'
    BY <2>6, <2>7, <2>8, <1>14, <1>15, <1>21, <1>22 DEF RangeInv
  <2> QED
    BY <2>9, <1>1, <1>2, <1>11, <1>22 DEF GridInv
<1>24. CASE ~(at + 1 < count)
  <2>1. at' = 0 /\ range' = range + 1 /\ at + 1 = count
    BY <1>1, <1>7, <1>4, <1>24 DEF count
  <2>2. Asked(range) = first .. o
    BY <2>1, <1>7, <1>4 DEF Asked, first, count, rs
  <2>3. 1 .. range' - 1 = (1 .. range - 1) \cup {range}
    BY <2>1, <1>4
  <2>4. UNION {Asked(i)' : i \in 1 .. range' - 1} = (UNION {Asked(i) : i \in 1 .. range - 1}) \cup (first .. o)
    <3>1. {Asked(i)' : i \in 1 .. range' - 1} = {Asked(i) : i \in (1 .. range - 1) \cup {range}}
      BY <2>3, <1>20
    <3> DEFINE earlier == 1 .. range - 1
               A(i) == Asked(i)
    <3>2. UNION {A(i) : i \in earlier \cup {range}} = (UNION {A(i) : i \in earlier}) \cup A(range)
      <4> HIDE DEF A, earlier
      <4>1. {A(i) : i \in earlier \cup {range}} = {A(i) : i \in earlier} \cup {A(range)}
        OBVIOUS
      <4> QED
        BY <4>1
    <3> QED
      BY <3>1, <3>2, <2>2
  <2>5. ASSUME Materializing'
        PROVE  /\ batch'.ranges[range'][1] .. Upcoming' - 1 = {}
               /\ at' < batch'.ranges[range'][2]
               /\ \A i \in DOMAIN cands' : cands'[i].ordinal < Upcoming'
    <3>1. range + 1 \in 1 .. Len(rs) /\ range + 1 > 1 /\ (range + 1) - 1 = range
      BY <2>1, <2>5, <1>4, <1>22 DEF Materializing
    <3>2. rs[range + 1][1] >= first + count /\ rs[range + 1][1] \in Nat /\ rs[range + 1][2] > 0
      BY <3>1, <1>5, <1>6 DEF first, count
    <3>3. Upcoming' = rs[range + 1][1] /\ batch'.ranges[range'] = rs[range + 1]
      BY <2>1, <3>2, <1>22 DEF Upcoming
    <3>4. \A i \in DOMAIN cands' : cands'[i].ordinal \in Nat
      BY <1>14, <1>3
    <3>5. o < Upcoming'
      BY <3>2, <3>3, <2>1, <1>7, <1>4
    <3> QED
      BY <3>2, <3>3, <3>4, <3>5, <2>1, <1>8, <1>16
  <2>6. Made' = (UNION {Asked(i)' : i \in 1 .. range' - 1})
                  \cup (IF Materializing' THEN batch'.ranges[range'][1] .. Upcoming' - 1 ELSE {})
    BY <2>4, <2>5, <1>19
  <2>7. range' \in 1 .. Len(batch'.ranges) + 1 /\ at' \in Nat
    BY <2>1, <1>4, <1>22
  <2>8. RangeInv'
    BY <2>5, <2>6, <2>7, <1>14, <1>15, <1>21, <1>22 DEF RangeInv
  <2> QED
    BY <2>8, <1>1, <1>2, <1>11, <1>22 DEF GridInv
<1> QED
  BY <1>23, <1>24

LEMMA GridBegins == Init => GridInv
<1>1. ASSUME Init PROVE GridInv
  <2>1. req \in Requests /\ grid = NoGrid /\ batch = NoBatch /\ cands = << >>
    BY <1>1 DEF Init, TapeInit, GridInit
  <2>2. batch.kind = "none"
    BY <2>1 DEF NoBatch
  <2>3. cands \in Seq({cands[i] : i \in DOMAIN cands})
    BY <2>1
  <2> QED
    BY <2>1, <2>2, <2>3 DEF GridInv
<1> QED
  BY <1>1

LEMMA GridStep == GridInv /\ [Next]_vars => GridInv'
<1> SUFFICES ASSUME GridInv, [Next]_vars PROVE GridInv'
  OBVIOUS
<1>1. req' = req
  BY TapeSteps, ReqKept
<1>2. CASE UNCHANGED gridVars
  <2>1. UNCHANGED <<grid, batch, range, at, cands>>
    BY <1>2 DEF gridVars
  <2>2. Materializing' = Materializing /\ Upcoming' = Upcoming /\ Made' = Made /\ Total' = Total
    BY <2>1 DEF Materializing, Upcoming, Made, Total
  <2>3. RangesOk(batch.ranges)' = RangesOk(batch.ranges)
    BY <2>1 DEF RangesOk, Total
  <2>4. \A i : Asked(i)' = Asked(i)
    BY <2>1 DEF Asked
  <2>5. RangeInv' = RangeInv
    BY <2>1, <2>2, <2>3, <2>4 DEF RangeInv
  <2> QED
    BY <1>1, <2>1, <2>5 DEF GridInv
<1>3. CASE RegisterGrid
  <2> PICK g \in req.grids : Register(g)
    BY <1>3 DEF RegisterGrid
  <2>1. /\ batch = NoBatch /\ GridValid(g) /\ grid' = [registered |-> TRUE, of |-> g]
        /\ batch' = batch /\ cands' = cands
    BY DEF Register
  <2>2. batch'.kind = "none" /\ grid'.of = g
    BY <2>1 DEF NoBatch
  <2>3. cands' \in Seq({cands'[i] : i \in DOMAIN cands'})
    BY <2>1 DEF GridInv
  <2> QED
    BY <1>1, <2>1, <2>2, <2>3 DEF GridInv
<1>4. CASE EvaluateBatch
  <2> PICK b \in req.batches : Submit(b)
    BY <1>4 DEF EvaluateBatch
  <2> QED
    BY <1>1, BatchBegins
<1>5. CASE MaterializeNext
  BY <1>1, <1>5, OneMoreMade DEF MaterializeNext
<1>6. CASE EndBatch
  <2>1. batch' = NoBatch /\ cands' = << >> /\ grid' = grid
    BY <1>6 DEF EndBatch
  <2>2. batch'.kind = "none"
    BY <2>1 DEF NoBatch
  <2>3. cands' \in Seq({cands'[i] : i \in DOMAIN cands'})
    BY <2>1
  <2> QED
    BY <1>1, <2>1, <2>2, <2>3 DEF GridInv
<1>7. CASE Load \/ OpenSession \/ RefuseSession \/ RunPool \/ FailCandidate \/ UNCHANGED vars
  BY <1>2, <1>7 DEF Load, OpenSession, RefuseSession, RunPool, FailCandidate, vars
<1> QED
  BY <1>3, <1>4, <1>5, <1>6, <1>7 DEF Next

\* CandidateMatchesOrdinal for every grid and every batch of ranges.  What a batch has
\* materialized is the part of its ranges before the ordinal in turn (GridInv, RangeInv);
\* that an ordinal names the point of its rank and no other, with the values of that
\* point, is a fact about the mixed radix and the overlay (CandidateExact).
THEOREM CandidatesNameTheirPoints == Spec => []CandidateMatchesOrdinal
<1>1. GridInv => CandidateMatchesOrdinal
  <2> SUFFICES ASSUME GridInv, batch.kind = "ranges" PROVE CandidateMatchesOrdinal
    BY DEF CandidateMatchesOrdinal
  <2> DEFINE g == grid.of
  <2>1. RangeInv /\ Shaped(g) /\ Total <= MaxTotal /\ Total = Ordinals(g, Len(g.order))
    BY GridShaped DEF GridInv, RangeInv, Total
  <2>2. \A i \in DOMAIN cands : NamesItsPoint(g, cands[i])
    <3> SUFFICES ASSUME NEW i \in DOMAIN cands PROVE NamesItsPoint(g, cands[i])
      OBVIOUS
    <3>1. cands[i].ordinal \in 0 .. Total - 1 /\ cands[i] = Candidate(g, cands[i].ordinal)
      BY <2>1 DEF RangeInv
    <3> DEFINE o == cands[i].ordinal
    <3>2. Total \in Nat
      BY <2>1, GridShaped DEF GridInv, RangeInv, Total
    <3>3. o \in Nat /\ o < Ordinals(g, Len(g.order)) /\ Ordinals(g, Len(g.order)) <= MaxTotal
      BY <3>1, <3>2, <2>1
    <3> HIDE DEF o, g
    <3>4. NamesItsPoint(g, Candidate(g, o))
      BY <3>3, <2>1, CandidateExact
    <3> QED
      BY <3>1, <3>4, Zenon DEF o
  <2>3. Total \in Nat /\ range \in Nat
    BY <2>1, GridShaped DEF GridInv, RangeInv, Total
  <2> DEFINE asked == [i \in DOMAIN batch.ranges |->
                         batch.ranges[i][1] .. batch.ranges[i][1] + batch.ranges[i][2] - 1]
  <2>4. \A i \in 1 .. range - 1 : asked[i] = Asked(i)
    <3>1. batch \in req.batches /\ req \in Requests
      BY DEF GridInv, NoBatch
    <3>2. batch.ranges \in Seq(Nat \X Nat)
      BY <3>1, SessionsAssumption, Zenon
    <3>3. DOMAIN batch.ranges = 1 .. Len(batch.ranges) /\ Len(batch.ranges) \in Nat
      BY <3>2
    <3>4. range \in 1 .. Len(batch.ranges) + 1
      BY <2>1 DEF RangeInv
    <3>5. \A i \in 1 .. range - 1 : i \in DOMAIN batch.ranges
      BY <3>3, <3>4
    <3> QED
      BY <3>5 DEF Asked
  <2>5. {cands[i].ordinal : i \in DOMAIN cands} =
          (UNION {asked[i] : i \in 1 .. range - 1})
            \cup (IF Materializing
                  THEN batch.ranges[range][1] .. batch.ranges[range][1] + at - 1 ELSE {})
    <3>1. {Asked(i) : i \in 1 .. range - 1} = {asked[i] : i \in 1 .. range - 1}
      BY <2>4
    <3>2. {cands[i].ordinal : i \in DOMAIN cands} =
            (UNION {Asked(i) : i \in 1 .. range - 1})
              \cup (IF Materializing
                    THEN batch.ranges[range][1] .. batch.ranges[range][1] + at - 1 ELSE {})
      <4>1. Made = (UNION {Asked(i) : i \in 1 .. range - 1})
                     \cup (IF Materializing THEN batch.ranges[range][1] .. Upcoming - 1 ELSE {})
        BY <2>1 DEF RangeInv
      <4>2. ASSUME Materializing
            PROVE  Upcoming - 1 = batch.ranges[range][1] + at - 1
        <5>1. batch \in req.batches /\ req \in Requests
          BY DEF GridInv, NoBatch
        <5>2. batch.ranges \in Seq(Nat \X Nat)
          BY <5>1, SessionsAssumption, Zenon
        <5>3. range \in 1 .. Len(batch.ranges) /\ at \in Nat
          BY <4>2, <2>1, <5>2 DEF Materializing, RangeInv
        <5>4. batch.ranges[range] \in Nat \X Nat
          BY <5>2, <5>3
        <5>5. batch.ranges[range][1] \in Nat
          BY <5>4
        <5> QED
          BY <5>3, <5>5 DEF Upcoming
      <4> QED
        BY <4>1, <4>2 DEF Made
    <3> HIDE DEF asked
    <3> QED
      BY <3>1, <3>2, Zenon
  <2>6. \A i, j \in DOMAIN cands : i < j => cands[i].ordinal < cands[j].ordinal
    BY <2>1 DEF RangeInv
  <2> QED
    BY <2>2, <2>5, <2>6 DEF CandidateMatchesOrdinal, NamesItsPoint
<1> QED
  BY GridBegins, GridStep, <1>1, PTL DEF Spec

-----------------------------------------------------------------------------
(* The starts of the runs. *)

LEMMA OneMore ==
  ASSUME NEW s, s \in Seq({s[i] : i \in DOMAIN s}), NEW e, NEW t, t = Append(s, e)
  PROVE  /\ Len(s) \in Nat /\ DOMAIN s = 1 .. Len(s)
         /\ DOMAIN t = 1 .. Len(s) + 1 /\ Len(t) = Len(s) + 1
         /\ t[Len(s) + 1] = e /\ \A i \in 1 .. Len(s) : t[i] = s[i]
         /\ t \in Seq({t[i] : i \in DOMAIN t})
<1> DEFINE S == {s[i] : i \in DOMAIN s} \cup {e}
<1>1. s \in Seq({s[i] : i \in DOMAIN s}) /\ e \in S
  OBVIOUS
<1>2. {s[i] : i \in DOMAIN s} \subseteq S
  OBVIOUS
<1> HIDE DEF S
<1>3. s \in Seq(S)
  BY <1>1, <1>2
<1>4. t \in Seq(S)
  BY <1>1, <1>3
<1>5. t \in Seq({t[i] : i \in DOMAIN t})
  BY <1>4, OwnElements
<1> QED
  BY <1>1, <1>3, <1>5, Pushed

\* What came of a candidate.
Outcome(c) == IF Runs(c) THEN Entered(c) ELSE Failed

RunInv ==
  /\ stage \in {"attach", "index", "loaded"} => events # << >>
  /\ session = "open" => Loaded
  /\ batch # NoBatch => session = "open"
  /\ outcomes # << >> => batch # NoBatch /\ ~Materializing
  /\ outcomes \in Seq({outcomes[i] : i \in DOMAIN outcomes}) /\ Len(outcomes) <= Len(cands)
  /\ \A i \in DOMAIN outcomes : outcomes[i] = Outcome(cands[i])

\* An outcome depends on the market and the candidate only.
LEMMA OutcomeFixed ==
  ASSUME UNCHANGED <<req, events, reports>>
  PROVE  \A c : Outcome(c)' = Outcome(c)
<1>1. \A c : Effective(c)' = Effective(c)
  BY DEF Effective, BasePool, Defaults, SessionFee
<1>2. \A p : InitTs(p)' = InitTs(p) /\ RequestedStart(p)' = RequestedStart(p)
  BY DEF InitTs, RequestedStart
<1>3. \A p : Anchor(p)' = Anchor(p)
  BY DEF Anchor, MarketAnchor, RequestedStart, From
<1>4. \A p : BalancedAt(p)' = BalancedAt(p)
  BY <1>3 DEF BalancedAt
<1>5. \A p : FirstEvent(p)' = FirstEvent(p)
  BY <1>2 DEF FirstEvent, Floor, From
<1>6. \A c : Entered(c)' = Entered(c)
  BY <1>1, <1>2, <1>3, <1>4, <1>5 DEF Entered
<1>7. \A c : JobAccepts(c)' = JobAccepts(c)
  BY <1>1 DEF JobAccepts
<1>8. \A p : RunnerAccepts(p)' = RunnerAccepts(p)
  BY <1>2 DEF RunnerAccepts, YbStateFits, SameCheckpoint, StartFits, PolicyStateFits
<1>9. \A p : ReportsSelectable(p)' = ReportsSelectable(p)
  BY DEF ReportsSelectable
<1>10. \A c : Runs(c)' = Runs(c)
  BY <1>1, <1>7, <1>8, <1>9 DEF Runs
<1> QED
  BY <1>6, <1>10 DEF Outcome

LEMMA RunBegins == Init => RunInv
<1>1. ASSUME Init PROVE RunInv
  <2>1. stage = "open" /\ session = "none" /\ batch = NoBatch /\ cands = << >> /\ outcomes = << >>
    BY <1>1 DEF Init, TapeInit, GridInit
  <2>2. Len(outcomes) <= Len(cands) /\ outcomes \in Seq({outcomes[i] : i \in DOMAIN outcomes})
    BY <2>1
  <2> QED
    BY <2>1, <2>2 DEF RunInv
<1> QED
  BY <1>1

LEMMA RunStep ==
  ASSUME TapeTypeOK, TapeFlow, GridInv, GridInv', RunInv, [Next]_vars
  PROVE  RunInv'
<1>n. Len(cands) \in Nat /\ Len(cands') \in Nat /\ Len(outcomes) \in Nat
  <2>1. \A S : \A s \in Seq(S) : Len(s) \in Nat
    OBVIOUS
  <2>2. /\ cands \in Seq({cands[i] : i \in DOMAIN cands})
        /\ cands' \in Seq({cands'[i] : i \in DOMAIN cands'})
        /\ outcomes \in Seq({outcomes[i] : i \in DOMAIN outcomes})
    BY DEF GridInv, RunInv
  <2> QED
    BY <2>1, <2>2, Zenon
\* No run is under way, before and after.
<1>q. ASSUME outcomes = << >>, outcomes' = << >>
      PROVE  /\ outcomes' # << >> => batch' # NoBatch /\ ~Materializing'
             /\ outcomes' \in Seq({outcomes'[i] : i \in DOMAIN outcomes'})
             /\ Len(outcomes') <= Len(cands')
             /\ \A i \in DOMAIN outcomes' : outcomes'[i] = Outcome(cands[i])'
  <2>1. outcomes' \in Seq({outcomes'[i] : i \in DOMAIN outcomes'}) /\ Len(outcomes') = 0
    BY <1>q
  <2> QED
    BY <2>1, <1>q, <1>n
\* The market stays.
<1>m. ASSUME UNCHANGED tapeVars
      PROVE  /\ Loaded' = Loaded /\ (stage' \in {"attach", "index", "loaded"} => events' # << >>)
             /\ \A c : Outcome(c)' = Outcome(c)
  <2>1. UNCHANGED <<req, stage, events, reports>>
    BY <1>m DEF tapeVars
  <2>2. \A c : Outcome(c)' = Outcome(c)
    BY <2>1, OutcomeFixed
  <2> QED
    BY <2>1, <2>2 DEF Loaded, RunInv
<1>1. CASE Load
  <2>1. TapeNext /\ UNCHANGED <<grid, batch, range, at, cands, session, outcomes>>
    BY <1>1 DEF Load, gridVars, runVars
  <2>2. stage # "loaded"
    BY <2>1 DEF TapeNext, Open, ReadRow, MakeTape, RowsRead, ReadFeed, GenBin, GenBlock, EndEvents,
       EventsMade, Advance, AttachPrice, EndAttach, IndexReports, Refuse, RefuseRequest, RefuseRows,
       RefuseFeed, RefuseEvents, RefuseAttach
  <2>3. session # "open" /\ batch = NoBatch /\ outcomes = << >>
    BY <2>2 DEF RunInv, Loaded
  <2>4. stage' \in {"attach", "index", "loaded"} => events' # << >>
    <3>1. CASE Open \/ ReadRow \/ MakeTape \/ ReadFeed \/ GenBin \/ GenBlock \/ Refuse
      BY <3>1 DEF Open, ReadRow, MakeTape, RowsRead, ReadFeed, GenBin, GenBlock, Refuse
    <3>2. CASE EndEvents \/ Advance \/ EndAttach \/ IndexReports
      BY <3>2 DEF EndEvents, Advance, EndAttach, IndexReports, RunInv
    <3>3. CASE AttachPrice
      <4>1. stage = "attach" /\ DOMAIN events' = DOMAIN events
        BY <3>3 DEF AttachPrice
      <4>2. events \in Seq(MarketEvent) /\ events # << >>
        BY <4>1 DEF TapeTypeOK, RunInv
      <4>3. 1 \in DOMAIN events
        BY <4>2
      <4> QED
        BY <4>1, <4>3
    <3> QED
      BY <2>1, <3>1, <3>2, <3>3 DEF TapeNext
  <2> QED
    BY <2>1, <2>3, <2>4, <1>q DEF RunInv
<1>2. CASE OpenSession
  <2>1. /\ UNCHANGED tapeVars /\ UNCHANGED <<batch, range, cands, outcomes>>
        /\ session' = "open" /\ Loaded
    BY <1>2 DEF OpenSession, gridVars
  <2>2. Materializing' = Materializing
    BY <2>1 DEF Materializing
  <2> QED
    BY <2>1, <2>2, <1>m DEF RunInv
<1>3. CASE RefuseSession
  <2>1. /\ stage' = "failed" /\ session = "none" /\ UNCHANGED <<batch, session, outcomes>>
    BY <1>3 DEF RefuseSession, gridVars, runVars
  <2>2. batch = NoBatch /\ outcomes = << >>
    BY <2>1 DEF RunInv
  <2> QED
    BY <2>1, <2>2, <1>q DEF RunInv
<1>4. CASE RegisterGrid
  <2>1. UNCHANGED tapeVars /\ UNCHANGED <<session, outcomes, batch>> /\ batch = NoBatch
    BY <1>4 DEF RegisterGrid, Register, runVars
  <2>2. outcomes = << >>
    BY <2>1 DEF RunInv
  <2> QED
    BY <2>1, <2>2, <1>m, <1>q DEF RunInv
<1>5. CASE EvaluateBatch
  <2>1. UNCHANGED tapeVars /\ UNCHANGED <<session, outcomes>> /\ session = "open" /\ batch = NoBatch
    BY <1>5 DEF EvaluateBatch, Submit, runVars
  <2>2. outcomes = << >>
    BY <2>1 DEF RunInv
  <2> QED
    BY <2>1, <2>2, <1>m, <1>q DEF RunInv
<1>6. CASE MaterializeNext
  <2>1. UNCHANGED tapeVars /\ UNCHANGED <<session, outcomes, batch>> /\ Materializing
    BY <1>6 DEF MaterializeNext, Materialize, runVars
  <2>2. outcomes = << >>
    BY <2>1 DEF RunInv
  <2> QED
    BY <2>1, <2>2, <1>m, <1>q DEF RunInv
<1>7. CASE RunPool \/ FailCandidate
  <2>1. /\ UNCHANGED tapeVars /\ UNCHANGED <<session, batch, range, cands>> /\ BatchReady
        /\ outcomes' = Append(outcomes, Outcome(cands[Len(outcomes) + 1]))
    BY <1>7 DEF RunPool, FailCandidate, gridVars, NextCandidate, Outcome, BatchReady
  <2>2. /\ batch' # NoBatch /\ ~Materializing' /\ Len(outcomes) < Len(cands)
    BY <2>1 DEF BatchReady, Materializing
  <2> DEFINE n == Len(outcomes)
             e == Outcome(cands[n + 1])
  <2> HIDE DEF e
  <2>3. outcomes' = Append(outcomes, e) /\ outcomes \in Seq({outcomes[i] : i \in DOMAIN outcomes})
    BY <2>1 DEF e, RunInv
  <2>4. /\ DOMAIN outcomes = 1 .. n /\ DOMAIN outcomes' = 1 .. n + 1 /\ Len(outcomes') = n + 1
        /\ outcomes'[n + 1] = e /\ \A i \in 1 .. n : outcomes'[i] = outcomes[i]
        /\ outcomes' \in Seq({outcomes'[i] : i \in DOMAIN outcomes'})
    BY <2>3, OneMore
  <2>5. Len(outcomes') <= Len(cands')
    BY <2>1, <2>2, <2>4, <1>n
  <2>6. \A i \in 1 .. n + 1 : i \in 1 .. n \/ i = n + 1
    BY <1>n
  <2>7. \A i \in DOMAIN outcomes' : outcomes'[i] = Outcome(cands[i])
    BY <2>4, <2>6, Zenon DEF RunInv, e
  <2>8. \A i \in DOMAIN outcomes' : outcomes'[i] = Outcome(cands[i])'
    <3>1. \A c : Outcome(c)' = Outcome(c)
      BY <2>1, <1>m
    <3> QED
      BY <2>1, <2>7, <3>1
  <2> QED
    BY <2>1, <2>2, <2>4, <2>5, <2>8, <1>m DEF RunInv
<1>8. CASE EndBatch
  <2>1. UNCHANGED tapeVars /\ UNCHANGED session /\ batch' = NoBatch /\ outcomes' = << >> /\ cands' = << >>
    BY <1>8 DEF EndBatch
  <2>2. outcomes' \in Seq({outcomes'[i] : i \in DOMAIN outcomes'}) /\ Len(outcomes') <= Len(cands')
    BY <2>1
  <2> QED
    BY <2>1, <2>2, <1>m DEF RunInv
<1>9. CASE UNCHANGED vars
  <2>1. UNCHANGED tapeVars /\ UNCHANGED <<batch, range, cands, session, outcomes>>
    BY <1>9 DEF vars, gridVars, runVars
  <2>2. Materializing' = Materializing
    BY <2>1 DEF Materializing
  <2> QED
    BY <2>1, <2>2, <1>m DEF RunInv
<1> QED
  BY <1>1, <1>2, <1>3, <1>4, <1>5, <1>6, <1>7, <1>8, <1>9 DEF Next

\* The start of an entry, if it gives one, is a number of seconds.
Started(fields) == "start_timestamp" \in DOMAIN fields => fields["start_timestamp"] \in Nat

LEMMA StartInSeconds == \A entry : Started(entry) => Started(Typed(entry))
<1>1. \A raw \in Nat : InSeconds(raw) \in Nat
  BY DEF InSeconds
<1> QED
  BY <1>1 DEF Started, Typed

LEMMA OverlayStarted ==
  \A base, patch : Started(base) /\ Started(patch) => Started(Overlay(base, patch))
BY DEF Started, Overlay

\* The start of a grid's candidate comes from the pool of the grid or of a value.
LEMMA GridStarted ==
  ASSUME req \in Requests, NEW g \in req.grids, GridValid(g), Shaped(g), NEW o \in Nat,
         o < Ordinals(g, Len(g.order)), Ordinals(g, Len(g.order)) <= MaxTotal
  PROVE  Started(Candidate(g, o).override)
<1> DEFINE N == Len(g.order)
           v == Coordinates(g, o)
           base == Typed(g.pool)
           Q == [a \in AxisNumbers(g) |-> Typed(Values(g, a)[v[a]].pool)]
           f == "start_timestamp"
<1>1. N \in Nat /\ AxisNumbers(g) = 1 .. N
  BY DEF Shaped
<1>2. Candidate(g, o).override = Stacked(base, Q)
  <2>1. \A a \in AxisNumbers(g) :
          [b \in AxisNumbers(g) |-> Values(g, b)[Coordinates(g, o)[b]]][a] = Values(g, a)[v[a]]
    OBVIOUS
  <2>2. Candidate(g, o).override = Stacked(Typed(g.pool), [a \in AxisNumbers(g) |->
           Typed([b \in AxisNumbers(g) |-> Values(g, b)[Coordinates(g, o)[b]]][a].pool)])
    BY Zenon DEF Candidate
  <2> QED
    BY <2>1, <2>2
<1>3. v \in Vectors(g)
  BY PointNamed
<1>4. /\ Started(g.pool) /\ \A x \in DOMAIN g.axes : \A i \in DOMAIN g.axes[x] : Started(g.axes[x][i].pool)
  BY SessionsAssumption DEF Started
<1>5. Started(base)
  BY <1>4, StartInSeconds
<1> HIDE DEF v, base
<1>6. \A a \in 1 .. N : Started(Q[a])
  <2> SUFFICES ASSUME NEW a \in 1 .. N PROVE Started(Q[a])
    OBVIOUS
  <2>1. v[a] \in DOMAIN Values(g, a) /\ g.order[a] \in DOMAIN g.axes
    <3>1. a \in AxisNumbers(g) /\ {g.order[b] : b \in AxisNumbers(g)} = DOMAIN g.axes
      BY <1>1 DEF GridValid, ShapeValid
    <3>2. v[a] \in DOMAIN Values(g, a)
      BY <3>1, <1>3 DEF Vectors
    <3> QED
      BY <3>1, <3>2
  <2>2. Started(Values(g, a)[v[a]].pool)
    BY <2>1, <1>4 DEF Values
  <2> QED
    BY <2>2, <1>1, StartInSeconds
<1>7. Len(Q) = N /\ DOMAIN Q = 1 .. N
  <2>1. Q = [a \in 1 .. N |-> Q[a]]
    BY <1>1
  <2> HIDE DEF Q, N
  <2> QED
    BY <1>1, <2>1, Numbered
<1> HIDE DEF Q, N
<1> DEFINE c == Stacked(base, Q)
<1>8. ASSUME f \in DOMAIN c PROVE c[f] \in Nat
  <2>1. FieldFrom(base, Q, N, f, c[f])
    BY <1>1, <1>7, <1>8, StackField
  <2> QED
    BY <2>1, <1>5, <1>6 DEF FieldFrom, Started
<1> QED
  BY <1>2, <1>8 DEF Started

LEMMA StartTyped ==
  ASSUME GridInv, NEW i \in DOMAIN cands
  PROVE  Effective(cands[i]).start_timestamp \in Nat
<1>1. req \in Requests /\ batch # NoBatch /\ batch \in req.batches
  BY DEF GridInv
<1>2. Started(cands[i].override)
  <2>1. CASE batch.kind = "list"
    <3> DEFINE c == batch.list[i]
    <3>1. i \in DOMAIN batch.list /\ cands[i] = ListCandidate(c)
      BY <2>1 DEF GridInv
    <3>2. Started(c.pool)
      BY <1>1, <2>1, <3>1, SessionsAssumption DEF Started
    <3>3. Started(Nothing)
      BY DEF Started, Nothing
    <3>4. cands[i].override = IF EntryValid(c.pool) THEN Typed(c.pool) ELSE Nothing
      BY <3>1 DEF ListCandidate
    <3> QED
      BY <3>2, <3>3, <3>4, StartInSeconds
  <2>2. CASE batch.kind = "ranges"
    <3> DEFINE g == grid.of
               o == cands[i].ordinal
    <3>1. RangeInv /\ g \in req.grids /\ GridValid(g) /\ Shaped(g) /\ Total = Ordinals(g, Len(g.order))
          /\ Total \in Nat /\ Total <= MaxTotal
      BY <2>2, GridShaped DEF GridInv, RangeInv, Total
    <3>2. cands[i] = Candidate(g, o) /\ o \in 0 .. Total - 1
      BY <3>1 DEF RangeInv
    <3>3. o \in Nat /\ o < Ordinals(g, Len(g.order))
      BY <3>1, <3>2
    <3> HIDE DEF g, o
    <3>4. Started(Candidate(g, o).override)
      BY <1>1, <3>1, <3>3, GridStarted
    <3> QED
      BY <3>2, <3>4
  <2> QED
    BY <1>1, <2>1, <2>2, SessionsAssumption
<1>3. Started(req.template.entry)
  BY <1>1, SessionsAssumption DEF Started
<1>4. Started(Defaults) /\ "start_timestamp" \in DOMAIN Defaults
  BY DEF Started, Defaults
<1> DEFINE p == Effective(cands[i])
<1>5. Started(p) /\ "start_timestamp" \in DOMAIN p
  <2>1. Started(BasePool) /\ "start_timestamp" \in DOMAIN BasePool
    <3>1. Started(Typed(req.template.entry))
      BY <1>3, StartInSeconds
    <3>2. Started(BasePool)
      BY <1>4, <3>1, OverlayStarted, Zenon DEF BasePool
    <3> QED
      BY <1>4, <3>2 DEF BasePool, Overlay
  <2>2. Started(p)
    BY <1>2, <2>1, OverlayStarted, Zenon DEF Effective
  <2> QED
    BY <2>1, <2>2 DEF Effective, Overlay
<1> HIDE DEF p
<1>6. p.start_timestamp \in Nat
  BY <1>5 DEF Started
<1> QED
  BY <1>6 DEF p

LEMMA ClockTyped ==
  ASSUME TapeTypeOK, GridInv, RunInv, Loaded, NEW i \in DOMAIN cands
  PROVE  InitTs(Effective(cands[i])) \in Nat
<1>1. req.start \in Nat
  BY RequestsAssumption DEF TapeTypeOK
<1>2. events[1].ts \in Nat
  <2>1. events \in Seq(MarketEvent) /\ events # << >>
    BY DEF TapeTypeOK, RunInv, Loaded
  <2>2. 1 \in DOMAIN events
    BY <2>1
  <2>3. events[1] \in MarketEvent
    BY <2>1, <2>2, Element
  <2> QED
    BY <2>3 DEF MarketEvent
<1> QED
  BY <1>1, <1>2, StartTyped DEF InitTs, RequestedStart

\* The first event at or after a moment, and all those after it.
LEMMA FirstIsLeast ==
  ASSUME TapeTypeOK, NEW ts, From(ts) # {}
  PROVE  /\ FirstOf(From(ts)) \in From(ts) /\ \A j \in From(ts) : FirstOf(From(ts)) <= j
         /\ From(ts) \subseteq 1 .. Len(events) /\ Len(events) \in Nat
<1>1. events \in Seq(MarketEvent)
  BY DEF TapeTypeOK
<1>2. From(ts) \subseteq 1 .. Len(events) /\ Len(events) \in Nat
  BY <1>1 DEF From
<1> DEFINE S == From(ts)
<1>3. S \in SUBSET Nat /\ S # {}
  BY <1>2
<1> HIDE DEF S
<1>4. \E m \in S : \A n \in S : m <= n
  BY <1>3, LeastNumber
<1>5. FirstOf(S) \in S /\ \A j \in S : FirstOf(S) <= j
  BY <1>4, Zenon DEF FirstOf
<1> QED
  BY <1>2, <1>5 DEF S

LEMMA AllAfterFirst ==
  ASSUME TapeTypeOK, Rising, NEW ts \in Nat, From(ts) # {}
  PROVE  From(ts) = FirstOf(From(ts)) .. Len(events)
<1> DEFINE k == FirstOf(From(ts))
<1>1. k \in From(ts) /\ (\A j \in From(ts) : k <= j) /\ From(ts) \subseteq 1 .. Len(events)
      /\ Len(events) \in Nat
  BY FirstIsLeast
<1>2. events \in Seq(MarketEvent)
  BY DEF TapeTypeOK
<1>3. \A i \in DOMAIN events : events[i].ts \in Nat
  <2>1. \A i \in DOMAIN events : events[i] \in MarketEvent
    BY <1>2, Element
  <2> QED
    BY <2>1 DEF MarketEvent
<1> HIDE DEF k
<1>4. DOMAIN events = 1 .. Len(events) /\ k \in DOMAIN events /\ events[k].ts >= ts
  BY <1>1, <1>2 DEF From
<1>5. ASSUME NEW j \in k .. Len(events) PROVE j \in From(ts)
  <2>1. j \in DOMAIN events /\ (j = k \/ k < j)
    BY <1>4, <1>1, <1>5
  <2>2. events[j].ts >= ts
    BY <2>1, <1>3, <1>4 DEF Rising
  <2> QED
    BY <2>1, <2>2 DEF From
<1>6. \A j \in From(ts) : j \in k .. Len(events)
  BY <1>1
<1>7. From(ts) = k .. Len(events)
  BY <1>5, <1>6
<1> QED
  BY <1>7 DEF k

\* What a restored pool finds.
LEMMA RestoredStart ==
  ASSUME TapeTypeOK, Rising, NEW c, InitTs(Effective(c)) \in Nat, HasState(Effective(c)), Runs(c)
  PROVE  LET run == Entered(c)
             state == Effective(c).historical_state
             seen == IF run.first = 0 THEN {} ELSE {events[j] : j \in run.first .. Len(events)}
         IN /\ run.at >= state.ts /\ run.price = state.price
            /\ seen = {events[j] : j \in {k \in DOMAIN events : events[k].ts >= run.at}}
            /\ req.yb.on /\ req.yb.given => req.yb.ts = state.ts /\ req.yb.block = state.block
<1> DEFINE p == Effective(c)
           run == Entered(c)
           state == p.historical_state
           seen == IF run.first = 0 THEN {} ELSE {events[j] : j \in run.first .. Len(events)}
<1>1. run.at = InitTs(p) /\ run.price = Anchor(p).price /\ run.first = FirstEvent(p)
  BY DEF Entered
<1>2. StartFits(p) /\ YbStateFits(p)
  BY DEF Runs, RunnerAccepts
<1>3. run.at >= state.ts /\ run.price = state.price
  BY <1>1, <1>2 DEF StartFits, Anchor
<1>4. req.yb.on /\ req.yb.given => req.yb.ts = state.ts /\ req.yb.block = state.block
  BY <1>2 DEF YbStateFits, SameCheckpoint
<1>5. seen = {events[j] : j \in From(run.at)}
  <2> DEFINE t == InitTs(p)
  <2>1. run.first = IF From(t) = {} THEN 0 ELSE FirstOf(From(t))
    BY <1>1 DEF FirstEvent, Floor
  <2>2. run.at = t /\ t \in Nat
    BY <1>1
  <2> HIDE DEF t, run
  <2>3. CASE From(t) = {}
    BY <2>1, <2>2, <2>3
  <2>4. CASE From(t) # {}
    <3>1. From(t) = FirstOf(From(t)) .. Len(events) /\ FirstOf(From(t)) \in 1 .. Len(events)
          /\ Len(events) \in Nat
      BY <2>2, <2>4, FirstIsLeast, AllAfterFirst
    <3>2. run.first # 0 /\ From(run.at) = run.first .. Len(events)
      BY <2>1, <2>2, <2>4, <3>1
    <3> QED
      BY <3>2
  <2> QED
    BY <2>3, <2>4
<1> QED
  BY <1>3, <1>4, <1>5 DEF From

\* Every event of a loaded market lies in the session's window.
LEMMA EventsInWindow ==
  ASSUME Loaded, BinInv, BlockInv, NEW i \in DOMAIN events
  PROVE  InWindow(events[i].ts)
<1>1. CASE req.mode = "block"
  <2>1. <<events[i].ts, events[i].price>> \in Quotes(Blocks)
    BY <1>1 DEF BlockInv, Loaded, Quoted
  <2> QED
    BY <2>1 DEF Quotes
<1>2. CASE req.mode # "block"
  <2>1. events[i].ts \in Ends(Bins)
    BY <1>2 DEF BinInv, Loaded, Times
  <2> QED
    BY <2>1 DEF Ends
<1> QED
  BY <1>1, <1>2

\* What a fresh pool finds.
LEMMA FreshStart ==
  ASSUME TapeTypeOK, BinInv, BlockInv, Loaded, events # << >>,
         NEW c, InitTs(Effective(c)) \in Nat, ~HasState(Effective(c)), Runs(c)
  PROVE  LET run == Entered(c)
             p == Effective(c)
         IN /\ run.first = 1 /\ ~(req.yb.on /\ req.yb.given)
            /\ \A j \in DOMAIN events :
                 /\ events[j].ts >= run.at
                 /\ \A k \in DOMAIN events : k < j => events[k].ts < run.at
                 => run.price = events[j].price
            /\ run.at > events[1].ts => req.start = 0 /\ run.at = p.start_timestamp
            /\ p.initial_price > 0 /\ p.initial_liquidity = p.initial_price =>
                 run.balanced = run.price
<1> DEFINE p == Effective(c)
           run == Entered(c)
           start == RequestedStart(p)
<1>1. /\ run.price = Anchor(p).price /\ run.balanced = BalancedAt(p) /\ run.first = FirstEvent(p)
      /\ Anchor(p) = MarketAnchor(p) /\ run.at = InitTs(p)
  BY DEF Entered, Anchor
<1>2. ~(req.yb.on /\ req.yb.given)
  BY DEF Runs, RunnerAccepts, YbStateFits, SameCheckpoint
<1>3. ASSUME p.initial_price > 0, p.initial_liquidity = p.initial_price
      PROVE  run.balanced = run.price
  BY <1>1, <1>3 DEF BalancedAt, MarketAnchor
<1>4. events \in Seq(MarketEvent) /\ DOMAIN events = 1 .. Len(events) /\ Len(events) \in Nat
      /\ 1 \in DOMAIN events
  BY DEF TapeTypeOK
<1>5. \A i \in DOMAIN events : events[i].ts \in Nat
  <2>1. \A i \in DOMAIN events : events[i] \in MarketEvent
    BY <1>4, Element
  <2> QED
    BY <2>1 DEF MarketEvent
<1>r. Rising
  BY DEF BinInv
<1>q. req.start \in Nat
  BY RequestsAssumption DEF TapeTypeOK
<1>c. start = (IF req.start # 0 THEN req.start ELSE p.start_timestamp)
      /\ run.at = (IF start # 0 THEN start ELSE events[1].ts) /\ run.at \in Nat
  BY <1>1 DEF RequestedStart, InitTs
<1> HIDE DEF run, start, p
<1>0. From(0) = DOMAIN events
  <2>1. \A i \in DOMAIN events : events[i].ts >= 0
    BY <1>5
  <2> QED
    BY <2>1, Zenon DEF From
\* It sees the whole market.
<1>6. run.first = 1
  <2>1. From(0) = DOMAIN events
    BY <1>0
  <2>2. run.first = IF From(0) = {} THEN 0 ELSE FirstOf(From(0))
    BY <1>1 DEF FirstEvent, Floor, p
  <2>3. FirstOf(From(0)) \in From(0) /\ \A j \in From(0) : FirstOf(From(0)) <= j
    BY <2>1, <1>4, FirstIsLeast
  <2> QED
    <3>1. FirstOf(From(0)) \in 1 .. Len(events) /\ FirstOf(From(0)) <= 1
      BY <2>1, <2>3, <1>4
    <3>2. FirstOf(From(0)) = 1
      BY <3>1, <1>4
    <3> QED
      BY <2>1, <2>2, <3>2, <1>4
\* Without a start, clock and price are those of the first event.
<1>7. From(start) = From(run.at)
  <2>1. CASE start # 0
    BY <2>1, <1>c
  <2>2. CASE start = 0
    <3>1. From(start) = DOMAIN events
      BY <2>2, <1>0
    <3>2. \A j \in DOMAIN events : j = 1 \/ 1 < j
      BY <1>4
    <3>3. \A j \in DOMAIN events : events[j].ts >= events[1].ts
      BY <3>2, <1>4, <1>5, <1>r DEF Rising
    <3>4. From(run.at) = DOMAIN events
      BY <2>2, <3>3, <1>c DEF From
    <3> QED
      BY <3>1, <3>4
  <2> QED
    BY <2>1, <2>2
<1>8. ASSUME NEW j \in DOMAIN events, events[j].ts >= run.at,
             \A k \in DOMAIN events : k < j => events[k].ts < run.at
      PROVE  run.price = events[j].price
  <2> DEFINE k == FirstOf(From(run.at))
  <2>1. j \in From(run.at)
    BY <1>8 DEF From
  <2>2. k \in From(run.at) /\ k <= j
    BY <2>1, FirstIsLeast
  <2>3. MarketAnchor(p).price = events[k].price
    BY <2>1, <1>7 DEF MarketAnchor, start
  <2> HIDE DEF k
  <2>4. k \in DOMAIN events /\ events[k].ts >= run.at
    BY <2>2 DEF From
  <2>5. ~(k < j)
    BY <2>4, <1>5, <1>8, <1>c
  <2>6. k = j
    BY <2>2, <2>4, <2>5, <1>4
  <2> QED
    BY <2>3, <2>6, <1>1
<1>9. ASSUME run.at > events[1].ts
      PROVE  req.start = 0 /\ run.at = p.start_timestamp
  <2>1. events[1].ts >= req.start /\ events[1].ts \in Nat
    BY <1>4, <1>5, EventsInWindow DEF InWindow
  <2> QED
    BY <2>1, <1>9, <1>c, <1>q
<1> QED
  BY <1>2, <1>3, <1>6, <1>8, <1>9 DEF run, p

\* StartsAtOneMoment for every market, grid and batch: what came of a candidate is what
\* run_single_pool makes of it in the market that was loaded (RunInv), because that
\* market stays while the session is open.  Its events are in order (BinInv), so the
\* first event from the clock on is the one that the run's anchor is taken from, and in
\* the session's window (BinInv, BlockInv), so only a start of the pool's own can set the
\* clock after the first of them.
THEOREM RunsStartAtOneMoment == Spec => []StartsAtOneMoment
<1> DEFINE I == TapeTypeOK /\ TapeFlow /\ BinInv /\ BlockInv /\ GridInv /\ RunInv
<1>1. Init => I
  BY TapeBegins, GridBegins, RunBegins DEF Init, TapeInit, BinInv, Rising, BlockInv
<1>2. I /\ [Next]_vars => I'
  BY TapeSteps, TapeTypes, BinStep, BlockStep, GridStep, RunStep
<1>3. I => StartsAtOneMoment
  <2> SUFFICES ASSUME I, NEW i \in DOMAIN outcomes, outcomes[i].ok
               PROVE  LET run == outcomes[i]
                          p == Effective(cands[i])
                          state == p.historical_state
                          seen == IF run.first = 0 THEN {} ELSE {events[j] : j \in run.first .. Len(events)}
                      IN /\ HasState(p) =>
                              /\ run.at >= state.ts /\ run.price = state.price
                              /\ seen = {events[j] : j \in {k \in DOMAIN events : events[k].ts >= run.at}}
                              /\ req.yb.on /\ req.yb.given =>
                                   req.yb.ts = state.ts /\ req.yb.block = state.block
                         /\ ~HasState(p) =>
                              /\ run.first = 1 /\ ~(req.yb.on /\ req.yb.given)
                              /\ \A j \in DOMAIN events :
                                   /\ events[j].ts >= run.at
                                   /\ \A k \in DOMAIN events : k < j => events[k].ts < run.at
                                   => run.price = events[j].price
                              /\ run.at > events[1].ts => req.start = 0 /\ run.at = p.start_timestamp
                              /\ p.initial_price > 0 /\ p.initial_liquidity = p.initial_price =>
                                   run.balanced = run.price
    BY DEF StartsAtOneMoment
  <2> DEFINE c == cands[i]
  <2>1. Loaded /\ Rising /\ events # << >>
    BY DEF RunInv, BinInv, Loaded
  <2>2. i \in DOMAIN cands
    <3>1. /\ DOMAIN outcomes = 1 .. Len(outcomes) /\ Len(outcomes) \in Nat
          /\ DOMAIN cands = 1 .. Len(cands) /\ Len(cands) \in Nat
      <4>1. \A S : \A s \in Seq(S) : DOMAIN s = 1 .. Len(s) /\ Len(s) \in Nat
        OBVIOUS
      <4> QED
        BY <4>1, Zenon DEF GridInv, RunInv
    <3>2. Len(outcomes) <= Len(cands)
      BY DEF RunInv
    <3> QED
      BY <3>1, <3>2
  <2>3. outcomes[i] = Outcome(c)
    BY DEF RunInv
  <2>4. Runs(c) /\ outcomes[i] = Entered(c)
    BY <2>3 DEF Outcome, Failed
  <2>5. InitTs(Effective(c)) \in Nat
    BY <2>1, <2>2, ClockTyped
  <2> HIDE DEF c
  <2>6. CASE HasState(Effective(c))
    <3>1. LET run == Entered(c)
              state == Effective(c).historical_state
              seen == IF run.first = 0 THEN {} ELSE {events[j] : j \in run.first .. Len(events)}
          IN /\ run.at >= state.ts /\ run.price = state.price
             /\ seen = {events[j] : j \in {k \in DOMAIN events : events[k].ts >= run.at}}
             /\ req.yb.on /\ req.yb.given => req.yb.ts = state.ts /\ req.yb.block = state.block
      BY <2>1, <2>4, <2>5, <2>6, RestoredStart
    <3> QED
      BY <2>4, <2>6, <3>1 DEF c
  <2>7. CASE ~HasState(Effective(c))
    BY <2>1, <2>4, <2>5, <2>7, FreshStart DEF c
  <2> QED
    BY <2>6, <2>7 DEF c
<1> QED
  BY <1>1, <1>2, <1>3, PTL DEF Spec
=============================================================================
