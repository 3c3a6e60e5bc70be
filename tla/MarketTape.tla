------------------------------ MODULE MarketTape ------------------------------
(***************************************************************************)
(* ScenarioStore::load: the market of a session.  Candle rows become a     *)
(* tape on one regular clock and one event per bin end; a block tape has   *)
(* one event per block; the observations of a price feed are attached to   *)
(* the events by a cursor that only moves forward, and indexed for the     *)
(* policies that choose among reports.  Time ranges may be excluded: no    *)
(* event and no report is inside one, nor is a price of a candle tape from *)
(* inside one; a price of a block tape may be (see TapeExact).             *)
(*                                                                         *)
(* Times are whole seconds, a price is a positive number, and 0 stands for *)
(* no price.  Volumes, highs and lows are left out.                        *)
(***************************************************************************)
EXTENDS Integers, Sequences, FiniteSets

CONSTANTS
  Requests,    \* what open_session may ask for, with the content of the files
  MsFrom       \* raw timestamps above it are milliseconds (10^10 in the code)

\* What the parsers of the files let through: a row or a point that they accept has a
\* price, an accepted point a time after 0, and seconds are told from milliseconds.
ASSUME RequestsAssumption ==
  /\ MsFrom \in Nat /\ MsFrom >= 1000
  /\ \A r \in Requests :
       /\ r.start \in Nat /\ r.end \in Nat /\ r.cap \in Nat
       /\ r.excluded \in Seq(Nat \X Nat)
       /\ r.rows \in Seq([ts : Nat, close : Nat, ok : BOOLEAN])
       /\ \A i \in DOMAIN r.rows : r.rows[i].ok => r.rows[i].close > 0
       /\ r.feedKind \in {"none", "csv", "npz"} /\ (r.feedKind = "none" => r.feed = << >>)
       /\ r.feed \in Seq([ts : Nat, price : Nat, ok : BOOLEAN])
       /\ \A i \in DOMAIN r.feed : r.feed[i].ok => r.feed[i].ts > 0
       /\ r.block.t0 \in Nat /\ r.block.delay \in 0 .. 2 /\ r.block.price \in Seq(Seq(Nat))
       /\ \A k \in DOMAIN r.block.price : Len(r.block.price[k]) = 5

VARIABLES
  req,         \* the request being loaded
  stage,       \* where ScenarioStore::load is
  next,        \* the next row, bin, block or event
  kept,        \* candles accepted, in the order of the file
  mark,        \* price of the last bin that traded
  events,      \* [ts, price, feed, feedTs]
  reports,     \* the feed, in order of time
  cursor,      \* attach_price_feed's position in it
  upper        \* report_upper: how many reports each event knows

tapeVars == <<req, stage, next, kept, mark, events, reports, cursor, upper>>

BlockS == 12     \* seconds of a block
NoTrade == 0     \* the price of a time at which none is known

-----------------------------------------------------------------------------
(* Excluded time ranges, half-open. *)

RangesValid(rs) ==
  \A i \in DOMAIN rs :
    rs[i][1] < rs[i][2] /\ (i > 1 => rs[i - 1][2] <= rs[i][1])

Excluded(ts) ==
  \E i \in DOMAIN req.excluded :
    req.excluded[i][1] <= ts /\ ts < req.excluded[i][2]

Touches(from, to) ==
  \E i \in DOMAIN req.excluded :
    from < req.excluded[i][2] /\ to > req.excluded[i][1]

InWindow(ts) == ts >= req.start /\ (req.end = 0 \/ ts <= req.end)

-----------------------------------------------------------------------------
(* The request. *)

Seconds(raw) == IF raw > MsFrom THEN raw \div 1000 ELSE raw

\* The checks before any file of the market is read.
Loadable ==
  /\ RangesValid(req.excluded) /\ req.template.ok
  /\ CASE req.mode = "candles" -> TRUE
       [] req.mode = "block"   -> req.cap = 0 /\ req.block.t0 % BlockS = BlockS - 1
       [] OTHER                -> FALSE

Open ==
  /\ stage = "open" /\ Loadable
  /\ stage' = IF req.mode = "block" THEN "feed" ELSE "rows"
  /\ next' = 1
  /\ UNCHANGED <<req, kept, mark, events, reports, cursor, upper>>

RefuseRequest == stage = "open" /\ ~Loadable

-----------------------------------------------------------------------------
(* load_candles and make_candle_tape. *)

RowWanted(row) ==
  /\ req.cap = 0 \/ Len(kept) < req.cap
  /\ Seconds(row.ts) >= req.start

ReadRow ==
  /\ stage = "rows" /\ next <= Len(req.rows) /\ req.rows[next].ok
  /\ LET row == req.rows[next] IN
     kept' = IF RowWanted(row) THEN Append(kept, [ts |-> Seconds(row.ts), close |-> row.close])
             ELSE kept
  /\ next' = next + 1
  /\ UNCHANGED <<req, stage, mark, events, reports, cursor, upper>>

Stamps == {kept[i].ts : i \in DOMAIN kept}
T0 == CHOOSE t \in Stamps : \A u \in Stamps : t <= u
TEnd == CHOOSE t \in Stamps : \A u \in Stamps : t >= u
StepSizes == {s \in {u - t : t \in Stamps, u \in Stamps} : s > 0}

\* The bin is the shortest step between candles, a minute for a single one.
BinS == IF StepSizes = {} THEN 60
        ELSE CHOOSE s \in StepSizes : \A r \in StepSizes : s <= r

OneRegularClock ==
  /\ Cardinality(Stamps) = Len(kept)
  /\ \A t \in Stamps : (t - T0) % BinS = 0

Bins == (TEnd - T0) \div BinS + 1

RowsRead == stage = "rows" /\ next > Len(req.rows)

MakeTape ==
  /\ RowsRead /\ kept # << >> /\ OneRegularClock
  /\ stage' = "feed"
  /\ UNCHANGED <<req, next, kept, mark, events, reports, cursor, upper>>

RefuseRows ==
  \/ stage = "rows" /\ next <= Len(req.rows) /\ ~req.rows[next].ok
  \/ RowsRead /\ (kept = << >> \/ ~OneRegularClock)

-----------------------------------------------------------------------------
(* The price feed.  A CSV file may be in any order and hold rows that are    *)
(* skipped; an archive must be clean and increasing.                         *)

Usable == {i \in DOMAIN req.feed : req.feed[i].ok}

InOrder(s) == \A i, j \in DOMAIN s : i < j => s[i].ts <= s[j].ts

InSecs(p) == [p EXCEPT !.ts = Seconds(p.ts)]

\* The usable rows in order of time; std::sort leaves the order of equal stamps open.
SortedRows ==
  {s \in {[k \in DOMAIN q |-> InSecs(req.feed[q[k]])] :
            q \in {q \in [1 .. Cardinality(Usable) -> Usable] :
                     \A i, j \in DOMAIN q : q[i] = q[j] => i = j}} :
     InOrder(s)}

FeedReadable ==
  /\ req.feedKind = "csv" => Usable # {}
  /\ req.feedKind = "npz" =>
       /\ Usable = DOMAIN req.feed
       /\ \A i, j \in DOMAIN req.feed : i < j => req.feed[i].ts < req.feed[j].ts

\* What may come back from the loader, before exclusions.
FeedPoints == IF req.feedKind = "csv" THEN SortedRows ELSE {req.feed}

\* The positions of I, the first ones first.
InTurn(I) == {e \in [1 .. Cardinality(I) -> I] : \A i, j \in DOMAIN e : i < j => e[i] < e[j]}

ReadFeed ==
  /\ stage = "feed" /\ FeedReadable
  /\ \E points \in FeedPoints :
       \E clear \in InTurn({k \in DOMAIN points : ~Excluded(points[k].ts)}) :
         reports' = [k \in DOMAIN clear |-> points[clear[k]]]
  /\ stage' = IF req.mode = "block" THEN "blocks" ELSE "bins"
  /\ next' = 0
  /\ UNCHANGED <<req, kept, mark, events, cursor, upper>>

RefuseFeed == stage = "feed" /\ ~FeedReadable

-----------------------------------------------------------------------------
(* gen_candle_events and gen_block_events. *)

EventOf(ts, price) == [ts |-> ts, price |-> price, feed |-> NoTrade, feedTs |-> 0]

BinExcluded(begin) == Excluded(begin + BinS) \/ Touches(begin, begin + BinS)

CloseAt(begin) ==
  IF begin \in Stamps THEN (CHOOSE c \in {kept[i] : i \in DOMAIN kept} : c.ts = begin).close
  ELSE NoTrade

\* The price carried to the end of a bin that is not excluded.
Carried(begin) == IF CloseAt(begin) # NoTrade THEN CloseAt(begin) ELSE mark

\* Mutant of MarkAfter: an excluded bin still moves the price.
MarkAfterAnyBin(begin) == Carried(begin)

MarkAfter(begin) == IF BinExcluded(begin) THEN mark ELSE Carried(begin)

GenBin ==
  /\ stage = "bins" /\ next < Bins
  /\ LET begin == T0 + next * BinS
         ts == begin + BinS
         price == MarkAfter(begin)
     IN /\ mark' = price
        /\ events' = IF ~BinExcluded(begin) /\ InWindow(ts) /\ price # NoTrade
                     THEN Append(events, EventOf(ts, price)) ELSE events
  /\ next' = next + 1
  /\ UNCHANGED <<req, stage, kept, reports, cursor, upper>>

Blocks == Len(req.block.price)
Offsets(k) == DOMAIN req.block.price[k]

\* load_block_tape: a price may only be missing before the first trade.
BlockPricesValid ==
  \A k \in 1 .. Blocks : \A o \in Offsets(k) : req.block.price[k][o] = NoTrade =>
    \A j \in 1 .. k : \A n \in Offsets(j) : (j < k \/ n < o) => req.block.price[j][n] = NoTrade

GenBlock ==
  /\ stage = "blocks" /\ BlockPricesValid /\ next < Blocks
  /\ LET ts == req.block.t0 + next * BlockS
         row == req.block.price[next + 1]
         price == row[req.block.delay + 1]
     IN events' = IF /\ InWindow(ts) /\ price # NoTrade
                     /\ ~Touches(ts - BlockS, ts + Len(row) - 1)
                  THEN Append(events, EventOf(ts, price)) ELSE events
  /\ next' = next + 1
  /\ UNCHANGED <<req, stage, kept, mark, reports, cursor, upper>>

EventsMade ==
  \/ stage = "bins" /\ next >= Bins
  \/ stage = "blocks" /\ BlockPricesValid /\ next >= Blocks

EndEvents ==
  /\ EventsMade /\ events # << >>
  /\ stage' = IF stage = "bins" /\ reports # << >> THEN "attach" ELSE "index"
  /\ next' = 1 /\ cursor' = 1
  /\ UNCHANGED <<req, kept, mark, events, reports, upper>>

RefuseEvents ==
  \/ stage = "blocks" /\ ~BlockPricesValid
  \/ EventsMade /\ events = << >>

-----------------------------------------------------------------------------
(* attach_price_feed and index_report_events. *)

\* Mutant of NextIsKnown: a report of the event's own second comes too late.
NextIsKnownBefore == cursor < Len(reports) /\ reports[cursor + 1].ts < events[next].ts

NextIsKnown == cursor < Len(reports) /\ reports[cursor + 1].ts <= events[next].ts

Advance ==
  /\ stage = "attach" /\ next <= Len(events) /\ NextIsKnown
  /\ cursor' = cursor + 1
  /\ UNCHANGED <<req, stage, next, kept, mark, events, reports, upper>>

AttachPrice ==
  /\ stage = "attach" /\ next <= Len(events) /\ ~NextIsKnown
  /\ reports[cursor].ts <= events[next].ts
  /\ events' = [events EXCEPT ![next] =
                  [@ EXCEPT !.feed = reports[cursor].price, !.feedTs = reports[cursor].ts]]
  /\ next' = next + 1
  /\ UNCHANGED <<req, stage, kept, mark, reports, cursor, upper>>

RefuseAttach ==
  /\ stage = "attach" /\ next <= Len(events) /\ ~NextIsKnown
  /\ reports[cursor].ts > events[next].ts

EndAttach ==
  /\ stage = "attach" /\ next > Len(events)
  /\ stage' = "index"
  /\ UNCHANGED <<req, next, kept, mark, events, reports, cursor, upper>>

\* Mutant of Known: reports published at the very second are missed.
KnownBefore(now) == Cardinality({k \in DOMAIN reports : reports[k].ts < now})

\* upper_bound: how many reports were published by now.
Known(now) == Cardinality({k \in DOMAIN reports : reports[k].ts <= now})

IndexReports ==
  /\ stage = "index"
  /\ upper' = IF reports = << >> THEN << >>
              ELSE [i \in DOMAIN events |-> Known(events[i].ts)]
  /\ stage' = "loaded"
  /\ UNCHANGED <<req, next, kept, mark, events, reports, cursor>>

-----------------------------------------------------------------------------
\* Whatever is thrown, nothing of the scenario is kept; another attempt starts anew.
Refuse ==
  /\ RefuseRequest \/ RefuseRows \/ RefuseFeed \/ RefuseEvents \/ RefuseAttach
  /\ stage' = "failed"
  /\ next' = 1 /\ kept' = << >> /\ mark' = NoTrade /\ events' = << >>
  /\ reports' = << >> /\ cursor' = 1 /\ upper' = << >>
  /\ UNCHANGED req

TapeInit ==
  /\ req \in Requests /\ stage = "open" /\ next = 1
  /\ kept = << >> /\ mark = NoTrade /\ events = << >>
  /\ reports = << >> /\ cursor = 1 /\ upper = << >>

TapeNext ==
  \/ Open \/ ReadRow \/ MakeTape \/ ReadFeed \/ GenBin \/ GenBlock \/ EndEvents
  \/ Advance \/ AttachPrice \/ EndAttach \/ IndexReports \/ Refuse

TapeSpec == TapeInit /\ [][TapeNext]_tapeVars

-----------------------------------------------------------------------------
(* Properties. *)

Loaded == stage = "loaded"

\* The candles whose whole bin lies outside the exclusions.
Trusted == {c \in {kept[i] : i \in DOMAIN kept} : ~BinExcluded(c.ts)}

\* A price is the close of the last bin before the event that traded outside every
\* exclusion: gen_candle_events (candle_tape.cpp) carries it over empty and over
\* excluded bins and lets nothing out of these, and it leaves out no other event.
CandleEventsExact ==
  LET ends == {e \in {T0 + k * BinS : k \in 1 .. Bins} :
                 /\ ~BinExcluded(e - BinS) /\ InWindow(e)
                 /\ \E c \in Trusted : c.ts < e}
  IN /\ {events[i].ts : i \in DOMAIN events} = ends
     /\ \A i \in DOMAIN events :
          \E c \in Trusted :
            /\ c.close = events[i].price /\ c.ts < events[i].ts
            /\ \A d \in Trusted : d.ts < events[i].ts => d.ts <= c.ts

BlockAt(k) == req.block.t0 + (k - 1) * BlockS

\* No second of the row's window lies in an exclusion.
WindowClear(k) == \A s \in BlockAt(k) - BlockS .. BlockAt(k) + 3 : ~Excluded(s)

\* What the events up to block n should be, as times and prices.
Quotes(n) ==
  {<<BlockAt(k), req.block.price[k][req.block.delay + 1]>> :
     k \in {k \in 1 .. n : /\ InWindow(BlockAt(k)) /\ WindowClear(k)
                           /\ req.block.price[k][req.block.delay + 1] # NoTrade}}

Quoted == {<<events[i].ts, events[i].price>> : i \in DOMAIN events}

\* A loaded market has its events in order of time.  Those of a candle tape are exactly
\* the ends of trusted bins at trusted prices (gen_candle_events); those of a block tape
\* exactly the blocks of the session whose row window meets no exclusion and which know a
\* price as of the delay, each at that price (gen_block_events).  A row has the price of
\* the last trade before it, however old.  So among these events is the first block after
\* an exclusion, at a price that was traded inside it if nothing was since, although
\* "excluded prices or feeds cannot leak" (protocol_spec.md:151).
TapeExact ==
  Loaded =>
    /\ \A i, j \in DOMAIN events : i < j => events[i].ts < events[j].ts
    /\ req.mode = "candles" => CandleEventsExact
    /\ req.mode = "block" => Quoted = Quotes(Blocks)

\* The observation attached to an event is the latest one published by then outside
\* the exclusions, none of the future and none from inside one, and once a feed is
\* attached every event has one (attach_price_feed, price_feed.cpp).
FeedIsCausal ==
  /\ \A i \in DOMAIN events : events[i].feedTs # 0 =>
       /\ events[i].feedTs <= events[i].ts /\ ~Excluded(events[i].feedTs)
       /\ \A k \in DOMAIN reports :
            reports[k].ts <= events[i].ts => reports[k].ts <= events[i].feedTs
  /\ Loaded /\ req.mode = "candles" /\ reports # << >> =>
       \A i \in DOMAIN events : events[i].feedTs # 0
=============================================================================
