---------------------------- MODULE MCCandidateRun ----------------------------
(* Three families of sessions, each varying one part of the pipeline: the files  *)
(* and time ranges of the market, where start and checkpoint come from, and the  *)
(* grids and batches of candidates.                                              *)
EXTENDS CandidateRun

MCRunLimits ==
  [arb_report_max_age_s |-> 0 .. 50, arb_report_count |-> 0 .. 3,
   arb_report_random_count |-> 0 .. 2, arb_report_offset |-> -1 .. 2,
   yb_releverage_fee |-> 0 .. 20]

Row(ts, close) == [ts |-> ts, close |-> close, ok |-> TRUE]
Point(ts, price) == [ts |-> ts, price |-> price, ok |-> TRUE]

Rows == <<Row(10, 1), Row(20, 2), Row(30, 3), Row(40, 4), Row(60, 5)>>
Files ==
  {Rows, <<Row(40, 4), Row(10, 1), Row(60000, 5), Row(20, 2), Row(30, 3)>>, <<Row(30, 3)>>}
BadFiles ==
  {<<Row(10, 1), Row(20, 2), Row(20, 3)>>, <<Row(10, 1), Row(20, 2), Row(35, 3)>>,
   <<Row(10, 1), [ts |-> 20, close |-> 0, ok |-> FALSE]>>, << >>}

Feed == <<Point(15, 7), Point(31, 8), Point(5, 6), Point(50, 9)>>
Feeds ==
  {<<"none", << >> >>, <<"csv", Feed>>,
   <<"csv", <<Point(15000, 7), [ts |-> 16, price |-> 0, ok |-> FALSE], Point(30, 8), Point(30, 9)>> >>,
   <<"npz", <<Point(20, 7), Point(32, 8)>> >>, <<"npz", <<Point(30, 7), Point(29, 8)>> >>,
   <<"npz", <<Point(45, 7)>> >>,
   <<"csv", <<[ts |-> 16, price |-> 0, ok |-> FALSE]>> >>}

Cuts ==
  {<< >>, <<<<25, 35>>>>, <<<<30, 40>>>>, <<<<40, 41>>>>, <<<<12, 14>>, <<14, 32>>>>,
   <<<<30, 40>>, <<35, 50>>>>}

Template(entry) == [ok |-> TemplateValid(entry), entry |-> entry]
State(ts, policyTs) == [ts |-> ts, block |-> ts, price |-> 9, policyTs |-> policyTs]
NoYb == [on |-> FALSE, given |-> FALSE, ts |-> 0, block |-> 0, fee |-> 0, asked |-> 0]
Listed(pool) == [ordinal |-> 0, params |-> <<1>>, pool |-> pool]
Lists(pools) == {[kind |-> "list", list |-> <<Listed(e)>>] : e \in pools}

Market ==
  [mode |-> "candles", rows |-> Rows, cap |-> 0, start |-> 0, end |-> 0, excluded |-> << >>,
   feedKind |-> "none", feed |-> << >>, block |-> [t0 |-> 23, delay |-> 1, price |-> << >>],
   template |-> Template(Nothing), yb |-> NoYb, grids |-> {},
   batches |-> Lists({Nothing})]

CandleMarkets ==
  {[Market EXCEPT !.rows = f, !.cap = c, !.start = s, !.end = e, !.excluded = x,
                  !.feedKind = p[1], !.feed = p[2]] :
     f \in Files, c \in {0, 3}, s \in {0, 20, 25}, e \in {0, 50}, x \in Cuts, p \in Feeds}
  \cup {[Market EXCEPT !.rows = f] : f \in BadFiles}
  \cup {[Market EXCEPT !.mode = "ticks"]}

\* On the last of these tapes, begun at 23, the price 6 is traded between 27 and 35 and
\* is that of the block at 47: with the cut from 25 to 35 it leaks.
BlockMarkets ==
  {[Market EXCEPT !.mode = "block", !.rows = << >>, !.start = s, !.excluded = x,
                  !.feedKind = "csv", !.feed = Feed,
                  !.block = [t0 |-> t, delay |-> d, price |-> b]] :
     s \in {0, 30}, x \in Cuts, t \in {22, 23}, d \in 0 .. 1,
     b \in {<<<<0, 0, 5, 5, 5>>, <<5, 6, 6, 5, 5>>, <<5, 5, 7, 7, 7>>>>,
            <<<<0, 5, 5, 0, 5>>, <<5, 6, 6, 5, 5>>>>, <<<<0, 0, 0, 0, 4>>, <<4, 4, 4, 4, 4>>>>,
            <<<<5, 5, 5, 5, 5>>, <<6, 6, 6, 6, 6>>, <<6, 6, 7, 7, 7>>>>}}

-----------------------------------------------------------------------------
Templates ==
  {Nothing, [A |-> 2], [start_timestamp |-> 30], [start_timestamp |-> 40000],
   [start_timestamp |-> 90], [start_timestamp |-> 90, initial_price |-> 0],
   [historical_state |-> State(25, 0)], [historical_state |-> State(25, 24)],
   [historical_state |-> State(25, 26)], [historical_state |-> State(0, 0)],
   [start_timestamp |-> 30, historical_state |-> State(25, 0)],
   [start_timestamp |-> 20, historical_state |-> State(25, 0)],
   [initial_price |-> 4, initial_liquidity |-> 4], [initial_price |-> 4, initial_liquidity |-> 3],
   [initial_price |-> 4, initial_liquidity |-> 0], [unknown |-> 1], [arb_report_count |-> 1]}

YbStates ==
  {NoYb, [NoYb EXCEPT !.on = TRUE]}
  \cup {[on |-> TRUE, given |-> TRUE, ts |-> 25, block |-> b, fee |-> 10, asked |-> a] :
          b \in {25, 26}, a \in {0, 10, 11}}

Overrides ==
  {Nothing, [A |-> 3], [start_timestamp |-> 20], [start_timestamp |-> 50000],
   [historical_state |-> State(35, 0)], [historical_state |-> State(25, 0)],
   [start_timestamp |-> 20, historical_state |-> State(25, 0)], [unknown |-> 1],
   [yb_releverage_fee |-> 11], [arb_report_count |-> 4], [arb_report_count |-> 2],
   [arb_report_count |-> 1, arb_report_max_age_s |-> 5],
   [arb_report_offset |-> 1], [arb_report_offset |-> 1, arb_report_random_count |-> 1]}

Openings ==
  {[Market EXCEPT !.template = Template(t), !.start = s, !.yb = y,
                  !.feedKind = p, !.feed = IF p = "csv" THEN Feed ELSE << >>,
                  !.batches = Lists(Overrides)] :
     t \in Templates, s \in {0, 20, 40}, y \in YbStates, p \in {"none", "csv"}}

-----------------------------------------------------------------------------
Value(params, pool) == [params |-> params, pool |-> pool, pathsOk |-> TRUE]
Param(n) == Value(<<n>>, Nothing)

Grid ==
  [params |-> <<0>>, pool |-> [A |-> 1], order |-> <<"kind", "fee", "when">>, shape |-> <<2, 2, 2>>,
   axes |->
     [kind |-> <<Param(1), Value(<<2>>, [A |-> 5])>>,
      fee  |-> <<Value(Nothing, [A |-> 6, start_timestamp |-> 30]), Param(7)>>,
      when |-> <<Value(Nothing, [start_timestamp |-> 40000]),
                 Value(Nothing, [historical_state |-> State(35, 0)])>>]]

WithKind(values) == [Grid EXCEPT !.axes.kind = values]

Grids ==
  {Grid,
   [Grid EXCEPT !.order = <<"fee", "when">>, !.shape = <<2, 3>>,
                !.axes = [fee |-> Grid.axes.fee, when |-> <<Param(1), Param(2), Param(3)>>]],
   [Grid EXCEPT !.order = << >>, !.shape = << >>, !.axes = Nothing],
   [Grid EXCEPT !.shape = <<2, 2, 1>>], [Grid EXCEPT !.order = <<"fee", "fee", "when">>],
   [Grid EXCEPT !.params = << >>], [Grid EXCEPT !.pool = [policy |-> 1]],
   [WithKind(<<Param(1), Param(2), Param(3)>>) EXCEPT !.shape = <<3, 2, 2>>],
   WithKind(<<Param(1), Value(<<1, 2>>, Nothing)>>), WithKind(<<Param(1), Value(Nothing, Nothing)>>),
   WithKind(<<Param(1), [Param(2) EXCEPT !.pathsOk = FALSE]>>),
   WithKind(<<Param(1), Value(Nothing, [policy |-> 1])>>),
   WithKind(<<Param(1), Value(Nothing, [start_timestamp |-> 3, historical_state |-> State(4, 0)])>>)}

Ranges ==
  {<<<<0, 8>>>>, <<<<1, 2>>, <<3, 1>>, <<5, 1>>>>, <<<<7, 1>>>>, <<<<0, 1>>>>, << >>,
   <<<<0, 2>>, <<1, 1>>>>, <<<<8, 1>>>>, <<<<6, 3>>>>, <<<<2, 0>>>>, <<<<3, 3>>>>}

GridSessions ==
  {[Market EXCEPT !.start = s, !.grids = Grids,
                  !.batches = {[kind |-> "ranges", ranges |-> r] : r \in Ranges}
                                \cup Lists({[A |-> 3]})] : s \in {0, 30}}

MCRequests == CandleMarkets \cup BlockMarkets \cup Openings \cup GridSessions
=============================================================================
