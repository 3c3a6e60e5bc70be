--------------------------- MODULE MetricWindows ---------------------------
(***************************************************************************)
(* The windowed metrics of one run as the event loop feeds them: at each   *)
(* event the price error, at most hourly, and then the two measures of net *)
(* growth (sample_pre_trade, sample_net_apy in event_loop.hpp), which are  *)
(* both skipped when the donated growth is not positive.                   *)
(***************************************************************************)
EXTENDS Integers

CONSTANTS
  Hour,                \* SAMPLE_S of the geometric mean, PRICE_DIFF_BUCKET_S
  ErrHours,            \* hours of the price error's window
  GeoS,                \* WINDOW_S of the geometric mean
  Day, Days,           \* SAMPLE_S and WINDOW_S / SAMPLE_S of the robust rate
  Errors,              \* distances between price scale and market price
  Horizon              \* bound: the last event time

ASSUME UnitsAssumption ==
  /\ {Hour, ErrHours, GeoS, Day, Days} \subseteq Nat \ {0}
  /\ Errors \subseteq Nat /\ Horizon \in Nat

VARIABLES
  now,                 \* time of the last event
  first, last, err, buckets, evaluated, worst, past,          \* TimeWeightedMetrics
  samples, geoWindows, geoTaken,                              \* RollingGeoApy90d
  slots, head, count, lastDaily, dailyWindows, dailyTaken     \* NetApyRobust90d

Err == INSTANCE PriceErrorBuckets WITH BucketS <- Hour, WindowBuckets <- ErrHours

Geo == INSTANCE RollingWindow WITH
  Period <- Hour, Window <- GeoS, windows <- geoWindows, taken <- geoTaken

Robust == INSTANCE SampleRing WITH
  Period <- Day, last <- lastDaily, windows <- dailyWindows, taken <- dailyTaken

errVars == <<first, last, err, buckets, evaluated, worst, past>>
geoVars == <<samples, geoWindows, geoTaken>>
robustVars == <<slots, head, count, lastDaily, dailyWindows, dailyTaken>>
vars == <<now, errVars, geoVars, robustVars>>

Init == now = -1 /\ Err!Init /\ Geo!Init /\ Robust!Init

\* sample_pre_trade
SamplePreTrade(ts, e) ==
  IF last = Err!Never \/ ts >= last + Hour THEN Err!Sample(ts, e) ELSE UNCHANGED errVars

\* sample_net_apy; ok: the growth at this event is positive.
SampleNetApy(ts, ok) == Geo!Sample(ts, ok) /\ Robust!Sample(ts, ok)

Event(ts, e, ok) ==
  /\ now' = ts
  /\ SamplePreTrade(ts, e)
  /\ SampleNetApy(ts, ok)

Next == \E ts \in now + 1 .. Horizon, e \in Errors, ok \in BOOLEAN : Event(ts, e, ok)

Spec == Init /\ [][Next]_vars

-----------------------------------------------------------------------------
\* The window of the early stop: its sums are those of the market's history.
PriceErrorExact == Err!WindowSumsExact

\* Windows of the geometric mean begin at the latest sample that is old enough.
GeoWindowsExact == Geo!WindowsExact

\* The ring of the robust rate measures what an unbounded queue would.
RingImplementsQueue == Robust!RingImplementsQueue
=============================================================================
