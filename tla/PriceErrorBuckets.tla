------------------------- MODULE PriceErrorBuckets -------------------------
(***************************************************************************)
(* sample_price_error and sample_7d_price_error (metrics.hpp): the largest *)
(* average, over a rolling window of hours, of the distance between price  *)
(* scale and market price.  The distance holds from a sample to the next.  *)
(* Hourly sums are kept in WINDOW / HOUR + 2 buckets that are reused.      *)
(***************************************************************************)
EXTENDS Integers, FiniteSetsExt

CONSTANTS
  BucketS,             \* PRICE_DIFF_BUCKET_S
  WindowBuckets,       \* PRICE_DIFF_WINDOW_S / PRICE_DIFF_BUCKET_S
  Horizon              \* bound: the last time looked at

VARIABLES
  first, last,         \* first_ts_err, last_ts_err; last = Never without have_err
  err,                 \* last_rel_abs
  buckets,             \* rel_bucket_*: [live, id, sum, dt]
  evaluated,           \* last_7d_eval_bucket
  worst,               \* max_7d_rel_abs as [sum, dt]; dt = 0 without have_7d_rel_abs
  past                 \* history: past[t], the distance from t to t + 1

evars == <<first, last, err, buckets, evaluated, worst, past>>

WindowS    == WindowBuckets * BucketS
NumBuckets == WindowBuckets + 2
Never      == -1
Unused     == [live |-> FALSE, id |-> 0, sum |-> 0, dt |-> 0]

Init ==
  /\ first = 0 /\ last = Never /\ err = 0
  /\ buckets = [k \in 0 .. NumBuckets - 1 |-> Unused]
  /\ evaluated = 0 /\ worst = [sum |-> 0, dt |-> 0]
  /\ past = [t \in 0 .. Horizon - 1 |-> 0]

LaterOf(a, b)   == IF a >= b THEN a ELSE b
EarlierOf(a, b) == IF a <= b THEN a ELSE b

\* Seconds of bucket id in [from, to).
Overlap(id, from, to) ==
  EarlierOf(to, (id + 1) * BucketS) - LaterOf(from, id * BucketS)

\* Mutant of Spread: a bucket that is reused keeps what it held.
SpreadOverOld(from, to) ==
  [k \in DOMAIN buckets |->
     LET ids == {id \in from \div BucketS .. (to - 1) \div BucketS : id % NumBuckets = k} IN
     IF ids = {} THEN buckets[k]
     ELSE LET id == Max(ids) IN
          [live |-> TRUE, id |-> id,
           sum |-> buckets[k].sum + err * Overlap(id, from, to),
           dt |-> buckets[k].dt + Overlap(id, from, to)]]

\* err held from..to: each bucket takes its share, the last one that maps to a
\* slot keeps it, and a slot of an older bucket is cleared first.
Spread(from, to) ==
  [k \in DOMAIN buckets |->
     LET ids == {id \in from \div BucketS .. (to - 1) \div BucketS : id % NumBuckets = k} IN
     IF ids = {} THEN buckets[k]
     ELSE LET id  == Max(ids)
              old == IF buckets[k].live /\ buckets[k].id = id THEN buckets[k] ELSE Unused IN
          [live |-> TRUE, id |-> id,
           sum |-> old.sum + err * Overlap(id, from, to),
           dt |-> old.dt + Overlap(id, from, to)]]

\* Buckets that reach into the window before ts.
InWindow(b, ts) ==
  {k \in DOMAIN b : /\ b[k].live
                    /\ (b[k].id + 1) * BucketS > LaterOf(ts - WindowS, 0)
                    /\ b[k].id * BucketS < ts}

WindowOf(b, ts) ==
  [sum |-> SumFunctionOnSet([k \in DOMAIN b |-> b[k].sum], InWindow(b, ts)),
   dt  |-> SumFunctionOnSet([k \in DOMAIN b |-> b[k].dt], InWindow(b, ts))]

\* a's average is the larger one.
Exceeds(a, b) == a.dt > 0 /\ (b.dt = 0 \/ a.sum * b.dt > b.sum * a.dt)

\* The window is looked at once an hour, and not before it is complete.
Evaluate(ts) ==
  IF worst.dt > 0 /\ ts \div BucketS = evaluated THEN UNCHANGED <<evaluated, worst>>
  ELSE /\ evaluated' = ts \div BucketS
       /\ worst' = LET w == WindowOf(buckets', ts) IN
                   IF ts >= first + WindowS /\ Exceeds(w, worst) THEN w ELSE worst

\* sample_price_error
Sample(ts, e) ==
  /\ first' = IF last = Never THEN ts ELSE first
  /\ IF last # Never /\ ts > last
     THEN /\ buckets' = Spread(last, ts)
          /\ Evaluate(ts)
          /\ past' = [t \in DOMAIN past |-> IF last <= t /\ t < ts THEN err ELSE past[t]]
     ELSE UNCHANGED <<buckets, evaluated, worst, past>>
  /\ err' = e
  /\ last' = ts

-----------------------------------------------------------------------------
\* What the buckets of the window add up to is what was there: the distance of
\* every second since the hour in which the window begins, whatever gaps and
\* reuse of buckets lie in between.
WindowSumsExact ==
  last # Never =>
    LET hour == (LaterOf(last - WindowS, 0) \div BucketS) * BucketS
        from == LaterOf(first, hour) IN
    WindowOf(buckets, last) =
      [sum |-> SumFunctionOnSet(past, from .. last - 1), dt |-> last - from]
=============================================================================
