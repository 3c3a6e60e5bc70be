------------------------------ MODULE EventLoop ------------------------------
(***************************************************************************)
(* run_event_loop (event_loop.hpp): one simulation of one pool over a tape *)
(* of market events.  For each event the loop runs a donation, the native  *)
(* arbitrageur, the YieldBasis actor, a user swap and an idle tick, each   *)
(* when it is due or sees a profit, and samples metrics.  Between events   *)
(* the fast cursor passes over the events at which, it claims, nothing     *)
(* would have happened; the scalar cursor visits them all.                 *)
(*                                                                         *)
(* The pool is abstracted to what the gates read of it: its spot price p   *)
(* and the LEVAMM level y, integers on one price grid, and the time of its *)
(* last touch.  Whatever commits a transition of the pool may move p and y *)
(* anywhere.  Runs whose policy takes swap reports are not covered.        *)
(***************************************************************************)
EXTENDS Integers, Sequences

CONSTANTS
  Tapes,               \* the tapes considered: sequences of event timestamps
  Start,               \* init_ts, when the pool is seeded and schedules start
  Prices,              \* the price grid
  Levels,              \* where a mutation may leave the LEVAMM's lower edge
  FeeBand,             \* price distance the pool's least fee protects
  YbWidth,             \* width of the actor's no-trade interval
  Horizon,             \* bound: no time past it is looked at
  Accrued,             \* Accrued[t]: how far debt has lowered the LEVAMM by t
  Hour, RobustPeriod,  \* SAMPLE_S of the hourly clocks and of the robust one
  DonationFreqs,       \* freq_s of donations: donation_frequency, truncated
  UserFreq, TickFreq

ASSUME PricesAssumption == Prices \subseteq Int /\ Levels \subseteq Int
ASSUME TapesAssumption ==
  /\ Start \in Nat \ {0}
  /\ Tapes \subseteq Seq(Nat)
  /\ \A t \in Tapes : /\ t # <<>> /\ t[1] >= Start
                      /\ \A j, k \in 1 .. Len(t) : j < k => t[j] < t[k]
                      /\ t[Len(t)] + Hour <= Horizon
ASSUME PeriodsAssumption ==
  /\ {Hour, RobustPeriod, UserFreq, TickFreq} \subseteq Nat \ {0}
  /\ DonationFreqs \subseteq Nat
  /\ {FeeBand, YbWidth} \subseteq Nat
ASSUME AccruedAssumption ==
  /\ Horizon \in Nat
  /\ Accrued \in [0 .. Horizon -> Nat]
  /\ \A t, u \in 0 .. Horizon : t <= u => Accrued[t] <= Accrued[u]

VARIABLES
  tape, fastSkip, yb,  \* the run: its events, its cursor, its YieldBasis actor
  donFreq,             \* and the period of its donations
  i, cex, phase,       \* event index, its price, where in the loop body
  p, y, touch,         \* the pool: spot price, LEVAMM level, last_timestamp
  geo, band,           \* caches: edge geometry and yb_band
  clock,               \* last_sample_ts of each metric clock, Never before
  nextDon, nextUser,   \* next_ts of the two schedules
  gate, traded,        \* arb_may_trade and did_any_trade of this event
  endpoint,            \* final_event_idx
  seen, excused        \* history: last event visited, whether its tick failed
                       \* or was not owed

run == <<tape, fastSkip, yb, donFreq>>
pool == <<p, y, touch>>
caches == <<geo, band>>
schedules == <<nextDon, nextUser>>
history == <<endpoint, seen, excused>>
vars == <<run, i, cex, phase, pool, caches, clock, schedules, gate, traded, history>>

Never == -1
NoGeo == [valid |-> FALSE, p |-> 0]
NoBand == [ready |-> FALSE, from |-> 0, to |-> 0, lo |-> 0, hi |-> 0]

now == tape[i]

\* yb_2l_on and yb_2l_trades: without YieldBasis donations are on; with it they are off,
\* it is sampled, and it trades unless yb_arb is "none".
YbArbs == {"off", "none", "levamm"}
ybOn == yb # "off"
ybTrades == yb = "levamm"

Clocks == {"price_diff", "gm", "robust", "yb"}
Active == IF ybOn THEN Clocks ELSE Clocks \ {"yb"}

SamplePeriod == [c \in Clocks |-> IF c = "robust" THEN RobustPeriod ELSE Hour]

Init ==
  /\ tape \in Tapes /\ fastSkip \in BOOLEAN /\ yb \in YbArbs
  /\ donFreq \in DonationFreqs
  /\ i = 1 /\ cex \in Prices /\ phase = "begin"
  /\ p \in Prices /\ y \in (IF ybTrades THEN Levels ELSE {0}) /\ touch = Start
  /\ geo = NoGeo /\ band = NoBand
  /\ clock = [c \in Clocks |-> IF c \in {"gm", "robust"} THEN tape[1] ELSE Never]
  /\ nextDon = Start /\ nextUser = Start + UserFreq
  /\ gate = FALSE /\ traded = FALSE
  /\ endpoint = Len(tape)
  /\ seen = 0 /\ excused = FALSE

-----------------------------------------------------------------------------
(* The gates: what they are, and what the caches say they are. *)

\* The event price clears the fee floor in one direction, at spot price q.
NativeGate(q, mid) == mid > q + FeeBand \/ q > mid + FeeBand

\* may_trade: the price is outside of the actor's no-trade interval, which falls
\* as debt accrues.
YbGate(mid, t) == mid < y - Accrued[t] \/ mid > y - Accrued[t] + YbWidth

\* refresh_geometry: the spot price is read again only if it is not cached.
Geo == IF geo.valid THEN geo ELSE [valid |-> TRUE, p |-> p]

\* Mutant of NoTradeBand: both bounds are those of time t.
NoTradeBandOfNow(t) ==
  [ready |-> TRUE, from |-> t, to |-> t + Hour,
   lo |-> y - Accrued[t], hi |-> y - Accrued[t] + YbWidth]

\* no_trade_band: prices at which the actor abstains for the whole hour from t,
\* which the falling LEVAMM bounds at its two ends.
NoTradeBand(t) ==
  [ready |-> TRUE, from |-> t, to |-> t + Hour,
   lo |-> y - Accrued[t], hi |-> y - Accrued[t + Hour] + YbWidth]

Band(t) ==
  IF band.ready /\ band.from <= t /\ t <= band.to THEN band ELSE NoTradeBand(t)

YbMayTrade(mid, t) ==
  LET b == Band(t) IN
  ~(b.lo < b.hi /\ b.lo <= mid /\ mid <= b.hi) /\ YbGate(mid, t)

-----------------------------------------------------------------------------
(* Schedules *)

SampleDue(c, t) == clock[c] = Never \/ t >= clock[c] + SamplePeriod[c]

DonationDue(t) == ~ybOn /\ t >= nextDon
UserSwapDue(t) == t >= nextUser
TickDue(t)     == t >= touch /\ t - touch >= TickFreq

LastEvent == tape[Len(tape)]

\* Mutant of Deadlines: the end of the tape is forgotten.
DeadlinesNoEnd ==
  {clock[c] + SamplePeriod[c] : c \in Active}
    \cup (IF ybOn THEN {} ELSE {nextDon}) \cup {nextUser, touch + TickFreq}

\* next_mandatory_ts is the least of these; t_start (here, no clock that has no
\* sample yet) makes it the next event.
Deadlines ==
  {LastEvent} \cup {clock[c] + SamplePeriod[c] : c \in Active}
    \cup (IF ybOn THEN {} ELSE {nextDon}) \cup {nextUser, touch + TickFreq}

Mandatory(t) ==
  \/ \E c \in Active : clock[c] = Never
  \/ \E d \in Deadlines : t >= d

-----------------------------------------------------------------------------
(* One event, phase by phase. *)

\* A committed transition of the pool: whoever caused it drops the caches.  The LEVAMM's
\* level matters only to an actor that trades.
PoolMoves(to) ==
  /\ p' \in to
  /\ IF ybTrades THEN y' \in {l + Accrued[now] : l \in Levels} ELSE y' = y
  /\ geo' = NoGeo /\ band' = NoBand

Begin ==
  /\ phase = "begin"
  /\ phase' = "donate"
  /\ geo' = Geo
  /\ gate' = NativeGate(geo'.p, cex)
  /\ clock' = [clock EXCEPT !["price_diff"] = IF SampleDue("price_diff", now) THEN now ELSE @]
  /\ traded' = FALSE
  /\ seen' = i /\ excused' = FALSE
  /\ UNCHANGED <<run, i, cex, pool, band, schedules, endpoint>>

\* A price difference that is sampled here takes the 7-day maximum past the
\* threshold: the tape ends at this event.
EarlyStop ==
  /\ phase = "begin"
  /\ SampleDue("price_diff", now)
  /\ phase' = "done"
  /\ clock' = [clock EXCEPT !["price_diff"] = now]
  /\ geo' = Geo
  /\ endpoint' = i /\ seen' = i
  /\ UNCHANGED <<run, i, cex, pool, band, schedules, gate, traded, excused>>

\* make_donation_ex: one period at most, and the schedule goes on even when the
\* pool refuses it.  A frequency below a second is a period of 0: the schedule is
\* enabled, never advances, and is due at every event.
Donate ==
  /\ phase = "donate"
  /\ phase' = "arb"
  /\ IF DonationDue(now)
     THEN /\ nextDon' = nextDon + donFreq
          /\ \/ PoolMoves(Prices) /\ touch' = now
             \/ UNCHANGED <<pool, caches>>
     ELSE UNCHANGED <<nextDon, pool, caches>>
  /\ UNCHANGED <<run, i, cex, clock, nextUser, gate, traded, history>>

\* The gate of the beginning of the event is shut, or that of now is.
NoArb ==
  /\ phase = "arb"
  /\ ~(gate /\ NativeGate(Geo.p, cex))
  /\ phase' = "yb"
  /\ geo' = IF gate THEN Geo ELSE geo
  /\ UNCHANGED <<run, i, cex, pool, band, clock, schedules, gate, traded, history>>

\* execute_arb sizes a trade: it is not worth it, the exchange reverts, or it is
\* committed.
ExecuteArb ==
  /\ phase = "arb"
  /\ gate /\ NativeGate(Geo.p, cex)
  /\ phase' = "yb"
  /\ \/ traded' = FALSE /\ geo' = Geo /\ UNCHANGED <<pool, band>>
     \/ traded' = FALSE /\ geo' = NoGeo /\ band' = NoBand /\ UNCHANGED pool
     \/ traded' = TRUE /\ PoolMoves(Prices) /\ touch' = now
  /\ UNCHANGED <<run, i, cex, clock, schedules, gate, endpoint, seen, excused>>

YbDecides == ybTrades /\ (fastSkip => YbMayTrade(cex, now))

ReadBand == band' = IF ybTrades /\ fastSkip THEN Band(now) ELSE band

\* run_yb_2l_once without a fill: the gate is shut, or the route is refused and
\* rolled back.
YbAbstains ==
  /\ phase = "yb"
  /\ phase' = "user"
  /\ ReadBand
  /\ UNCHANGED <<run, i, cex, pool, geo, clock, schedules, gate, traded, history>>

\* A fill.  Taking liquidity out does not count as a touch of the pool.
YbFires ==
  /\ phase = "yb"
  /\ YbDecides /\ YbGate(cex, now)
  /\ phase' = "user"
  /\ PoolMoves(Prices)
  /\ touch' \in {touch, now}
  /\ traded' = TRUE
  /\ excused' = (touch' # now)
  /\ UNCHANGED <<run, i, cex, clock, schedules, gate, endpoint, seen>>

\* Mutant of UserSwap: the caches survive it.
UserSwapKeepsCaches ==
  /\ phase = "user"
  /\ phase' = "tick"
  /\ IF UserSwapDue(now)
     THEN /\ nextUser' = nextUser + UserFreq
          /\ \/ /\ p' \in Prices
                /\ IF ybTrades THEN y' \in {l + Accrued[now] : l \in Levels} ELSE y' = y
                /\ touch' = now /\ UNCHANGED caches
             \/ UNCHANGED <<pool, caches>>
     ELSE UNCHANGED <<nextUser, pool, caches>>
  /\ UNCHANGED <<run, i, cex, clock, nextDon, gate, traded, history>>

\* try_user_swap: one period, filled or not; it does not count as a trade.
UserSwap ==
  /\ phase = "user"
  /\ phase' = "tick"
  /\ IF UserSwapDue(now)
     THEN /\ nextUser' = nextUser + UserFreq
          /\ \/ PoolMoves(Prices) /\ touch' = now
             \/ UNCHANGED <<pool, caches>>
     ELSE UNCHANGED <<nextUser, pool, caches>>
  /\ UNCHANGED <<run, i, cex, clock, nextDon, gate, traded, history>>

\* An idle tick, which may fail and is then rolled back.
IdleTick ==
  /\ phase = "tick"
  /\ ~traded /\ TickDue(now)
  /\ phase' = "report"
  /\ \/ PoolMoves(Prices) /\ touch' = now /\ traded' = TRUE /\ UNCHANGED excused
     \/ excused' = TRUE /\ UNCHANGED <<pool, caches, traded>>
  /\ UNCHANGED <<run, i, cex, clock, schedules, gate, endpoint, seen>>

NoTick ==
  /\ phase = "tick"
  /\ traded \/ ~TickDue(now)
  /\ phase' = "report"
  /\ UNCHANGED <<run, i, cex, pool, caches, clock, schedules, gate, traded, history>>

\* The loop goes to event i + 1, whose price is drawn here.
Advance ==
  /\ i' = i + 1
  /\ IF i = Len(tape) THEN phase' = "done" /\ UNCHANGED cex
     ELSE phase' = "scan" /\ cex' \in Prices

\* The clocks a report may advance: sample_net_apy returns early when donations have not
\* grown, for both of its clocks, and sample_yb_report leaves its clock while the tracker
\* has no first sample.
Sampled ==
  {cs \in SUBSET (Active \ {"price_diff"}) : "gm" \in cs <=> "robust" \in cs}

\* sample_yb_report and sample_net_apy.
Report ==
  /\ phase = "report"
  /\ \E cs \in Sampled :
       clock' = [c \in Clocks |-> IF c \in cs /\ SampleDue(c, now) THEN now ELSE clock[c]]
  /\ Advance
  /\ UNCHANGED <<run, pool, caches, schedules, gate, traded, history>>

-----------------------------------------------------------------------------
(* next_event_index *)

MayAct == NativeGate(Geo.p, cex) \/ (ybTrades /\ YbMayTrade(cex, now))

\* What indexed_may_act caches; the second gate is looked at if the first is shut.
LookAhead ==
  /\ geo' = Geo
  /\ band' = IF ybTrades /\ ~NativeGate(Geo.p, cex) THEN Band(now) ELSE band

Skip ==
  /\ phase = "scan"
  /\ fastSkip /\ ~Mandatory(now) /\ ~MayAct
  /\ LookAhead
  /\ Advance
  /\ UNCHANGED <<run, pool, clock, schedules, gate, traded, history>>

Visit ==
  /\ phase = "scan"
  /\ phase' = "begin"
  /\ \/ (~fastSkip \/ Mandatory(now)) /\ UNCHANGED caches
     \/ fastSkip /\ ~Mandatory(now) /\ MayAct /\ LookAhead
  /\ UNCHANGED <<run, i, cex, pool, clock, schedules, gate, traded, history>>

Ended == phase = "done" /\ UNCHANGED vars

Next ==
  \/ Begin \/ EarlyStop \/ Donate
  \/ NoArb \/ ExecuteArb
  \/ YbAbstains \/ YbFires
  \/ UserSwap \/ IdleTick \/ NoTick \/ Report
  \/ Skip \/ Visit
  \/ Ended

Spec == Init /\ [][Next]_vars

-----------------------------------------------------------------------------
\* What a valid cache holds is what reading the pool now would give: the spot
\* price, and prices at which the actor abstains at every time of the hour.
CachesAreFresh ==
  /\ geo.valid => geo.p = p
  /\ band.ready /\ band.lo < band.hi =>
       \A t \in band.from .. band.to, mid \in Prices :
         band.lo <= mid /\ mid <= band.hi => ~YbGate(mid, t)

\* The scalar loop would do something at an event with this time and price.
ScalarActs(t, mid) ==
  \/ NativeGate(p, mid)
  \/ ybTrades /\ YbGate(mid, t)
  \/ DonationDue(t) \/ UserSwapDue(t) \/ TickDue(t)
  \/ \E c \in Active : SampleDue(c, t)

\* "skipping it changes nothing": at an event the fast cursor passes over, no
\* actor of the scalar loop would have acted and no schedule was due, although
\* the cursor reads cached gates and one deadline.
SkippedEventIsQuiet ==
  [][phase = "scan" /\ i' = i + 1 => ~ScalarActs(now, cex)]_vars

\* Whichever events were passed over, the pool is never left untouched for
\* TickFreq, unless the tick failed or the actor's fill stood in for it.
TickKeepsPace ==
  phase = "scan" => ~TickDue(tape[i - 1]) \/ excused

\* The loop's results are marked at the last event it visited: the pool state
\* they report is paired with the price of the same event.  That a quiet last event is
\* visited too is next_mandatory_ts's doing, which starts from t_end.
EndsAtLastVisited == phase = "done" => seen = endpoint
=============================================================================
