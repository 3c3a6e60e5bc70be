--------------------------- MODULE EventLoopProofs ---------------------------
(***************************************************************************)
(* The event loop's properties for every tape, price grid and period.  The *)
(* inductive invariant says what a valid cache was computed from, which    *)
(* event was visited last, and whose touch of the pool stands in for a     *)
(* tick; the freshness of the caches is what makes the cursor's skips      *)
(* sound, since it looks at nothing else.                                  *)
(***************************************************************************)
EXTENDS EventLoop, TLAPS

Phases == {"begin", "donate", "arb", "yb", "user", "tick", "report", "scan", "done"}

TypeInv ==
  /\ tape \in Tapes /\ fastSkip \in BOOLEAN /\ yb \in YbArbs
  /\ donFreq \in DonationFreqs
  /\ i \in Nat \ {0} /\ cex \in Int /\ phase \in Phases
  /\ phase # "done" => i <= Len(tape)
  /\ p \in Int /\ y \in Int /\ touch \in Nat
  /\ geo \in [valid : BOOLEAN, p : Int]
  /\ band \in [ready : BOOLEAN, from : Nat, to : Nat, lo : Int, hi : Int]
  /\ clock \in [Clocks -> Int]
  /\ nextDon \in Nat /\ nextUser \in Nat
  /\ traded \in BOOLEAN /\ excused \in BOOLEAN

\* What the caches hold comes from the pool as it is now.
GeoFresh == geo.valid => geo.p = p

BandFresh ==
  band.ready =>
    /\ band.from <= band.to /\ band.to <= Horizon
    /\ band.lo = y - Accrued[band.from]
    /\ band.hi = y - Accrued[band.to] + YbWidth

\* The event that is being handled is the last one visited.
Visited ==
  /\ phase # "done" => endpoint = Len(tape)
  /\ phase \in Phases \ {"begin", "scan", "done"} => seen = i
  /\ phase = "done" => seen = endpoint

\* A trade of this event touched the pool, unless it is an excuse for no tick.
Paced ==
  /\ phase \in {"donate", "arb"} => ~traded
  /\ phase \in {"yb", "user", "tick"} /\ traded => touch = now \/ excused
  /\ phase = "report" => ~TickDue(now) \/ excused
  /\ TickKeepsPace

IInv == TypeInv /\ GeoFresh /\ BandFresh /\ Visited /\ Paced

-----------------------------------------------------------------------------
(* The tape and the caches. *)

\* An event's time is a time of the model, and so is the hour after it.
LEMMA EventTime ==
  ASSUME TypeInv, i <= Len(tape)
  PROVE  /\ Len(tape) \in Nat \ {0}
         /\ now \in Nat /\ now + Hour <= Horizon /\ now + Hour \in Nat
         /\ now \in 0 .. Horizon /\ now + Hour \in 0 .. Horizon
         /\ Hour \in Nat \ {0} /\ Horizon \in Nat
         /\ LastEvent \in Nat /\ now <= LastEvent
<1>1. tape \in Seq(Nat) /\ tape # <<>> /\ i \in 1 .. Len(tape)
  BY TapesAssumption DEF TypeInv
<1>2. Len(tape) \in Nat \ {0} /\ Len(tape) \in 1 .. Len(tape)
  BY <1>1
<1>3. now \in Nat /\ LastEvent \in Nat
  BY <1>1, <1>2 DEF now, LastEvent
<1>4. now <= LastEvent
  <2>1. CASE i = Len(tape)
    BY <2>1, <1>3 DEF now, LastEvent
  <2>2. CASE i # Len(tape)
    <3>1. i < Len(tape)
      BY <2>2, <1>1, <1>2
    <3>2. tape[i] < tape[Len(tape)]
      BY <3>1, <1>1, <1>2, TapesAssumption DEF TypeInv
    <3>3. QED BY <3>2, <1>3 DEF now, LastEvent
  <2>3. QED BY <2>1, <2>2
<1>5. LastEvent + Hour <= Horizon
  BY TapesAssumption DEF TypeInv, LastEvent
<1>6. Hour \in Nat \ {0} /\ Horizon \in Nat
  BY PeriodsAssumption, AccruedAssumption
<1>7. QED BY <1>2, <1>3, <1>4, <1>5, <1>6

\* Accrual never falls, within the horizon.
LEMMA AccruedGrows ==
  ASSUME NEW t \in 0 .. Horizon, NEW u \in 0 .. Horizon, t <= u
  PROVE  Accrued[t] \in Nat /\ Accrued[u] \in Nat /\ Accrued[t] <= Accrued[u]
BY AccruedAssumption

\* Reading through the geometry cache is reading the pool.
LEMMA GeoIsPool ==
  ASSUME TypeInv, GeoFresh
  PROVE  Geo.p = p /\ Geo \in [valid : BOOLEAN, p : Int]
BY DEF TypeInv, GeoFresh, Geo

\* A band that is read, cached or new, was computed from the actor as it is, and
\* covers the time it is read for.
LEMMA BandIsFresh ==
  ASSUME TypeInv, BandFresh, i <= Len(tape)
  PROVE  LET b == Band(now) IN
         /\ b \in [ready : BOOLEAN, from : Nat, to : Nat, lo : Int, hi : Int]
         /\ b.from <= now /\ now <= b.to /\ b.to <= Horizon
         /\ b.lo = y - Accrued[b.from]
         /\ b.hi = y - Accrued[b.to] + YbWidth
<1>1. CASE band.ready /\ band.from <= now /\ now <= band.to
  BY <1>1 DEF Band, BandFresh, TypeInv
<1>2. CASE ~(band.ready /\ band.from <= now /\ now <= band.to)
  <2>1. Band(now) = NoTradeBand(now)
    BY <1>2 DEF Band
  <2>2. /\ now \in Nat /\ now + Hour \in Nat /\ Hour \in Nat /\ Horizon \in Nat
        /\ now + Hour <= Horizon
        /\ now \in 0 .. Horizon /\ now + Hour \in 0 .. Horizon
    BY EventTime
  <2>3. Accrued[now] \in Nat /\ Accrued[now + Hour] \in Nat
    BY <2>2, AccruedAssumption
  <2>4. y \in Int /\ YbWidth \in Nat
    BY PeriodsAssumption DEF TypeInv
  <2>5. QED BY <2>1, <2>2, <2>3, <2>4 DEF NoTradeBand
<1>3. QED BY <1>1, <1>2

\* Inside a fresh band the actor abstains, at whatever time the band covers.
LEMMA BandIsConservative ==
  ASSUME TypeInv,
         NEW b \in [ready : BOOLEAN, from : Nat, to : Nat, lo : Int, hi : Int],
         NEW t \in b.from .. b.to, NEW mid \in Int,
         b.to <= Horizon,
         b.lo = y - Accrued[b.from], b.hi = y - Accrued[b.to] + YbWidth,
         b.lo <= mid, mid <= b.hi
  PROVE  ~YbGate(mid, t)
<1>1. Horizon \in Nat /\ YbWidth \in Nat /\ y \in Int
  BY AccruedAssumption, PeriodsAssumption DEF TypeInv
<1>2. b.from \in 0 .. Horizon /\ b.to \in 0 .. Horizon /\ t \in 0 .. Horizon
  BY <1>1
<1>3. b.from <= t /\ t <= b.to
  OBVIOUS
<1>4. Accrued[b.from] <= Accrued[t] /\ Accrued[b.from] \in Nat /\ Accrued[t] \in Nat
  BY <1>2, <1>3, AccruedGrows
<1>5. Accrued[t] <= Accrued[b.to] /\ Accrued[b.to] \in Nat
  BY <1>2, <1>3, AccruedGrows
<1>6. QED BY <1>1, <1>4, <1>5 DEF YbGate

\* What the cursor asks of the cached band is the actor's own gate.
LEMMA MayTradeIsExact ==
  ASSUME TypeInv, BandFresh, i <= Len(tape)
  PROVE  YbMayTrade(cex, now) <=> YbGate(cex, now)
<1> DEFINE b == Band(now)
<1>1. /\ b \in [ready : BOOLEAN, from : Nat, to : Nat, lo : Int, hi : Int]
      /\ b.from <= now /\ now <= b.to /\ b.to <= Horizon
      /\ b.lo = y - Accrued[b.from] /\ b.hi = y - Accrued[b.to] + YbWidth
  BY BandIsFresh
<1>2. now \in b.from .. b.to /\ cex \in Int
  BY <1>1, EventTime DEF TypeInv
<1> HIDE DEF b
<1>3. b.lo <= cex /\ cex <= b.hi => ~YbGate(cex, now)
  BY <1>1, <1>2, BandIsConservative
<1>4. YbMayTrade(cex, now) <=> ~(b.lo < b.hi /\ b.lo <= cex /\ cex <= b.hi) /\ YbGate(cex, now)
  BY DEF YbMayTrade, b
<1>5. QED BY <1>3, <1>4

-----------------------------------------------------------------------------
(* The invariant holds initially, and every action preserves it. *)

LEMMA NoCacheType ==
  /\ NoGeo \in [valid : BOOLEAN, p : Int]
  /\ NoBand \in [ready : BOOLEAN, from : Nat, to : Nat, lo : Int, hi : Int]
BY DEF NoGeo, NoBand

LEMMA InitInv == Init => IInv
<1> SUFFICES ASSUME Init PROVE IInv
  OBVIOUS
<1>1. tape \in Seq(Nat) /\ Len(tape) \in Nat \ {0} /\ tape[1] \in Nat
  BY TapesAssumption DEF Init
<1>2. clock \in [Clocks -> Int]
  BY <1>1 DEF Init, Never
<1>3. i = 1 /\ touch \in Nat /\ nextDon \in Nat /\ nextUser \in Nat
  BY PeriodsAssumption, TapesAssumption DEF Init
<1>4. TypeInv
  <2>1. geo \in [valid : BOOLEAN, p : Int]
    BY NoCacheType DEF Init
  <2>2. band \in [ready : BOOLEAN, from : Nat, to : Nat, lo : Int, hi : Int]
    BY NoCacheType DEF Init
  <2>3. cex \in Int /\ p \in Int /\ y \in Int
    BY PricesAssumption DEF Init
  <2>4. i <= Len(tape) /\ i \in Nat \ {0}
    BY <1>1, <1>3
  <2>5. QED BY <1>2, <1>3, <2>1, <2>2, <2>3, <2>4 DEF Init, TypeInv, Phases
<1>5. GeoFresh /\ BandFresh
  BY DEF Init, GeoFresh, BandFresh, NoGeo, NoBand
<1>6. Visited /\ Paced
  BY DEF Init, Visited, Paced, Phases, TickKeepsPace
<1>7. QED BY <1>4, <1>5, <1>6 DEF IInv

\* Facts about the constants that the actions need.
LEMMA Constants ==
  /\ Hour \in Nat \ {0} /\ RobustPeriod \in Nat \ {0} /\ DonationFreqs \subseteq Nat
  /\ UserFreq \in Nat \ {0} /\ TickFreq \in Nat \ {0}
  /\ FeeBand \in Nat /\ YbWidth \in Nat
  /\ Prices \subseteq Int /\ Levels \subseteq Int /\ Horizon \in Nat
BY PeriodsAssumption, PricesAssumption, AccruedAssumption

\* A transition of the pool leaves numbers and no caches.
LEMMA MoveFacts ==
  ASSUME TypeInv, i <= Len(tape), NEW to, to \subseteq Prices, PoolMoves(to)
  PROVE  /\ p' \in Int /\ y' \in Int
         /\ geo' = NoGeo /\ band' = NoBand
         /\ geo' \in [valid : BOOLEAN, p : Int]
         /\ band' \in [ready : BOOLEAN, from : Nat, to : Nat, lo : Int, hi : Int]
         /\ GeoFresh' /\ BandFresh'
<1>1. Accrued[now] \in Nat
  BY EventTime, AccruedAssumption
<1>2. p' \in Int /\ y' \in Int
  <2>1. p' \in Int /\ y \in Int
    BY Constants DEF PoolMoves, TypeInv
  <2>2. \A l \in Levels : l + Accrued[now] \in Int
    BY <1>1, Constants
  <2>3. y' = y \/ \E l \in Levels : y' = l + Accrued[now]
    BY Zenon DEF PoolMoves
  <2>4. QED BY <2>1, <2>2, <2>3
<1>3. geo' = NoGeo /\ band' = NoBand
  BY DEF PoolMoves
<1>4. QED BY <1>2, <1>3 DEF NoGeo, NoBand, GeoFresh, BandFresh

\* The event has just been touched: no tick is due.
LEMMA TouchedNotDue ==
  ASSUME TypeInv, i <= Len(tape), touch = now
  PROVE  ~TickDue(now)
BY EventTime, Constants DEF TickDue

\* A clock may be set to any time.
LEMMA ClockSet ==
  ASSUME TypeInv, NEW c \in Clocks, NEW v \in Int
  PROVE  [clock EXCEPT ![c] = v] \in [Clocks -> Int] /\ clock[c] \in Int
BY DEF TypeInv

LEMMA BeginInv == IInv /\ Begin => IInv'
<1> SUFFICES ASSUME IInv, Begin PROVE IInv'
  OBVIOUS
<1> USE DEF Begin, run, pool, schedules
<1>1. i <= Len(tape) /\ now \in Nat
  BY EventTime DEF IInv, TypeInv
<1>2. geo'.p = p /\ geo' \in [valid : BOOLEAN, p : Int]
  BY GeoIsPool DEF IInv
<1>3. clock' \in [Clocks -> Int]
  <2>1. "price_diff" \in Clocks
    BY DEF Clocks
  <2>2. (IF SampleDue("price_diff", now) THEN now ELSE clock["price_diff"]) \in Int
    BY <1>1, <2>1, ClockSet DEF IInv
  <2>3. QED BY <2>1, <2>2, ClockSet DEF IInv
<1>4. TypeInv'
  BY <1>1, <1>2, <1>3 DEF IInv, TypeInv, Phases
<1>5. GeoFresh' /\ BandFresh'
  BY <1>2 DEF IInv, GeoFresh, BandFresh
<1>6. Visited' /\ Paced'
  BY <1>1 DEF IInv, Visited, Paced, TickKeepsPace, Phases
<1>7. QED BY <1>4, <1>5, <1>6 DEF IInv

LEMMA EarlyStopInv == IInv /\ EarlyStop => IInv'
<1> SUFFICES ASSUME IInv, EarlyStop PROVE IInv'
  OBVIOUS
<1> USE DEF EarlyStop, run, pool, schedules
<1>1. now \in Nat
  BY EventTime DEF IInv, TypeInv
<1>2. geo'.p = p /\ geo' \in [valid : BOOLEAN, p : Int]
  BY GeoIsPool DEF IInv
<1>3. clock' \in [Clocks -> Int]
  BY <1>1, ClockSet DEF IInv, Clocks
<1>4. TypeInv'
  BY <1>2, <1>3 DEF IInv, TypeInv, Phases
<1>5. GeoFresh' /\ BandFresh'
  BY <1>2 DEF IInv, GeoFresh, BandFresh
<1>6. Visited' /\ Paced'
  BY DEF IInv, Visited, Paced, TickKeepsPace, Phases
<1>7. QED BY <1>4, <1>5, <1>6 DEF IInv

LEMMA DonateInv == IInv /\ Donate => IInv'
<1> SUFFICES ASSUME IInv, Donate PROVE IInv'
  OBVIOUS
<1> USE DEF run, pool, caches, history
<1>1. i <= Len(tape) /\ now \in Nat /\ phase = "donate" /\ phase' = "arb"
  BY EventTime DEF IInv, TypeInv, Donate
<1>2. nextDon' \in Nat
  BY Constants DEF IInv, TypeInv, Donate
<1>3. CASE UNCHANGED <<pool, caches>>
  <2>1. TypeInv'
    BY <1>1, <1>2, <1>3 DEF IInv, TypeInv, Phases, Donate
  <2>2. GeoFresh' /\ BandFresh'
    BY <1>3 DEF IInv, GeoFresh, BandFresh
  <2>3. Visited' /\ Paced'
    BY <1>1 DEF IInv, Visited, Paced, TickKeepsPace, Phases, Donate
  <2>4. QED BY <2>1, <2>2, <2>3 DEF IInv
<1>4. CASE PoolMoves(Prices) /\ touch' = now
  <2>1. /\ p' \in Int /\ y' \in Int
        /\ geo' \in [valid : BOOLEAN, p : Int]
        /\ band' \in [ready : BOOLEAN, from : Nat, to : Nat, lo : Int, hi : Int]
        /\ GeoFresh' /\ BandFresh'
    BY <1>1, <1>4, MoveFacts DEF IInv
  <2>2. TypeInv'
    BY <1>1, <1>2, <1>4, <2>1 DEF IInv, TypeInv, Phases, Donate
  <2>3. Visited' /\ Paced'
    BY <1>1 DEF IInv, Visited, Paced, TickKeepsPace, Phases, Donate
  <2>4. QED BY <2>1, <2>2, <2>3 DEF IInv
<1>5. QED BY <1>3, <1>4 DEF Donate

LEMMA NoArbInv == IInv /\ NoArb => IInv'
<1> SUFFICES ASSUME IInv, NoArb PROVE IInv'
  OBVIOUS
<1> USE DEF NoArb, run, pool, schedules, history
<1>1. Geo.p = p /\ Geo \in [valid : BOOLEAN, p : Int]
  BY GeoIsPool DEF IInv
<1>2. TypeInv'
  BY <1>1 DEF IInv, TypeInv, Phases
<1>3. GeoFresh' /\ BandFresh'
  BY <1>1 DEF IInv, GeoFresh, BandFresh
<1>4. Visited' /\ Paced'
  BY DEF IInv, Visited, Paced, TickKeepsPace, Phases
<1>5. QED BY <1>2, <1>3, <1>4 DEF IInv

LEMMA ExecuteArbInv == IInv /\ ExecuteArb => IInv'
<1> SUFFICES ASSUME IInv, ExecuteArb PROVE IInv'
  OBVIOUS
<1> USE DEF run, pool, schedules
<1>1. /\ i <= Len(tape) /\ now \in Nat /\ phase = "arb" /\ phase' = "yb"
      /\ UNCHANGED <<run, i, cex, clock, schedules, gate, endpoint, seen, excused>>
  BY EventTime DEF IInv, TypeInv, ExecuteArb
<1>2. CASE traded' = FALSE /\ geo' = Geo /\ UNCHANGED <<pool, band>>
  <2>1. Geo.p = p /\ Geo \in [valid : BOOLEAN, p : Int]
    BY GeoIsPool DEF IInv
  <2>2. TypeInv'
    BY <1>1, <1>2, <2>1 DEF IInv, TypeInv, Phases
  <2>3. GeoFresh' /\ BandFresh'
    BY <1>2, <2>1 DEF IInv, GeoFresh, BandFresh
  <2>4. Visited' /\ Paced'
    BY <1>1, <1>2 DEF IInv, Visited, Paced, TickKeepsPace, Phases
  <2>5. QED BY <2>2, <2>3, <2>4 DEF IInv
<1>3. CASE /\ traded' = FALSE
           /\ geo' = NoGeo /\ band' = NoBand /\ UNCHANGED pool
  <2>1. TypeInv'
    BY <1>1, <1>3, NoCacheType DEF IInv, TypeInv, Phases
  <2>2. GeoFresh' /\ BandFresh'
    BY <1>3 DEF GeoFresh, BandFresh, NoGeo, NoBand
  <2>3. Visited' /\ Paced'
    BY <1>1, <1>3 DEF IInv, Visited, Paced, TickKeepsPace, Phases
  <2>4. QED BY <2>1, <2>2, <2>3 DEF IInv
<1>4. CASE traded' = TRUE /\ PoolMoves(Prices) /\ touch' = now
  <2>1. /\ p' \in Int /\ y' \in Int
        /\ geo' \in [valid : BOOLEAN, p : Int]
        /\ band' \in [ready : BOOLEAN, from : Nat, to : Nat, lo : Int, hi : Int]
        /\ GeoFresh' /\ BandFresh'
    BY <1>1, <1>4, MoveFacts DEF IInv
  <2>2. TypeInv'
    BY <1>1, <1>4, <2>1 DEF IInv, TypeInv, Phases
  <2>3. touch' = now'
    BY <1>1, <1>4 DEF now
  <2>4. Visited' /\ Paced'
    BY <1>1, <2>3 DEF IInv, Visited, Paced, TickKeepsPace, Phases
  <2>5. QED BY <2>1, <2>2, <2>4 DEF IInv
<1>5. QED BY <1>2, <1>3, <1>4 DEF ExecuteArb

LEMMA YbAbstainsInv == IInv /\ YbAbstains => IInv'
<1> SUFFICES ASSUME IInv, YbAbstains PROVE IInv'
  OBVIOUS
<1> USE DEF run, pool, schedules, history
<1>1. band' = band \/ band' = Band(now)
  BY DEF YbAbstains, ReadBand
<1>2. /\ Band(now) \in [ready : BOOLEAN, from : Nat, to : Nat, lo : Int, hi : Int]
      /\ Band(now).from <= now /\ now <= Band(now).to /\ Band(now).to <= Horizon
      /\ Band(now).lo = y - Accrued[Band(now).from]
      /\ Band(now).hi = y - Accrued[Band(now).to] + YbWidth
  BY BandIsFresh DEF IInv, TypeInv, YbAbstains
<1>3. BandFresh' /\ band' \in [ready : BOOLEAN, from : Nat, to : Nat, lo : Int, hi : Int]
  <2>1. CASE band' = band
    BY <2>1 DEF IInv, TypeInv, BandFresh, YbAbstains
  <2>2. CASE band' = Band(now)
    <3>1. now \in Nat
      BY EventTime DEF IInv, TypeInv, YbAbstains
    <3>2. band'.from \in Nat /\ band'.to \in Nat /\ band'.from <= band'.to
      BY <1>2, <2>2, <3>1
    <3>3. QED BY <1>2, <2>2, <3>2 DEF BandFresh, YbAbstains
  <2>3. QED BY <1>1, <2>1, <2>2
<1>4. TypeInv'
  BY <1>3 DEF IInv, TypeInv, Phases, YbAbstains
<1>5. GeoFresh'
  BY DEF IInv, GeoFresh, YbAbstains
<1>6. Visited' /\ Paced'
  BY DEF IInv, Visited, Paced, TickKeepsPace, Phases, YbAbstains, now
<1>7. QED BY <1>3, <1>4, <1>5, <1>6 DEF IInv

LEMMA YbFiresInv == IInv /\ YbFires => IInv'
<1> SUFFICES ASSUME IInv, YbFires PROVE IInv'
  OBVIOUS
<1> USE DEF run, schedules
<1>1. i <= Len(tape) /\ now \in Nat /\ now' = now
  BY EventTime DEF IInv, TypeInv, YbFires, now
<1>2. /\ p' \in Int /\ y' \in Int
      /\ geo' \in [valid : BOOLEAN, p : Int]
      /\ band' \in [ready : BOOLEAN, from : Nat, to : Nat, lo : Int, hi : Int]
      /\ GeoFresh' /\ BandFresh'
  BY <1>1, MoveFacts DEF IInv, YbFires
<1>3. touch' \in Nat /\ excused' \in BOOLEAN
  BY <1>1 DEF IInv, TypeInv, YbFires
<1>4. TypeInv'
  BY <1>1, <1>2, <1>3 DEF IInv, TypeInv, Phases, YbFires
<1>5. Visited' /\ Paced'
  BY <1>1 DEF IInv, Visited, Paced, TickKeepsPace, Phases, YbFires
<1>6. QED BY <1>2, <1>4, <1>5 DEF IInv

LEMMA UserSwapInv == IInv /\ UserSwap => IInv'
<1> SUFFICES ASSUME IInv, UserSwap PROVE IInv'
  OBVIOUS
<1> USE DEF run, pool, caches, history
<1>1. /\ i <= Len(tape) /\ now \in Nat /\ now' = now /\ phase = "user" /\ phase' = "tick"
      /\ UNCHANGED <<run, i, cex, clock, nextDon, gate, traded, history>>
  BY EventTime DEF IInv, TypeInv, UserSwap, now
<1>2. nextUser' \in Nat
  BY Constants DEF IInv, TypeInv, UserSwap
<1>3. CASE UNCHANGED <<pool, caches>>
  <2>1. TypeInv'
    BY <1>1, <1>2, <1>3 DEF IInv, TypeInv, Phases
  <2>2. GeoFresh' /\ BandFresh'
    BY <1>3 DEF IInv, GeoFresh, BandFresh
  <2>3. Visited' /\ Paced'
    BY <1>1, <1>3 DEF IInv, Visited, Paced, TickKeepsPace, Phases
  <2>4. QED BY <2>1, <2>2, <2>3 DEF IInv
<1>4. CASE PoolMoves(Prices) /\ touch' = now
  <2>1. /\ p' \in Int /\ y' \in Int
        /\ geo' \in [valid : BOOLEAN, p : Int]
        /\ band' \in [ready : BOOLEAN, from : Nat, to : Nat, lo : Int, hi : Int]
        /\ GeoFresh' /\ BandFresh'
    BY <1>1, <1>4, MoveFacts DEF IInv
  <2>2. TypeInv'
    BY <1>1, <1>2, <1>4, <2>1 DEF IInv, TypeInv, Phases
  <2>3. Visited' /\ Paced'
    BY <1>1, <1>4 DEF IInv, Visited, Paced, TickKeepsPace, Phases
  <2>4. QED BY <2>1, <2>2, <2>3 DEF IInv
<1>5. QED BY <1>3, <1>4 DEF UserSwap

\* After the idle tick's turn, no tick is due or there is an excuse.
LEMMA IdleTickInv == IInv /\ IdleTick => IInv'
<1> SUFFICES ASSUME IInv, IdleTick PROVE IInv'
  OBVIOUS
<1> USE DEF run, pool, caches, schedules
<1>1. /\ i <= Len(tape) /\ now \in Nat /\ now' = now /\ phase = "tick" /\ phase' = "report"
      /\ UNCHANGED <<run, i, cex, clock, schedules, gate, endpoint, seen>>
  BY EventTime DEF IInv, TypeInv, IdleTick, now
<1>2. CASE excused' = TRUE /\ UNCHANGED <<pool, caches, traded>>
  <2>1. TypeInv'
    BY <1>1, <1>2 DEF IInv, TypeInv, Phases
  <2>2. GeoFresh' /\ BandFresh'
    BY <1>2 DEF IInv, GeoFresh, BandFresh
  <2>3. Visited' /\ Paced'
    BY <1>1, <1>2 DEF IInv, Visited, Paced, TickKeepsPace, Phases
  <2>4. QED BY <2>1, <2>2, <2>3 DEF IInv
<1>3. CASE PoolMoves(Prices) /\ touch' = now /\ traded' = TRUE /\ UNCHANGED excused
  <2>1. /\ p' \in Int /\ y' \in Int
        /\ geo' \in [valid : BOOLEAN, p : Int]
        /\ band' \in [ready : BOOLEAN, from : Nat, to : Nat, lo : Int, hi : Int]
        /\ GeoFresh' /\ BandFresh'
    BY <1>1, <1>3, MoveFacts DEF IInv
  <2>2. TypeInv'
    BY <1>1, <1>3, <2>1 DEF IInv, TypeInv, Phases
  <2>3. ~TickDue(now)'
    BY <1>1, <1>3, Constants DEF TickDue
  <2>4. Visited' /\ Paced'
    BY <1>1, <2>3 DEF IInv, Visited, Paced, TickKeepsPace, Phases
  <2>5. QED BY <2>1, <2>2, <2>4 DEF IInv
<1>4. QED BY <1>2, <1>3 DEF IdleTick

LEMMA NoTickInv == IInv /\ NoTick => IInv'
<1> SUFFICES ASSUME IInv, NoTick PROVE IInv'
  OBVIOUS
<1> USE DEF run, pool, caches, schedules, history
<1>1. /\ i <= Len(tape) /\ now \in Nat /\ phase = "tick" /\ phase' = "report"
      /\ UNCHANGED <<run, i, cex, pool, caches, clock, schedules, gate, traded, history>>
  BY EventTime DEF IInv, TypeInv, NoTick
<1>2. ~TickDue(now) \/ excused
  <2>1. CASE ~TickDue(now)
    BY <2>1
  <2>2. CASE traded
    BY <1>1, <2>2, TouchedNotDue DEF IInv, Paced
  <2>3. QED BY <2>1, <2>2 DEF NoTick
<1>3. TypeInv'
  BY <1>1 DEF IInv, TypeInv, Phases
<1>4. GeoFresh' /\ BandFresh'
  BY <1>1 DEF IInv, GeoFresh, BandFresh
<1>5. Visited' /\ Paced'
  BY <1>1, <1>2 DEF IInv, Visited, Paced, TickKeepsPace, TickDue, now, Phases
<1>6. QED BY <1>3, <1>4, <1>5 DEF IInv

-----------------------------------------------------------------------------
(* The cursor. *)

\* At the last event there is a deadline, so it is never skipped.
LEMMA NotMandatory ==
  ASSUME TypeInv, i <= Len(tape), ~Mandatory(now)
  PROVE  /\ i # Len(tape)
         /\ ~UserSwapDue(now) /\ ~TickDue(now)
         /\ ~ybOn => ~DonationDue(now)
         /\ \A c \in Active : ~SampleDue(c, now)
<1>1. now \in Nat /\ \A d \in Deadlines : ~(now >= d)
  BY EventTime DEF Mandatory
<1>2. /\ LastEvent \in Deadlines /\ nextUser \in Deadlines /\ touch + TickFreq \in Deadlines
      /\ ~ybOn => nextDon \in Deadlines
      /\ \A c \in Active : clock[c] + SamplePeriod[c] \in Deadlines
  BY DEF Deadlines
<1>3. i # Len(tape)
  <2>1. ~(now >= LastEvent)
    BY <1>1, <1>2
  <2>2. now \in Nat /\ LastEvent = tape[Len(tape)]
    BY <1>1 DEF LastEvent
  <2>3. QED BY <2>1, <2>2 DEF now
<1>4. ~UserSwapDue(now)
  BY <1>1, <1>2 DEF UserSwapDue
<1>5. ~TickDue(now)
  <2>1. ~(now >= touch + TickFreq)
    BY <1>1, <1>2
  <2>2. touch \in Nat /\ TickFreq \in Nat \ {0}
    BY Constants DEF TypeInv
  <2>3. QED BY <1>1, <2>1, <2>2 DEF TickDue
<1>6. ~ybOn => ~DonationDue(now)
  BY <1>1, <1>2 DEF DonationDue
<1>7. ASSUME NEW c \in Active PROVE ~SampleDue(c, now)
  BY <1>1, <1>2 DEF SampleDue, Mandatory
<1>8. QED BY <1>3, <1>4, <1>5, <1>6, <1>7

\* An event the cursor passes over is one at which the scalar loop does nothing.
LEMMA SkipQuiet == IInv /\ Skip => ~ScalarActs(now, cex)
<1> SUFFICES ASSUME IInv, Skip PROVE ~ScalarActs(now, cex)
  OBVIOUS
<1>1. TypeInv /\ GeoFresh /\ BandFresh /\ i <= Len(tape)
  BY DEF IInv, TypeInv, Skip
<1>2. ~NativeGate(p, cex)
  BY <1>1, GeoIsPool DEF Skip, MayAct
<1>3. ybTrades => ~YbGate(cex, now)
  BY <1>1, MayTradeIsExact DEF Skip, MayAct
<1>4. /\ ~UserSwapDue(now) /\ ~TickDue(now)
      /\ ~ybOn => ~DonationDue(now)
      /\ \A c \in Active : ~SampleDue(c, now)
  BY <1>1, NotMandatory DEF Skip
<1>5. ~DonationDue(now)
  BY <1>4 DEF DonationDue
<1>6. QED BY <1>2, <1>3, <1>4, <1>5 DEF ScalarActs

\* Looking ahead leaves fresh caches.
LEMMA LookAheadFresh ==
  ASSUME IInv, i <= Len(tape), LookAhead, UNCHANGED pool
  PROVE  /\ GeoFresh' /\ BandFresh'
         /\ geo' \in [valid : BOOLEAN, p : Int]
         /\ band' \in [ready : BOOLEAN, from : Nat, to : Nat, lo : Int, hi : Int]
<1> USE DEF pool
<1>1. GeoFresh' /\ geo' \in [valid : BOOLEAN, p : Int]
  BY GeoIsPool DEF IInv, GeoFresh, LookAhead
<1>2. BandFresh' /\ band' \in [ready : BOOLEAN, from : Nat, to : Nat, lo : Int, hi : Int]
  <2>1. CASE band' = band
    BY <2>1 DEF IInv, TypeInv, BandFresh
  <2>2. CASE band' = Band(now)
    <3>1. /\ Band(now) \in [ready : BOOLEAN, from : Nat, to : Nat, lo : Int, hi : Int]
          /\ Band(now).from <= now /\ now <= Band(now).to /\ Band(now).to <= Horizon
          /\ Band(now).lo = y - Accrued[Band(now).from]
          /\ Band(now).hi = y - Accrued[Band(now).to] + YbWidth
      BY BandIsFresh DEF IInv
    <3>2. now \in Nat
      BY EventTime DEF IInv
    <3>3. band'.from \in Nat /\ band'.to \in Nat /\ band'.from <= band'.to
      BY <2>2, <3>1, <3>2
    <3>4. QED BY <2>2, <3>1, <3>3 DEF BandFresh
  <2>3. QED BY <2>1, <2>2 DEF LookAhead
<1>3. QED BY <1>1, <1>2

LEMMA SkipInv == IInv /\ Skip => IInv'
<1> SUFFICES ASSUME IInv, Skip PROVE IInv'
  OBVIOUS
<1> USE DEF run, pool, schedules, history
<1>1. /\ i <= Len(tape) /\ i # Len(tape) /\ phase = "scan" /\ i \in Nat \ {0}
      /\ Len(tape) \in Nat /\ now \in Nat
      /\ ~TickDue(now)
  BY NotMandatory, EventTime DEF IInv, TypeInv, Skip
<1>2. /\ i' = i + 1 /\ i' <= Len(tape) /\ phase' = "scan" /\ cex' \in Int
      /\ UNCHANGED <<run, pool, clock, schedules, gate, traded, history>>
  <2>1. Advance /\ UNCHANGED <<run, pool, clock, schedules, gate, traded, history>>
    BY DEF Skip
  <2>2. i' = i + 1 /\ phase' = "scan" /\ cex' \in Prices
    BY <1>1, <2>1 DEF Advance
  <2>3. QED BY <1>1, <2>1, <2>2, Constants
<1>3. /\ GeoFresh' /\ BandFresh'
      /\ geo' \in [valid : BOOLEAN, p : Int]
      /\ band' \in [ready : BOOLEAN, from : Nat, to : Nat, lo : Int, hi : Int]
  BY <1>1, LookAheadFresh DEF Skip
<1>4. TypeInv'
  BY <1>1, <1>2, <1>3 DEF IInv, TypeInv, Phases
<1>5. Visited'
  BY <1>1, <1>2 DEF IInv, Visited
<1>6. Paced'
  <2>1. tape'[i' - 1] = now
    BY <1>1, <1>2 DEF now
  <2>2. TickKeepsPace'
    BY <1>1, <1>2, <2>1 DEF TickKeepsPace, TickDue
  <2>3. QED BY <1>2, <2>2 DEF Paced
<1>7. QED BY <1>3, <1>4, <1>5, <1>6 DEF IInv

LEMMA VisitInv == IInv /\ Visit => IInv'
<1> SUFFICES ASSUME IInv, Visit PROVE IInv'
  OBVIOUS
<1> USE DEF run, pool, schedules, history
<1>1. /\ i <= Len(tape) /\ phase = "scan" /\ phase' = "begin"
      /\ UNCHANGED <<run, i, cex, pool, clock, schedules, gate, traded, history>>
  BY DEF IInv, TypeInv, Visit
<1>2. /\ GeoFresh' /\ BandFresh'
      /\ geo' \in [valid : BOOLEAN, p : Int]
      /\ band' \in [ready : BOOLEAN, from : Nat, to : Nat, lo : Int, hi : Int]
  <2>1. CASE UNCHANGED caches
    BY <1>1, <2>1 DEF IInv, TypeInv, GeoFresh, BandFresh, caches
  <2>2. CASE LookAhead
    BY <1>1, <2>2, LookAheadFresh
  <2>3. QED BY <2>1, <2>2 DEF Visit
<1>3. TypeInv'
  BY <1>1, <1>2 DEF IInv, TypeInv, Phases
<1>4. Visited' /\ Paced'
  BY <1>1 DEF IInv, Visited, Paced, TickKeepsPace, Phases
<1>5. QED BY <1>2, <1>3, <1>4 DEF IInv

LEMMA ReportInv == IInv /\ Report => IInv'
<1> SUFFICES ASSUME IInv, Report PROVE IInv'
  OBVIOUS
<1> USE DEF run, pool, caches, schedules, history
<1>1. /\ i <= Len(tape) /\ phase = "report" /\ i \in Nat \ {0}
      /\ Len(tape) \in Nat /\ now \in Nat /\ i' = i + 1
      /\ UNCHANGED <<run, pool, caches, schedules, gate, traded, history>>
  BY EventTime DEF IInv, TypeInv, Report, Advance
<1>2. clock' \in [Clocks -> Int]
  <2>1. \A c \in Clocks : clock[c] \in Int /\ now \in Int
    BY <1>1 DEF IInv, TypeInv
  <2>2. PICK cs \in Sampled :
          clock' = [c \in Clocks |-> IF c \in cs /\ SampleDue(c, now) THEN now ELSE clock[c]]
    BY DEF Report
  <2>3. QED BY <2>1, <2>2
<1>3. cex' \in Int /\ phase' \in {"scan", "done"} /\ (phase' = "done" <=> i = Len(tape))
  BY Constants DEF IInv, TypeInv, Report, Advance
<1>4. TypeInv'
  BY <1>1, <1>2, <1>3 DEF IInv, TypeInv, Phases
<1>5. GeoFresh' /\ BandFresh'
  BY <1>1 DEF IInv, GeoFresh, BandFresh
<1>6. Visited'
  BY <1>1, <1>3 DEF IInv, Visited, Phases
<1>7. Paced'
  <2>1. tape'[i' - 1] = now
    BY <1>1 DEF now
  <2>2. TickKeepsPace'
    BY <1>1, <2>1 DEF IInv, Paced, TickKeepsPace, TickDue
  <2>3. QED BY <1>3, <2>2 DEF Paced
<1>8. QED BY <1>4, <1>5, <1>6, <1>7 DEF IInv

LEMMA StepInv == IInv /\ [Next]_vars => IInv'
<1> SUFFICES ASSUME IInv, [Next]_vars PROVE IInv'
  OBVIOUS
<1>1. CASE UNCHANGED vars
  BY <1>1 DEF vars, run, pool, caches, schedules, history, IInv, TypeInv, GeoFresh,
    BandFresh, Visited, Paced, TickKeepsPace, TickDue, now
<1>2. CASE Next
  BY <1>1, <1>2, BeginInv, EarlyStopInv, DonateInv, NoArbInv, ExecuteArbInv,
    YbAbstainsInv, YbFiresInv, UserSwapInv, IdleTickInv, NoTickInv, ReportInv,
    SkipInv, VisitInv DEF Next, Ended
<1>3. QED BY <1>1, <1>2

LEMMA SpecInv == Spec => []IInv
BY InitInv, StepInv, PTL DEF Spec

-----------------------------------------------------------------------------
(* The theorems. *)

\* Valid caches agree with the pool, whatever was donated, traded, rolled back
\* or looked ahead at since they were filled.
THEOREM CachesStayFresh == Spec => []CachesAreFresh
<1>1. ASSUME IInv PROVE CachesAreFresh
  <2>1. ASSUME band.ready, band.lo < band.hi,
               NEW t \in band.from .. band.to, NEW mid \in Prices,
               band.lo <= mid, mid <= band.hi
        PROVE  ~YbGate(mid, t)
    <3>1. /\ band \in [ready : BOOLEAN, from : Nat, to : Nat, lo : Int, hi : Int]
          /\ band.to <= Horizon
          /\ band.lo = y - Accrued[band.from]
          /\ band.hi = y - Accrued[band.to] + YbWidth
      BY <1>1, <2>1 DEF IInv, TypeInv, BandFresh
    <3>2. mid \in Int
      BY Constants
    <3>3. QED BY <1>1, <2>1, <3>1, <3>2, BandIsConservative DEF IInv
  <2>2. QED BY <1>1, <2>1 DEF CachesAreFresh, IInv, GeoFresh
<1>2. QED BY <1>1, SpecInv, PTL

\* The fast cursor skips nothing the scalar cursor would have acted on.
THEOREM SkipsAreSound == Spec => SkippedEventIsQuiet
<1>1. ASSUME IInv, [Next]_vars
      PROVE  [phase = "scan" /\ i' = i + 1 => ~ScalarActs(now, cex)]_vars
  <2>1. SUFFICES ASSUME Next, phase = "scan", i' = i + 1 PROVE ~ScalarActs(now, cex)
    BY <1>1
  <2>2. i \in Nat
    BY <1>1 DEF IInv, TypeInv
  <2>3. Skip
    BY <2>1, <2>2 DEF Next, Begin, EarlyStop, Donate, NoArb, ExecuteArb, YbAbstains,
      YbFires, UserSwap, IdleTick, NoTick, Report, Visit, Ended
  <2>4. QED BY <1>1, <2>3, SkipQuiet
<1>2. QED BY <1>1, SpecInv, PTL DEF Spec, SkippedEventIsQuiet

\* The pool is not left untouched for a tick period, skipped events or not.
THEOREM TicksKeepPace == Spec => []TickKeepsPace
<1>1. IInv => TickKeepsPace
  BY DEF IInv, Paced
<1>2. QED BY <1>1, SpecInv, PTL

\* The loop ends at the event whose price its results are marked with.
THEOREM LoopEndsVisited == Spec => []EndsAtLastVisited
<1>1. IInv => EndsAtLastVisited
  BY DEF IInv, Visited, EndsAtLastVisited
<1>2. QED BY <1>1, SpecInv, PTL
=============================================================================
