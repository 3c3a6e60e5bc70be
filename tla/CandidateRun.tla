----------------------------- MODULE CandidateRun -----------------------------
(***************************************************************************)
(* From a session and a candidate to a pool at the first event of a run:   *)
(* the open_session handler once the market is loaded, execute_scenario_job *)
(* up to run_single_pool, and that up to the event loop.  Start time and   *)
(* checkpoint may each come from the session, the template, the defaults   *)
(* of a grid, an axis or a list candidate; they meet only here.            *)
(*                                                                         *)
(* The candidates of a batch share nothing, so they are run in order; what *)
(* the worker pool makes of a batch is modelled in WorkerPool.             *)
(***************************************************************************)
EXTENDS ReportWindow, CompiledGrid

CONSTANTS
  DualEma,      \* the compiled policy has a dual-EMA state to restore
  SwapReports   \* ... takes reports with its swaps

\* The shape that the JSON of a session's messages is parsed into: lists, natural
\* numbers, and a start that is one.
ASSUME SessionsAssumption ==
  LET Started(entry) ==
        "start_timestamp" \in DOMAIN entry => entry.start_timestamp \in Nat
      Listing(s) == Len(s) \in Nat /\ DOMAIN s = 1 .. Len(s)
  IN \A r \in Requests :
       /\ Started(r.template.entry)
       /\ \A g \in r.grids :
            /\ Listing(g.order) /\ Started(g.pool)
            /\ \A x \in DOMAIN g.axes : Listing(g.axes[x])
                 /\ \A i \in DOMAIN g.axes[x] : Started(g.axes[x][i].pool)
       /\ \A b \in r.batches :
            /\ b.kind \in {"list", "ranges"}
            /\ b.kind = "list" =>
                 Listing(b.list) /\ \A i \in DOMAIN b.list : Started(b.list[i].pool)
            /\ b.kind = "ranges" => b.ranges \in Seq(Nat \X Nat)

VARIABLES
  session,    \* "none" or "open"
  outcomes    \* of the candidates run so far

runVars == <<session, outcomes>>
vars == <<tapeVars, gridVars, runVars>>

NoState == [ts |-> 0, block |-> 0, price |-> 0, policyTs |-> 0]

\* The session's YB fee: the state's if there is one, what was asked, or 12 per mille.
SessionFee ==
  CASE req.yb.on /\ req.yb.given -> req.yb.fee
    [] req.yb.asked # 0          -> req.yb.asked
    [] OTHER                     -> 12

\* PoolInit's defaults, with the liquidity given by the price at which it is balanced,
\* and the defaults of the run fields.
Defaults ==
  [start_timestamp |-> 0, historical_state |-> NoState, initial_price |-> 1,
   initial_liquidity |-> 1, arb_report_max_age_s |-> 0, arb_report_count |-> 0,
   arb_report_random_count |-> 0, arb_report_offset |-> -1,
   yb_releverage_fee |-> SessionFee]

\* parse_pool_entry of the template: a pool has no run fields.
TemplateValid(entry) == EntryValid(entry) /\ DOMAIN entry \cap DOMAIN RunLimits = {}

BasePool == Overlay(Defaults, Typed(req.template.entry))
Effective(c) == Overlay(BasePool, c.override)

HasState(p) == p.historical_state.ts # 0
SameCheckpoint(p) ==
  HasState(p) /\ p.historical_state.ts = req.yb.ts /\ p.historical_state.block = req.yb.block

-----------------------------------------------------------------------------
(* The rest of open_session. *)

\* A YB state must be of the checkpoint of the template and agree on the fee.
YbAccepted ==
  req.yb.on /\ req.yb.given =>
    SameCheckpoint(BasePool) /\ req.yb.asked \in {0, req.yb.fee}

OpenSession ==
  /\ Loaded /\ session = "none" /\ YbAccepted
  /\ session' = "open"
  /\ UNCHANGED <<tapeVars, gridVars, outcomes>>

RefuseSession ==
  /\ Loaded /\ session = "none" /\ ~YbAccepted
  /\ stage' = "failed"
  /\ next' = 1 /\ kept' = << >> /\ mark' = NoTrade /\ events' = << >>
  /\ reports' = << >> /\ cursor' = 1 /\ upper' = << >>
  /\ UNCHANGED <<req, gridVars, runVars>>

-----------------------------------------------------------------------------
(* execute_scenario_job. *)

\* The start and the checkpoint of the merged pool.
JobAccepts(c) ==
  LET p == Effective(c) IN
  /\ c.ok /\ Len(c.params) = ParamCount
  /\ HasState(p) /\ p.start_timestamp # 0 =>
       p.start_timestamp >= p.historical_state.ts

-----------------------------------------------------------------------------
(* run_single_pool. *)

RequestedStart(p) == IF req.start # 0 THEN req.start ELSE p.start_timestamp

\* The clock a run begins at; a market that is loaded has an event.
InitTs(p) == IF RequestedStart(p) # 0 THEN RequestedStart(p) ELSE events[1].ts

From(ts) == {i \in DOMAIN events : events[i].ts >= ts}
FirstOf(S) == CHOOSE i \in S : \A j \in S : i <= j

\* Mutant of MarketAnchor: the tape's first price, whenever the run begins.
AnchorAtTape(p) == [price |-> events[1].price, fromEvent |-> TRUE]

\* initial_market_anchor: the first price at or after the start, else the template's.
MarketAnchor(p) ==
  IF From(RequestedStart(p)) # {}
  THEN [price |-> events[FirstOf(From(RequestedStart(p)))].price, fromEvent |-> TRUE]
  ELSE [price |-> IF p.initial_price > 0 THEN p.initial_price ELSE 1, fromEvent |-> FALSE]

Anchor(p) ==
  IF HasState(p) THEN [price |-> p.historical_state.price, fromEvent |-> FALSE]
  ELSE MarketAnchor(p)

\* The price at which the pool opens balanced: liquidity that is missing is made up,
\* and what was balanced at the template's price is rescaled to the market's.
BalancedAt(p) ==
  CASE HasState(p)             -> p.historical_state.price
    [] p.initial_liquidity = 0 -> Anchor(p).price
    [] /\ Anchor(p).fromEvent /\ p.initial_price > 0
       /\ p.initial_liquidity = p.initial_price -> Anchor(p).price
    [] OTHER                   -> p.initial_liquidity

YbStateFits(p) ==
  req.yb.on /\ req.yb.given =>
    SameCheckpoint(p) /\ req.yb.ts <= InitTs(p) /\ p.yb_releverage_fee = req.yb.fee

StartFits(p) == HasState(p) => InitTs(p) >= p.historical_state.ts

\* restore_policy_state.
PolicyStateFits(p) == p.historical_state.policyTs # 0 => DualEma

RunnerAccepts(p) == YbStateFits(p) /\ StartFits(p) /\ PolicyStateFits(p)

-----------------------------------------------------------------------------
(* The entry of run_event_loop. *)

\* At most one way to select reports, and only with a feed.
ReportsSelectable(p) ==
  LET offset == p.arb_report_offset >= 0
      count == p.arb_report_count > 0
      age == p.arb_report_max_age_s > 0
      drawn == p.arb_report_random_count > 0
  IN /\ ~(count /\ age)
     /\ ~(drawn /\ (offset \/ count \/ age))
     /\ ~(offset /\ (count \/ age))
     /\ offset \/ count \/ age \/ drawn => SwapReports /\ reports # << >>

\* The first event looked at; a pool without a checkpoint takes the whole tape.
Floor(p) == IF HasState(p) THEN InitTs(p) ELSE 0

FirstEvent(p) == IF From(Floor(p)) = {} THEN 0 ELSE FirstOf(From(Floor(p)))

-----------------------------------------------------------------------------
Failed == [ok |-> FALSE]

Entered(c) ==
  LET p == Effective(c) IN
  [ok |-> TRUE, at |-> InitTs(p), price |-> Anchor(p).price, balanced |-> BalancedAt(p),
   first |-> FirstEvent(p)]

BatchReady == batch # NoBatch /\ ~Materializing /\ Len(outcomes) < Len(cands)
NextCandidate == cands[Len(outcomes) + 1]

Runs(c) ==
  JobAccepts(c) /\ RunnerAccepts(Effective(c)) /\ ReportsSelectable(Effective(c))

RunPool ==
  /\ BatchReady /\ Runs(NextCandidate)
  /\ outcomes' = Append(outcomes, Entered(NextCandidate))
  /\ UNCHANGED <<tapeVars, gridVars, session>>

\* What is thrown is caught as this candidate's failure.
FailCandidate ==
  /\ BatchReady /\ ~Runs(NextCandidate)
  /\ outcomes' = Append(outcomes, Failed)
  /\ UNCHANGED <<tapeVars, gridVars, session>>

EndBatch ==
  /\ batch # NoBatch /\ ~Materializing /\ Len(outcomes) = Len(cands)
  /\ batch' = NoBatch /\ cands' = << >> /\ range' = 1 /\ at' = 0 /\ outcomes' = << >>
  /\ UNCHANGED <<tapeVars, grid, session>>

Init == TapeInit /\ GridInit /\ session = "none" /\ outcomes = << >>

Load == TapeNext /\ UNCHANGED <<gridVars, runVars>>

RegisterGrid ==
  /\ session = "open" /\ \E g \in req.grids : Register(g)
  /\ UNCHANGED <<tapeVars, runVars>>

EvaluateBatch ==
  /\ session = "open" /\ \E b \in req.batches : Submit(b)
  /\ UNCHANGED <<tapeVars, runVars>>

MaterializeNext == Materialize /\ UNCHANGED <<tapeVars, runVars>>

Next ==
  \/ Load \/ OpenSession \/ RefuseSession \/ RegisterGrid \/ EvaluateBatch
  \/ MaterializeNext \/ RunPool \/ FailCandidate \/ EndBatch

Spec == Init /\ [][Next]_vars

-----------------------------------------------------------------------------
\* Wherever a run's start and its checkpoint come from, they belong to one moment, which
\* is the clock of the run.  A restored pool is at its checkpoint's price, its clock is
\* not before the checkpoint, it sees every event from its clock on and none before, and a
\* YB state is of that checkpoint.  A fresh pool is at the price of the first event from
\* its clock on, balanced there if the template was balanced at its own price, and sees
\* the whole market.  That market begins no earlier than the clock, with one exception:
\* where the session names no start, the pool's own start_timestamp sets clock and price,
\* and the events before it are replayed all the same
\* (execute_scenario_job, run_single_pool, run_event_loop).
StartsAtOneMoment ==
  \A i \in DOMAIN outcomes : outcomes[i].ok =>
    LET run == outcomes[i]
        p == Effective(cands[i])
        state == p.historical_state
        seen == IF run.first = 0 THEN {} ELSE {events[j] : j \in run.first .. Len(events)}
    IN /\ HasState(p) =>
            /\ run.at >= state.ts /\ run.price = state.price
            /\ seen = {events[j] : j \in {k \in DOMAIN events : events[k].ts >= run.at}}
            /\ req.yb.on /\ req.yb.given =>
                 req.yb.ts = state.ts /\ req.yb.block = state.block
       /\ ~HasState(p) =>
            /\ run.first = 1 /\ ~(req.yb.on /\ req.yb.given)
            /\ \A j \in DOMAIN events :
                 /\ events[j].ts >= run.at
                 /\ \A k \in DOMAIN events : k < j => events[k].ts < run.at
                 => run.price = events[j].price
            /\ run.at > events[1].ts => req.start = 0 /\ run.at = p.start_timestamp
            /\ p.initial_price > 0 /\ p.initial_liquidity = p.initial_price =>
                 run.balanced = run.price
=============================================================================
