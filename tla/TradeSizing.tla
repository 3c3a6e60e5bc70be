----------------------------- MODULE TradeSizing -----------------------------
(***************************************************************************)
(* decide_trade (arbitrageur.hpp): the search for the most profitable size *)
(* of one trade, under one fee context, with a bounded number of quotes.   *)
(*                                                                         *)
(* Trade sizes are points of a geometric grid, 0 .. Top for dx_lo .. dx_hi *)
(* on which a factor of 3 is Third points.  What a size earns is a table;  *)
(* the curve behind it belongs to the pool.  The parabolic or golden step  *)
(* of a refinement is any point inside of its bracket.  Prices and fees    *)
(* are logarithms: a direction clears a fee when its edge exceeds it.      *)
(***************************************************************************)
EXTENDS Integers, FiniteSets, Sequences

CONSTANTS
  Top,                 \* dx_hi, with dx_lo = 0
  Third,               \* grid distance of a factor of 3
  Near,                \* of a factor of 2
  Dips,                \* of the factors 1.5, 1.15 and 1.05 around the fee dip
  Tol,                 \* TOL_REL: no bracket narrower than this is refined
  MaxEvals,            \* MAX_SIZING_EVALS
  LowRungs, AllRungs,  \* rungs after which the ladder stops, downwards and up
  Shapes,              \* names of the profit functions
  Profit,              \* Profit[s][c][x]: what size x earns under context c
  Ends,                \* bound: where the envelope may turn positive and negative
  ReportCost,          \* report_coin0, paid when the context holds a report
  Events,              \* the events considered: market, pool and reports
  Slot                 \* Slot[<<x, d>>]: the hash of a size and a direction

Sizes == 0 .. Top
Directions == {0, 1}
Contexts == 0 .. 2     \* 0: no report is offered; 1, 2: the reports on offer

EventType ==
  [shape : Shapes,
   native : BOOLEAN,   \* uses_native_fee_model
   ordered : BOOLEAN,  \* not out_fee < mid_fee
   reports : {"none", "latest", "cached", "one", "many"},
   offered : 0 .. 2,   \* reports an arbitrageur may offer at this event
   gap : Int,          \* logarithm of event price over spot price
   floor : Nat,        \* fee_lower_bound
   fee : [Contexts -> Nat],
   least : [Contexts -> [Directions -> Nat]],     \* context_fee_lower_bound
   may : [Contexts -> [Directions -> BOOLEAN]],   \* context_may_profit
   entry : Nat,        \* entry_edge_bps, 0 for off
   scarce : 0 .. 2,    \* the coin the pool holds less of; 2 for neither
   dip : Sizes,        \* the trade that balances the pool
   seeds : SUBSET Sizes,                          \* edge / price impact
   room : BOOLEAN]     \* the bounds on the size leave any

ASSUME GridAssumption ==
  /\ {Top, Third, Near} \subseteq Nat \ {0}
  /\ Dips \in Seq(Nat \ {0})
  /\ Tol \in Nat /\ Tol >= 2
ASSUME RungsAssumption ==
  /\ {MaxEvals, LowRungs, AllRungs} \subseteq Nat
  /\ 8 <= LowRungs /\ LowRungs <= AllRungs /\ AllRungs <= MaxEvals
ASSUME ProfitAssumption ==
  /\ Profit \in [Shapes -> [Contexts -> [Sizes -> Int]]]
  /\ ReportCost \in Nat /\ Ends \subseteq Nat
ASSUME EventsAssumption ==
  /\ Events \subseteq EventType
  /\ \A e \in Events, c \in Contexts : e.floor <= e.fee[c]
ASSUME SlotAssumption == DOMAIN Slot = Sizes \X Directions

VARIABLES
  ev, ctx,             \* the event, and policy.research: the report in context
  only,                \* trade_only
  phase,               \* where in the search
  dir,                 \* sel_i
  seed, cap,           \* dx_seed, dx_cap
  rungs, seen,         \* pts, and scan: what the ladder's points earn
  evals, best,         \* quotes made, and the best of them
  tri, back,           \* the bracket under refinement, and the phase after it
  ends, tries,         \* an endpoint probe's two points; probes, or dips, tried
  answer,              \* the Decision returned
  previews             \* SwapPreviewCache, shared by the calls of one event

searchVars == <<dir, seed, cap, rungs, seen, evals, best, tri, back, ends, tries, answer>>
sizingVars == <<ev, ctx, only, phase, searchVars, previews>>

NoBest == [some |-> FALSE, dx |-> 0, profit |-> 0]
NoTrade == [trade |-> FALSE, dx |-> 0, profit |-> 0]
NoTri == [a |-> 0, b |-> 0, c |-> 0, va |-> 0, vb |-> 0, vc |-> 0]
NoEnds == [end |-> 0, inner |-> 0, vend |-> 0, vin |-> 0]
Empty == [dx |-> -1, input |-> 0, swap |-> << >>]

Ninth == 2 * Third

LeastOf(S) == CHOOSE x \in S : \A y \in S : x <= y

\* What size x earns under the context c, costs of offering a report included.
Value(c, x) == Profit[ev.shape][c][x] - (IF c = 0 THEN 0 ELSE ReportCost)

-----------------------------------------------------------------------------
(* SwapPreviewCache: the swap of a size and direction, before fees. *)

Shared == ev.reports = "many"

\* Mutant of Hit: any entry in the slot will do.
HitSlot(x) == previews[Slot[<<x, dir>>]].dx >= 0

\* quote finds the swap of this very size and direction.
Hit(x) ==
  LET e == previews[Slot[<<x, dir>>]] IN e.dx = x /\ e.input = dir

\* The swap that is priced: the one kept, or a new one.
Preview(x) ==
  IF Shared /\ Hit(x) THEN previews[Slot[<<x, dir>>]]
  ELSE [dx |-> x, input |-> dir, swap |-> <<ev.shape, x>>]

\* Fees are never kept: they are those of the context of now.
Quote(x) ==
  LET swap == Preview(x).swap IN
  Profit[swap[1]][ctx][swap[2]] - (IF ctx = 0 THEN 0 ELSE ReportCost)

\* Mutant of Evaluate: whatever profits is kept.
EvaluateKeepsLast(x) ==
  /\ evals' = evals + 1
  /\ best' = IF ~best.some \/ Quote(x) > 0
             THEN [some |-> TRUE, dx |-> x, profit |-> Quote(x)] ELSE best
  /\ previews' = IF Shared THEN [previews EXCEPT ![Slot[<<x, dir>>]] = Preview(x)]
                 ELSE previews

\* eval_at: one quote, counted, and kept if it is the best.
Evaluate(x) ==
  /\ evals' = evals + 1
  /\ best' = IF ~best.some \/ Quote(x) > best.profit
             THEN [some |-> TRUE, dx |-> x, profit |-> Quote(x)] ELSE best
  /\ previews' = IF Shared THEN [previews EXCEPT ![Slot[<<x, dir>>]] = Preview(x)]
                 ELSE previews

-----------------------------------------------------------------------------
(* Before any quote: the fee floors. *)

Edge(e, d) == IF d = 0 THEN e.gap ELSE -e.gap

\* The context's own bounds reject only if they are sharper than the global one.
ContextAdmits(e, c) ==
  (\E d \in Directions : e.least[c][d] > e.floor) =>
    \E d \in Directions : Edge(e, d) > e.least[c][d]

\* The least fee on the path of direction d.  A native fee with mid <= out only
\* rises away from balance.
PathFloor(e, d) ==
  IF ~e.native \/ e.scarce = d \/ ~e.ordered THEN e.floor ELSE e.fee[0]

Rho(e, d) == Edge(e, d) - PathFloor(e, d)

Selected(e) == IF Rho(e, 0) >= Rho(e, 1) THEN 0 ELSE 1

Admitted ==
  /\ ContextAdmits(ev, ctx)
  /\ Rho(ev, 0) > 0 \/ Rho(ev, 1) > 0
  /\ only => ev.may[ctx][Selected(ev)]
  /\ ev.room

\* decide_trade returns before it searches.
Refuse ==
  /\ phase = "gate"
  /\ ~Admitted
  /\ answer' = NoTrade /\ phase' = "sized"
  /\ UNCHANGED <<ev, ctx, only, dir, seed, cap, rungs, seen, evals, best, tri, back,
                 ends, tries, previews>>

Admit ==
  /\ phase = "gate"
  /\ Admitted
  /\ phase' = "cap"
  /\ dir' = Selected(ev)
  /\ seed' \in ev.seeds
  /\ evals' = 0 /\ best' = NoBest /\ back' = "none"
  /\ UNCHANGED <<ev, ctx, only, cap, rungs, seen, tri, ends, tries, answer, previews>>

\* The presizing screen: it proves of every size that it loses, or gives up.
Screen ==
  /\ phase = "cap"
  /\ only /\ \A x \in Sizes : Value(ctx, x) < 0
  /\ answer' = NoTrade /\ phase' = "sized"
  /\ UNCHANGED <<ev, ctx, only, dir, seed, cap, rungs, seen, evals, best, tri, back,
                 ends, tries, previews>>

-----------------------------------------------------------------------------
(* The cap and the ladder. *)

\* envelope_pos: the envelope e is positive between its two ends.
Positive(e, x) == e[1] <= x /\ x <= e[2]

\* The fee-free envelope bounds every size's profit from above and is concave:
\* it is positive between two sizes, and nothing profits outside of them.
Envelopes ==
  LET gains == {x \in Sizes : Value(ctx, x) > 0} IN
  {e \in Ends \X Ends : \A x \in gains : Positive(e, x)}

\* The samples of the walks up and down from the seed.
Above(s) == {x \in {s + j * Ninth : j \in 1 .. Top \div Ninth} : x < Top}

Below(s) ==
  {IF s > j * Ninth THEN s - j * Ninth ELSE 0 : j \in 1 .. Top \div Ninth + 1}

\* Mutant of CapBy: the sample below the first one that fails is the cap.
CapTooTight(s, e) ==
  IF Positive(e, s)
  THEN LET out == {x \in Above(s) : ~Positive(e, x)} IN
       <<s, IF out = {} THEN Top ELSE LeastOf(out) - Ninth>>
  ELSE LET in == {x \in Below(s) : Positive(e, x)} IN
       IF in = {} THEN <<s, Top>>
       ELSE <<CHOOSE x \in in : \A y \in in : y <= x, s>>

\* Seed and cap: walk up to the first sample the envelope gives nothing, or
\* down from a seed that has nothing to one that has.
CapBy(s, e) ==
  IF Positive(e, s)
  THEN LET out == {x \in Above(s) : ~Positive(e, x)} IN
       <<s, IF out = {} THEN Top ELSE LeastOf(out)>>
  ELSE LET in == {x \in Below(s) : Positive(e, x)} IN
       IF in = {} THEN <<s, Top>>
       ELSE <<CHOOSE x \in in : \A y \in in : y <= x, s>>

\* The balance-crossing trade is a rung of its own if it lies in the range.
DipIn(c) == ev.native /\ ev.scarce = dir /\ 0 < ev.dip /\ ev.dip < c

Lesser(a, b) == IF a <= b THEN a ELSE b

\* low_cover: native fees that are ordered need no rungs far below seed and dip.
LowCover(s, c) ==
  LET anchor == IF DipIn(c) THEN Lesser(s, ev.dip) ELSE s IN
  IF ev.native /\ ev.ordered
  THEN IF anchor > 3 * Third THEN anchor - 3 * Third ELSE 0
  ELSE 0

\* Neighbours that are pushed without looking at the number of rungs.
Neighbours(x, low, c) == {y \in {x - Third} : y > low} \cup {y \in {x + Third} : y < c}

\* n rungs are there; one more every factor of 9 while there are fewer than the
\* limit.
RungsDown(s, low, n) ==
  {x \in {s - j * Ninth : j \in 1 .. LowRungs - n} : x > low}

RungsUp(s, c, n) ==
  {x \in {s + j * Ninth : j \in 1 .. AllRungs - n} : x < c}

\* The points of the scan; n counts pushes, of which some may be equal.
Ladder(s, c) ==
  LET low  == LowCover(s, c)
      dips == IF DipIn(c) THEN Neighbours(ev.dip, low, c) ELSE {}
      n    == 3 + Cardinality(Neighbours(s, low, c))
                + (IF DipIn(c) THEN 1 + Cardinality(dips) ELSE 0)
      down == RungsDown(s, low, n)
  IN {low, c, s} \cup Neighbours(s, low, c)
       \cup (IF DipIn(c) THEN {ev.dip} \cup dips ELSE {})
       \cup down \cup RungsUp(s, c, n + Cardinality(down))

Cap ==
  /\ phase = "cap"
  /\ \E found \in {CapBy(seed, e) : e \in Envelopes} :
       seed' = found[1] /\ cap' = found[2]
  /\ rungs' = Ladder(seed', cap') /\ seen' = << >>
  /\ phase' = "scan"
  /\ UNCHANGED <<ev, ctx, only, dir, evals, best, tri, back, ends, tries, answer, previews>>

-----------------------------------------------------------------------------
(* The scan, and the choice of a bracket. *)

Seen(x, v) == seen' = [y \in DOMAIN seen \cup {x} |-> IF y = x THEN v ELSE seen[y]]

\* The next point of the ladder, in ascending order.
NextRung(x) == x \in rungs /\ \A y \in rungs : y < x <=> y \in DOMAIN seen

\* A cap that the envelope set earns nothing: its envelope value stands in for it.
ByEnvelope(x) == x = cap /\ cap < Top /\ rungs # {x}

Scan ==
  /\ phase = "scan"
  /\ \E x \in rungs :
       /\ NextRung(x)
       /\ IF ByEnvelope(x)
          THEN /\ \E v \in Value(ctx, x) .. 0 : Seen(x, v)
               /\ UNCHANGED <<evals, best, previews>>
          ELSE Evaluate(x) /\ Seen(x, Quote(x))
  /\ UNCHANGED <<ev, ctx, only, phase, dir, seed, cap, rungs, tri, back, ends, tries, answer>>

\* best_idx: the first of the best.
Peak(b) ==
  b \in rungs /\ \A x \in rungs : seen[x] <= seen[b] /\ (x < b => seen[x] < seen[b])

Adjacent(a, b) == {a, b} \subseteq rungs /\ a < b /\ ~\E x \in rungs : a < x /\ x < b

Bracket(a, b, c, va, vb, vc) ==
  tri' = [a |-> a, b |-> b, c |-> c, va |-> va, vb |-> vb, vc |-> vc]

\* The best rung has neighbours on both sides, ...
PickInner ==
  /\ phase = "scan" /\ DOMAIN seen = rungs
  /\ \E a, b, c \in rungs :
       /\ Peak(b) /\ Adjacent(a, b) /\ Adjacent(b, c)
       /\ Bracket(a, b, c, seen[a], seen[b], seen[c])
  /\ phase' = "refine" /\ back' = "dip"
  /\ UNCHANGED <<ev, ctx, only, dir, seed, cap, rungs, seen, evals, best,
                 ends, tries, answer, previews>>

\* ... or one.  (A ladder of one point needs a range narrower than a billionth.)
PickEnd ==
  /\ phase = "scan" /\ DOMAIN seen = rungs
  /\ \E b, n \in rungs :
       /\ Peak(b) /\ (Adjacent(b, n) \/ Adjacent(n, b))
       /\ ~\E a, c \in rungs : Adjacent(a, b) /\ Adjacent(b, c)
       /\ ends' = [end |-> b, inner |-> n, vend |-> seen[b], vin |-> seen[n]]
  /\ phase' = "probe" /\ tries' = 0
  /\ UNCHANGED <<ev, ctx, only, dir, seed, cap, rungs, seen, evals, best, tri, back,
                 answer, previews>>

-----------------------------------------------------------------------------
(* The refinement. *)

Distance(a, b) == IF a < b THEN b - a ELSE a - b

Between(a, b) == {x \in Sizes : (a < x /\ x < b) \/ (b < x /\ x < a)}

MoreProbes == tries < 3 /\ evals < MaxEvals /\ Distance(ends.end, ends.inner) > Tol

\* An end of the ladder won: look for a better point on its inner side.  One that
\* loses tightens the gap.
Probe ==
  /\ phase = "probe" /\ MoreProbes
  /\ \E t \in Between(ends.end, ends.inner) :
       /\ Evaluate(t)
       /\ IF Quote(t) > ends.vend
          THEN /\ IF ends.inner < ends.end
                  THEN Bracket(ends.inner, t, ends.end, ends.vin, Quote(t), ends.vend)
                  ELSE Bracket(ends.end, t, ends.inner, ends.vend, Quote(t), ends.vin)
               /\ phase' = "refine" /\ back' = "dip"
               /\ UNCHANGED <<ends, tries>>
          ELSE /\ ends' = [ends EXCEPT !.inner = t, !.vin = Quote(t)]
               /\ tries' = tries + 1
               /\ UNCHANGED <<phase, tri, back>>
  /\ UNCHANGED <<ev, ctx, only, dir, seed, cap, rungs, seen, answer>>

ProbeEnds ==
  /\ phase = "probe" /\ ~MoreProbes
  /\ phase' = "dip"
  /\ UNCHANGED <<ev, ctx, only, searchVars, previews>>

\* Mutant of Narrower: the bracket is cut on the wrong side of a losing point.
NarrowerWrongSide(t, v) ==
  IF t < tri.b
  THEN IF v > tri.vb THEN Bracket(tri.a, t, tri.b, tri.va, v, tri.vb)
       ELSE Bracket(tri.a, tri.b, t, tri.va, tri.vb, v)
  ELSE IF v > tri.vb THEN Bracket(tri.b, t, tri.c, tri.vb, v, tri.vc)
       ELSE Bracket(tri.a, tri.b, t, tri.va, tri.vb, v)

\* The bracket that is left when its inner point t earns v.
Narrower(t, v) ==
  IF t < tri.b
  THEN IF v > tri.vb THEN Bracket(tri.a, t, tri.b, tri.va, v, tri.vb)
       ELSE Bracket(t, tri.b, tri.c, v, tri.vb, tri.vc)
  ELSE IF v > tri.vb THEN Bracket(tri.b, t, tri.c, tri.vb, v, tri.vc)
       ELSE Bracket(tri.a, tri.b, t, tri.va, tri.vb, v)

Wide == evals < MaxEvals /\ tri.c - tri.a > Tol

\* spi_refine
Refine ==
  /\ phase = "refine" /\ Wide
  /\ \E t \in Between(tri.a, tri.c) \ {tri.b} : Evaluate(t) /\ Narrower(t, Quote(t))
  /\ UNCHANGED <<ev, ctx, only, phase, dir, seed, cap, rungs, seen, back, ends, tries, answer>>

Refined ==
  /\ phase = "refine" /\ ~Wide
  /\ phase' = back
  /\ UNCHANGED <<ev, ctx, only, searchVars, previews>>

\* A fee dip that lost the scan is refined in its own basin, if budget is left and
\* the answer lies elsewhere.
DipWorthwhile ==
  DipIn(cap) /\ evals + 3 <= MaxEvals /\ Distance(best.dx, ev.dip) >= Near

DipNext ==
  /\ phase = "dip"
  /\ phase' = IF DipWorthwhile THEN "basin" ELSE "dust"
  /\ tries' = 1
  /\ UNCHANGED <<ev, ctx, only, dir, seed, cap, rungs, seen, evals, best, tri, back,
                 ends, answer, previews>>

\* Mutant of BasinLeft: room for one more quote is enough for two.
BasinLeftForOne == tries <= Len(Dips) /\ evals < MaxEvals

BasinLeft == tries <= Len(Dips) /\ evals + 2 <= MaxEvals

\* Both ends of the basin are quoted; the bracket shrinks until the dip is its peak.
BasinLow ==
  /\ phase = "basin" /\ BasinLeft
  /\ LET low == LowCover(seed, cap)
         a == IF ev.dip - Dips[tries] > low THEN ev.dip - Dips[tries] ELSE low
         c == Lesser(cap, ev.dip + Dips[tries])
     IN Evaluate(a) /\ Bracket(a, ev.dip, c, Quote(a), seen[ev.dip], 0)
  /\ phase' = "basinHigh"
  /\ UNCHANGED <<ev, ctx, only, dir, seed, cap, rungs, seen, back, ends, tries, answer>>

BasinHigh ==
  /\ phase = "basinHigh"
  /\ Evaluate(tri.c)
  /\ tri' = [tri EXCEPT !.vc = Quote(tri.c)]
  /\ IF tri.vb >= tri.va /\ tri.vb >= Quote(tri.c)
     THEN phase' = "refine" /\ back' = "dust" /\ UNCHANGED tries
     ELSE phase' = "basin" /\ tries' = tries + 1 /\ UNCHANGED back
  /\ UNCHANGED <<ev, ctx, only, dir, seed, cap, rungs, seen, ends, answer>>

BasinEnds ==
  /\ phase = "basin" /\ ~BasinLeft
  /\ phase' = "dust"
  /\ UNCHANGED <<ev, ctx, only, searchVars, previews>>

\* Mutant of DustWorthwhile: only pools whose fees are not ordered skip sizes.
DustUnordered == ev.native /\ ~ev.ordered /\ best.profit <= 0 /\ evals < MaxEvals

\* A native ladder skips the bottom of the range: before a rejection the smallest
\* size is tried, and a size between it and the ladder if it profits.
DustWorthwhile == ev.native /\ best.profit <= 0 /\ evals < MaxEvals

Dust ==
  /\ phase = "dust" /\ DustWorthwhile
  /\ Evaluate(0)
  /\ phase' = IF Quote(0) > 0 /\ LowCover(seed, cap) > Third /\ evals + 1 < MaxEvals
              THEN "mid" ELSE "end"
  /\ UNCHANGED <<ev, ctx, only, dir, seed, cap, rungs, seen, tri, back, ends, tries, answer>>

Middle ==
  /\ phase = "mid"
  /\ Evaluate(LowCover(seed, cap) \div 2)
  /\ phase' = "end"
  /\ UNCHANGED <<ev, ctx, only, dir, seed, cap, rungs, seen, tri, back, ends, tries, answer>>

\* The decision: the best of all quotes, a trade if it profits.
Answer ==
  /\ phase = "end" \/ (phase = "dust" /\ ~DustWorthwhile)
  /\ answer' = [trade |-> best.profit > 0, dx |-> best.dx, profit |-> best.profit]
  /\ phase' = "sized"
  /\ UNCHANGED <<ev, ctx, only, dir, seed, cap, rungs, seen, evals, best, tri, back,
                 ends, tries, previews>>

SizingStep ==
  \/ Refuse \/ Admit \/ Screen \/ Cap \/ Scan
  \/ PickInner \/ PickEnd
  \/ Probe \/ ProbeEnds \/ Refine \/ Refined
  \/ DipNext \/ BasinLow \/ BasinHigh \/ BasinEnds
  \/ Dust \/ Middle \/ Answer

-----------------------------------------------------------------------------
Searched == phase \in {"probe", "refine", "dip", "basin", "basinHigh", "dust", "mid", "end"}

\* MAX_SIZING_EVALS bounds the quotes of a call and the arrays of rungs, although
\* the scan does not look at it: the ladder stops in time.
WithinBudget == evals <= MaxEvals /\ Cardinality(rungs) <= AllRungs

\* "ga >= 0", "gc >= 0": what is refined is a bracket of a maximum, from the scan,
\* from an endpoint probe or around the dip, and stays one.
BracketHolds ==
  phase = "refine" =>
    /\ 0 <= tri.a /\ tri.a < tri.b /\ tri.b < tri.c /\ tri.c <= Top
    /\ tri.vb >= tri.va /\ tri.vb >= tri.vc
    /\ tri.vb = Value(ctx, tri.b)

\* "once a sample beyond the seed goes nonpositive, all larger sizes are
\* dominated": no size above the cap would have profited.
ExcludedSizesLose ==
  phase = "scan" \/ Searched => \A x \in Sizes : x > cap => Value(ctx, x) <= 0

\* "The answer is the best of all evaluations": it earns under its context what it
\* says, and no rung and no bracket it met earns more.
AnswerBeatsLadder ==
  phase = "end" \/ (phase = "dust" /\ ~DustWorthwhile) =>
    /\ best.some /\ best.profit = Value(ctx, best.dx)
    /\ \A x \in rungs : ~ByEnvelope(x) => Value(ctx, x) <= best.profit
    /\ back # "none" => Value(ctx, tri.b) <= best.profit

\* A quote is that of the size, direction, pool and fees of now, however many
\* sizes share a slot and whichever report filled it.
PreviewsFresh ==
  phase \notin {"event", "gate", "sized"} =>
    \A x \in Sizes : Quote(x) = Value(ctx, x)

\* A call that finds nothing has tried the smallest size, unless its budget is
\* spent: a profit there is never overlooked.
DustIsTried ==
  phase = "end" \/ (phase = "dust" /\ ~DustWorthwhile) =>
    best.profit > 0 \/ evals = MaxEvals \/ Value(ctx, 0) <= 0
=============================================================================
