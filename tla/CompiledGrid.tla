----------------------------- MODULE CompiledGrid -----------------------------
(***************************************************************************)
(* CompiledGrid and PoolOverride: how a registered grid and an ordinal     *)
(* name a candidate.  A grid is a vector of policy parameters and a pool   *)
(* override to start from, and axes whose values change some of them.  An  *)
(* ordinal is read in mixed radix, the last axis fastest; the chosen       *)
(* values are overlaid in the order of the axes.                           *)
(*                                                                         *)
(* A JSON object is a function on the fields present, all fields being     *)
(* treated alike; a typed override is the function on the fields of its    *)
(* masks.  List candidates bring their own parameters and override.        *)
(***************************************************************************)
EXTENDS Integers, Sequences, FiniteSets

CONSTANTS
  ParamCount,   \* parameters of the compiled policy
  MaxTotal,     \* ordinals there may be (2^32 in the code)
  RunLimits,    \* run field |-> the values allowed
  PoolFields,   \* fields of a pool entry other than the special ones
  MsAbove       \* timestamps above it are milliseconds

ASSUME LimitsAssumption == MaxTotal \in Nat \ {0} /\ MsAbove \in Nat

VARIABLES
  grid,         \* the grid registered in the session, or NoGrid
  batch,        \* the batch being evaluated
  range, at,    \* range and offset of the next candidate
  cands         \* candidates materialized

gridVars == <<grid, batch, range, at, cands>>

NoGrid == [registered |-> FALSE]
NoBatch == [kind |-> "none"]
Nothing == << >>        \* the function on no field

-----------------------------------------------------------------------------
(* PoolOverride. *)

\* overlay and apply: the fields of the patch replace, all others stay.
Overlay(base, patch) ==
  [f \in DOMAIN base \cup DOMAIN patch |-> IF f \in DOMAIN patch THEN patch[f] ELSE base[f]]

\* One patch after the other.
Stacked(base, patches) ==
  LET stack[a \in 0 .. Len(patches)] ==
        IF a = 0 THEN base ELSE Overlay(stack[a - 1], patches[a])
  IN stack[Len(patches)]

InSeconds(raw) == IF raw > MsAbove THEN raw \div 1000 ELSE raw

\* parse_historical_state.
StateValid(h) == h.ts # 0 /\ h.policyTs <= h.ts

\* The start and the checkpoint of one and the same entry.
StartAfterState(entry) ==
  {"start_timestamp", "historical_state"} \subseteq DOMAIN entry =>
    LET start == InSeconds(entry.start_timestamp) IN
    start # 0 => start >= entry.historical_state.ts

\* parse_pool_entry and parse_pool_override: unknown fields, bad states and run
\* fields out of range throw.
EntryValid(entry) ==
  /\ DOMAIN entry \subseteq
       PoolFields \cup {"start_timestamp", "historical_state"} \cup DOMAIN RunLimits
  /\ "historical_state" \in DOMAIN entry => StateValid(entry.historical_state)
  /\ StartAfterState(entry)
  /\ \A f \in DOMAIN entry \cap DOMAIN RunLimits : entry[f] \in RunLimits[f]

Typed(entry) ==
  [f \in DOMAIN entry |-> IF f = "start_timestamp" THEN InSeconds(entry[f]) ELSE entry[f]]

-----------------------------------------------------------------------------
(* compile. *)

Values(g, a) == g.axes[g.order[a]]
AxisNumbers(g) == DOMAIN g.order

\* An axis value names at least one field, parameters that exist, and a valid patch;
\* paths may not lead elsewhere.
ValueValid(v) ==
  /\ v.pathsOk /\ (DOMAIN v.params # {} \/ DOMAIN v.pool # {})
  /\ DOMAIN v.params \subseteq 1 .. ParamCount
  /\ "policy" \notin DOMAIN v.pool /\ EntryValid(v.pool)

\* Ordinals of the first n axes.
Ordinals(g, n) ==
  LET total[a \in 0 .. n] == IF a = 0 THEN 1 ELSE total[a - 1] * Len(Values(g, a))
  IN total[n]

ShapeValid(g) ==
  /\ Len(g.order) = Cardinality(DOMAIN g.axes) /\ Len(g.shape) = Len(g.order)
  /\ {g.order[a] : a \in AxisNumbers(g)} = DOMAIN g.axes
  /\ \A a \in AxisNumbers(g) : g.shape[a] > 0 /\ g.shape[a] = Len(Values(g, a))
  /\ \A a \in AxisNumbers(g) : Ordinals(g, a - 1) <= MaxTotal \div g.shape[a]

GridValid(g) ==
  /\ Len(g.params) = ParamCount
  /\ "policy" \notin DOMAIN g.pool /\ EntryValid(g.pool)
  /\ ShapeValid(g)
  /\ \A a \in AxisNumbers(g) : \A i \in DOMAIN Values(g, a) : ValueValid(Values(g, a)[i])

\* register_grid: one grid per session, and a refused one leaves none.
Register(g) ==
  /\ batch = NoBatch /\ grid = NoGrid /\ GridValid(g)
  /\ grid' = [registered |-> TRUE, of |-> g]
  /\ UNCHANGED <<batch, range, at, cands>>

-----------------------------------------------------------------------------
(* materialize_ranges. *)

Total == Ordinals(grid.of, Len(grid.of.order))

\* Pairs of a first ordinal and a count.
RangesOk(rs) ==
  /\ rs # << >>
  /\ \A i \in DOMAIN rs :
       /\ rs[i][2] > 0 /\ rs[i][1] < Total /\ rs[i][2] <= Total - rs[i][1]
       /\ i > 1 => rs[i][1] >= rs[i - 1][1] + rs[i - 1][2]

\* Mutant of Coordinates: the first axis is the fastest.
CoordinatesFirstFast(g, ordinal) ==
  [a \in AxisNumbers(g) |->
     ((ordinal \div Ordinals(g, a - 1)) % Len(Values(g, a))) + 1]

\* Positions (from 1) in the axes, the last taken first from the ordinal: what is left
\* of it after some axes names the point in the others.
Coordinates(g, ordinal) ==
  LET n == Len(g.order)
      remainder[k \in 0 .. n] ==
        IF k = 0 THEN ordinal ELSE remainder[k - 1] \div Len(Values(g, n - k + 1))
  IN [a \in AxisNumbers(g) |-> (remainder[n - a] % Len(Values(g, a))) + 1]

\* The values chosen are applied in the order of the axes.
Candidate(g, ordinal) ==
  LET chosen == [a \in AxisNumbers(g) |-> Values(g, a)[Coordinates(g, ordinal)[a]]]
  IN [ordinal |-> ordinal % MaxTotal, ok |-> TRUE,
      params |-> Stacked(g.params, [a \in AxisNumbers(g) |-> chosen[a].params]),
      override |-> Stacked(Typed(g.pool), [a \in AxisNumbers(g) |-> Typed(chosen[a].pool)])]

\* evaluate_batch_candidates parses a list candidate once; an error is the candidate's.
ListCandidate(c) ==
  [ordinal |-> c.ordinal, ok |-> EntryValid(c.pool), params |-> c.params,
   override |-> IF EntryValid(c.pool) THEN Typed(c.pool) ELSE Nothing]

\* A batch of ranges needs the grid; one with a bad range is refused as a whole.
Submit(b) ==
  /\ batch = NoBatch
  /\ b.kind = "ranges" => grid # NoGrid /\ RangesOk(b.ranges)
  /\ batch' = b /\ range' = 1 /\ at' = 0
  /\ cands' = IF b.kind = "list" THEN [i \in DOMAIN b.list |-> ListCandidate(b.list[i])]
              ELSE << >>
  /\ UNCHANGED grid

Materializing == batch.kind = "ranges" /\ range <= Len(batch.ranges)

Materialize ==
  /\ Materializing
  /\ LET first == batch.ranges[range][1]
         count == batch.ranges[range][2]
     IN /\ cands' = Append(cands, Candidate(grid.of, first + at))
        /\ IF at + 1 < count THEN at' = at + 1 /\ UNCHANGED range
           ELSE at' = 0 /\ range' = range + 1
  /\ UNCHANGED <<grid, batch>>

GridInit == grid = NoGrid /\ batch = NoBatch /\ range = 1 /\ at = 0 /\ cands = << >>

-----------------------------------------------------------------------------
(* Properties. *)

Positions(g) == UNION {DOMAIN Values(g, b) : b \in AxisNumbers(g)}
Vectors(g) ==
  {v \in [AxisNumbers(g) -> Positions(g)] : \A a \in AxisNumbers(g) : v[a] \in DOMAIN Values(g, a)}

Before(g, v, w) ==
  \E a \in AxisNumbers(g) : v[a] < w[a] /\ \A b \in 1 .. a - 1 : v[b] = w[b]

\* What the last axis that sets a field gives it, or the default.
LastOf(g, v, FieldsOf(_), default, f) ==
  LET setting == {a \in AxisNumbers(g) : f \in DOMAIN FieldsOf(Values(g, a)[v[a]])}
  IN IF setting = {} THEN default[f]
     ELSE LET last == CHOOSE a \in setting : \A b \in setting : b <= a
          IN FieldsOf(Values(g, last)[v[last]])[f]

\* A grid's ordinals enumerate its points in lexicographic order, the last axis
\* fastest, without a gap or a repetition; a field has the value of the last axis that
\* sets it, and of no other point or earlier candidate (materialize_ranges with
\* PoolOverride::overlay, as grid_candidate_id and the client's tables assume it).
CandidateMatchesOrdinal ==
  batch.kind = "ranges" =>
    LET g == grid.of
        ParamsOf(v) == v.params
        PoolOf(v) == Typed(v.pool)
        asked == [i \in DOMAIN batch.ranges |->
                    batch.ranges[i][1] .. batch.ranges[i][1] + batch.ranges[i][2] - 1]
    IN /\ \A i, j \in DOMAIN cands : i < j => cands[i].ordinal < cands[j].ordinal
       /\ {cands[i].ordinal : i \in DOMAIN cands} =
            (UNION {asked[i] : i \in 1 .. range - 1})
              \cup (IF Materializing
                    THEN batch.ranges[range][1] .. batch.ranges[range][1] + at - 1 ELSE {})
       /\ \A i \in DOMAIN cands :
            \E v \in Vectors(g) :
              /\ Cardinality({w \in Vectors(g) : Before(g, w, v)}) = cands[i].ordinal
              /\ \A p \in DOMAIN cands[i].params :
                   cands[i].params[p] = LastOf(g, v, ParamsOf, g.params, p)
              /\ \A f \in DOMAIN cands[i].override :
                   cands[i].override[f] = LastOf(g, v, PoolOf, Typed(g.pool), f)
              /\ DOMAIN cands[i].override =
                   DOMAIN g.pool \cup UNION {DOMAIN Values(g, a)[v[a]].pool : a \in AxisNumbers(g)}
=============================================================================
