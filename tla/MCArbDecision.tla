---------------------------- MODULE MCArbDecision ----------------------------
(* Native pools with one and two profit peaks on a ladder that reaches its     *)
(* limits in both directions, and report policies with up to two reports over  *)
(* few shapes, whose previews share a few slots.                               *)
EXTENDS ArbDecision

\* A tent of height h at c, and a shape with two of them.
Tent(c, h, x) == h - (IF x < c THEN c - x ELSE x - c) \div 2
Floored(v) == IF v < -2 THEN -2 ELSE v
Higher(a, b) == IF a > b THEN a ELSE b

MCShapes ==
  {<<c, 3, 30, k>> : c \in {0, 45, 72}, k \in {-1, 1}} \cup {<<9, -1, 60, -1>>}

ShapeProfit(s, x) == Floored(Higher(Tent(s[1], s[2], x), Tent(s[3], s[4], x)))

\* The k-th report earns more from the size 20k on.
MCProfit ==
  [s \in MCShapes |-> [c \in Contexts |-> [x \in Sizes |->
     ShapeProfit(s, x) + (IF c > 0 /\ x >= 20 * c THEN 2 * c ELSE 0)]]]

\* What all events have in common.
Base ==
  [shape |-> <<45, 3, 30, -1>>, native |-> FALSE, ordered |-> TRUE, reports |-> "none",
   offered |-> 0, gap |-> 5, floor |-> 1,
   fee |-> [c \in Contexts |-> 2],
   least |-> [c \in Contexts |-> [d \in Directions |-> 1]],
   may |-> [c \in Contexts |-> [d \in Directions |-> TRUE]],
   entry |-> 0, scarce |-> 2, dip |-> 31, seeds |-> {36}, room |-> TRUE]

NativeEvents ==
  {[Base EXCEPT !.shape = s, !.native = TRUE, !.scarce = 0, !.seeds = {2, 36, 70}] :
     s \in MCShapes}
  \cup {[Base EXCEPT !.shape = <<45, 3, 30, 1>>, !.native = TRUE, !.scarce = 0, !.dip = 26,
            !.seeds = {22}]}
  \cup {[Base EXCEPT !.native = TRUE, !.ordered = o, !.gap = g, !.scarce = z] :
          o \in BOOLEAN, g \in {-5, 2}, z \in {1, 2}}

ReportEvents ==
  {[Base EXCEPT !.shape = s, !.reports = r, !.offered = n, !.seeds = {q}] :
     s \in {<<45, 3, 30, -1>>, <<9, -1, 60, -1>>}, r \in {"latest", "cached", "one", "many"},
     n \in 0 .. 2, q \in {40}}

\* Contexts with sharper bounds than the pool's: withholding may be hopeless and
\* an offer may or may not profit.
BoundedEvents ==
  {[Base EXCEPT !.reports = r, !.offered = 2, !.entry = n, !.gap = g,
      !.least[0] = [d \in Directions |-> f], !.may[1][0] = a, !.may[2][0] = FALSE] :
     r \in {"one", "many"}, n \in {0, 3}, g \in {3, 5}, f \in {1, 4}, a \in BOOLEAN}

MCEvents ==
  NativeEvents \cup ReportEvents \cup BoundedEvents
    \cup {[Base EXCEPT !.room = FALSE]}
MCDips == <<3, 2, 1>>
MCEnds == {0, 8, 30, 40, 60, 72}
MCSlot == [k \in Sizes \X Directions |-> (k[1] + k[2]) % 2]
=============================================================================
