----------------------------- MODULE ReportWindow -----------------------------
(***************************************************************************)
(* ReportWindow: which of the reports published by now a policy may be     *)
(* offered: those of an age, the last few, the one at an offset from the   *)
(* latest, or one drawn among the last few.  At an event the number of     *)
(* known reports comes from the index that the load precomputed.           *)
(* A selection is the set of positions in the feed that are visited.       *)
(***************************************************************************)
EXTENDS MarketTape

CONSTANTS Ages, Lengths, Draws    \* the windows, counts and draws looked at

\* An age is not negative and a count positive; every remainder by a count is drawn.
ASSUME WindowsAssumption ==
  /\ Ages \subseteq Nat /\ Lengths \subseteq Nat \ {0} /\ Draws \subseteq Nat
  /\ \A n \in Lengths : 0 .. n - 1 \subseteq Draws

LeastOf(a, b) == IF a < b THEN a ELSE b

\* The precomputed bound of an event, or a search.
UpperBound(now, event) == IF event \in DOMAIN upper THEN upper[event] ELSE Known(now)

\* each, by count or by age.
Each(now, event, age, count) ==
  LET last == UpperBound(now, event)
      first == IF count > 0 THEN last - LeastOf(count, last)
               ELSE Cardinality({k \in 1 .. last : reports[k].ts < now - age})
  IN first + 1 .. last

AtOffset(now, event, offset) ==
  LET available == UpperBound(now, event) IN
  IF offset >= available THEN {} ELSE {available - offset}

SampleLast(now, event, count, draw) ==
  LET available == UpperBound(now, event)
      choices == LeastOf(count, available)
  IN IF choices = 0 THEN {} ELSE {available - (draw % choices)}

\* Seen from an event of a loaded market, a window by age holds exactly the reports of
\* that age, a count the latest ones, an offset the one with that many later ones, and
\* a draw any of the latest and no other: none from the event's future, none that is
\* too old, and the ends of the windows on the right side (report_window.hpp).
WindowExact ==
  Loaded /\ reports # << >> =>
    \A i \in DOMAIN events :
      LET now == events[i].ts
          past == {k \in DOMAIN reports : reports[k].ts <= now}
          Later(k) == Cardinality({j \in past : j > k})
          latest(n) == {k \in past : Later(k) < n}
      IN /\ \A age \in Ages : Each(now, i, age, 0) = {k \in past : now - reports[k].ts <= age}
         /\ \A n \in Lengths :
              /\ Each(now, i, 0, n) = latest(n)
              /\ AtOffset(now, i, n) = {k \in past : Later(k) = n}
              /\ UNION {SampleLast(now, i, n, d) : d \in Draws} = latest(n)
=============================================================================
