---------------------------- MODULE RollingWindow ----------------------------
(***************************************************************************)
(* RollingGeoApyWindow (metrics.hpp): growth over a rolling window, from   *)
(* samples taken at least Period apart.  A queue holds the samples that    *)
(* may still be the start of a window.  A sample is its timestamp; what    *)
(* the growth comes to is arithmetic.                                      *)
(***************************************************************************)
EXTENDS Naturals, Sequences

CONSTANTS
  Period,              \* SAMPLE_S
  Window,              \* WINDOW_S
  Horizon              \* bound: the last time looked at

VARIABLES
  samples,             \* the queue
  windows,             \* the windows measured: [from, to]
  taken                \* history: every sample ever taken

wvars == <<samples, windows, taken>>

Init == samples = <<>> /\ windows = {} /\ taken = {}

\* should_sample
Due(ts) == samples = <<>> \/ ts >= samples[Len(samples)] + Period

Cutoff(ts) == IF ts > Window THEN ts - Window ELSE 0

\* Mutant of Pruned: the front itself is compared, so the baseline goes too.
PrunedTooFar(s, ts) ==
  LET d == CHOOSE d \in 0 .. Len(s) - 1 :
             /\ \A k \in 1 .. d : s[k] <= Cutoff(ts)
             /\ d = Len(s) - 1 \/ s[d + 1] > Cutoff(ts)
  IN  SubSeq(s, d + 1, Len(s))

\* The front is dropped as long as its successor is old enough to replace it.
Pruned(s, ts) ==
  LET d == CHOOSE d \in 0 .. Len(s) - 1 :
             /\ \A k \in 1 .. d : s[k + 1] <= Cutoff(ts)
             /\ d = Len(s) - 1 \/ s[d + 2] > Cutoff(ts)
  IN  SubSeq(s, d + 1, Len(s))

\* sample, with a growth that is finite and positive (ok) or not.
Sample(ts, ok) ==
  IF ok /\ Due(ts)
  THEN /\ samples' = Pruned(Append(samples, ts), ts)
       /\ windows' = windows \cup
            {[from |-> f, to |-> ts] : f \in {samples'[1]} \cap 0 .. ts - Window}
       /\ taken' = taken \cup {ts}
  ELSE UNCHANGED wvars

Next == \E ts \in 0 .. Horizon, ok \in BOOLEAN : Sample(ts, ok)

Spec == Init /\ [][Next]_wvars

-----------------------------------------------------------------------------
\* "Samples use the latest stored observation at or before the window boundary":
\* every sample that lies a window or more after the first measures one window,
\* from the latest of all samples ever taken that is old enough.
WindowsExact ==
  windows = {w \in [from : taken, to : taken] :
               /\ w.from + Window <= w.to
               /\ \A s \in taken : s + Window <= w.to => s <= w.from}
=============================================================================
