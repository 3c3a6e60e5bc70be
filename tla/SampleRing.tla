----------------------------- MODULE SampleRing -----------------------------
(***************************************************************************)
(* NetApyRobust90d (metrics.hpp): a rolling window over daily samples that *)
(* are kept in a ring of WINDOW_S / SAMPLE_S + 2 slots.  It promises what  *)
(* the unbounded queue of RollingWindow does.                              *)
(***************************************************************************)
EXTENDS Naturals

CONSTANTS
  Period,              \* SAMPLE_S
  Days,                \* WINDOW_S / SAMPLE_S
  Horizon              \* bound: the last time looked at

VARIABLES
  slots,               \* the ring
  head, count,
  last,                \* last_sample_ts, Never when there is no sample
  windows,             \* the windows measured: [from, to]
  taken                \* history: every sample ever taken

rvars == <<slots, head, count, last, windows, taken>>

Window   == Days * Period
Capacity == Days + 2
Slots    == 0 .. Capacity - 1

Never == Horizon + 1

Init ==
  /\ slots = [k \in Slots |-> 0]
  /\ head = 0 /\ count = 0
  /\ last = Never
  /\ windows = {} /\ taken = {}

Due(ts) == last = Never \/ ts >= last + Period

Cutoff(ts) == IF ts > Window THEN ts - Window ELSE 0

\* pop_front when the ring is full, then the sample behind the last.
First   == IF count = Capacity THEN (head + 1) % Capacity ELSE head
Held    == IF count = Capacity THEN count - 1 ELSE count

\* Mutant of NewSlot: the slot of the last sample is written again.
SlotOfLast == (First + Held + Capacity - 1) % Capacity

NewSlot == (First + Held) % Capacity

\* How many of the n samples from f on are dropped: the front goes as long as
\* its successor is old enough to replace it.
Drop(s, f, n, ts) ==
  CHOOSE d \in 0 .. n - 1 :
    /\ \A k \in 1 .. d : s[(f + k) % Capacity] <= Cutoff(ts)
    /\ d = n - 1 \/ s[(f + d + 1) % Capacity] > Cutoff(ts)

\* sample, with a growth that is finite and positive (ok) or not.
Sample(ts, ok) ==
  IF ok /\ Due(ts)
  THEN /\ slots' = [slots EXCEPT ![NewSlot] = ts]
       /\ LET d == Drop(slots', First, Held + 1, ts) IN
            /\ head' = (First + d) % Capacity
            /\ count' = Held + 1 - d
       /\ last' = ts
       /\ windows' = windows \cup
            {[from |-> f, to |-> ts] : f \in {slots'[head']} \cap 0 .. ts - Window}
       /\ taken' = taken \cup {ts}
  ELSE UNCHANGED rvars

Next == \E ts \in 0 .. Horizon, ok \in BOOLEAN : Sample(ts, ok)

Spec == Init /\ [][Next]_rvars

-----------------------------------------------------------------------------
Queue == INSTANCE RollingWindow WITH
  samples <- [k \in 1 .. count |-> slots[(head + k - 1) % Capacity]]

\* The ring is the queue: it never runs full, and so never drops a sample that
\* is or may become the start of a window.
RingImplementsQueue == Queue!Spec
=============================================================================
