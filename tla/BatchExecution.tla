--------------------------- MODULE BatchExecution ---------------------------
(***************************************************************************)
(* What run_jobs promises its caller (evaluator_core.cpp): "Runs           *)
(* `total_jobs` indices [0, total_jobs) once each", and returns only when  *)
(* every one of them has finished.  No thread, lock or condition variable  *)
(* appears here; WorkerPool implements this specification with them.       *)
(***************************************************************************)
EXTENDS Naturals

CONSTANT MaxJobs       \* the largest batch considered, at least 1

VARIABLES
  phase,               \* "idle", "open" (inside run_jobs) or "halted"
  size,                \* number of jobs of the current or last batch
  count                \* count[j]: how often job j of that batch has finished

bvars == <<phase, size, count>>

JobIds == 0 .. MaxJobs - 1

Init ==
  /\ phase = "idle"
  /\ size = 0
  /\ count = [j \in JobIds |-> 0]

\* run_jobs(n, fn) is entered.
Open(n) ==
  /\ phase = "idle"
  /\ phase' = "open"
  /\ size' = n
  /\ count' = [j \in JobIds |-> 0]

\* fn(j) finishes, for a job of the batch that has not finished before.
Execute(j) ==
  /\ phase = "open"
  /\ j < size
  /\ count[j] = 0
  /\ count' = [count EXCEPT ![j] = 1]
  /\ UNCHANGED <<phase, size>>

\* run_jobs returns, when no job of the batch is outstanding.
Close ==
  /\ phase = "open"
  /\ \A j \in JobIds : j < size => count[j] = 1
  /\ phase' = "idle"
  /\ UNCHANGED <<size, count>>

\* The pool is destroyed between two batches.
Halt ==
  /\ phase = "idle"
  /\ phase' = "halted"
  /\ UNCHANGED <<size, count>>

Next ==
  \/ \E n \in 1 .. MaxJobs : Open(n)
  \/ \E j \in JobIds : Execute(j)
  \/ Close
  \/ Halt

Safe == Init /\ [][Next]_bvars

\* A batch that is entered is worked off and returns.
Spec == Safe /\ WF_bvars(Close \/ \E j \in JobIds : Execute(j))
=============================================================================
