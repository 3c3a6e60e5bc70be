----------------------------- MODULE WorkerPool -----------------------------
(***************************************************************************)
(* The process-lifetime worker pool of evaluator_core.cpp: N threads, each *)
(* waiting on a condition variable of its own, and one caller that enters  *)
(* run_jobs for one batch after another and finally destroys the pool.     *)
(*                                                                         *)
(* Granularity.  A critical section of a worker is one step: nothing it    *)
(* writes is read without mu_.  run_jobs holds mu_ from its first write to *)
(* the wait on cv_done_, but the workers read total_ and next_job_ without *)
(* the lock, so its writes are two steps (RunJobs, Dispatch) and mu_ stays *)
(* taken between them.  A waiter that is notified, or that wakes for no    *)
(* reason, takes mu_ again and re-evaluates its predicate, which is what   *)
(* control states "top" and "recheck" do.                                  *)
(***************************************************************************)
EXTENDS Naturals, FiniteSets

CONSTANTS
  NumWorkers,          \* process_worker_count
  MaxJobs,             \* the largest total_jobs passed to run_jobs
  MaxBatches           \* bound: run_jobs is entered at most this often

ASSUME NumWorkersAssumption == NumWorkers \in Nat \ {0}
ASSUME MaxJobsAssumption    == MaxJobs \in Nat \ {0}
ASSUME MaxBatchesAssumption == MaxBatches \in Nat

VARIABLES
  coord,               \* where the thread that owns the pool is
  batch,               \* number of run_jobs calls so far
  fn, total, nextJob, active, gen, remaining, stop,   \* members of WorkerPool
  pc,                  \* pc[w]: where worker w is in worker_loop
  lastGen,             \* lastGen[w]: its local last_generation
  fnp,                 \* fnp[w]: its local copy of fn_
  job,                 \* job[w]: the index it claimed last
  runs                 \* history: how often fn(j) returned in this batch

callerVars == <<coord, batch, fn, total, active, gen, stop>>
workerVars == <<pc, lastGen, fnp, job>>
vars == <<callerVars, nextJob, remaining, workerVars, runs>>

Workers == 0 .. NumWorkers - 1
JobIds  == 0 .. MaxJobs - 1

\* A std::function is identified by the batch it was passed for; 0 is nullptr.
NullFn == 0

\* Between its first write and its wait the caller holds mu_.
MutexFree == coord # "publish"

Init ==
  /\ coord = "idle"
  /\ batch = 0
  /\ fn = NullFn /\ total = 0 /\ nextJob = 0
  /\ active = 0 /\ gen = 0 /\ remaining = 0
  /\ stop = FALSE
  /\ pc = [w \in Workers |-> "top"]
  /\ lastGen = [w \in Workers |-> 0]
  /\ fnp = [w \in Workers |-> NullFn]
  /\ job = [w \in Workers |-> 0]
  /\ runs = [j \in JobIds |-> 0]

-----------------------------------------------------------------------------
(* The caller. *)

MinOf(a, b) == IF a <= b THEN a ELSE b

\* Threads of S that wait on their condition variable go on to retake mu_.
Notified(S) == [w \in Workers |-> IF w \in S /\ pc[w] = "wait" THEN "top" ELSE pc[w]]

\* run_jobs is entered with n jobs: mu_ taken, fn_ and total_ written.
RunJobs(n) ==
  /\ coord = "idle"
  /\ batch < MaxBatches
  /\ coord' = "publish"
  /\ batch' = batch + 1
  /\ fn' = batch + 1
  /\ total' = n
  /\ runs' = [j \in JobIds |-> 0]
  /\ UNCHANGED <<active, gen, stop, nextJob, remaining, workerVars>>

\* The rest of the set-up: the first min(total, N) workers are counted and
\* notified, and the caller waits on cv_done_ (its predicate is false here).
Dispatch ==
  LET n == MinOf(total, NumWorkers) IN
  /\ coord = "publish"
  /\ coord' = "wait"
  /\ nextJob' = 0
  /\ active' = n
  /\ remaining' = n
  /\ gen' = gen + 1
  /\ pc' = Notified(0 .. n - 1)
  /\ UNCHANGED <<batch, fn, total, stop, lastGen, fnp, job, runs>>

\* A wake-up of cv_done_ that nobody asked for.
SpuriousDone ==
  /\ coord = "wait"
  /\ coord' = "recheck"
  /\ UNCHANGED <<batch, fn, total, active, gen, stop, nextJob, remaining, workerVars, runs>>

\* Mutants of BatchDone: the batch counts as done when every job was claimed; a
\* wait without a predicate.
EveryJobClaimed == nextJob >= total
NoPredicate == TRUE

\* The predicate of cv_done_.wait; gen equals batch exactly while the batch
\* the caller dispatched is the current generation.
BatchDone == remaining = 0 /\ gen = batch

\* The caller holds mu_ again: run_jobs returns, or it goes back to waiting.
Return ==
  /\ coord = "recheck"
  /\ BatchDone
  /\ coord' = "idle"
  /\ fn' = NullFn
  /\ active' = 0
  /\ UNCHANGED <<batch, total, gen, stop, nextJob, remaining, workerVars, runs>>

WaitAgain ==
  /\ coord = "recheck"
  /\ ~BatchDone
  /\ coord' = "wait"
  /\ UNCHANGED <<batch, fn, total, active, gen, stop, nextJob, remaining, workerVars, runs>>

\* ~WorkerPool: stop_ is set under mu_, ...
Shutdown ==
  /\ coord = "idle"
  /\ coord' = "stopping"
  /\ stop' = TRUE
  /\ gen' = gen + 1
  /\ UNCHANGED <<batch, fn, total, active, nextJob, remaining, workerVars, runs>>

\* Mutant of NotifyAll: only the workers the last batch used are notified.
NotifyLastBatch ==
  /\ coord = "stopping"
  /\ coord' = "joining"
  /\ pc' = Notified(0 .. MinOf(total, NumWorkers) - 1)
  /\ UNCHANGED <<batch, fn, total, active, gen, stop, nextJob, remaining,
                 lastGen, fnp, job, runs>>

\* ... every condition variable is notified after mu_ was released, ...
NotifyAll ==
  /\ coord = "stopping"
  /\ coord' = "joining"
  /\ pc' = Notified(Workers)
  /\ UNCHANGED <<batch, fn, total, active, gen, stop, nextJob, remaining,
                 lastGen, fnp, job, runs>>

\* ... and every thread is joined.
Join ==
  /\ coord = "joining"
  /\ \A w \in Workers : pc[w] = "exit"
  /\ coord' = "joined"
  /\ UNCHANGED <<batch, fn, total, active, gen, stop, nextJob, remaining, workerVars, runs>>

-----------------------------------------------------------------------------
(* Worker w. *)

\* Mutant of HasWork: the generation is not compared.
HasWorkWhenActive(w) == w < active

\* The predicate of cv_start_[w].wait.
HasWork(w) == w < active /\ gen # lastGen[w]

\* Under mu_, at the predicate: sleep, ...
Sleep(w) ==
  /\ pc[w] = "top" /\ MutexFree
  /\ ~stop /\ ~HasWork(w)
  /\ pc' = [pc EXCEPT ![w] = "wait"]
  /\ UNCHANGED <<callerVars, nextJob, remaining, lastGen, fnp, job, runs>>

\* ... leave the thread function, ...
Exit(w) ==
  /\ pc[w] = "top" /\ MutexFree
  /\ stop
  /\ pc' = [pc EXCEPT ![w] = "exit"]
  /\ UNCHANGED <<callerVars, nextJob, remaining, lastGen, fnp, job, runs>>

\* ... or capture the batch.
Capture(w) ==
  /\ pc[w] = "top" /\ MutexFree
  /\ ~stop /\ HasWork(w)
  /\ pc' = [pc EXCEPT ![w] = "claim"]
  /\ lastGen' = [lastGen EXCEPT ![w] = gen]
  /\ fnp' = [fnp EXCEPT ![w] = fn]
  /\ UNCHANGED <<callerVars, nextJob, remaining, job, runs>>

SpuriousStart(w) ==
  /\ pc[w] = "wait"
  /\ pc' = [pc EXCEPT ![w] = "top"]
  /\ UNCHANGED <<callerVars, nextJob, remaining, lastGen, fnp, job, runs>>

\* Mutant of Claim: load and store instead of fetch_add, so that an increment of
\* another worker may be lost.
ClaimNotAtomic(w) ==
  /\ pc[w] = "claim"
  /\ job' = [job EXCEPT ![w] = nextJob]
  /\ nextJob' \in {nextJob, nextJob + 1}
  /\ pc' = [pc EXCEPT ![w] = "compare"]
  /\ UNCHANGED <<callerVars, remaining, lastGen, fnp, runs>>

\* next_job_.fetch_add(1), without mu_.
Claim(w) ==
  /\ pc[w] = "claim"
  /\ job' = [job EXCEPT ![w] = nextJob]
  /\ nextJob' = nextJob + 1
  /\ pc' = [pc EXCEPT ![w] = "compare"]
  /\ UNCHANGED <<callerVars, remaining, lastGen, fnp, runs>>

\* job < total_, read without mu_.
Compare(w) ==
  /\ pc[w] = "compare"
  /\ pc' = [pc EXCEPT ![w] = IF job[w] < total THEN "run" ELSE "report"]
  /\ UNCHANGED <<callerVars, nextJob, remaining, lastGen, fnp, job, runs>>

\* (*fn)(job) returns.
Finish(w) ==
  /\ pc[w] = "run"
  /\ runs' = [runs EXCEPT ![job[w]] = @ + 1]
  /\ pc' = [pc EXCEPT ![w] = "claim"]
  /\ UNCHANGED <<callerVars, nextJob, remaining, lastGen, fnp, job>>

\* Under mu_: one worker less to wait for; the last one notifies cv_done_.
Report(w) ==
  /\ pc[w] = "report" /\ MutexFree
  /\ remaining' = remaining - 1
  /\ pc' = [pc EXCEPT ![w] = "top"]
  /\ coord' = IF remaining' = 0 /\ coord = "wait" THEN "recheck" ELSE coord
  /\ UNCHANGED <<batch, fn, total, active, gen, stop, nextJob, lastGen, fnp, job, runs>>

-----------------------------------------------------------------------------
\* Both threads' steps that need no luck; a spurious wake-up is luck.
CallerStep == Dispatch \/ Return \/ WaitAgain \/ NotifyAll \/ Join

LoopStep(w) ==
  Sleep(w) \/ Exit(w) \/ Capture(w) \/ Claim(w) \/ Compare(w) \/ Report(w)

WorkerStep(w) == LoopStep(w) \/ Finish(w)

\* The process ends; nothing is left to do.
Ended == coord = "joined" /\ UNCHANGED vars

Next ==
  \/ \E n \in 1 .. MaxJobs : RunJobs(n)
  \/ CallerStep
  \/ Shutdown
  \/ SpuriousDone
  \/ \E w \in Workers : WorkerStep(w) \/ SpuriousStart(w)
  \/ Ended

Spec == Init /\ [][Next]_vars

\* Every runnable thread is eventually scheduled, and a lock that is free again
\* and again is eventually obtained.  The caller of run_jobs is free to stop.
Fairness == WF_vars(CallerStep) /\ \A w \in Workers : WF_vars(WorkerStep(w))

FairSpec == Spec /\ Fairness

-----------------------------------------------------------------------------
(* What the pool guarantees. *)

CoordStates  == {"idle", "publish", "wait", "recheck", "stopping", "joining", "joined"}
WorkerStates == {"top", "wait", "claim", "compare", "run", "report", "exit"}

\* Members keep their types; in particular workers_remaining_, a size_t that
\* every participant decrements, never wraps below zero.
TypeOK ==
  /\ coord \in CoordStates
  /\ batch \in Nat /\ fn \in Nat /\ gen \in Nat
  /\ total \in 0 .. MaxJobs
  /\ nextJob \in Nat
  /\ active \in 0 .. NumWorkers
  /\ remaining \in 0 .. NumWorkers
  /\ stop \in BOOLEAN
  /\ pc \in [Workers -> WorkerStates]
  /\ lastGen \in [Workers -> Nat]
  /\ fnp \in [Workers -> Nat]
  /\ job \in [Workers -> Nat]
  /\ runs \in [JobIds -> Nat]

\* Worker w is between capturing a batch and reporting: it uses fn_, total_ and
\* next_job_ without holding mu_.
InLoop(w) == pc[w] \in {"claim", "compare", "run", "report"}

\* A worker is in the unlocked loop only while the caller of that very batch is
\* blocked in run_jobs: total_ and next_job_ are never rewritten under it, and
\* the std::function it calls (a temporary of the caller) is still alive.
LoopOnlyInsideItsBatch ==
  \A w \in Workers : InLoop(w) =>
    /\ coord \in {"wait", "recheck"}
    /\ fnp[w] = batch /\ fn = batch
    /\ lastGen[w] = gen

\* Worker w has still to report in the current generation.
Owes(w) == w < active /\ (InLoop(w) \/ lastGen[w] # gen)

Debtors == {w \in Workers : Owes(w)}

\* workers_remaining_ is the number of notified workers that have not reported:
\* none is counted twice, however fast it comes back to its wait.
BarrierExact ==
  coord \in {"wait", "recheck"} => remaining = Cardinality(Debtors)

\* While fn(j) runs, no other worker runs fn(j) and it did not run before, so
\* each result slot has one writer ("every job writes only its own slot").
SlotHasOneWriter ==
  \A w \in Workers : pc[w] = "run" =>
    /\ job[w] < total
    /\ runs[job[w]] = 0
    /\ \A v \in Workers \ {w} : pc[v] = "run" => job[v] # job[w]

\* When run_jobs has returned, each of its indices ran once and nothing else did.
ReturnedBatchComplete ==
  coord = "idle" /\ batch > 0 =>
    \A j \in JobIds : runs[j] = IF j < total THEN 1 ELSE 0

\* The abstract view: a batch is open from run_jobs' first write to its return.
Phase ==
  IF coord = "idle" THEN "idle"
  ELSE IF coord \in {"publish", "wait", "recheck"} THEN "open" ELSE "halted"

Batch == INSTANCE BatchExecution WITH phase <- Phase, size <- total, count <- runs

\* The pool implements run_jobs' promise, that an entered batch returns included.
ImplementsBatch == Batch!Spec

\* Destroying the pool ends every thread, whatever each was doing: a worker that
\* has not started, sleeps, or is just about to sleep.
ShutdownJoins == stop ~> coord = "joined"
=============================================================================
