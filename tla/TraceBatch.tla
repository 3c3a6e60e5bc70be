----------------------------- MODULE TraceBatch -----------------------------
(***************************************************************************)
(* evaluate_batch_candidates: the worker pool running execute_scenario_job *)
(* for every candidate of a batch, with the one TraceArena that full-trace *)
(* jobs lease in turn.  The pool's own steps are WorkerPool's; what fn(j)  *)
(* does between a claim and its return is here, one step per access to     *)
(* what the workers share.                                                 *)
(*                                                                         *)
(* A trace is the sequence of the job numbers its entries were recorded    *)
(* for.  The arena's two buffers are cleared, filled and read together,    *)
(* under the same lease, and are one sequence here.                        *)
(***************************************************************************)
EXTENDS WorkerPool, Sequences

CONSTANT MaxEntries    \* bound: entries one simulation records

ASSUME MaxEntriesAssumption == MaxEntries \in Nat

VARIABLES
  fullTrace,           \* observation of the batch: FullTrace or Summary
  step,                \* step[w]: where worker w is in execute_scenario_job
  owner,               \* who holds TraceArena's mutex_
  entries,             \* TraceArena's buffer
  slot,                \* slot[j]: candidate_results[j]
  recorded             \* history: recorded[j], entries job j has recorded

arenaVars == <<fullTrace, step, owner, entries, slot, recorded>>
allVars == <<vars, arenaVars>>

Nobody == NumWorkers

\* A default-constructed result; nothing distinguishes it from a failure but
\* its missing error message.
EmptySlot == [status |-> "unset", trace |-> <<>>]

TraceInit ==
  /\ Init
  /\ fullTrace = FALSE
  /\ step = [w \in Workers |-> "begin"]
  /\ owner = Nobody
  /\ entries = <<>>
  /\ slot = [j \in JobIds |-> EmptySlot]
  /\ recorded = [j \in JobIds |-> 0]

\* The result vector is sized, then run_jobs is entered.
EvaluateBatch(n, full) ==
  /\ RunJobs(n)
  /\ fullTrace' = full
  /\ slot' = [j \in JobIds |-> EmptySlot]
  /\ recorded' = [j \in JobIds |-> 0]
  /\ UNCHANGED <<step, owner, entries>>

-----------------------------------------------------------------------------
(* execute_scenario_job on worker w, for candidate job[w]. *)

At(w, s) == pc[w] = "run" /\ step[w] = s /\ UNCHANGED vars

GoTo(w, s) == step' = [step EXCEPT ![w] = s]

Fill(w, status, trace) ==
  slot' = [slot EXCEPT ![job[w]] = [status |-> status, trace |-> trace]]

\* Mutant of Released: the lease outlives the job.
NeverReleased(w) == owner

\* Lease's destructor runs when the scope of the try block is left.
Released(w) == IF owner = w THEN Nobody ELSE owner

\* A rejected override or parameter vector: throw before anything is leased.
Reject(w) ==
  /\ At(w, "begin")
  /\ Fill(w, "failed", <<>>)
  /\ GoTo(w, "return")
  /\ UNCHANGED <<fullTrace, owner, entries, recorded>>

Prepare(w) ==
  /\ At(w, "begin")
  /\ GoTo(w, IF fullTrace THEN "acquire" ELSE "simulate")
  /\ UNCHANGED <<fullTrace, owner, entries, slot, recorded>>

\* Mutant of Acquire: the buffer is not cleared.
AcquireWithoutClear(w) ==
  /\ At(w, "acquire")
  /\ owner = Nobody
  /\ owner' = w
  /\ GoTo(w, "simulate")
  /\ UNCHANGED <<fullTrace, entries, slot, recorded>>

\* TraceArena::acquire: blocks on mutex_, then clears what the last job left.
Acquire(w) ==
  /\ At(w, "acquire")
  /\ owner = Nobody
  /\ owner' = w
  /\ entries' = <<>>
  /\ GoTo(w, "simulate")
  /\ UNCHANGED <<fullTrace, slot, recorded>>

\* run_single_pool appends to the buffer it was given.
Record(w) ==
  /\ At(w, "simulate")
  /\ fullTrace
  /\ recorded[job[w]] < MaxEntries
  /\ entries' = Append(entries, job[w])
  /\ recorded' = [recorded EXCEPT ![job[w]] = @ + 1]
  /\ UNCHANGED <<fullTrace, step, owner, slot>>

\* Mutant of Fail: the exceptional path leaves the result as it was.
FailLeavesSlot(w) ==
  /\ At(w, "simulate") \/ At(w, "serialize")
  /\ GoTo(w, "return")
  /\ owner' = Released(w)
  /\ UNCHANGED <<fullTrace, entries, slot, recorded>>

\* The run fails, by its result or by an exception; serialising may throw too,
\* and its catch leaves the trace as it is: already there when it is the actions
\* that could not be serialised.  Only a std::exception is caught.  Whatever else
\* a job throws ends the process, and with it the behaviour.
Fail(w) ==
  /\ \/ At(w, "simulate") /\ Fill(w, "failed", <<>>)
     \/ At(w, "serialize") /\ \E t \in {<<>>, entries} : Fill(w, "failed", t)
  /\ GoTo(w, "return")
  /\ owner' = Released(w)
  /\ UNCHANGED <<fullTrace, entries, recorded>>

Succeed(w) ==
  /\ At(w, "simulate")
  /\ Fill(w, "ok", <<>>)
  /\ GoTo(w, IF fullTrace THEN "serialize" ELSE "return")
  /\ UNCHANGED <<fullTrace, owner, entries, recorded>>

\* The trace is serialised into the result while the lease is still held.
Serialize(w) ==
  /\ At(w, "serialize")
  /\ Fill(w, "ok", entries)
  /\ GoTo(w, "return")
  /\ owner' = Released(w)
  /\ UNCHANGED <<fullTrace, entries, recorded>>

JobStep(w) ==
  \/ Reject(w) \/ Prepare(w) \/ Acquire(w) \/ Record(w)
  \/ Fail(w) \/ Succeed(w) \/ Serialize(w)

\* execute_scenario_job returns to the pool's loop.
JobReturns(w) ==
  /\ step[w] = "return"
  /\ Finish(w)
  /\ GoTo(w, "begin")
  /\ UNCHANGED <<fullTrace, owner, entries, slot, recorded>>

-----------------------------------------------------------------------------
ThreadStep(w) ==
  \/ LoopStep(w) /\ UNCHANGED arenaVars
  \/ JobStep(w)
  \/ JobReturns(w)

TraceNext ==
  \/ \E n \in 1 .. MaxJobs, full \in BOOLEAN : EvaluateBatch(n, full)
  \/ (CallerStep \/ Shutdown \/ SpuriousDone) /\ UNCHANGED arenaVars
  \/ \E w \in Workers : ThreadStep(w) \/ (SpuriousStart(w) /\ UNCHANGED arenaVars)
  \/ Ended /\ UNCHANGED arenaVars

\* A mutex that is free again and again is eventually obtained: a batch leases
\* the arena finitely often, so weak fairness is enough.
TraceSpec ==
  /\ TraceInit /\ [][TraceNext]_allVars
  /\ WF_allVars(CallerStep /\ UNCHANGED arenaVars)
  /\ \A w \in Workers : WF_allVars(ThreadStep(w))

-----------------------------------------------------------------------------
JobSteps == {"begin", "acquire", "simulate", "serialize", "return"}

TraceTypeOK ==
  /\ fullTrace \in BOOLEAN
  /\ step \in [Workers -> JobSteps]
  /\ owner \in Workers \cup {Nobody}
  /\ entries \in Seq(JobIds)
  /\ slot \in [JobIds -> [status : {"unset", "ok", "failed"}, trace : Seq(JobIds)]]
  /\ recorded \in [JobIds -> 0 .. MaxEntries]

\* The trace of a candidate that succeeded is what its own run recorded: no entry
\* of a job that shared the arena, none lost to another job's clear.  A candidate
\* that failed has that trace or none; handle_run_grid then sends none.
TraceIsItsOwn ==
  \A w \in Workers : pc[w] = "run" /\ step[w] = "return" =>
    LET s == slot[job[w]]
        own == [i \in 1 .. recorded[job[w]] |-> job[w]]
    IN IF fullTrace /\ s.status = "ok" THEN s.trace = own ELSE s.trace \in {<<>>, own}

\* The lease is held by the worker that simulates or serialises with it, and by
\* nobody once that job has returned, failed or thrown.
LeaseFollowsJob ==
  \A w \in Workers :
    owner = w <=> pc[w] = "run" /\ fullTrace /\ step[w] \in {"simulate", "serialize"}

\* When evaluate_batch_candidates returns, every candidate has an outcome.
EveryCandidateAnswered ==
  coord = "idle" =>
    \A j \in JobIds : slot[j].status = "unset" <=> j >= total

\* A batch returns although its jobs queue for one arena and may fail in it.
BatchReturns == coord = "wait" ~> coord = "idle"
=============================================================================
