---------------------------- MODULE BatchProofs -----------------------------
(***************************************************************************)
(* Proofs about WorkerPool and TraceBatch, for any number of workers, of   *)
(* jobs, candidates, batches and trace entries.  The invariant of the pool *)
(* is first; it holds in TraceBatch too, where every step is a step of the *)
(* pool or leaves its variables alone.                                     *)
(***************************************************************************)
EXTENDS TraceBatch, FiniteSetTheorems, TLAPS

\* The caller's own bookkeeping.
CallerInv ==
  /\ coord \in {"publish", "wait", "recheck"} => fn = batch /\ total \in 1 .. MaxJobs
  /\ coord \in {"wait", "recheck"} => active = MinOf(total, NumWorkers)
  /\ coord \notin {"wait", "recheck"} => active = 0
  /\ coord \in {"idle", "wait", "recheck"} => gen = batch
  /\ coord = "publish" => gen + 1 = batch
  /\ stop <=> coord \in {"stopping", "joining", "joined"}
  /\ \A w \in Workers : lastGen[w] <= gen

\* Only participants of the current batch are in the unlocked loop.
LoopInv == LoopOnlyInsideItsBatch /\ \A w \in Workers : InLoop(w) => w < active

\* Worker w has claimed an index and not finished with it.
Holds(w) == pc[w] \in {"compare", "run"}

\* Claimed indices are below the counter, and pairwise different.
ClaimInv ==
  /\ \A w \in Workers : Holds(w) => job[w] < nextJob
  /\ \A w \in Workers : pc[w] = "run" => job[w] < total
  /\ \A v, w \in Workers : v # w /\ Holds(v) /\ Holds(w) => job[v] # job[w]

\* An index below the counter is finished or held, never both.
DoneInv ==
  /\ coord = "publish" => \A j \in JobIds : runs[j] = 0
  /\ coord \in {"wait", "recheck"} => \A j \in JobIds :
       /\ runs[j] \in {0, 1}
       /\ runs[j] = 1 => /\ j < total /\ j < nextJob
                         /\ \A w \in Workers : Holds(w) => job[w] # j
       /\ j < total /\ j < nextJob =>
            runs[j] = 1 \/ \E w \in Workers : Holds(w) /\ job[w] = j

\* A worker stops claiming only when the counter has passed the batch.
ReportInv ==
  coord \in {"wait", "recheck"} =>
    \A w \in Workers :
      w < active /\ (pc[w] = "report" \/ ~Owes(w)) => total <= nextJob

IInv ==
  /\ TypeOK /\ CallerInv /\ LoopInv /\ ClaimInv /\ DoneInv /\ ReportInv
  /\ BarrierExact /\ ReturnedBatchComplete
-----------------------------------------------------------------------------
(* The workers and sets of them are finite. *)

LEMMA WorkersFinite ==
  /\ IsFiniteSet(Workers)
  /\ \A S \in SUBSET Workers : IsFiniteSet(S) /\ Cardinality(S) \in 0 .. NumWorkers
<1>1. IsFiniteSet(Workers) /\ Cardinality(Workers) = NumWorkers
  BY FS_Interval, NumWorkersAssumption DEF Workers
<1>2. ASSUME NEW S \in SUBSET Workers
      PROVE  IsFiniteSet(S) /\ Cardinality(S) \in 0 .. NumWorkers
  BY <1>1, FS_Subset, FS_CardinalityType, NumWorkersAssumption
<1>3. QED BY <1>1, <1>2

LEMMA InitInv == Init => IInv
<1> SUFFICES ASSUME Init PROVE IInv
  OBVIOUS
<1>1. TypeOK
  <2>1. NullFn \in Nat /\ 0 \in 0 .. MaxJobs /\ 0 \in 0 .. NumWorkers
    BY NumWorkersAssumption, MaxJobsAssumption DEF NullFn
  <2>2. /\ pc \in [Workers -> WorkerStates] /\ lastGen \in [Workers -> Nat]
        /\ fnp \in [Workers -> Nat] /\ job \in [Workers -> Nat]
        /\ runs \in [JobIds -> Nat]
    BY <2>1 DEF Init, WorkerStates
  <2>3. QED BY <2>1, <2>2 DEF Init, TypeOK, CoordStates
<1>2. CallerInv
  BY DEF Init, CallerInv
<1>3. LoopInv
  BY DEF Init, LoopInv, LoopOnlyInsideItsBatch, InLoop
<1>4. ClaimInv /\ DoneInv /\ ReportInv
  BY DEF Init, ClaimInv, DoneInv, ReportInv, Holds
<1>5. BarrierExact /\ ReturnedBatchComplete
  BY DEF Init, BarrierExact, ReturnedBatchComplete
<1>6. QED BY <1>1, <1>2, <1>3, <1>4, <1>5 DEF IInv

-----------------------------------------------------------------------------
(* The caller's steps. *)

LEMMA RunJobsInv == ASSUME IInv, NEW n \in 1 .. MaxJobs, RunJobs(n) PROVE IInv'
<1> USE DEF IInv, RunJobs, workerVars
<1>1. TypeOK'
  BY MaxJobsAssumption DEF TypeOK, CoordStates
<1>2. CallerInv'
  BY DEF CallerInv, TypeOK
<1>3. LoopInv'
  BY DEF LoopInv, LoopOnlyInsideItsBatch, InLoop
<1>4. ClaimInv'
  BY DEF LoopInv, LoopOnlyInsideItsBatch, InLoop, ClaimInv, Holds
<1>5. DoneInv' /\ ReportInv' /\ BarrierExact' /\ ReturnedBatchComplete'
  BY DEF DoneInv, ReportInv, BarrierExact, ReturnedBatchComplete
<1>6. QED BY <1>1, <1>2, <1>3, <1>4, <1>5

LEMMA DispatchInv == ASSUME IInv, Dispatch PROVE IInv'
<1> DEFINE n == MinOf(total, NumWorkers)
<1> USE DEF IInv, Dispatch
<1>1. n \in 1 .. NumWorkers /\ n <= total
  BY NumWorkersAssumption, MaxJobsAssumption DEF CallerInv, MinOf
<1>2. \A w \in Workers : ~InLoop(w)
  BY DEF LoopInv, LoopOnlyInsideItsBatch
<1>3. /\ pc' \in [Workers -> WorkerStates]
      /\ \A w \in Workers : pc'[w] \in {"top", "wait", "exit"}
  BY <1>2 DEF TypeOK, Notified, InLoop, WorkerStates
<1>4. \A w \in Workers : ~InLoop(w)' /\ ~Holds(w)'
  BY <1>3 DEF InLoop, Holds
<1>5. TypeOK'
  BY <1>1, <1>3, NumWorkersAssumption, MaxJobsAssumption DEF TypeOK, CoordStates
<1>6. CallerInv'
  BY <1>1, NumWorkersAssumption DEF CallerInv, TypeOK
<1>7. LoopInv'
  BY <1>4 DEF LoopInv, LoopOnlyInsideItsBatch
<1>8. ClaimInv'
  BY <1>4 DEF ClaimInv, Holds
<1>9. DoneInv'
  BY <1>4 DEF DoneInv, TypeOK, JobIds
<1>10. \A w \in Workers : lastGen'[w] # gen'
  BY DEF CallerInv, TypeOK
<1>11. Debtors' = 0 .. n - 1
  BY <1>1, <1>10, NumWorkersAssumption DEF Debtors, Owes, Workers
<1>12. ReportInv'
  BY <1>3, <1>10 DEF ReportInv, Owes
<1>13. BarrierExact'
  <2>1. Cardinality(0 .. n - 1) = n
    BY <1>1, FS_Interval
  <2>2. QED BY <1>11, <2>1 DEF BarrierExact
<1>14. ReturnedBatchComplete'
  BY DEF ReturnedBatchComplete
<1>15. QED BY <1>5, <1>6, <1>7, <1>8, <1>9, <1>12, <1>13, <1>14

\* A batch is complete when nobody owes a report: the participants have all seen
\* the counter past the batch, and none of them holds an index any more.
LEMMA NobodyOwes ==
  ASSUME IInv, coord \in {"wait", "recheck"}, remaining = 0
  PROVE  /\ \A w \in Workers : ~InLoop(w)
         /\ \A j \in JobIds : runs[j] = IF j < total THEN 1 ELSE 0
<1> USE DEF IInv
<1>1. Debtors = {}
  BY WorkersFinite, FS_EmptySet DEF BarrierExact, Debtors
<1>2. \A w \in Workers : ~Owes(w)
  BY <1>1 DEF Debtors
<1>3. \A w \in Workers : ~InLoop(w)
  BY <1>2 DEF Owes, LoopInv
<1>4. 0 \in Workers /\ 0 < active
  BY NumWorkersAssumption, MaxJobsAssumption DEF Workers, CallerInv, MinOf
<1>5. total <= nextJob
  BY <1>2, <1>4 DEF ReportInv
<1>6. \A j \in JobIds : runs[j] = IF j < total THEN 1 ELSE 0
  BY <1>3, <1>5, MaxJobsAssumption DEF DoneInv, Holds, InLoop, TypeOK, JobIds
<1>7. QED BY <1>3, <1>6

LEMMA ReturnInv == ASSUME IInv, Return PROVE IInv'
<1> USE DEF IInv, Return, workerVars
<1>1. /\ \A w \in Workers : ~InLoop(w)
      /\ \A j \in JobIds : runs[j] = IF j < total THEN 1 ELSE 0
  BY NobodyOwes DEF BatchDone
<1>2. TypeOK'
  BY NumWorkersAssumption DEF TypeOK, CoordStates, NullFn
<1>3. CallerInv'
  BY DEF CallerInv, BatchDone
<1>4. LoopInv' /\ ClaimInv'
  BY <1>1 DEF LoopInv, LoopOnlyInsideItsBatch, ClaimInv, Holds, InLoop
<1>5. DoneInv' /\ ReportInv' /\ BarrierExact'
  BY DEF DoneInv, ReportInv, BarrierExact
<1>6. ReturnedBatchComplete'
  BY <1>1 DEF ReturnedBatchComplete
<1>7. QED BY <1>2, <1>3, <1>4, <1>5, <1>6

\* Steps that move the caller between waiting and rechecking touch nothing else.
LEMMA WaitingInv ==
  ASSUME IInv, SpuriousDone \/ WaitAgain PROVE IInv'
<1> USE DEF IInv, SpuriousDone, WaitAgain, workerVars
<1>1. TypeOK'
  BY DEF TypeOK, CoordStates
<1>2. CallerInv' /\ LoopInv' /\ ClaimInv'
  BY DEF CallerInv, LoopInv, LoopOnlyInsideItsBatch, ClaimInv, Holds, InLoop
<1>3. DoneInv' /\ ReturnedBatchComplete'
  BY DEF DoneInv, Holds, ReturnedBatchComplete
<1>4. ReportInv'
  BY DEF ReportInv, Owes, InLoop
<1>5. BarrierExact'
  <2>1. Debtors' = Debtors
    BY DEF Debtors, Owes, InLoop
  <2>2. QED BY <2>1 DEF BarrierExact
<1>6. QED BY <1>1, <1>2, <1>3, <1>4, <1>5

\* The destructor runs when no worker is in the loop, and nothing restarts one.
LEMMA DestructorInv ==
  ASSUME IInv, Shutdown \/ NotifyAll \/ Join PROVE IInv'
<1> USE DEF IInv, Shutdown, NotifyAll, Join, workerVars
<1>1. \A w \in Workers : ~InLoop(w)
  BY DEF LoopInv, LoopOnlyInsideItsBatch
<1>2. pc' \in [Workers -> WorkerStates] /\ \A w \in Workers : ~InLoop(w)' /\ ~Holds(w)'
  BY <1>1 DEF TypeOK, Notified, InLoop, Holds, WorkerStates
<1>3. TypeOK'
  <2>1. coord' \in CoordStates
    BY DEF CoordStates
  <2>2. gen' \in Nat
    BY DEF TypeOK
  <2>3. stop' \in BOOLEAN
    BY Zenon DEF TypeOK
  <2>4. /\ UNCHANGED <<batch, fn, total, active, nextJob, remaining>>
        /\ UNCHANGED <<lastGen, fnp, job, runs>>
    OBVIOUS
  <2>5. QED BY <1>2, <2>1, <2>2, <2>3, <2>4 DEF TypeOK
<1>4. CallerInv'
  BY DEF CallerInv, TypeOK
<1>5. LoopInv' /\ ClaimInv'
  BY <1>2 DEF LoopInv, LoopOnlyInsideItsBatch, ClaimInv, Holds
<1>6. DoneInv' /\ ReportInv' /\ BarrierExact' /\ ReturnedBatchComplete'
  BY DEF DoneInv, ReportInv, BarrierExact, ReturnedBatchComplete
<1>7. QED BY <1>3, <1>4, <1>5, <1>6

-----------------------------------------------------------------------------
(* The workers' steps. *)

\* Going to sleep, waking and leaving: steps outside the unlocked loop.
LEMMA OutsideLoopInv ==
  ASSUME IInv, NEW u \in Workers, Sleep(u) \/ Exit(u) \/ SpuriousStart(u) PROVE IInv'
<1> USE DEF IInv, Sleep, Exit, SpuriousStart, callerVars
<1>1. pc' \in [Workers -> WorkerStates]
  BY DEF TypeOK, WorkerStates
<1>2. \A w \in Workers : /\ InLoop(w)' <=> InLoop(w)
                         /\ Holds(w)' <=> Holds(w)
                         /\ pc'[w] = "run" <=> pc[w] = "run"
                         /\ pc'[w] = "report" <=> pc[w] = "report"
  BY DEF TypeOK, InLoop, Holds
<1>3. TypeOK' /\ CallerInv'
  BY <1>1 DEF TypeOK, CallerInv
<1>4. LoopInv' /\ ClaimInv'
  BY <1>2 DEF LoopInv, LoopOnlyInsideItsBatch, ClaimInv
<1>5. DoneInv' /\ ReturnedBatchComplete'
  BY <1>2 DEF DoneInv, ReturnedBatchComplete
<1>6. \A w \in Workers : Owes(w)' <=> Owes(w)
  BY <1>2 DEF Owes
<1>7. ReportInv'
  BY <1>2, <1>6 DEF ReportInv
<1>8. BarrierExact'
  <2>1. Debtors' = Debtors
    BY <1>6 DEF Debtors
  <2>2. QED BY <2>1 DEF BarrierExact
<1>9. QED BY <1>3, <1>4, <1>5, <1>7, <1>8

\* A worker with work is one the caller still waits for: active is 0 otherwise.
LEMMA CaptureInv == ASSUME IInv, NEW u \in Workers, Capture(u) PROVE IInv'
<1> USE DEF IInv, Capture, callerVars
<1>1. coord \in {"wait", "recheck"} /\ fn = batch /\ u < active /\ lastGen[u] # gen
  BY DEF HasWork, CallerInv, Workers, TypeOK
<1>2. pc' \in [Workers -> WorkerStates]
  BY DEF TypeOK, WorkerStates
<1>3. /\ \A w \in Workers \ {u} : pc'[w] = pc[w] /\ lastGen'[w] = lastGen[w] /\ fnp'[w] = fnp[w]
      /\ pc[u] = "top" /\ pc'[u] = "claim" /\ lastGen'[u] = gen /\ fnp'[u] = fn
  BY DEF TypeOK
<1>4. \A w \in Workers : Holds(w)' <=> Holds(w)
  BY <1>3 DEF Holds
<1>5. TypeOK'
  BY <1>2 DEF TypeOK
<1>6. CallerInv'
  BY <1>3 DEF CallerInv, TypeOK
<1>7. LoopInv'
  BY <1>1, <1>3 DEF LoopInv, LoopOnlyInsideItsBatch, InLoop
<1>8. ClaimInv'
  BY <1>3, <1>4 DEF ClaimInv
<1>9. DoneInv' /\ ReturnedBatchComplete'
  BY <1>4 DEF DoneInv, ReturnedBatchComplete
<1>10. \A w \in Workers : Owes(w)' <=> Owes(w)
  BY <1>1, <1>3 DEF Owes, InLoop
<1>11. ReportInv'
  BY <1>3, <1>10 DEF ReportInv
<1>12. BarrierExact'
  <2>1. Debtors' = Debtors
    BY <1>10 DEF Debtors
  <2>2. QED BY <2>1 DEF BarrierExact
<1>13. QED BY <1>5, <1>6, <1>7, <1>8, <1>9, <1>11, <1>12

\* The claimed index is fresh: it equals the counter, which all others are below.
LEMMA ClaimStepInv == ASSUME IInv, NEW u \in Workers, Claim(u) PROVE IInv'
<1> USE DEF IInv, Claim, callerVars
<1>1. /\ \A w \in Workers \ {u} : pc'[w] = pc[w] /\ job'[w] = job[w]
      /\ pc[u] = "claim" /\ pc'[u] = "compare" /\ job'[u] = nextJob
      /\ nextJob \in Nat /\ nextJob' = nextJob + 1
      /\ pc' \in [Workers -> WorkerStates] /\ job' \in [Workers -> Nat]
  BY DEF TypeOK, WorkerStates
<1>2. \A w \in Workers : InLoop(w)' <=> InLoop(w)
  BY <1>1 DEF InLoop
<1>3. TypeOK' /\ CallerInv'
  BY <1>1 DEF TypeOK, CallerInv
<1>4. LoopInv'
  BY <1>2 DEF LoopInv, LoopOnlyInsideItsBatch
<1>5. \A w \in Workers \ {u} : Holds(w)' <=> Holds(w)
  BY <1>1 DEF Holds
<1>6. ClaimInv'
  BY <1>1, <1>5 DEF ClaimInv, TypeOK
<1>7. ~Holds(u) /\ Holds(u)'
  BY <1>1 DEF Holds
<1>8. DoneInv'
  <2>1. coord \in {"wait", "recheck"}
    BY <1>1 DEF LoopInv, LoopOnlyInsideItsBatch, InLoop
  <2>2. ASSUME NEW j \in JobIds
        PROVE  /\ runs[j] \in {0, 1}
               /\ runs[j] = 1 => /\ j < total /\ j < nextJob'
                                 /\ \A w \in Workers : Holds(w)' => job'[w] # j
    BY <1>1, <1>5, <1>7, <2>1 DEF DoneInv, JobIds
  <2>3. ASSUME NEW j \in JobIds, j < total, j < nextJob'
        PROVE  runs[j] = 1 \/ \E w \in Workers : Holds(w)' /\ job'[w] = j
    <3>1. CASE j = nextJob
      BY <1>1, <1>7, <3>1
    <3>2. CASE j < nextJob
      <4>1. runs[j] = 1 \/ \E w \in Workers : Holds(w) /\ job[w] = j
        BY <2>1, <2>3, <3>2 DEF DoneInv
      <4>2. QED BY <4>1, <1>1, <1>5, <1>7
    <3>3. QED BY <1>1, <2>3, <3>1, <3>2 DEF JobIds
  <2>4. QED BY <2>1, <2>2, <2>3 DEF DoneInv
<1>9. ReturnedBatchComplete'
  BY DEF ReturnedBatchComplete
<1>10. \A w \in Workers : Owes(w)' <=> Owes(w)
  BY <1>2 DEF Owes
<1>11. ReportInv'
  BY <1>1, <1>10 DEF ReportInv, TypeOK
<1>12. BarrierExact'
  <2>1. Debtors' = Debtors
    BY <1>10 DEF Debtors
  <2>2. QED BY <2>1 DEF BarrierExact
<1>13. QED BY <1>3, <1>4, <1>6, <1>8, <1>9, <1>11, <1>12

\* An index beyond the batch is dropped; the counter is then past the batch too.
LEMMA CompareInv == ASSUME IInv, NEW u \in Workers, Compare(u) PROVE IInv'
<1> USE DEF IInv, Compare, callerVars
<1>1. /\ \A w \in Workers \ {u} : pc'[w] = pc[w]
      /\ pc[u] = "compare" /\ pc'[u] = IF job[u] < total THEN "run" ELSE "report"
      /\ pc' \in [Workers -> WorkerStates]
  BY DEF TypeOK, WorkerStates
<1>2. \A w \in Workers : InLoop(w)' <=> InLoop(w)
  BY <1>1 DEF InLoop
<1>3. TypeOK' /\ CallerInv'
  BY <1>1 DEF TypeOK, CallerInv
<1>4. LoopInv'
  BY <1>2 DEF LoopInv, LoopOnlyInsideItsBatch
<1>5. \A w \in Workers : Holds(w)' => Holds(w)
  BY <1>1 DEF Holds
<1>6. ClaimInv'
  BY <1>1, <1>5 DEF ClaimInv
<1>7. \A w \in Workers : Holds(w) /\ job[w] < total => Holds(w)'
  BY <1>1 DEF Holds
<1>8. DoneInv'
  BY <1>5, <1>7 DEF DoneInv
<1>9. ReturnedBatchComplete'
  BY DEF ReturnedBatchComplete
<1>10. \A w \in Workers : Owes(w)' <=> Owes(w)
  BY <1>2 DEF Owes
<1>11. ~(job[u] < total) => total <= nextJob
  BY <1>1 DEF ClaimInv, Holds, TypeOK
<1>12. ReportInv'
  BY <1>1, <1>10, <1>11 DEF ReportInv
<1>13. BarrierExact'
  <2>1. Debtors' = Debtors
    BY <1>10 DEF Debtors
  <2>2. QED BY <2>1 DEF BarrierExact
<1>14. QED BY <1>3, <1>4, <1>6, <1>8, <1>9, <1>12, <1>13

\* The job that finishes was held by this worker alone and had not run before.
LEMMA FinishInv == ASSUME IInv, NEW u \in Workers, Finish(u) PROVE IInv'
<1> USE DEF IInv, Finish, callerVars
<1>1. /\ \A w \in Workers \ {u} : pc'[w] = pc[w]
      /\ pc[u] = "run" /\ pc'[u] = "claim"
      /\ pc' \in [Workers -> WorkerStates]
  BY DEF TypeOK, WorkerStates
<1>2. coord \in {"wait", "recheck"} /\ Holds(u) /\ ~Holds(u)'
  BY <1>1 DEF LoopInv, LoopOnlyInsideItsBatch, InLoop, Holds
<1>3. job[u] \in JobIds /\ job[u] < total /\ job[u] < nextJob
  BY <1>1, <1>2, MaxJobsAssumption DEF ClaimInv, TypeOK, JobIds
<1>4. runs[job[u]] = 0
  BY <1>2, <1>3 DEF DoneInv
<1>5. /\ runs' \in [JobIds -> Nat] /\ runs'[job[u]] = 1
      /\ \A j \in JobIds \ {job[u]} : runs'[j] = runs[j]
  BY <1>3, <1>4 DEF TypeOK
<1>6. \A w \in Workers : InLoop(w)' <=> InLoop(w)
  BY <1>1 DEF InLoop
<1>7. \A w \in Workers \ {u} : Holds(w)' <=> Holds(w)
  BY <1>1 DEF Holds
<1>8. TypeOK' /\ CallerInv'
  BY <1>1, <1>5 DEF TypeOK, CallerInv
<1>9. LoopInv'
  BY <1>6 DEF LoopInv, LoopOnlyInsideItsBatch
<1>10. ClaimInv'
  BY <1>1, <1>2, <1>7 DEF ClaimInv
<1>11. DoneInv'
  <2>1. ASSUME NEW j \in JobIds
        PROVE  /\ runs'[j] \in {0, 1}
               /\ runs'[j] = 1 => /\ j < total /\ j < nextJob
                                  /\ \A w \in Workers : Holds(w)' => job[w] # j
    <3>1. CASE j = job[u]
      BY <1>2, <1>3, <1>5, <1>7, <3>1 DEF ClaimInv
    <3>2. CASE j # job[u]
      BY <1>2, <1>5, <1>7, <3>2 DEF DoneInv
    <3>3. QED BY <3>1, <3>2
  <2>2. ASSUME NEW j \in JobIds, j < total, j < nextJob
        PROVE  runs'[j] = 1 \/ \E w \in Workers : Holds(w)' /\ job[w] = j
    <3>1. CASE j = job[u]
      BY <1>5, <3>1
    <3>2. CASE j # job[u]
      BY <1>2, <1>5, <1>7, <2>2, <3>2 DEF DoneInv
    <3>3. QED BY <3>1, <3>2
  <2>3. QED BY <1>2, <2>1, <2>2 DEF DoneInv
<1>12. ReturnedBatchComplete'
  BY <1>2 DEF ReturnedBatchComplete
<1>13. \A w \in Workers : Owes(w)' <=> Owes(w)
  BY <1>6 DEF Owes
<1>14. ReportInv'
  BY <1>1, <1>13 DEF ReportInv
<1>15. BarrierExact'
  <2>1. Debtors' = Debtors
    BY <1>13 DEF Debtors
  <2>2. QED BY <2>1 DEF BarrierExact
<1>16. QED BY <1>8, <1>9, <1>10, <1>11, <1>12, <1>14, <1>15

\* The reporting worker is one of the debtors, so the count it decrements is
\* positive, and it is the only one that leaves their set.
LEMMA ReportStepInv == ASSUME IInv, NEW u \in Workers, Report(u) PROVE IInv'
<1> USE DEF IInv, Report
<1>1. /\ \A w \in Workers \ {u} : pc'[w] = pc[w]
      /\ pc[u] = "report" /\ pc'[u] = "top"
      /\ pc' \in [Workers -> WorkerStates]
  BY DEF TypeOK, WorkerStates
<1>2. /\ InLoop(u) /\ ~InLoop(u)'
      /\ \A w \in Workers \ {u} : InLoop(w)' <=> InLoop(w)
      /\ \A w \in Workers : Holds(w)' <=> Holds(w)
      /\ \A w \in Workers : pc'[w] = "run" <=> pc[w] = "run"
  BY <1>1 DEF InLoop, Holds
<1>3. /\ coord \in {"wait", "recheck"} /\ coord' \in {"wait", "recheck"}
      /\ lastGen[u] = gen /\ u < active
  BY <1>2 DEF LoopInv, LoopOnlyInsideItsBatch
<1>4. Owes(u) /\ ~Owes(u)' /\ \A w \in Workers \ {u} : Owes(w)' <=> Owes(w)
  BY <1>2, <1>3 DEF Owes
<1>5. u \in Debtors /\ Debtors' = Debtors \ {u}
  BY <1>4 DEF Debtors
<1>6. IsFiniteSet(Debtors) /\ Cardinality(Debtors) \in 0 .. NumWorkers
  BY WorkersFinite DEF Debtors
<1>7. Cardinality(Debtors') = Cardinality(Debtors) - 1
  BY <1>5, <1>6, FS_RemoveElement
<1>8. Cardinality(Debtors) > 0
  BY <1>5, <1>6, FS_EmptySet
<1>9. BarrierExact' /\ remaining' \in 0 .. NumWorkers
  BY <1>3, <1>6, <1>7, <1>8, NumWorkersAssumption DEF BarrierExact
<1>10. TypeOK'
  BY <1>1, <1>3, <1>9 DEF TypeOK, CoordStates
<1>11. CallerInv'
  BY <1>3 DEF CallerInv
<1>12. LoopInv'
  BY <1>2, <1>3 DEF LoopInv, LoopOnlyInsideItsBatch
<1>13. ClaimInv' /\ DoneInv' /\ ReturnedBatchComplete'
  BY <1>2, <1>3 DEF ClaimInv, DoneInv, ReturnedBatchComplete
<1>14. ReportInv'
  BY <1>1, <1>3, <1>4 DEF ReportInv
<1>15. QED BY <1>9, <1>10, <1>11, <1>12, <1>13, <1>14

-----------------------------------------------------------------------------
(* The invariant of the specification, and what follows from it. *)

LEMMA StutterInv == ASSUME IInv, UNCHANGED vars PROVE IInv'
<1> USE DEF vars, callerVars, workerVars, IInv
<1>1. TypeOK' /\ CallerInv'
  BY DEF TypeOK, CallerInv
<1>2. LoopInv' /\ ClaimInv' /\ DoneInv' /\ ReturnedBatchComplete'
  BY DEF LoopInv, LoopOnlyInsideItsBatch, InLoop, ClaimInv, DoneInv, Holds,
         ReturnedBatchComplete
<1>3. ReportInv'
  BY DEF ReportInv, Owes, InLoop
<1>4. BarrierExact'
  <2>1. Debtors' = Debtors
    BY DEF Debtors, Owes, InLoop
  <2>2. QED BY <2>1 DEF BarrierExact
<1>5. QED BY <1>1, <1>2, <1>3, <1>4

LEMMA NextInv == IInv /\ [Next]_vars => IInv'
<1> SUFFICES ASSUME IInv, [Next]_vars PROVE IInv'
  OBVIOUS
<1>1. ASSUME NEW n \in 1 .. MaxJobs, RunJobs(n) PROVE IInv'
  BY <1>1, RunJobsInv
<1>2. CASE Dispatch
  BY <1>2, DispatchInv
<1>3. CASE Return
  BY <1>3, ReturnInv
<1>4. CASE SpuriousDone \/ WaitAgain
  BY <1>4, WaitingInv
<1>5. CASE Shutdown \/ NotifyAll \/ Join
  BY <1>5, DestructorInv
<1>6. ASSUME NEW w \in Workers, WorkerStep(w) \/ SpuriousStart(w) PROVE IInv'
  <2>1. CASE Sleep(w) \/ Exit(w) \/ SpuriousStart(w)
    BY <2>1, OutsideLoopInv
  <2>2. CASE Capture(w)
    BY <2>2, CaptureInv
  <2>3. CASE Claim(w)
    BY <2>3, ClaimStepInv
  <2>4. CASE Compare(w)
    BY <2>4, CompareInv
  <2>5. CASE Finish(w)
    BY <2>5, FinishInv
  <2>6. CASE Report(w)
    BY <2>6, ReportStepInv
  <2>7. QED
    BY <1>6, <2>1, <2>2, <2>3, <2>4, <2>5, <2>6 DEF WorkerStep, LoopStep
<1>7. CASE UNCHANGED vars
  BY <1>7, StutterInv
<1>8. QED
  BY <1>1, <1>2, <1>3, <1>4, <1>5, <1>6, <1>7 DEF Next, CallerStep, Ended

LEMMA SpecInv == Spec => []IInv
BY InitInv, NextInv, PTL DEF Spec

\* Types; workers_remaining_ never wraps below zero in Report.
THEOREM TypeCorrect == Spec => []TypeOK
<1>1. IInv => TypeOK
  BY DEF IInv
<1>2. QED BY SpecInv, <1>1, PTL

\* run_jobs never rewrites total_ or next_job_, and never lets the caller destroy
\* its function, while a worker uses them without the lock.
THEOREM LoopIsSafe == Spec => []LoopOnlyInsideItsBatch
<1>1. IInv => LoopOnlyInsideItsBatch
  BY DEF IInv, LoopInv
<1>2. QED BY SpecInv, <1>1, PTL

\* The completion barrier counts each notified worker exactly once.
THEOREM BarrierCorrect == Spec => []BarrierExact
<1>1. IInv => BarrierExact
  BY DEF IInv
<1>2. QED BY SpecInv, <1>1, PTL

\* Two workers never run the same index, and no index runs a second time.
THEOREM OneWriterPerSlot == Spec => []SlotHasOneWriter
<1>1. ASSUME IInv PROVE SlotHasOneWriter
  <2>1. SUFFICES ASSUME NEW w \in Workers, pc[w] = "run"
                 PROVE  /\ job[w] < total
                        /\ runs[job[w]] = 0
                        /\ \A v \in Workers \ {w} : pc[v] = "run" => job[v] # job[w]
    BY DEF SlotHasOneWriter
  <2>2. coord \in {"wait", "recheck"} /\ Holds(w)
    BY <1>1, <2>1 DEF IInv, LoopInv, LoopOnlyInsideItsBatch, InLoop, Holds
  <2>3. job[w] \in JobIds /\ job[w] < total
    BY <1>1, <2>1, <2>2, MaxJobsAssumption DEF IInv, ClaimInv, TypeOK, JobIds
  <2>4. runs[job[w]] = 0
    BY <1>1, <2>2, <2>3 DEF IInv, DoneInv
  <2>5. \A v \in Workers \ {w} : pc[v] = "run" => job[v] # job[w]
    BY <1>1, <2>1 DEF IInv, ClaimInv, Holds
  <2>6. QED BY <2>3, <2>4, <2>5
<1>2. QED BY SpecInv, <1>1, PTL

\* "Runs total_jobs indices [0, total_jobs) once each": true when run_jobs returns.
THEOREM ReturnedBatchIsComplete == Spec => []ReturnedBatchComplete
<1>1. IInv => ReturnedBatchComplete
  BY DEF IInv
<1>2. QED BY SpecInv, <1>1, PTL

-----------------------------------------------------------------------------
(* No wake-up is lost.                                                     *)

\* Whoever is waited for has been notified and has not gone to sleep again; a caller
\* asleep is owed a report; once the destructor joins, nobody sleeps any more.
AwakeInv ==
  /\ coord = "wait" => remaining > 0
  /\ coord \in {"wait", "recheck"} => \A w \in Workers : Owes(w) => pc[w] # "wait"
  /\ coord \in {"joining", "joined"} => \A w \in Workers : pc[w] # "wait"
  /\ \A w \in Workers : pc[w] = "exit" => stop

LEMMA CallerAwake ==
  ASSUME IInv, AwakeInv,
         (\E n \in 1 .. MaxJobs : RunJobs(n)) \/ CallerStep \/ Shutdown \/ SpuriousDone
  PROVE  AwakeInv'
<1>1. CASE Dispatch
  <2>1. MinOf(total, NumWorkers) \in Nat /\ MinOf(total, NumWorkers) > 0
    BY <1>1, NumWorkersAssumption DEF Dispatch, IInv, CallerInv, MinOf
  <2>2. \A w \in Workers : w < MinOf(total, NumWorkers) => w \in 0 .. MinOf(total, NumWorkers) - 1
    BY <2>1, NumWorkersAssumption DEF Workers
  <2>3. \A w \in Workers : /\ w < MinOf(total, NumWorkers) => pc'[w] # "wait"
                           /\ pc'[w] = "exit" => pc[w] = "exit"
    BY <1>1, <2>2 DEF Dispatch, Notified
  <2> QED
    BY <1>1, <2>1, <2>3 DEF Dispatch, AwakeInv, Owes
<1>2. CASE NotifyAll
  <2>1. \A w \in Workers : pc'[w] # "wait" /\ (pc'[w] = "exit" => pc[w] = "exit")
    BY <1>2 DEF NotifyAll, Notified
  <2> QED
    BY <1>2, <2>1 DEF NotifyAll, AwakeInv
<1>3. CASE WaitAgain
  <2>1. remaining > 0
    BY <1>3, NumWorkersAssumption DEF WaitAgain, BatchDone, IInv, CallerInv, TypeOK
  <2> QED
    BY <1>3, <2>1 DEF WaitAgain, AwakeInv, Owes, InLoop, workerVars
<1>4. CASE Shutdown
  BY <1>4 DEF Shutdown, AwakeInv, workerVars
<1>5. CASE (\E n \in 1 .. MaxJobs : RunJobs(n)) \/ Return \/ Join \/ SpuriousDone
  BY <1>5 DEF RunJobs, Return, Join, SpuriousDone, AwakeInv, Owes, InLoop, workerVars
<1> QED
  BY <1>1, <1>2, <1>3, <1>4, <1>5 DEF CallerStep

LEMMA WorkerAwake ==
  ASSUME IInv, AwakeInv, NEW u \in Workers, WorkerStep(u) \/ SpuriousStart(u)
  PROVE  AwakeInv'
<1>1. CASE Sleep(u)
  <2>1. /\ \A w \in Workers \ {u} : pc'[w] = pc[w] /\ (Owes(w)' <=> Owes(w))
        /\ pc'[u] = "wait" /\ ~Owes(u)'
    BY <1>1 DEF Sleep, HasWork, Owes, InLoop, IInv, TypeOK, callerVars
  <2>2. coord \notin {"joining", "joined"}
    BY <1>1 DEF Sleep, IInv, CallerInv
  <2> QED
    BY <1>1, <2>1, <2>2 DEF Sleep, AwakeInv, callerVars
<1>2. CASE Exit(u)
  <2>1. /\ \A w \in Workers \ {u} : pc'[w] = pc[w]
        /\ pc'[u] = "exit" /\ stop /\ coord \notin {"wait", "recheck"}
    BY <1>2 DEF Exit, IInv, CallerInv, TypeOK
  <2> QED
    BY <1>2, <2>1 DEF Exit, AwakeInv, callerVars
<1>3. CASE Report(u)
  <2>1. /\ \A w \in Workers \ {u} : pc'[w] = pc[w] /\ (Owes(w)' => Owes(w))
        /\ pc'[u] = "top"
    BY <1>3 DEF Report, Owes, InLoop, IInv, TypeOK
  <2>2. coord' = "wait" => remaining' > 0
    BY <1>3, NumWorkersAssumption DEF Report, AwakeInv, IInv, TypeOK
  <2>3. /\ coord' \in {"wait", "recheck"} => coord \in {"wait", "recheck"}
        /\ coord' \in {"joining", "joined"} => coord \in {"joining", "joined"}
        /\ stop' = stop
    BY <1>3 DEF Report
  <2> QED
    BY <2>1, <2>2, <2>3 DEF AwakeInv
<1>4. CASE Capture(u) \/ Claim(u) \/ Compare(u) \/ Finish(u) \/ SpuriousStart(u)
  <2>1. /\ \A w \in Workers \ {u} : pc'[w] = pc[w] /\ lastGen'[w] = lastGen[w]
        /\ pc'[u] \notin {"wait", "exit"}
        /\ UNCHANGED callerVars /\ remaining' = remaining
    BY <1>4 DEF Capture, Claim, Compare, Finish, SpuriousStart, IInv, TypeOK, callerVars
  <2>2. \A w \in Workers \ {u} : Owes(w)' <=> Owes(w)
    BY <2>1 DEF Owes, InLoop, callerVars
  <2> QED
    BY <2>1, <2>2 DEF AwakeInv, callerVars
<1> QED
  BY <1>1, <1>2, <1>3, <1>4 DEF WorkerStep, LoopStep

LEMMA NextAwake == IInv /\ AwakeInv /\ [Next]_vars => AwakeInv'
<1>1. ASSUME AwakeInv, UNCHANGED vars PROVE AwakeInv'
  BY <1>1 DEF AwakeInv, Owes, InLoop, vars, callerVars, workerVars
<1> QED
  BY <1>1, CallerAwake, WorkerAwake DEF Next, Ended

LEMMA InitAwake == Init => AwakeInv
BY DEF Init, AwakeInv

-----------------------------------------------------------------------------
(* The pool implements BatchExecution: a job that finishes is a job the    *)
(* batch still lacked, and run_jobs returns only when none is missing.     *)

\* Steps of the pool that the caller of run_jobs cannot see.
LEMMA HiddenStep ==
  ASSUME Phase' = Phase, UNCHANGED <<total, runs>>
  PROVE  [Batch!Next]_(Batch!bvars)
BY DEF Batch!bvars

LEMMA StepImplements ==
  ASSUME IInv, [Next]_vars PROVE [Batch!Next]_(Batch!bvars)
<1>1. ASSUME NEW n \in 1 .. MaxJobs, RunJobs(n) PROVE Batch!Next
  <2>1. Batch!Open(n)
    BY <1>1 DEF RunJobs, Batch!Open, Phase, Batch!JobIds, JobIds
  <2>2. QED BY <2>1 DEF Batch!Next
<1>2. CASE Return
  <2>1. \A j \in JobIds : j < total => runs[j] = 1
    BY <1>2, NobodyOwes DEF Return, BatchDone
  <2>2. Batch!Close
    BY <1>2, <2>1 DEF Return, Batch!Close, Phase, Batch!JobIds, JobIds
  <2>3. QED BY <2>2 DEF Batch!Next
<1>3. CASE Shutdown
  <2>1. Batch!Halt
    BY <1>3 DEF Shutdown, Batch!Halt, Phase
  <2>2. QED BY <2>1 DEF Batch!Next
<1>4. ASSUME NEW w \in Workers, Finish(w) PROVE Batch!Next
  <2>1. coord \in {"wait", "recheck"} /\ Holds(w)
    BY <1>4 DEF Finish, IInv, LoopInv, LoopOnlyInsideItsBatch, InLoop, Holds
  <2>2. job[w] \in JobIds /\ job[w] < total /\ job[w] < nextJob
    BY <1>4, <2>1, MaxJobsAssumption DEF Finish, IInv, ClaimInv, TypeOK, JobIds
  <2>3. runs[job[w]] = 0
    BY <2>1, <2>2 DEF IInv, DoneInv
  <2>4. Batch!Execute(job[w])
    BY <1>4, <2>1, <2>2, <2>3 DEF Finish, Batch!Execute, Phase, callerVars
  <2>5. QED BY <2>2, <2>4 DEF Batch!Next, Batch!JobIds, JobIds
<1>5. CASE Dispatch \/ SpuriousDone \/ WaitAgain \/ NotifyAll \/ Join
  <2>1. Phase' = Phase /\ UNCHANGED <<total, runs>>
    BY <1>5 DEF Dispatch, SpuriousDone, WaitAgain, NotifyAll, Join, Phase
  <2>2. QED BY <2>1, HiddenStep
<1>6. ASSUME NEW w \in Workers, LoopStep(w) \/ SpuriousStart(w)
      PROVE  [Batch!Next]_(Batch!bvars)
  <2>1. Report(w) => coord \in {"wait", "recheck"}
    BY DEF Report, IInv, LoopInv, LoopOnlyInsideItsBatch, InLoop
  <2>2. Phase' = Phase /\ UNCHANGED <<total, runs>>
    BY <1>6, <2>1
    DEF LoopStep, Sleep, Exit, Capture, Claim, Compare, Report, SpuriousStart,
        callerVars, Phase
  <2>3. QED BY <2>2, HiddenStep
<1>7. CASE UNCHANGED vars
  <2>1. Phase' = Phase /\ UNCHANGED <<total, runs>>
    BY <1>7 DEF vars, callerVars, Phase
  <2>2. QED BY <2>1, HiddenStep
<1>8. QED
  BY <1>1, <1>2, <1>3, <1>4, <1>5, <1>6, <1>7
  DEF Next, CallerStep, WorkerStep, Ended

\* The safety part of ImplementsBatch: every behaviour of the pool is one of the
\* batches BatchExecution allows, for any number of workers.
THEOREM PoolImplementsBatch == Spec => Batch!Safe
<1>1. Init => Batch!Init
  BY DEF Init, Batch!Init, Phase, Batch!JobIds, JobIds
<1>2. IInv /\ [Next]_vars => [Batch!Next]_(Batch!bvars)
  BY StepImplements
<1>3. QED BY SpecInv, <1>1, <1>2, PTL DEF Spec, Batch!Safe

-----------------------------------------------------------------------------
(***************************************************************************)
(* TraceBatch.  The arena belongs to the one worker that simulates or      *)
(* serialises with it, what it holds are that worker's entries, and a slot *)
(* is untouched until its job has got past the lease.                      *)
(***************************************************************************)

\* A worker that runs no candidate is at the beginning; only full traces are leased.
StepInv ==
  \A w \in Workers :
    /\ pc[w] # "run" => step[w] = "begin"
    /\ step[w] \in {"acquire", "serialize"} => fullTrace

\* Job j has not run, nor got to its simulation.
Fresh(j) ==
  /\ runs[j] = 0
  /\ \A w \in Workers : pc[w] = "run" /\ job[w] = j => step[w] \in {"begin", "acquire"}

FreshInv == \A j \in JobIds : Fresh(j) => slot[j].status = "unset" /\ recorded[j] = 0

\* A job that has returned, or is about to, has an outcome.
AnsweredInv ==
  /\ \A j \in JobIds : runs[j] # 0 => slot[j].status # "unset"
  /\ \A w \in Workers : pc[w] = "run" /\ step[w] = "return" => slot[job[w]].status # "unset"

\* What the lease holder finds in the arena is what its own job recorded.
ArenaInv ==
  \A w \in Workers : owner = w =>
    /\ Len(entries) = recorded[job[w]]
    /\ \A i \in 1 .. Len(entries) : entries[i] = job[w]

\* Before the first batch.
UnusedInv == batch = 0 => total = 0 /\ \A j \in JobIds : runs[j] = 0

TInv ==
  /\ TraceTypeOK /\ StepInv /\ LeaseFollowsJob /\ FreshInv /\ AnsweredInv
  /\ ArenaInv /\ TraceIsItsOwn /\ UnusedInv

-----------------------------------------------------------------------------
LEMMA TraceInitInv ==
  ASSUME TraceInit
  PROVE  TInv
<1>1. EmptySlot \in [status : {"unset", "ok", "failed"}, trace : Seq(JobIds)]
  BY DEF EmptySlot
<1>2. 0 \in 0 .. MaxEntries /\ Nobody \notin Workers
  BY MaxEntriesAssumption, NumWorkersAssumption DEF Nobody, Workers
<1>3. TraceTypeOK
  <2>1. /\ step \in [Workers -> JobSteps] /\ recorded \in [JobIds -> 0 .. MaxEntries]
        /\ slot \in [JobIds -> [status : {"unset", "ok", "failed"}, trace : Seq(JobIds)]]
    BY <1>1, <1>2 DEF TraceInit, JobSteps
  <2>2. entries \in Seq(JobIds)
    BY DEF TraceInit
  <2> QED
    BY <2>1, <2>2 DEF TraceInit, TraceTypeOK
<1>4. FreshInv
  BY DEF TraceInit, FreshInv, EmptySlot
<1> QED
  BY <1>2, <1>3, <1>4 DEF TraceInit, Init, TInv, StepInv, LeaseFollowsJob, AnsweredInv,
     ArenaInv, TraceIsItsOwn, UnusedInv

\* Every step is one of the pool, or leaves the pool alone.
LEMMA StepOfPool ==
  ASSUME [TraceNext]_allVars
  PROVE  [Next]_vars
BY DEF TraceNext, allVars, EvaluateBatch, ThreadStep, JobStep, JobReturns, At, Reject, Prepare,
   Acquire, Record, Fail, Succeed, Serialize, Next, WorkerStep

\* A new batch finds no candidate running and the arena free.
LEMMA EvaluateBatchInv ==
  ASSUME IInv, TInv, NEW n \in 1 .. MaxJobs, NEW full \in BOOLEAN, EvaluateBatch(n, full)
  PROVE  TInv'
<1>1. \A w \in Workers : pc[w] # "run" /\ pc'[w] = pc[w]
  BY DEF IInv, LoopInv, LoopOnlyInsideItsBatch, InLoop, EvaluateBatch, RunJobs, workerVars
<1>2. EmptySlot \in [status : {"unset", "ok", "failed"}, trace : Seq(JobIds)]
  BY DEF EmptySlot
<1>3. TraceTypeOK'
  BY <1>2, MaxEntriesAssumption DEF TInv, TraceTypeOK, EvaluateBatch
<1>4. StepInv' /\ LeaseFollowsJob' /\ TraceIsItsOwn'
  BY <1>1 DEF TInv, StepInv, LeaseFollowsJob, TraceIsItsOwn, EvaluateBatch
<1>5. FreshInv'
  BY DEF FreshInv, EvaluateBatch, EmptySlot
<1>6. AnsweredInv'
  BY <1>1 DEF AnsweredInv, EvaluateBatch, RunJobs
<1>7. ArenaInv'
  BY <1>1 DEF TInv, LeaseFollowsJob, ArenaInv, EvaluateBatch
<1>8. UnusedInv'
  BY DEF UnusedInv, EvaluateBatch, RunJobs, IInv, TypeOK
<1> QED
  BY <1>3, <1>4, <1>5, <1>6, <1>7, <1>8 DEF TInv

\* What the other steps of the pool leave alone: they may start a job, not end one.
LEMMA PoolLeavesJobs ==
  ASSUME IInv,
         \/ CallerStep \/ Shutdown \/ SpuriousDone \/ UNCHANGED vars
         \/ \E w \in Workers : LoopStep(w) \/ SpuriousStart(w)
  PROVE  /\ UNCHANGED <<batch, total, runs>>
         /\ \A w \in Workers : pc[w] = "run" => pc'[w] = "run"
         /\ \A w \in Workers : pc'[w] = "run" => pc[w] \in {"compare", "run"} /\ job'[w] = job[w]
<1>1. CASE CallerStep \/ Shutdown \/ SpuriousDone
  BY <1>1 DEF IInv, TypeOK, CallerStep, Dispatch, Return, WaitAgain, NotifyAll, Join, Shutdown,
     SpuriousDone, Notified, workerVars
<1>2. CASE UNCHANGED vars
  BY <1>2 DEF vars, callerVars, workerVars
<1>3. ASSUME NEW u \in Workers, LoopStep(u) \/ SpuriousStart(u)
      PROVE  /\ UNCHANGED <<batch, total, runs>>
             /\ \A w \in Workers : pc[w] = "run" => pc'[w] = "run"
             /\ \A w \in Workers : pc'[w] = "run" => pc[w] \in {"compare", "run"} /\ job'[w] = job[w]
  BY <1>3 DEF IInv, TypeOK, LoopStep, Sleep, Exit, Capture, Claim, Compare, Report, SpuriousStart,
     callerVars
<1> QED
  BY <1>1, <1>2, <1>3

LEMMA PoolInv ==
  ASSUME IInv, TInv, UNCHANGED arenaVars,
         \/ CallerStep \/ Shutdown \/ SpuriousDone \/ UNCHANGED vars
         \/ \E w \in Workers : LoopStep(w) \/ SpuriousStart(w)
  PROVE  TInv'
<1>1. /\ UNCHANGED <<batch, total, runs>>
      /\ \A w \in Workers : pc[w] = "run" => pc'[w] = "run"
      /\ \A w \in Workers : pc'[w] = "run" => pc[w] \in {"compare", "run"} /\ job'[w] = job[w]
  BY PoolLeavesJobs
<1>2. \A w \in Workers : pc'[w] = "run" /\ step[w] # "begin" => pc[w] = "run"
  BY <1>1 DEF TInv, StepInv
<1>3. UNCHANGED <<fullTrace, step, owner, entries, slot, recorded>>
  BY DEF arenaVars
<1>4. TraceTypeOK' /\ UnusedInv'
  BY <1>1, <1>3 DEF TInv, TraceTypeOK, UnusedInv
<1>5. StepInv' /\ LeaseFollowsJob'
  BY <1>1, <1>2, <1>3 DEF TInv, StepInv, LeaseFollowsJob
<1>6. FreshInv'
  BY <1>1, <1>2, <1>3 DEF TInv, FreshInv, Fresh
<1>7. AnsweredInv' /\ TraceIsItsOwn'
  BY <1>1, <1>2, <1>3 DEF TInv, AnsweredInv, TraceIsItsOwn
<1>8. ArenaInv'
  BY <1>1, <1>3 DEF TInv, LeaseFollowsJob, ArenaInv
<1> QED
  BY <1>4, <1>5, <1>6, <1>7, <1>8 DEF TInv

-----------------------------------------------------------------------------
(* execute_scenario_job: a step of worker u. *)

\* u runs the candidate job[u], which no other worker runs and which has not run.
LEMMA OwnSlot ==
  ASSUME IInv, NEW u \in Workers, pc[u] = "run"
  PROVE  /\ job[u] \in JobIds /\ runs[job[u]] = 0
         /\ \A v \in Workers : v # u /\ pc[v] = "run" => job[v] # job[u]
<1>1. coord \in {"wait", "recheck"} /\ fn = batch /\ total \in 1 .. MaxJobs
  BY DEF IInv, LoopInv, LoopOnlyInsideItsBatch, InLoop, CallerInv
<1>2. job[u] < total /\ job[u] \in Nat
  BY DEF IInv, ClaimInv, TypeOK
<1>3. job[u] \in JobIds
  BY <1>1, <1>2, MaxJobsAssumption DEF JobIds
<1>4. runs[job[u]] = 0
  BY <1>1, <1>2, <1>3 DEF IInv, ClaimInv, DoneInv, Holds
<1> QED
  BY <1>3, <1>4 DEF IInv, ClaimInv, Holds

LEMMA PrepareInv ==
  ASSUME IInv, TInv, NEW u \in Workers, Prepare(u)
  PROVE  TInv'
<1>1. /\ pc[u] = "run" /\ step[u] = "begin" /\ UNCHANGED vars
      /\ step' = [step EXCEPT ![u] = IF fullTrace THEN "acquire" ELSE "simulate"]
      /\ UNCHANGED <<fullTrace, owner, entries, slot, recorded>>
  BY DEF Prepare, At, GoTo
<1>2. UNCHANGED <<pc, job, runs, batch, total>>
  BY <1>1 DEF vars, callerVars, workerVars
<1>3. step \in [Workers -> JobSteps]
  BY DEF TInv, TraceTypeOK
<1> USE <1>1, <1>2, <1>3
<1>4. TraceTypeOK' /\ UnusedInv'
  BY DEF TInv, TraceTypeOK, JobSteps, UnusedInv
<1>5. StepInv' /\ LeaseFollowsJob'
  BY DEF TInv, StepInv, LeaseFollowsJob
<1>6. FreshInv'
  BY DEF TInv, FreshInv, Fresh
<1>7. AnsweredInv' /\ TraceIsItsOwn'
  BY DEF TInv, AnsweredInv, TraceIsItsOwn
<1>8. ArenaInv'
  BY DEF TInv, ArenaInv
<1> QED
  BY <1>4, <1>5, <1>6, <1>7, <1>8 DEF TInv

\* The arena was free, so the lease is the only one; it starts empty, as the job has
\* recorded nothing yet.
LEMMA AcquireInv ==
  ASSUME IInv, TInv, NEW u \in Workers, Acquire(u)
  PROVE  TInv'
<1>1. /\ pc[u] = "run" /\ step[u] = "acquire" /\ UNCHANGED vars
      /\ owner = Nobody /\ owner' = u /\ entries' = << >>
      /\ step' = [step EXCEPT ![u] = "simulate"]
      /\ UNCHANGED <<fullTrace, slot, recorded>>
  BY DEF Acquire, At, GoTo
<1>2. UNCHANGED <<pc, job, runs, batch, total>>
  BY <1>1 DEF vars, callerVars, workerVars
<1>3. step \in [Workers -> JobSteps]
  BY DEF TInv, TraceTypeOK
<1> USE <1>1, <1>2, <1>3
<1>4. TraceTypeOK' /\ UnusedInv'
  BY DEF TInv, TraceTypeOK, JobSteps, UnusedInv
<1>5. StepInv' /\ LeaseFollowsJob'
  <2>1. fullTrace /\ Nobody \notin Workers
    BY NumWorkersAssumption DEF TInv, StepInv, Nobody, Workers
  <2> QED
    BY <2>1 DEF TInv, StepInv, LeaseFollowsJob
<1>6. FreshInv'
  BY DEF TInv, FreshInv, Fresh
<1>7. AnsweredInv' /\ TraceIsItsOwn'
  BY DEF TInv, AnsweredInv, TraceIsItsOwn
<1>8. ArenaInv'
  <2>1. Fresh(job[u]) /\ job[u] \in JobIds
    BY OwnSlot DEF Fresh
  <2>2. recorded[job[u]] = 0
    BY <2>1 DEF TInv, FreshInv
  <2> QED
    BY <2>2 DEF ArenaInv
<1> QED
  BY <1>4, <1>5, <1>6, <1>7, <1>8 DEF TInv

LEMMA RecordInv ==
  ASSUME IInv, TInv, NEW u \in Workers, Record(u)
  PROVE  TInv'
<1>1. /\ pc[u] = "run" /\ step[u] = "simulate" /\ UNCHANGED vars
      /\ fullTrace /\ recorded[job[u]] < MaxEntries
      /\ entries' = Append(entries, job[u])
      /\ recorded' = [recorded EXCEPT ![job[u]] = @ + 1]
      /\ UNCHANGED <<fullTrace, step, owner, slot>>
  BY DEF Record, At
<1>2. UNCHANGED <<pc, job, runs, batch, total>>
  BY <1>1 DEF vars, callerVars, workerVars
<1>3. job[u] \in JobIds /\ \A v \in Workers : v # u /\ pc[v] = "run" => job[v] # job[u]
  BY <1>1, OwnSlot
<1>4. owner = u
  BY <1>1 DEF TInv, LeaseFollowsJob
<1>5. entries \in Seq(JobIds) /\ recorded \in [JobIds -> 0 .. MaxEntries]
  BY DEF TInv, TraceTypeOK
<1>6. TraceTypeOK' /\ UnusedInv'
  <2>1. entries' \in Seq(JobIds)
    BY <1>1, <1>3, <1>5
  <2>2. recorded' \in [JobIds -> 0 .. MaxEntries]
    BY <1>1, <1>3, <1>5, MaxEntriesAssumption
  <2> QED
    BY <1>1, <1>2, <2>1, <2>2 DEF TInv, TraceTypeOK, UnusedInv
<1>7. StepInv' /\ LeaseFollowsJob'
  BY <1>1, <1>2 DEF TInv, StepInv, LeaseFollowsJob
<1>8. FreshInv'
  BY <1>1, <1>2, <1>3, <1>5 DEF TInv, FreshInv, Fresh
<1>9. AnsweredInv' /\ TraceIsItsOwn'
  BY <1>1, <1>2, <1>3, <1>5 DEF TInv, AnsweredInv, TraceIsItsOwn
<1>10. ArenaInv'
  <2>1. /\ Len(entries') = Len(entries) + 1
        /\ \A i \in 1 .. Len(entries') :
             entries'[i] = IF i = Len(entries) + 1 THEN job[u] ELSE entries[i]
    BY <1>1, <1>3, <1>5
  <2>2. recorded'[job[u]] = recorded[job[u]] + 1
    BY <1>1, <1>3, <1>5
  <2>3. Len(entries) = recorded[job[u]] /\ \A i \in 1 .. Len(entries) : entries[i] = job[u]
    BY <1>4 DEF TInv, ArenaInv
  <2>4. owner' = u /\ job' = job /\ Len(entries) \in Nat
    BY <1>1, <1>2, <1>4, <1>5
  <2> QED
    BY <2>1, <2>2, <2>3, <2>4 DEF ArenaInv
<1> QED
  BY <1>6, <1>7, <1>8, <1>9, <1>10 DEF TInv

\* What TraceIsItsOwn says of the outcome a job leaves.
OwnTrace(w, status, trace) ==
  LET own == [i \in 1 .. recorded[job[w]] |-> job[w]]
  IN IF fullTrace /\ status = "ok" THEN trace = own ELSE trace \in {<<>>, own}

\* What the simulation, the serialisation and the three ways to end a job share: the
\* slot is filled and u goes on to a step other than the two before its simulation.
LEMMA FilledInv ==
  ASSUME IInv, TInv, NEW u \in Workers, pc[u] = "run", UNCHANGED vars,
         NEW status \in {"ok", "failed"}, NEW trace \in Seq(JobIds), NEW to \in {"serialize", "return"},
         Fill(u, status, trace), GoTo(u, to),
         to = "serialize" => fullTrace /\ step[u] = "simulate" /\ owner' = owner,
         to = "return" => owner' = Released(u),
         to = "return" => OwnTrace(u, status, trace),
         UNCHANGED <<fullTrace, entries, recorded>>
  PROVE  TInv'
<1>1. /\ job[u] \in JobIds /\ runs[job[u]] = 0
      /\ \A v \in Workers : v # u /\ pc[v] = "run" => job[v] # job[u]
  BY OwnSlot
<1>2. UNCHANGED <<pc, job, runs, batch, total>>
  BY DEF vars, callerVars, workerVars
<1>3. /\ step \in [Workers -> JobSteps] /\ owner \in Workers \cup {Nobody}
      /\ slot \in [JobIds -> [status : {"unset", "ok", "failed"}, trace : Seq(JobIds)]]
  BY DEF TInv, TraceTypeOK
<1>4. /\ step' = [step EXCEPT ![u] = to]
      /\ slot' = [slot EXCEPT ![job[u]] = [status |-> status, trace |-> trace]]
  BY DEF Fill, GoTo
<1>5. slot'[job[u]].status = status /\ slot'[job[u]].trace = trace /\ step'[u] = to
  BY <1>1, <1>3, <1>4
<1>6. \A j \in JobIds : j # job[u] => slot'[j] = slot[j]
  BY <1>3, <1>4
<1>7. \A v \in Workers : v # u => step'[v] = step[v]
  BY <1>3, <1>4
<1>8. Nobody \notin Workers
  BY NumWorkersAssumption DEF Nobody, Workers
<1>9. TraceTypeOK' /\ UnusedInv'
  <2>1. slot' \in [JobIds -> [status : {"unset", "ok", "failed"}, trace : Seq(JobIds)]]
    BY <1>1, <1>3, <1>4
  <2>2. step' \in [Workers -> JobSteps] /\ owner' \in Workers \cup {Nobody}
    BY <1>3, <1>4 DEF JobSteps, Released
  <2> QED
    BY <1>2, <2>1, <2>2 DEF TInv, TraceTypeOK, UnusedInv
<1>10. StepInv'
  BY <1>2, <1>5, <1>7 DEF TInv, StepInv
<1>11. LeaseFollowsJob'
  <2>1. CASE to = "serialize"
    BY <1>2, <1>5, <1>7, <2>1 DEF TInv, LeaseFollowsJob
  <2>2. CASE to = "return"
    BY <1>2, <1>3, <1>5, <1>7, <1>8, <2>2 DEF TInv, LeaseFollowsJob, Released
  <2> QED
    BY <2>1, <2>2
<1>12. FreshInv'
  <2> SUFFICES ASSUME NEW j \in JobIds, Fresh(j)' PROVE slot'[j].status = "unset" /\ recorded[j] = 0
    BY DEF FreshInv
  <2>1. j # job[u]
    BY <1>2, <1>5 DEF Fresh
  <2>2. Fresh(j)
    BY <1>2, <1>7, <2>1 DEF Fresh
  <2> QED
    BY <1>6, <2>1, <2>2 DEF TInv, FreshInv
<1>13. AnsweredInv'
  <2>1. \A j \in JobIds : runs'[j] # 0 => slot'[j].status # "unset"
    BY <1>1, <1>2, <1>6 DEF TInv, AnsweredInv
  <2>2. ASSUME NEW v \in Workers, pc'[v] = "run", step'[v] = "return"
        PROVE  slot'[job'[v]].status # "unset"
    BY <1>1, <1>2, <1>5, <1>6, <1>7, <2>2, OwnSlot DEF TInv, AnsweredInv
  <2> QED
    BY <2>1, <2>2 DEF AnsweredInv
<1>14. ArenaInv'
  BY <1>2, <1>3, <1>8 DEF TInv, ArenaInv, Released
<1>15. TraceIsItsOwn'
  <2> SUFFICES ASSUME NEW v \in Workers, pc[v] = "run", step'[v] = "return"
               PROVE  OwnTrace(v, slot'[job[v]].status, slot'[job[v]].trace)
    BY <1>2 DEF TraceIsItsOwn, OwnTrace
  <2>1. CASE v = u
    BY <1>5, <2>1
  <2>2. CASE v # u
    <3>1. slot'[job[v]] = slot[job[v]] /\ step[v] = "return"
      BY <1>1, <1>6, <1>7, <2>2, OwnSlot
    <3> QED
      BY <3>1 DEF TInv, TraceIsItsOwn, OwnTrace
  <2> QED
    BY <2>1, <2>2
<1> QED
  BY <1>9, <1>10, <1>11, <1>12, <1>13, <1>14, <1>15 DEF TInv

\* A job rejected before it leased the arena has no trace.
LEMMA RejectInv ==
  ASSUME IInv, TInv, NEW u \in Workers, Reject(u)
  PROVE  TInv'
<1>1. /\ pc[u] = "run" /\ step[u] = "begin" /\ UNCHANGED vars
      /\ Fill(u, "failed", << >>) /\ GoTo(u, "return")
      /\ UNCHANGED <<fullTrace, owner, entries, recorded>>
  BY DEF Reject, At
<1>2. owner' = Released(u)
  BY <1>1 DEF TInv, LeaseFollowsJob, Released
<1>3. << >> \in Seq(JobIds)
  OBVIOUS
<1>4. OwnTrace(u, "failed", << >>)
  BY DEF OwnTrace
<1> QED
  BY <1>1, <1>2, <1>3, <1>4, FilledInv

\* The lease is still held, so the buffer holds the job's own entries.
LEMMA ArenaIsOwn ==
  ASSUME TInv, NEW u \in Workers, pc[u] = "run", step[u] = "serialize"
  PROVE  /\ fullTrace /\ entries \in Seq(JobIds)
         /\ entries = [i \in 1 .. recorded[job[u]] |-> job[u]]
<1>1. fullTrace /\ owner = u /\ entries \in Seq(JobIds)
  BY DEF TInv, StepInv, LeaseFollowsJob, TraceTypeOK
<1> QED
  BY <1>1 DEF TInv, ArenaInv

\* A job that fails has no trace, or the one that was serialised before its actions.
LEMMA FailInv ==
  ASSUME IInv, TInv, NEW u \in Workers, Fail(u)
  PROVE  TInv'
<1>1. /\ pc[u] = "run" /\ UNCHANGED vars
      /\ GoTo(u, "return") /\ owner' = Released(u)
      /\ UNCHANGED <<fullTrace, entries, recorded>>
  BY DEF Fail, At
<1>2. PICK t \in Seq(JobIds) : Fill(u, "failed", t) /\ OwnTrace(u, "failed", t)
  <2>1. << >> \in Seq(JobIds) /\ OwnTrace(u, "failed", << >>)
    BY DEF OwnTrace
  <2>2. CASE Fill(u, "failed", << >>)
    BY <2>1, <2>2
  <2>3. CASE step[u] = "serialize" /\ Fill(u, "failed", entries)
    BY <1>1, <2>3, ArenaIsOwn DEF OwnTrace
  <2> QED
    BY <2>2, <2>3 DEF Fail, At
<1> QED
  BY <1>1, <1>2, FilledInv

LEMMA SucceedInv ==
  ASSUME IInv, TInv, NEW u \in Workers, Succeed(u)
  PROVE  TInv'
<1>1. /\ pc[u] = "run" /\ step[u] = "simulate" /\ UNCHANGED vars
      /\ Fill(u, "ok", << >>) /\ GoTo(u, IF fullTrace THEN "serialize" ELSE "return")
      /\ UNCHANGED <<fullTrace, owner, entries, recorded>>
  BY DEF Succeed, At
<1>2. << >> \in Seq(JobIds)
  OBVIOUS
<1>3. CASE fullTrace
  BY <1>1, <1>2, <1>3, FilledInv
<1>4. CASE ~fullTrace
  <2>1. owner' = Released(u)
    BY <1>1, <1>4 DEF TInv, LeaseFollowsJob, Released
  <2>2. OwnTrace(u, "ok", << >>)
    BY <1>4 DEF OwnTrace
  <2> QED
    BY <1>1, <1>2, <1>4, <2>1, <2>2, FilledInv DEF TInv, TraceTypeOK
<1> QED
  BY <1>3, <1>4

\* The buffer that is published is the job's own.
LEMMA SerializeInv ==
  ASSUME IInv, TInv, NEW u \in Workers, Serialize(u)
  PROVE  TInv'
<1>1. /\ pc[u] = "run" /\ step[u] = "serialize" /\ UNCHANGED vars
      /\ Fill(u, "ok", entries) /\ GoTo(u, "return") /\ owner' = Released(u)
      /\ UNCHANGED <<fullTrace, entries, recorded>>
  BY DEF Serialize, At
<1>2. OwnTrace(u, "ok", entries) /\ entries \in Seq(JobIds)
  BY <1>1, ArenaIsOwn DEF OwnTrace
<1> QED
  BY <1>1, <1>2, FilledInv

\* The job counts as run; it has had its outcome since before it returned.
LEMMA JobReturnsInv ==
  ASSUME IInv, TInv, NEW u \in Workers, JobReturns(u)
  PROVE  TInv'
<1>1. /\ pc[u] = "run" /\ step[u] = "return"
      /\ runs' = [runs EXCEPT ![job[u]] = @ + 1] /\ pc' = [pc EXCEPT ![u] = "claim"]
      /\ step' = [step EXCEPT ![u] = "begin"]
      /\ UNCHANGED <<job, batch, total, fullTrace, owner, entries, slot, recorded>>
  BY DEF JobReturns, Finish, GoTo, callerVars
<1>2. /\ job[u] \in JobIds /\ runs[job[u]] = 0
      /\ \A v \in Workers : v # u /\ pc[v] = "run" => job[v] # job[u]
  BY <1>1, OwnSlot
<1>3. step \in [Workers -> JobSteps] /\ pc \in [Workers -> WorkerStates] /\ runs \in [JobIds -> Nat]
  BY DEF IInv, TypeOK, TInv, TraceTypeOK
<1>4. owner # u
  BY <1>1 DEF TInv, LeaseFollowsJob
<1>5. runs'[job[u]] = 1 /\ \A j \in JobIds : j # job[u] => runs'[j] = runs[j]
  BY <1>1, <1>2, <1>3
<1>6. /\ pc'[u] = "claim" /\ step'[u] = "begin"
      /\ \A v \in Workers : v # u => pc'[v] = pc[v] /\ step'[v] = step[v]
  BY <1>1, <1>3
<1>7. TraceTypeOK'
  BY <1>1, <1>3 DEF TInv, TraceTypeOK, JobSteps
<1>8. StepInv' /\ LeaseFollowsJob'
  BY <1>1, <1>4, <1>6 DEF TInv, StepInv, LeaseFollowsJob
<1>9. FreshInv'
  <2> SUFFICES ASSUME NEW j \in JobIds, Fresh(j)' PROVE slot[j].status = "unset" /\ recorded[j] = 0
    BY <1>1 DEF FreshInv
  <2>1. j # job[u]
    BY <1>5 DEF Fresh
  <2>2. Fresh(j)
    BY <1>1, <1>5, <1>6, <2>1 DEF Fresh
  <2> QED
    BY <2>2 DEF TInv, FreshInv
<1>10. AnsweredInv'
  BY <1>1, <1>5, <1>6 DEF TInv, AnsweredInv
<1>11. ArenaInv' /\ TraceIsItsOwn'
  BY <1>1, <1>6 DEF TInv, ArenaInv, TraceIsItsOwn
<1>12. UnusedInv'
  <2>1. total \in 1 .. MaxJobs
    BY <1>1 DEF IInv, LoopInv, LoopOnlyInsideItsBatch, InLoop, CallerInv
  <2> QED
    BY <1>1, <2>1 DEF TInv, UnusedInv
<1> QED
  BY <1>7, <1>8, <1>9, <1>10, <1>11, <1>12 DEF TInv

-----------------------------------------------------------------------------
LEMMA TraceStepInv ==
  ASSUME IInv, TInv, [TraceNext]_allVars
  PROVE  TInv'
<1>1. ASSUME NEW u \in Workers, ThreadStep(u) PROVE TInv'
  BY <1>1, RejectInv, PrepareInv, AcquireInv, RecordInv, FailInv, SucceedInv, SerializeInv,
     JobReturnsInv, PoolInv DEF ThreadStep, JobStep
<1>2. CASE UNCHANGED allVars \/ (Ended /\ UNCHANGED arenaVars)
  BY <1>2, PoolInv DEF allVars, Ended
<1> QED
  BY <1>1, <1>2, EvaluateBatchInv, PoolInv DEF TraceNext

LEMMA TraceInvariance == TraceSpec => [](IInv /\ TInv)
<1>1. TraceInit => IInv /\ TInv
  BY InitInv, TraceInitInv DEF TraceInit
<1>2. IInv /\ TInv /\ [TraceNext]_allVars => IInv' /\ TInv'
  BY StepOfPool, NextInv, TraceStepInv
<1> QED
  BY <1>1, <1>2, PTL DEF TraceSpec

\* A published trace holds what its own candidate recorded, all of it and nothing else,
\* whoever shared the arena (TraceArena, trace.hpp; execute_scenario_job).
THEOREM TracesDoNotMix == TraceSpec => []TraceIsItsOwn
<1>1. TInv => TraceIsItsOwn
  BY DEF TInv
<1> QED
  BY <1>1, TraceInvariance, PTL

\* The arena is held exactly while its job simulates or serialises: no way out of a job
\* leaves it locked (TraceArena::Lease).
THEOREM LeaseIsScoped == TraceSpec => []LeaseFollowsJob
<1>1. TInv => LeaseFollowsJob
  BY DEF TInv
<1> QED
  BY <1>1, TraceInvariance, PTL

\* When evaluate_batch_candidates returns, exactly the candidates of its batch have an
\* outcome, success or failure.
THEOREM CandidatesAnswered == TraceSpec => []EveryCandidateAnswered
<1>1. ASSUME IInv, TInv, coord = "idle", NEW j \in JobIds
      PROVE  slot[j].status = "unset" <=> j >= total
  <2>1. \A w \in Workers : pc[w] # "run"
    BY <1>1 DEF IInv, LoopInv, LoopOnlyInsideItsBatch, InLoop
  <2>2. total \in Nat /\ j \in Nat /\ batch \in Nat
    BY <1>1, MaxJobsAssumption DEF IInv, TypeOK, JobIds
  <2>3. runs[j] = IF j < total THEN 1 ELSE 0
    BY <1>1, <2>2 DEF IInv, ReturnedBatchComplete, TInv, UnusedInv
  <2>4. CASE j < total
    BY <1>1, <2>2, <2>3, <2>4 DEF TInv, AnsweredInv
  <2>5. CASE ~(j < total)
    BY <1>1, <2>1, <2>2, <2>3, <2>5 DEF TInv, FreshInv, Fresh
  <2> QED
    BY <2>4, <2>5, <2>2
<1>2. IInv /\ TInv => EveryCandidateAnswered
  BY <1>1 DEF EveryCandidateAnswered
<1> QED
  BY <1>2, TraceInvariance, PTL

\* Worker w sleeps, is gone, or queues for an arena that somebody holds.
Blocked(w) ==
  \/ pc[w] \in {"wait", "exit"}
  \/ pc[w] = "run" /\ step[w] = "acquire" /\ owner # Nobody

\* While the caller sleeps some worker it waits for can go on; while it joins, no
\* worker sleeps or is inside a batch.
NeverStuck ==
  /\ coord = "wait" => \E w \in Workers : Owes(w) /\ ~Blocked(w)
  /\ coord = "joining" => \A w \in Workers : pc[w] \in {"top", "exit"}

\* What BatchReturns and ShutdownJoins need of every state: no notification is lost,
\* nobody waits for a sleeper, and the arena's holder is never one that waits for it
\* (run_jobs, worker_loop, ~WorkerPool, TraceArena::acquire).
THEOREM NobodyWaitsForASleeper == TraceSpec => []NeverStuck
<1>1. ASSUME IInv, TInv, AwakeInv, coord = "wait" PROVE \E w \in Workers : Owes(w) /\ ~Blocked(w)
  <2>1. Cardinality(Debtors) > 0
    BY <1>1 DEF IInv, BarrierExact, AwakeInv
  <2>2. Debtors # {}
    BY <2>1, FS_EmptySet
  <2>3. PICK w \in Workers : Owes(w)
    BY <2>2 DEF Debtors
  <2>4. ~stop
    BY <1>1 DEF IInv, CallerInv
  <2>5. \A v \in Workers : Owes(v) => pc[v] \notin {"wait", "exit"}
    BY <1>1, <2>4 DEF AwakeInv
  <2>6. CASE Blocked(w)
    <3>1. owner \in Workers
      BY <1>1, <2>3, <2>5, <2>6 DEF Blocked, TInv, TraceTypeOK
    <3>2. pc[owner] = "run" /\ step[owner] \in {"simulate", "serialize"}
      BY <1>1, <3>1 DEF TInv, LeaseFollowsJob
    <3>3. Owes(owner)
      BY <1>1, <3>1, <3>2 DEF Owes, InLoop, IInv, LoopInv
    <3>4. ~Blocked(owner)
      BY <3>2 DEF Blocked
    <3> QED
      BY <3>1, <3>3, <3>4
  <2> QED
    BY <2>3, <2>6
<1>2. ASSUME IInv, AwakeInv, coord = "joining", NEW w \in Workers PROVE pc[w] \in {"top", "exit"}
  <2>1. pc[w] \in WorkerStates /\ pc[w] # "wait" /\ ~InLoop(w)
    BY <1>2 DEF IInv, TypeOK, AwakeInv, LoopInv, LoopOnlyInsideItsBatch
  <2> QED
    BY <2>1 DEF WorkerStates, InLoop
<1>3. IInv /\ TInv /\ AwakeInv => NeverStuck
  BY <1>1, <1>2 DEF NeverStuck
<1>4. TraceInit => AwakeInv
  BY InitAwake DEF TraceInit
<1>5. IInv /\ AwakeInv /\ [TraceNext]_allVars => AwakeInv'
  BY StepOfPool, NextAwake
<1> QED
  BY <1>3, <1>4, <1>5, TraceInvariance, PTL DEF TraceSpec
=============================================================================
