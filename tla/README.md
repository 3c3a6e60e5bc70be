# A TLA+ model of the fx-arb-harness evaluator

This directory models the evaluator of this repository: a C++ process that
replays market tapes against a Curve Twocrypto pool, and the Python client that
drives it. The modules follow the code under `src/`; `PROJECT.json` gives, for
every definition, the lines it stands for. TLC checks the modules on small
instances and TLAPS proves the most important properties for every instance.

## 1. The system

One evaluator process serves one client over stdin and stdout, one JSON frame
per line. It opens at most one session (market tape, pool, scenario), may
register one grid of candidates, and evaluates batches. A batch fans out over a
pool of threads; each job builds its own simulation pool and runs the event loop
over the shared immutable tape. Only the thread pool, the result slots and one
trace arena are shared between threads.

| Part | State | Operations | Talks to |
| --- | --- | --- | --- |
| Worker pool (`evaluator_core.cpp`) | job function, generation, job counter, workers remaining, stop flag, `mu_`, one condition variable per worker | `run_jobs`, `worker_loop`, destructor | called by batch evaluation, calls jobs |
| Batch evaluation, trace arena (`evaluator_core.cpp`, `trace.hpp`) | result slots, arena buffers under one mutex | `evaluate_batch_candidates`, `execute_scenario_job`, `TraceArena::acquire` | worker pool, event loop, server |
| Evaluator server (`main.cpp`) | session, its grid, the one-shot admission flag, sidecar files | hello, `open_session`, `register_grid`, `evaluate_batch`, `close_session`, `shutdown` | client by frames, file system |
| Python client (`client.py`) | process handle, verified identity, current session id, selector and read buffer, lock | `start`, `open_session`, `register_grid`, `evaluate_batch`, `close_session`, `shutdown` | server by frames, process signals |
| Event loop (`event_loop.hpp`) | cached spot price, cached YieldBasis band, due times of donation, user swap and idle tick, metric clocks, cursor | an event: donation, native arbitrage, YB fill, user swap, idle tick, samples; the jump to the next event | pool SDK, YB actor, metrics |
| YieldBasis 2L actor (`yb_2l.hpp`) | ledger of collateral, debt, cash, minted, redeemed, collected interest | `try_fire` (a route of up to five legs), `may_trade`, `no_trade_band` | event loop, pool |
| Metrics (`metrics.hpp`) | queue and ring of samples, ring of hourly buckets | `sample*` at each event, closing summaries | event loop |
| Market tapes, price feed, scenario store (`events.cpp`, `candle_tape.cpp`, `block_tape.cpp`, `price_feed.cpp`, `scenario_store.cpp`) | events, reports and their index, immutable once loaded | `ScenarioStore::load` | server, event loop |
| Report selection (`report_window.hpp`) | none | windows by age, count, offset and draw over the feed | policies in the event loop |
| Pool configuration, compiled grid (`pool_config_parse.hpp`, `compiled_grid.hpp`) | template, axes and strides, immutable | parse and overlay entries, decode ordinals, check ranges | server, candidate runner |
| Candidate runner (`runner.hpp`, `pool_init.hpp`, `restore_public.hpp`) | none between candidates | merge start and checkpoint, anchor the price, restore, run | batch evaluation, event loop |
| Native arbitrageur (`arbitrageur.hpp`, `swap_preview_cache.hpp`, `execute_arb`) | preview cache of one event | size a trade, compare report contexts, commit | event loop, pool |
| Numeric archives, action and trace logging, client models | none of interest | parsing and formatting | their callers |
| Twocrypto pool SDK | the pool (submodule, not in this tree) | exchange, liquidity, donation, tick | event loop, arbitrageur, YB actor |

What is hard here, and what makes each part correct:

- *Worker pool.* `total_` and `next_job_` are read without the mutex, the caller
  returns on a count of workers rather than of jobs, and a thread may sleep
  through a whole batch. Correct: each index runs once, in its own batch, before
  `run_jobs` returns; the barrier count is exact; destruction joins.
- *Batch evaluation.* One arena for all traces, jobs that reject or throw at any
  place. Correct: a trace holds its own job's entries, the lease follows the
  job, every slot is filled, and the queue at the arena cannot block the batch.
- *Server.* Requests are pipelined, and checks precede and follow state changes.
  Correct: one reply per request in order, one session per process, a fixed
  grid, replies (errors among them) that tell the truth about the session, results
  paired with candidates. Its sidecars are written through temporaries that may
  fail at each step; a failed batch leaves nothing else's file changed.
- *Client.* Late replies, read-ahead that `select` does not see, writes and partial
  lines that block without a time limit, a process that dies or is of the wrong
  build. Correct: a reply is taken for its own request only, client and server agree
  on the session, calls return, shutdown ends the process.
- *Event loop.* The fast cursor skips events on the word of cached gates and
  one deadline, while five kinds of transitions move the pool. Correct: an event
  is skipped only if the scalar loop would have done nothing there.
- *YB actor.* A route mutates pool and ledger in several legs and re-decides in
  between. Correct: it happens as a whole or not at all, and books, cash and
  collateral agree.
- *Native arbitrageur.* A search under a budget that several phases share gives
  up ranges of sizes unseen, answers quotes from a cache with colliding slots,
  and repeats itself under other contexts. Correct: what it gives up loses, what
  it answers is the best it saw, the cache is of the present pool, and what is
  committed was sized in the context it is committed in.
- *Loading a market.* Bins, carried prices, exclusions and a feed attached by a
  cursor that never goes back. Correct: no price from the future, no event inside an
  exclusion and none left out outside, windows of reports with exact ends.
- *Candidates.* Start, checkpoint and YB state may each come from session,
  template, grid or candidate, and meet only in the run. Correct: an ordinal
  means the same candidate in every range, and all parts of a run begin at one
  moment.
- *Metrics.* Ring buffers reused modulo their size under irregular gaps.
  Correct: windows are measured from the right baseline, sums are of what was.

`PROJECT.json` lists the hazards behind these points at the line where each
bites, with the properties that would notice.

## 2. The modules

| Module | Code | Role |
| --- | --- | --- |
| `BatchExecution` | promise of `run_jobs` | abstract: a batch opens, each index runs once, the batch closes |
| `WorkerPool` | `WorkerPool` in `evaluator_core.cpp` | detailed; implements `BatchExecution` |
| `TraceBatch` | `evaluate_batch_candidates`, `execute_scenario_job`, `TraceArena` | extends `WorkerPool`: what a job does between its claim and its return |
| `BatchProofs` | | proofs about `WorkerPool` and `TraceBatch` |
| `EvaluatorServer` | `main.cpp`, serve mode | the request loop and all its handlers |
| `Sidecars` | `write_atomic_file`, sidecar part of `handle_evaluate_batch` | the two files of a full-trace candidate on disk |
| `SidecarsProofs` | | proofs about `Sidecars` |
| `EvaluatorClient` | `client.py` | extends `EvaluatorServer`: the client with the processes it spawns |
| `EvaluatorProofs` | | proofs about `EvaluatorServer` and about the composition |
| `EventLoop` | `run_event_loop_impl` and the schedules | one simulation, scalar or fast cursor |
| `EventLoopProofs` | | proofs about `EventLoop` |
| `TradeSizing` | `decide_trade`, preview cache | the search for the size of one trade |
| `ArbDecision` | `execute_arb`, its skip test | extends `TradeSizing`: the contexts that are compared at one event |
| `ArbDecisionProofs` | | proofs about both |
| `MarketTape` | `ScenarioStore::load` and what it calls | a market from its files to its events |
| `ReportWindow` | `report_window.hpp` | extends `MarketTape`: the four selections of reports |
| `CompiledGrid` | `compiled_grid.hpp`, `pool_config_parse.hpp` | a grid, its ordinals and the overrides they mean |
| `CandidateRun` | `open_session`'s checks, `execute_scenario_job`, `run_single_pool` | extends both: a session and its candidates up to the event loop |
| `CandidateRunProofs` | | proofs about the four: market, windows, grid, starts |
| `YbLedger` | promise of `try_fire` | abstract: accrual of interest, and whole fills |
| `Yb2LActor` | `yb_2l.hpp` | the route leg by leg; implements `YbLedger` |
| `Yb2LActorProofs` | | proofs about `Yb2LActor` |
| `RollingWindow`, `SampleRing`, `PriceErrorBuckets` | `metrics.hpp` | the three windowed measures; the ring implements the queue |
| `MetricWindows` | `sample_net_apy`, `sample_pre_trade` | composes the three as the loop feeds them |
| `MetricWindowsProofs` | | proofs about the three in that composition |

`MC*` modules and the `.cfg` files give the constants their values. A definition
whose comment begins "Mutant of" is a plausible bug of the definition it names;
no specification uses it, and with it in place the named property fails.

### How they follow the code

**WorkerPool.** One variable per member of the class; `pc[w]` is where a thread
is in `worker_loop`, `coord` where the owner is in `run_jobs` or the destructor.
A worker's critical section is one step. `run_jobs` writes under the mutex, but
workers read two of its variables without it, so its writes are two steps and
the mutex stays taken between them (`MutexFree`). Reading the counter
(`Claim`), comparing it with `total_` (`Compare`) and running (`Finish`) are
separate steps. Waits re-evaluate their predicates, and may wake for no reason.
The branches for an empty pool and an empty batch are left out: no caller
reaches them (`configure_worker_count` rejects 0, the server an empty batch).

**TraceBatch.** The steps of `WorkerPool` with a job in place of `Finish`:
prepare, perhaps lease the arena, record, succeed or fail, serialise, fill the
slot. A trace is the sequence of the jobs its entries came from. A job that fails
after its trace was serialised leaves it in the slot; `handle_evaluate_batch` sends
traces of successes only. An exception that is no `std::exception` ends the process
and is the end of a behaviour.

**EvaluatorServer.** `Checks` gives each request type its checks in the order
of the code, each with its error; `Handle` is a whole handler with its reply.
Requests carry the flaws that the checks look for, one name per group of checks
with the same place and consequence. Loading may fail, and an exception that no
handler catches ends the process (`Escape`). An unsafe scenario id, a flaw of
the loaded pool, is drawn with the batch that meets it. The flaw "reply" is an
exception while the reply is built, when the handler has changed what it changes:
in `open_session` that is inside the `try` (`main.cpp:588-612`), and the session is
reported as failed although it is installed (`halfOpen`); in the other handlers it
ends the process. `told` is what a peer knows from the replies alone.

**Sidecars.** One candidate's trace and action files: open, write, rename,
failure of each, cleanup, death of the process. A file is known by the batch that
wrote it and by whether it is complete.

**EvaluatorClient.** A call holds the lock to its end, so its steps are its
waits: for the hello frame, for the pipe to take a frame, for a reply, for the
process to exit. `stdout` and `buf` separate what the selector sees from what an
earlier `readline` has pulled in, and `writing` says that of the last line only a
part has been written: `select` returns for the part, and `readline` then waits for
the rest with no time limit, until the evaluator writes it or dies (a line that is
cut off by a death is no frame). A write waits with no time limit too: a process that
reads takes the frame at once, any other one whenever the pipe has room for it. A
time limit may expire whenever the thing waited for is not there, because nothing
bounds the evaluator's work. As in the code, a time-out leaves the process and its
late reply in place, and later calls may go on; `desynced` remembers that, and
`TimeoutFailsClosed` says that none of them succeeds on that process, so a late reply
is never taken for another's. `shutdown` writes its frame, waits two seconds for the
exit (`Exited`) or kills (`Kill`), and lets the process go; `kill` only sends a
signal, and the process dies at some time after it. An interrupt from the keyboard
during that wait, which would skip the kill, is left out.

**EventLoop.** The pool is what the gates read: a spot price and the edge of the
YB market on one integer grid, and the time of the last touch. A committed
transition may move both anywhere, so the proofs do not depend on how the pool
prices. `phase` walks through an event in the code's order. `geo` and `band` are
the caches, `Deadlines` the mandatory times, `Skip` and `Visit` the two outcomes
of looking ahead. A donation period of 0, which is what a frequency below one
second is truncated to, donates at every event. Left out: policies that take swap
reports (what they change is the arbitrageur's decision and its skip test, which
are `ArbDecision`'s), events without a positive price, slippage probes, the trace
rows. The direction of a user swap and what a trade earns make no difference to
the loop. `yb` is one of three: "off", with donations; "levamm", where the actor
trades; and "none" (`yb_arb = none`), where donations are off and the actor is
sampled but never trades. `Sampled` has the early returns of the two samplers: a
clock that is due may stay where it is.

**TradeSizing.** Sizes are the points of a geometric grid, so that the factors of
the code (3 up and down the ladder, 2, 1.5, 1.15 and 1.05 around the fee dip) are
distances. What a size earns is a table, and the envelope that caps the search any
that is positive wherever a size profits. `phase` walks through `decide_trade`:
gate, cap, ladder, probe, refinement, dip, basin, dust. The seed of the ladder and
the step of a refinement (parabola or golden section) are open choices within
their bounds; `evals` counts quotes as the code does. The cache is a function of
slots; a preview holds the swap it was made for.

**ArbDecision.** `ExecuteArb` begins an event, `Consider` compares the decision
of one context with the best so far, `Finish` commits or records. `MayAct` is the
test by which the fast cursor skips an event with reports.

**MarketTape.** Loading, phase by phase: rows with their checks and their range,
the regular clock, one event per bin or block, exclusions, the feed, its
attachment, the index of reports; `Refuse` is every throw, after which nothing is
kept. Times are whole seconds, a price is a number or 0 for none. `TapeExact` has a
reference definition for either kind of tape: the trusted bins of candles, and the
blocks whose window of a row meets no exclusion.

**CompiledGrid.** A JSON object is a function on the fields present, so that
`Overlay` lets the fields of a patch win and masks are domains. `Typed` reads an
entry, with times in milliseconds brought to seconds. `GridValid` has the checks of `compile`, `RangesOk` those of
the ranges; `Materialize` is one round of `materialize_ranges`.

**CandidateRun.** `Load`, `OpenSession`, `RegisterGrid`, `EvaluateBatch`, and one
step per candidate: `RunPool` up to its first event, or `FailCandidate` for a
throw anywhere in the job. `Effective` is the pool that a job merges; `Anchor` and `BalancedAt` the
price it opens at.

**Yb2LActor.** Quantities are integers. `Choose` and `ChooseAgain` are the two
decisions of `try_fire`; a fill is any that `propose_fill`'s limits admit, so
nothing depends on how it is sized. An add mints its target up to a slip and is
accepted up to `Tol`, `lp_reconciliation_tolerance`. `Refuse` is every early
exit after the snapshot, with `rollback_route`. A ledger with more minted than
is owed or redeemed, which the checkpoint's validation admits but the contract
cannot produce, is excluded by `LedgersAssumption`. A killed ledger never acts.

**Metrics.** A sample is its timestamp; growth is "finite and positive" or not.
`PriceErrorBuckets` keeps a history of the distance in every second, against
which the bucket sums are compared. Non-finite logarithms of finite ratios are
left out.

## 3. What TLC checks

| Run | Question | Bounds and why they are enough |
| --- | --- | --- |
| `trace` | Is the pool batch execution, under every interleaving and spurious wake-up? Does shutdown join? Do traces mix, does the lease leak, is every candidate answered, does the batch return? | 2 workers, up to 3 candidates, 2 batches, 1 entry: more and fewer jobs than participants, a worker that sleeps through a batch into the next, contention for the arena, a lease reused by a later batch |
| `server` | Order of replies, what replies tell, admission, grid, results | 5 requests out of about thirty kinds, 2 in flight: open, register, batch, close and a second open in one behaviour |
| `server_errors` | Is invalid input survived? (violated) | 3 requests |
| `client` | Late replies, agreement on the session, termination of calls and of processes | 4 calls of eleven kinds over any number of processes that time out, stop in a line, do not read, die or mismatch: open, a call that times out, one that meets its late reply, shutdown |
| `client_identity` | Is what is used after `start` verified? (violated) | 3 calls |
| `loop` | Are skips quiet, caches fresh, is the endpoint visited? | 3 tapes of 5 or 6 events, regular, with gaps longer than every period and with a start before the first event, 4 prices, donation periods 0 and 3, both cursors, YB off, sampled and trading |
| `arb` | Budget, bracket, cap, best answer, preview cache, dust, best context, skip test | a grid of 73 sizes with 4 points to a factor of 3; budgets of 14 quotes, 9 rungs down and 11 in all instead of 24, 14 and 20, so that a ladder that starts at an end exhausts each of them; profits with one and two peaks, edges in both directions, up to 2 reports in the four ways of offering them, 2 slots for the previews, so that they collide |
| `candidate` | Tape, feed, windows, ordinals, starts | sessions of three families that vary the market (5 rows, 4 reports, cuts at every kind of place), the origin of start and checkpoint (17 templates, 14 overrides, 8 YB states), and the grid (up to 3 axes, 8 ordinals, 10 ways to ask for ranges); 1000 stands for the 10^10 above which a time is in milliseconds, 8 for the 2^32 ordinals of a grid |
| `yb` | Is a route one fill or nothing, do books and collateral agree? | 3 ledgers (fresh; no cash with interest pending; interest collected and not given), 5 supplies, slips -2..2 with 1 accepted, 2 fills, so that one fill starts from the gap another left |
| `windows` | Windows, buckets and ring under every sequence of event times | 11 time units with windows of 4 and 5: buckets and slots are reused twice and gaps exceed a window |
| `sidecars` | Do replies name their files, what does a failed batch leave, contents included? | 3 batches, so one finds what two others left |
| `sidecars_short` | Are named files whole? (violated) | 1 batch |

Every property of a passing run has a mutant in `PROJECT.json`.
`CHECK_DEADLOCK FALSE` stands where the system may stop: a peer that sends
nothing more, a client that makes no further call, an actor or a metric when no
time is left, a session that failed to load (opening another one is
`EvaluatorServer`'s). `TraceBatch`, `EventLoop` and `ArbDecision` are checked for
deadlock; the first two have an explicit final state.

**Fairness.** `TraceBatch`, like `WorkerPool` by itself, assumes that a thread that can take a
step eventually does, and weak fairness extends to locks because each is taken
finitely often in a batch; spurious wake-ups and the decision to start a batch
or to shut down are not fair. `EvaluatorClient` assumes that a call that can go
on does, which includes that its time limits expire; that an evaluator which is in
`getline` with nothing left to read takes what is written to it; that a line of which
a part is written is written to its end while the client reads; and that a killed
process dies. The evaluator owes nothing else: it need not start, answer or exit, and
one that does not read need not be given room in the pipe. Under that `CallsReturn`
and `ShutdownEnds` hold with one exception that both name: a call that has to write
to a process which an earlier call gave up on may block for ever (`client.py:198`),
with the lock held, because the evaluator hangs with a full pipe or is itself blocked
in writing the reply that nobody came back for. A process that has not been given up
on has answered all it was asked, so there the write cannot block. The other
specifications state safety and have no fairness.

### What does not hold

Five statements of documentation or comments are not true of the code; each has an
entry under `findings`. TLC finds the first three violated; the last two are refuted by
a property that holds.

1. *Invalid input ends the process.* `write_atomic_file` calls the throwing
   `create_directories` and no handler catches (`main.cpp:278`), while the
   protocol promises that such errors are reported (`server_errors`).
2. *A truncated sidecar is reported as written.* The stream is not looked at
   after write and flush (`main.cpp:286`), and the README calls the sidecars
   atomic (`sidecars_short`).
3. *An unverified process is used.* `start` is documented to verify the evaluator.
   When it ends in a mismatch the process is kept, and `open_session`, which verifies
   only a process it starts itself, then succeeds on it (`client.py:119`,
   `client_identity`).
4. *Excluded prices leak.* The protocol says that they cannot
   (`protocol_spec.md:151`). A block is omitted if its own row's window meets an
   exclusion (`block_tape.cpp:81`), but a row's price is the last trade before it,
   however old. The events are exactly the blocks of a clear window (`TapeExact`, run
   `candidate`), so if nothing was traded since, the first block after an exclusion is
   among them at a price that was traded inside; the last tape of `BlockMarkets` is
   such a case. By the same property candle tapes do not leak.
5. *The last event is never omitted.* The comment at `event_loop.hpp:875` says that
   the fast cursor may omit it; `next_mandatory_ts` starts from `t_end`
   (`event_loop.hpp:539`, with a comment of its own), so it is always visited.
   The first comment is stale; the code does what the other one asks
   (`EndsAtLastVisited`, run `loop`).

Smaller observations, for which there is no statement that a run could hold against
the code:

- An `open_session` that runs out of memory after its session was installed is
  reported as failed, and the peer cannot open another one: `RepliesTellTheState`
  and `SessionsAgree` name that exception.
- A batch whose trace has replaced an earlier one and whose actions then fail leaves
  its trace beside the earlier actions, and a reply that names neither
  (`main.cpp:1090`); `FailureLeavesOwnTrace` says that this is all it leaves.
- The arbitrageur's gate is read before the donation of the same event and used
  after it (`event_loop.hpp:772`), so a trade that only the donation makes
  profitable waits for the next event.
- Without a checkpoint a session's market is loaded from its own start, so a fresh
  pool with a later `start_timestamp` meets events from before its clock, at the price
  of an event from after it; the run processes them. `StartsAtOneMoment` has that as
  its one exception, for sessions that name no start.
- A donation that is due advances its schedule by one period, so after a gap each
  event makes up one missed period until the schedule has caught up; the comment
  at `donation.hpp:51` calls this "no catch-up".

## 4. What is proved

TLAPS checks the proofs for every value of the constants that satisfies the
named assumptions of the modules.

**BatchProofs, the pool.** Any number of workers, jobs and batches. `TypeCorrect`,
`LoopIsSafe`, `BarrierCorrect`, `OneWriterPerSlot`, `ReturnedBatchIsComplete`,
and `PoolImplementsBatch`, the safety part of the refinement. The properties are
not inductive alone: that the barrier is exact depends on where each worker's
last generation stands, and that a returned batch is complete on what has been
claimed below `next_job_`. The inductive invariant `IInv` joins them: while the
caller waits, the number of debtors is the count, every worker in the loop is of
the present generation, every claimed index is held by exactly one worker or was
run once, and every worker that has reported saw the counter pass `total_`.

**BatchProofs, the arena.** Any number of workers, candidates, batches and entries.
`TracesDoNotMix`, `LeaseIsScoped`, `CandidatesAnswered`. The pool's invariant is
kept because every step is one of the pool or leaves its variables alone. On top
of it: the arena is held by exactly the one worker that simulates or serialises a
full trace, its entries are that worker's, and a slot is untouched until its job
is past the lease. `NobodyWaitsForASleeper` is the part of liveness that is a
statement about states: a caller asleep is owed a report by a worker that is
awake and not queueing for a held arena, and a destructor that joins finds no
worker asleep. Its invariant, `AwakeInv`, says that a worker that owes a report
is never asleep and that the count is positive whenever the caller is.

**EvaluatorProofs, the server.** Any requests and bounds. `RepliesPairUp`,
`OneSession`, `RepliesAreTrue`, `ResultsBelong`. The invariant says that the
frames in the two pipes are numbered without a gap up to the last one sent (a reply
to unreadable input has no number), that a session implies that one was opened, and
that what the replies tell is the session's state or, once an `open_session` was
reported as failed with its session installed, less than it; what a verdict of "ok" tells of the individual checks is a lemma about the first
failing check of a list. That the results of a batch are strictly ordered needs that
distinct ordinals can be sorted at all: each is put at the place that the number of
those not greater gives it.

**EvaluatorProofs, the client.** Any requests, any number of calls and processes.
`SessionsStayAgreed`, `LateRepliesAreRefused`. What a
process has written and the client not read is one sequence, whatever part of it
`readline` has pulled into its buffer. As long as no call has given up on the
process, the pipes are empty between calls (`QuietInv`) and hold the request or
its one reply during one (`BusyInv`); a reply changes the client's session as the
request changed the server's. Once a call has given up there is always a line too
many (`LagInv`), so by the numbering of the frames the first line is never the
reply to the last request (`FirstInv`), however often the client calls again. A line
that a death has cut short carries no number, so it is nobody's reply either.

**CandidateRunProofs.** Any files, exclusions, windows, grids, batches and
overrides that have the shape the parsers let through (`RequestsAssumption`,
`SessionsAssumption`; `WindowsAssumption` and `LimitsAssumption` bound ages, counts
and limits). All theorems are about `CandidateRun`'s `Spec`, in which the market is
loaded first and then used.

- `FeedAlwaysCausal`. `FeedInv`: reports are in order and outside the exclusions,
  what is attached is the last of them, and when the cursor has passed an event it
  has attached to it. It needs `TapeFlow`, what is there at each stage of a load,
  and that what `std::sort` may return and what is then erased keep the order.
- `TapeAlwaysExact`, for both kinds of tape. `BinInv`: after some bins the events are the ends of exactly the
  trusted ones among them, each at the close of the latest trusted bin, and `mark`
  is the close that the next one would carry. A regular clock makes the bin that
  ends at an event the one that the candle at its beginning fills. `BlockInv`: after
  some blocks the events are those of the ones whose window is clear; the test of the
  code on the ends of the window and of an exclusion is shown to say that no second
  is in both (`TouchesASecond`).
- `WindowAlwaysExact`. `UpperInv`: the precomputed bounds are what the search would
  find. Because reports are in order, the reports known at a time are the first
  ones, and each selection is an interval of their places.
- `CandidatesNameTheirPoints`. The numbers of the points before a point in
  lexicographic order are counted axis by axis, and digits and ordinal determine
  each other (mixed radix); a field has the value of the last axis that sets it, by
  induction over the patches stacked so far. `GridInv` and `RangeInv` then say what
  has been made of the ranges.
- `RunsStartAtOneMoment`. `RunInv`: the outcome of a candidate is the one that its
  effective pool and the loaded market determine, and neither changes while a
  session is open. That a fresh run sees only events from its clock on is then a fact
  about the loaded window (`EventsInWindow`), and fails in the one case named above.

**MetricWindowsProofs.** Any lengths of hour, day and windows, any sequence of event
times and distances (`UnitsAssumption`: lengths are positive).

- `PriceErrorIsExact`. `ErrInv` says for each slot which bucket it holds: the last
  bucket of that slot that any time fell into, with the sum over its seconds. Since
  there are two slots more than hours in a window, no two buckets of a window share
  one, and the sums over slots are, regrouped, the sum over the seconds.
- `GeoWindowsAreExact`. `GeoInv`: what the queue has dropped is older than its first
  sample, which is already old enough for the last.
- `RingIsTheQueue` is the refinement of the ring by the unbounded queue, step by
  step. `RingInv`: samples are a day apart, and only the first may be as old as the
  window; so at most one more than its days are kept, and there is a slot free.

Induction over data is done there without the induction theorems that take an
operator: a statement about every position is proved for the least one it fails at,
and one about every finite set for sets that grow by one element.

**ArbDecisionProofs.** Any grid, budgets, profit tables and events.
`SearchStaysInBudget`, `BracketIsKept`, `CapIsSafe`, `BestQuoteIsAnswered`,
`PreviewsStayFresh`, `SmallestSizeIsTried`, `BestContextIsCommitted`,
`SkippingLosesNothing`. `RungsAssumption` relates the three budgets as the code's
constants do; the scan itself looks at none of the total, and stays inside it
because of that relation. `EventsAssumption` says that the fee of a context is at
least `fee_lower_bound`, which is what the function is for. The invariant counts
quotes phase by phase, says that the rungs are without holes around the seed, that
the best is the best of what was seen, and that a slot holds the swap it names.

**SidecarsProofs.** Any number of batches. `RepliesNameOwnFiles`,
`FailuresLeaveOwnTrace`: while a batch is written every path holds what the batch
found or its own file, and the paths recorded in `written_paths` are the ones at
which it found none and has put one. So cleanup removes exactly what was added, and
what it does not restore is a trace that was replaced.

**EventLoopProofs.** Any tape with increasing times, any periods, price grid
and non-decreasing accrual of debt. `CachesStayFresh`, `SkipsAreSound`,
`TicksKeepPace`, `LoopEndsVisited`. The invariant says that a valid geometry is
the present pool's (`GeoFresh`), that a ready band is what the present pool and
the debt at the band's two ends make it (`BandFresh`), that the event in progress
is the last one visited (`Visited`), and, for each phase of an event, whose touch
of the pool stands in for the tick (`Paced`). A skip is sound because the gates
the cursor reads are fresh, debt moves the level one way only, and the deadline
is the least of all schedules.

**Yb2LActorProofs.** Any set of ledgers, slips, tolerance and limits.
`RouteIsAtomic` is the refinement of `YbLedger`: the mapping shows what was
saved while a route is under way, and the present state between routes. Every
leg is then invisible, and the last one is the abstract fill; that needs the
invariant `LedgerInv`, which says for each place in the route what ledger and
pool are in terms of what was saved. `BooksCorrect` follows from it, also for
the rollback. `CollateralCorrect` needs `SupplyInv`: what the adds have put into
the pool, and that a fill that reaches the ledger has been reconciled.
`LedgerStaysSolvent` is the type invariant: no book goes below zero.

Only model-checked:

- liveness: `ImplementsBatch` with its fairness (its safety part is
  `PoolImplementsBatch`), `ShutdownJoins`, `BatchReturns` (`NobodyWaitsForASleeper`
  is proved), `CallsReturn` and `ShutdownEnds`. Fairness is defined by ENABLED, which
  is outside what the prover handles.

Every invariant and every action property of a passing run is the statement of a
theorem.

## 5. What is not modelled

- The Twocrypto pool SDK is external. It enters as what it may do to price, supply
  and donations, and as a table of quotes.
- Floating point: profits, fees, equity and running sums. The seed of a search,
  the parabolic and golden steps and the sizing of a YB fill are open choices
  within the limits the code sets, so nothing depends on their arithmetic, and
  nothing is said about it.
- Numeric archives (`numeric_npz.cpp`), which are file I/O; action and trace
  logging, which format rows (when a row is recorded is part of `TraceBatch`);
  the field validation of the client's models, whose failure is a refused call.
- Command-line parsing, the report of a batch's results, volumes, highs and lows
  of candles and the squeeze of outliers.
- Swap reports and slippage probes in the event loop; see `EventLoop` above.

## 6. Order of the development, and what is left

In this order, the most important behaviour first: worker pool and its proofs,
trace batch, server, client, event loop and its proofs, YB actor and its proofs,
metric windows, sidecars; then the market, the report windows, the grid and the
candidate, the arbitrageur, the proofs about arbitrageur, traces, sidecars,
server and client, and those about the market, the grid, the starts of the runs
and the windows of the metrics.

What could follow:

1. The swap-report branches in the event loop itself, where a policy may force a
   visit, composed with `ArbDecision`.
2. A bound on the steps of a batch, as a measure that every step of a worker lowers,
   which with `NobodyWaitsForASleeper` is all of `BatchReturns` but the fairness.
3. The reply of a batch with the numbers of its results, to follow each from its slot
   to its candidate.
