# A TLA+ verification project for MultieLayer-Kache

MultieLayer-Kache manages the KV cache of a serving language model: it tracks
cache blocks, lets a policy decide which of them stay on the GPU, are quantised,
offloaded or evicted, writes telemetry, trains a model of block importance from
it, and benchmarks the policies against each other. This directory models the
parts of it that keep state, or that compute what the rest relies on, in TLA+.
TLC checks them on small instances, and TLAPS proves some of what it checks for
all values of the constants. Paths below are relative to the repository's root;
`PROJECT.json` maps every definition to the lines it stands for.

    tlc -workers 2 -config tracker.cfg MCTracker.tla     # one run
    tlapm BlockTrackerProofs.tla                         # one module of proofs

## The system

| Component | State | Operations | Talks to |
|---|---|---|---|
| Block tracker, `src/telemetry/block_tracker.py`, `schema.py` | dict from block id to a mutable `BlockState`; one re-entrant lock | register, update (attention, access, tier, memory, score, prefix flag), age, evict, release a request; snapshots, candidates, statistics | written by the serving side and by the policy engine; read by everyone, through live references |
| Cache policies, `src/cache_policies/{base,heuristic,hybrid,learned}.py` | last statistics of each policy object | `decide(blocks, metrics)` of eight policies | called by the policy engine |
| Policy engine, `src/cache_policies/policy_engine.py` | active policy, ring of statistics, cycle counter; flag and task of the loop | start, stop, the cycle (list, measure, decide, apply, record), override | tracker, policies, collector |
| Telemetry collector and storage, `src/telemetry/{collector,storage}.py` | buffer, lock, counters, flush thread; a file per UTC day, or a list | record, flush, the timed flush, stop, recent records; `write_batch` | disk; called from the engine and the serving side |
| Serving: server and registry, `src/serving/{api_server,request_handler}.py` | registry of requests and ring of completed ones, gauges, the batch's semaphore | lifespan, generate, batch, status, metrics, policy override | the engine wrapper |
| Serving: engine wrapper, `src/serving/vllm_engine.py` | in-flight table, last output of every call, time of the last policy check | initialize, generate, stream_generate, the mocks, the policy check | the language model (external), policy engine |
| Workload router and classifier, `src/serving/request_handler.py`, `src/feature_engineering/workload_classifier.py` | none | type of a prompt, twice: for the server and for the features | policies, features |
| System metrics, `src/evaluators/system_metrics.py` | windows of latencies, timestamps, one lock each; polling thread and its event | record_request, get_summary, start, stop, poll | recorded to from the serving side, read by the dashboard |
| Pareto analysis, `src/evaluators/pareto.py` | accumulated results | add, frontier, dominated?, report, statistical tests | harness |
| Quality metrics, `src/evaluators/quality_metrics.py` | none | normalise, token F1, ROUGE-L, edit similarity | LongBench runner |
| Benchmarks, `src/benchmarks/{longbench,stress_tests}.py` | coroutines of a run, their results | tasks over samples; five stress workloads | the server over HTTP |
| Experiment harness, `src/benchmarks/harness.py`, `scripts/run_experiment_suite.py` | benchmark results; one analyzer for a whole suite | run_experiment, run_ablation, reports | the server's override endpoint, LongBench, Pareto |
| Features, `src/feature_engineering/extractor.py`, `src/trainers/label_generator.py` | none | 21 features of a block, twice: served and trained on | learned and hybrid policies; training |
| Labels and splits, `importance_scorer.py`, `label_generator.py` | none | score of a live block, three labels of a trace, keep labels, split | training |
| Importance model, `src/trainers/importance_model.py`, `scripts/train_policy.py` | model and feature names of the trainer, the model file | train, evaluate, save, load | learned policy |
| Dashboard, `src/visualization/dashboard.py` | the page's sources and its log of decisions | three event streams, reconnection | engine's history, metrics |
| Plots, other scripts, configuration | none | | |

What is hard about it:

* **Shared live objects.** The tracker hands out its own `BlockState` objects,
  and calls take the lock one at a time, so a caller that makes several calls,
  as a policy cycle does, works on blocks that others change, evict, or replace
  by new blocks of the same id meanwhile.
* **Work outside locks.** Two accessors of the tracker and one of the metrics
  walk copied or live collections after the lock was released.
* **Failing and slow storage.** A flush holds the collector's lock while it
  writes; writes may be refused, torn, or outlast the join in `stop`.
* **Coroutines and threads that end.** The engine's task, the flush thread and
  the poller are stopped and started by callers in any order.
* **Failures among many.** Batches, tasks and stress waves gather calls that
  fail one by one; permits, gauges, counts and the places of the results have to
  survive that.
* **Calls dropped in the middle.** A stream's consumer goes away, a stopping
  server cancels what runs, and not every path has a `finally`.
* **Files between processes.** Training reads the directory a server writes to,
  and a policy loads the model file a trainer is rewriting.
* **The same thing computed twice.** Features, labels and workload types have two
  implementations each, one for serving and one for training.
* **Arithmetic at the boundary.** Fractions of small lists, float32 against
  float64, ties in rankings and dominance, windows that include their end.

The properties that make each part correct are listed with the runs below; the
hazards behind them are in `PROJECT.json`, each at its line.

## The modules

Order of work, core first: the tracker and its proofs; the policies; the engine
over both; the engine's task; the collector, its proofs and its reader; serving,
the engine wrapper and their proofs; metrics and the dashboard; the evaluation
and training side.

| Module | Models | State and actions |
|---|---|---|
| `BlockTracker` | `block_tracker.py` | `heap` is every `BlockState` ever made, `blocks` the dict into it, because identity matters: an evicted block lives on in whoever holds it. One action per public method that changes state, each atomic by the lock (`TrackerLock` says why that is so). `step` is the engine's decoding step, which callers pass in. |
| `TrackerLock` | the bodies of the tracker's methods, in several threads | Extends the tracker. `lock` is the threads inside `_lock`, `call` what each thread has still to do of its method. A method takes the lock and looks up what it works on, makes its pops and assignments one by one in any order, and leaves; other threads step in between. |
| `BlockLifecycle` | what the tracker promises | Abstract specification: an id names at most one object, and an object that lost its id never comes back. |
| `TrackerReaders` | `get_memory_stats`, `get_candidate_blocks` | A reader beside the writers: the list is taken under the lock, the objects are read one by one after it. |
| `Policies` | `decide()` of all eight policies | Pure operators from a list of blocks and readings to verdicts and statistics. Scores and fractions are integers in thousandths. |
| `PolicyCases` | the inputs of `decide()` | A behaviour builds a list block by block; properties are asked of every list, policy and reading. |
| `PolicyEngine` | `_run_policy_cycle`, `apply_decisions` | Extends the tracker and the policies. `cycle` is where the cycle is; every locked call is a step, and the serving side steps in between. |
| `PolicyLoop` | `start`, `stop`, `_loop` | Tasks of one event loop; a step is what runs between two awaits. A cycle is its outcome. |
| `TelemetryCollector` | `collector.py`, `storage.py` | `batch` is what the flush that holds the lock is writing; `files` the days' contents; reading, opening, and writing a file are steps, each of which may fail, and between which the process may die. |
| `TraceReader` | `read_all` of `storage.py` | Extends the collector: another process lists the files and reads them one by one, without a lock, while they are rewritten. |
| `Serving` | `request_handler.py`, lifespan, generate and batch of `api_server.py` | A request is two steps, around the await on the model, which answers or raises. `server` is the lifespan; a stop cancels what is queued or running. |
| `EngineWrapper` | `vllm_engine.py` | A call runs from one await or yield to the next; outputs carry the whole text so far, a text is a sequence of numbered tokens. `received` is what the consumer holds, `cycles` the times at which triggered policy cycles began. |
| `RequestMetrics` | `record_request`, `get_summary` | One step per lock taken, or per deque begun or finished without one. |
| `HardwarePoller` | `start`, `stop`, `_poll_loop` | Threads, the event they wait on, the join. |
| `Dashboard` | the stream of decisions of `dashboard.py` | The generator, the page's EventSources with their events under way, timers, the log. A decision is the number of its cycle. |
| `Pareto`, `ParetoAnalyzer` | `pareto.py` | Dominance, frontier, report; a behaviour adds results. |
| `LongBench`, `StressTests` | the two runners | Coroutines with their semaphore, answers and failures; results and counts. |
| `Experiment` | `run_experiment` over a suite | Override, run, pair scores, report; a LongBench run is its outcome. |
| `Ablation` | `run_ablation`, the comparison table of `pareto.py` | A behaviour runs base and ablations over the same tasks; of the paired test only the cases that do not depend on the numbers. |
| `Harness` | | Extends the five modules above, and states what is promised of all of them. |
| `Counting` | | Sums and places in an order as numbers of elements, instead of folds, so that the proofs can speak of them; the greatest value of a column, and what is divided by it. |
| `TextMetrics` | `quality_metrics.py` | A behaviour writes two texts and fills the tables of `_lcs_length` and `_levenshtein`: a step is one round of the inner loop of each, with the two rows that are swapped and the one that is updated in place. The scores made of the results; the ways to lay one text beside the other, which say what the results should be. `normalize_answer` on pieces of an answer. |
| `Features`, `FeatureCases` | `extractor.py` and the feature half of `label_generator.py` | Every feature as a ratio, computed from live blocks and again from the telemetry records made of them; float32 as a grain of the attention's unit. |
| `TraceLabels` | future-reuse label, its statistics, split | A behaviour writes a trace record by record in any order. |
| `ImportanceLabels` | `score_block`, the labels "attention_mass" and "combined", keep labels | Signals in tenths; a behaviour writes a trace. |
| `WorkloadTypes` | `WorkloadRouter`, `WorkloadClassifier` | A prompt is a sequence of phrases, each an example of what the patterns of one, both or neither find; a behaviour writes it phrase by phrase. |
| `TrainingData` | | Extends the modules of labels, features and types, and states what is promised of all of them. |
| `ModelFiles` | `importance_model.py`, `train_policy.py`, `load_model` of `learned.py` | A model is its number and the columns it was fitted on; a file is absent, a bare model, or a payload of which the disk has no part yet, the model, or the model and the names. A save opens, writes the model and writes the names; a load of the policy reads the model and then the names; dumps raise and processes end anywhere. The histories `saved` and `blame` note which payloads were saved to the end, and what has happened to names and model on their way: they are set by the events themselves and read by no action. |
| `MC...` | | Instances for TLC. |
| `BlockTrackerProofs`, `PoliciesProofs`, `PolicyCasesProofs`, `PolicyEngineProofs`, `TelemetryCollectorProofs`, `ServingProofs`, `SystemMetricsProofs`, `EvaluationProofs` | | Theorems and proofs. |

An operator called `Faulty_X` is a wrong version of `X`, written before it: each
is what a plausible bug in that code would be (a dropped step, a wrong order, an
off-by-one). For every property of every passing run `PROJECT.json` names one
with which TLC finds the property violated, so that no property holds whatever
the code does.

Several `MC` modules hold a variable `scenario` or `program` that never changes.
It picks one of a few independent instances, each with the data one kind of
hazard needs; their states add up instead of multiplying. This costs nothing
where the parts share no state (the programs of `MCEvaluation`, the three sides of
`MCSystemMetrics`, the two of `MCServing`, the back ends of `MCCollector`), and where it splits one part
(`MCTracker`, `MCPolicyCases`) each instance is the whole part, with other data.

### Abstractions worth knowing

* The tracker's documentation calls it thread-safe, and calls of its methods are
  therefore atomic (proved from their steps under the lock, `TrackerLock`) and allowed between any two locked calls of a cycle, though in a
  single-threaded deployment few would come there. What `decide()` reads of the
  live objects is read in one step.
* `GpuFree` is 0 in the engine, because `_collect_system_metrics` sets the
  placeholder 0: memory pressure is 1 whenever anything is in use.
* The moving average is rounded down to the unit of attention. The two block
  sizes are 2 and 1 units (fp16 and int8), layer and head matter to features
  alone.
* `Serving` and `EngineWrapper` are two views of one request: in the first the
  wrapper answers or raises, the second looks inside. `Serving` keeps the
  in-flight table too, since the path of a failure through it is the server's.
* A phrase is chosen so that each pattern of the router and of the classifier
  finds one of its own, and some only in one of the two; that the patterns find
  what they are written for is not checked.
* The dashboard's pause of two seconds between events is left out: an event may
  be sent at any time. EventSource reconnects by itself, as browsers do.
* The batch's calls and the single call of the serving run carry ids of their
  own, and errors have a text; what happens otherwise is in the table of
  divergences.

## The runs

| Run | Specification and instance | Properties, and the code behaviour they are about |
|---|---|---|
| `tracker` | `MCTracker`: "ids" has 2 ids, 2 requests, 3 objects, 1 step; "fields" 1 object with 2 accesses, 3 attention batches, 2 steps; "reading" 2 objects and the reader; "locked ids" 2 threads, 2 ids, 2 requests, 2 objects; "locked fields" 2 threads and 1 object with every field | `TrackedSound`, `RemovedFrozen`, `LifecycleSpec`: an id finds its own, not evicted object, and what left stays as it was, through evictions, overwriting and releases. `CallsAreAtomic`: the bodies of the methods, one pop or assignment at a time in two threads, implement the atomic actions of `BlockTracker`; a release that listed its ids and popped them outside the lock would take the new block of an id registered in between. `AttentionBounded`: the average never exceeds the maximum. `StepsOrdered`: last access <= age <= step of tracked blocks. `StatsAddUp`: the counts of a returned statistic add up to its total while tiers change under the reader. |
| `policies` | `MCPolicyCases`: lists of up to 4 blocks, or 3 that differ in everything the heuristics read, or 3 with predictions; pressures below, between and above the thresholds | `OneVerdictPerBlock`; `EvictionBudget` (sinks are kept, each policy evicts its share and no more, offloading takes the least attended); `ScoresDecide` (a better score is never treated worse, and the recency parts decide as they are meant to); `PressureMonotone` (more pressure never spares a block); `EvictionSettles` (a second cycle evicts nothing the first kept) |
| `engine` | `MCPolicyEngine`, `FairSpec`: 2 ids, 2 objects, `sliding_window` and `quantize_only`, ids reused | `VerdictsHold`: at the end of the application each listed block that is still tracked is where its verdict puts it. `RecordsTruthful`, `HistoryShowsCycle`: what is recorded and kept in the ring belongs to the cycle. `WindowReached`: sliding_window comes down to its window and stays there, once it stays the policy. |
| `policy_loop` | `PolicyLoop`, `LoopFairSpec`: 3 callers, 4 tasks | `OneLoop`: at most one task goes on, and it is the one stop would cancel. `EveryStopReturns`. |
| `collector` | `MCCollector`, `FairFiles`: 6 records, buffer of 2, 2 days; writes refused, joins timed out | `EveryRecordKept`, `StopWritesAll`, `RecordsReachStorage`, `StopReturns` |
| `collector_faults` | the same with torn writes and crashes as well; the back end in memory with a buffer of 3; and a reader of the directory beside a collector of 4 records | `LogOrdered`: days, batch and buffer hold records in order of recording, each once. `ReadsComplete`: a read that returns has all that was stored when it began, and no gap in what was stored since. |
| `serving` | `MCServing`, `MCFairSpec`: a single call beside a batch of 3 with 2 permits, a ring of 2; or the wrapper with 2 generates and 1 stream | `StatusTruthful`: get_status tells of a call what is true of it. `RegistryExact`: registry, ring, gauge and permits account for exactly the requests there are, whichever way they end. `BatchAnswered`: every call of a batch is answered unless the server stops. `StreamsTrue`: a consumer holds each token once and at the end the whole text. `CyclesSpaced`: triggered cycles begin an interval apart, and a call that ended had one. |
| `system_metrics` | `MCSystemMetrics`: 3 recorders, windows of 2, one summary after another; up to 20 starts; or the dashboard with a history of 2, a log of 3, 3 cycles, 2 errors | `MetricsConsistent` (a summary counts no more recent requests than requests in all; windows are complete and paired between calls), `PollersJoined`, `DecisionsShown` (a single source's log is in order, and the last decision comes to stay on top whatever the connection does) |
| `evaluation` | `MCEvaluation`, `FairSpec`: twelve programs | `BenchmarksTrue`: each text with its sample, each call counted once, permits. `HarnessTrue`: aggregate; the stress workloads' latencies and rates; sweep complete, pairs aligned, reports cumulative; ablation and base compared task by task when scored on the same tasks, and nothing significant that did not differ; the Pareto report counts every result once. `FrontierTrue`: the frontier is what nothing dominates, is never empty, and trades one measure for the other. `ModelsTrue`: the policy serves no model, or one that a save wrote to its end together with the names it was saved with (`ServesWhatWasSaved`), and names are the columns of their model (`NamesGoWithModel`), wherever saves raise or crash and whenever the policy loads. What parts them is named and noted when it happens: a fit that raised, a bare model loaded, a file saved again while the policy was reading it. `TextScoresTrue`: the dynamic programs against what they are named for, the scores against each other; an answer is normalised in one go or, with punctuation in its words, in two. `TrainingSetTrue`: labels look ahead within the window, the split is a partition. `FeaturesTrue`: features served and trained on agree; no block exceeded in everything is labelled or scored above, and labels have no unit; the type of a growing prompt only gets more specific, and router and classifier agree on phrases both know. `RunsEnd`. |
| `engine_evict_records` | violation of `EvictionsRecorded` | No record is written of a decision to evict: the block is looked up after it is gone. |
| `serving_limit` | violation of `ActiveWithinLimit` | `max_concurrent` makes a semaphore nobody acquires. |
| `collector_torn` | violation of `EveryRecordKept` | A write that fails half-way takes the day's earlier batches with it. |

### Bounds

Every bound is a constant of its module, and stands in a guard or in the range
of an input.

* Tracker: an id that is evicted, registered anew and held by a reader needs two
  objects of one id; overwriting one of two blocks of a request needs three
  objects. A first batch, a smoothed one and a maximum need up to two accesses
  and three batches. Two threads are all a lock has to keep apart; two ids of one
  request are a release with two pops, and the second object of an id the block
  that a pop outside the lock would take. The theorems hold without these bounds.
* Policies: the smallest list on which the sinks, the window and the budget of
  evictions are all non-empty and do not overlap has three blocks, the one on
  which they leave a block over has four.
* Engine: two ids and a window of one make a cycle evict one block and keep one;
  the second object of an id is the block no policy looked at. The ring holds
  one entry, so that the next cycle displaces it. `MaxCycles` only saturates a
  counter; cycles go on.
* Task: three callers can all wait for different tasks; a fourth task is created
  while they do.
* Collector: six records are three full buffers, over a day's end. The reader's
  four make two batches, so that one can arrive in a file already read.
* Serving: with two permits for three calls one waits for one that fails; a ring
  of two forgets the oldest of four answers.
* Wrapper: a stream of two tokens can come in one output, in two, or repeated;
  a clock of five and an interval of two give room for two cycles, and for calls
  that end together between them.
* Metrics: three observations overflow a window of two.
* Dashboard: three decisions overflow a history of two; two errors open three
  sources, which makes two that outlive their replacement; a log of three, in the
  code 50, loses entries as soon as two sources write it.
* Evaluation: three samples on two permits with an empty task between others;
  waves, sessions and turns that let one fail while others go on; two
  experiments that share a policy; texts of three tokens over three letters, and
  five pieces for normalisation, enough for an article beside a word,
  or in two with punctuation between; traces of four records with ties and a step
  at either end of the window; five blocks, so that a rank has blocks above and
  below, and two that differ in everything the features share, in all four tiers;
  ablations that name the base again; two models and two lists of names, so that
  a save of one can be cut off over a file of the other, and a file of the first be
  loaded after the second was fitted; traces around the size at which the test set
  gets its second record; prompts of three phrases of which
  two fit the excerpt; traces of two records for labels that compare two blocks.

### Fairness

* Engine: `WF(CycleStep)`: `_loop` runs a cycle every interval, and the calls of
  a cycle return. No fairness for the serving side.
* Task: weak fairness of each task's turn and of each awaiting `stop`: the event
  loop resumes what is ready.
* Collector: weak fairness of the flush thread's steps, of the write in progress
  and of the final flush. Strong fairness of `BeginParquet` and `WriteSucceeds`
  is the assumption that the storage does not refuse every attempt for ever.
* Serving: the model answers or raises, and the semaphore wakes a waiter. The
  wrapper has none: a call may stay where it is.
* Dashboard: the generators' loops turn, events that were sent arrive, timers
  fire, the server is reachable in the end (errors are finite) and the engine is
  injected some time. It is assumed of that scenario alone.
* Runners: the HTTP client gives up after 120 s, so every call that was sent
  ends. `MCEvaluation` assumes it of the program that runs.

Deadlock is not checked where the system may really stop: behaviours end when a
bound is reached or the collector was stopped.

## What is proved

TLAPS proves the following for all values of the constants that meet the named
assumptions: any number of ids, objects, records, callers, tasks and starts.

**`BlockTrackerProofs`**, over `TrackerSpec`, from `BlockIdsAssumption`,
`AttentionAssumption`, `ScoresAssumption`, `BoundsAssumption`. The inductive
invariant is `IInv == TypeOK /\ TrackedSound /\ AttentionBounded /\ StepsOrdered`.
`TrackedSound` is what the others rest on: objects carry the id they are found
by, so two ids never find the same object, and an update through one id leaves
every other block alone. `RemovedStaysFrozen` follows
from it step by step, and so does `TrackerImplementsLifecycle`: under the
mapping `holder <- blocks`, `gone <- Removed`, a registration is `Appear`, an
eviction and a release are `Withdraw`, everything else is a stutter.
`AveragesBounded` is arithmetic: a tenth of the
mean plus nine tenths of the average stays below the larger of two maxima.
`TierCountsAddUp` is about a reader beside the tracker (`ReadersSpec`, finitely
many tiers): what it still has to read are objects of the heap, which never
shrinks, and each of them adds one to exactly one of its counts.

`CallsTakeEffectAtOnce` (`LockSpec => AtomicSpec`, from `ScoresAssumption`, for any
threads) is why the other modules may take a method for one step. `AtomicSpec` is `TrackerSpec` seen
through `HeapDone` and `BlocksDone`: the tracker as it will be when the calls in
progress have made the rest of their bodies. `LockInv` says that only the one thread
inside the lock has anything left to do, on objects that exist. By it there is one
writer of a field at most; by `FieldByField` what a body assigns to a field does not
depend on which others it has assigned already. So taking the lock is the
whole call (`EnterLemma`, `FindIsUpdate`, `BeginIsCall`), and each pop, each
assignment and the leaving are stutters (`PopIsStutter`, `AssignIsStutter`,
`LeaveIsStutter`). Those who hold references to live objects and read them without
the lock do see bodies half done: `TrackerReaders` and the cycle of `PolicyEngine`
read between calls, not inside them.

**`PoliciesProofs`** has no theorem of a specification, only lemmas about the
operators of `Policies`: how many places a rank has below it and which
(`BelowOnto`, `RankOnto`, `FirstOfCardinality`), that scores are natural numbers,
that a policy's answer places every row of the list exactly once
(`DecidePlacesRows`), and that the parts of a score grow with what they measure
(`CompositeMonotone`).

**`PolicyCasesProofs`**, over the `Spec` of `PolicyCases`, whose behaviours build
a list of blocks of any length, from the assumptions on the configuration.
`OneVerdictEach`: one verdict for each block. `PressureIsMonotone`: along the
thresholds and the modes between them, more pressure is never milder
(`MorePressureIsHarsher`). `TheScoreDecides`: a higher score is never treated
worse, and where two equal blocks differ a share had to end between them.
`EvictionKeepsBudget`: sinks stay, windows and shares are exact, offloading takes
the least attended; this one assumes `HeavyHitterFraction <= Unit`. Nothing in
the code checks that; with a larger fraction h2o asks for more heavy hitters
than there are blocks and keeps all. `EvictionIsSettled`: what a round leaves is a list
again (`PickTakesAll`, `RestIsList`), in which a block's rank by id falls by no more than
the number of those that went (`RankInRest`), so that who was among the sinks or in the
window still is; and attention relative to fewer others is no smaller (`RatioOfLess`).

**`PolicyEngineProofs`**, over the `Spec` of `PolicyEngine`: any blocks, any set
of policies the operator switches between, and calls of the serving engine
between any two calls of the cycle. The inductive invariant is `EngineInv ==
IInv /\ CycleInv /\ StatsInv`. `IInv` is the tracker's, and carries over because
every call of a cycle is one of the tracker's or leaves it alone
(`TrackerStaysSound`). `CycleInv` says where the cycle is: it holds a list of
objects with different ids (`ListInv`), then one verdict for each of these ids
(`VerdictsInv`); what the verdicts up to the current one ask for holds of every
listed object that is still tracked under its id (`AppliedInv`), because a call
for one id spares the objects of the others (`OthersHold`) and the serving engine
changes tier or score of none and puts only new objects under an id
(`ServingHolds`); and a record of a listed object shows the tier of its verdict
(`RecordedInv`). With all verdicts applied this is `VerdictsTakeEffect` and
`RecordsShowPlacement`. `StatsInv` says whose statistics a policy object holds,
and gives `HistoryKept`, for rings that hold something and as long as the
learned policy has a model or is not in use: without one it delegates and leaves
its statistics with its fallback (see the table of divergences).
`MovesOnlyListedIds` is the action property that remains true of a cycle
where the documented one does not: a block whose *id* it did not list is not
moved. `AtMostOneLoop` is of `LoopSpec`, from `LoopInv == LoopTypeOK /\ task =
Len(state) /\ OneLoop`; the second conjunct says that `_task` names the task
created last, so that `stop` cancels the right one.

**`TelemetryCollectorProofs`**, over `Spec`, from `CollectorAssumption`, for both
back ends and any set of faults. `IInv == TypeOK /\ LockInv /\ DayInv /\
AllAdmitted /\ LogOrdered`: a write is in progress exactly while a batch is out
(`LockInv`), no day after today has records (`DayInv`), and every number is of
an admitted record (`AllAdmitted`). Re-buffering appends the batch to the
buffer, which keeps the order only because the lock was held meanwhile and the
buffer is empty: that is in `LockInv`. `OrderedAndOnce` is the last conjunct.
`NothingLost` and `StopFlushesAll` hold under the additional `WritesWhole`, that
no write is torn and the process does not die; `collector_torn` shows they
need it. A join that times out is allowed: the final flush waits for the lock.
`ReadersMissNothing`, over `ReadingSpec` and under `WritesWhole` too, is about
the process that reads the files one by one meanwhile. `ReadInv` says that
what it has is in order (`Increasing(got)`), that every stored record below one it
has is one it has (`GotClosed`), because the files it passed are of earlier days
than those still listed, and that what was stored when it began is read or in a
file still listed (`PromiseKept`). A write keeps this because files only grow at
their end (`FilesGrow`), and no file before the last day's does.

**`ServingProofs`**, over `Spec`, from `ServingAssumption` and `Conditions`: finitely
many calls, request ids of their own (`~SharedIds`), and errors that have a text;
the table below shows what happens without either. `RegistryIsExact` and
`StatusIsTruthful` follow from `IInv == TypeOK /\ IdsInv /\ RecordsInv /\ RingInv /\
CountsInv`. An id belongs to one call from its submission on (`IdsInv`); the registry
holds exactly the ids of calls under way and of calls that a stopping server
cancelled, each with the record of its call (`RecordsInv`), so that what
`mark_completed` archives is the record it was called for; the ring holds as many
of the answered calls as it has room for, none twice, each as it ended (`RingInv`);
gauge and permits are what cardinalities say (`CountsInv`). `StatusTruthful` needs
the first three together: an answered call's id is in the registry no more, and
whatever the ring says of it is said of that call. `RequestBegins`,
`RequestEnds`, `CallsMove` and `StopHolds` are the kinds of steps there are.

The same module has the theorems of `EngineWrapper`, over `WrapperSpec`, from
`WrapperAssumption`, for any calls, interval, and length of texts. `WrapperInv ==
WrapperTypeOK /\ StreamInv /\ CycleInv`. While a stream is not at its yield, `prev_len`
is the length of the last output (`StreamInv`), which with `TokensJoin`, that the
first tokens and those after them are all of them, gives `StreamsGiveTheText`.
`CyclesKeepInterval` rests on `last_check` being the time of the last cycle, and on
an interval having passed at the start (`CycleInv`).

**`SystemMetricsProofs`** is about the two halves of the metrics collector.
`SummariesAreConsistent`, over `RecordingSpec`, from `MetricsAssumption`, for any
recorders, records and length of windows: each of the five deques keeps what was
recorded, up to its length (`WindowsInv`, by `PushKeeps`).
Values and times of the tokens are two pushes under one lock, and the time comes
second, so they are as long unless somebody holds the lock between them
(`StampsInv`). A summary counts its recent requests before it reads the total,
and the total only grows: what was counted earlier stays within it (`SummaryInv`,
`LongerWithMore`). `PollersAreJoined` is of `HardwarePoller`, under the two conditions
the code leaves to its surroundings: polls end within the two seconds of the join,
and `start` is called only on a stopped collector. All threads before the last are
done, all after it unborn, and the last is done when `stop` has returned.

**`EvaluationProofs`** has the theorems of `ModelFiles`, of `TextMetrics`, of the five modules
under `Harness`, and of those under `TrainingData`, which share no state. `ModelsAreTrue` is over `ModelSpec`, from
`ModelAssumption`: any lists of columns and number of models. Its two halves are
inductive beside three facts. While a save is under way the file holds what it has
written so far of its trainer's model and nothing of an older file behind it
(`SavingInv`), because opening empties it. A whole file was saved to the end
(`FileInv`). What the policy has read is the head of the file it is reading, unless
that was opened again (`LoadingInv`): a save cannot write the model under a reader
without having opened the file, which the reader's `reopened` notes.

`BenchmarksAreTrue` is of `BenchSpec` of `LongBench`, from `BenchAssumption`, for any
tasks, samples and permits. While calls end in any order, each that is over is a
latency or a failure (`CountedInv`): `Cardinality(In("over")) = Len(latencies) +
failed`, latencies are of distinct samples that are over, and a text is in the place of
a sample that has one. When all are over this says of the task's result what the
property says of every result (`FinishPreserves`). `AggregatesAreInRange` is about
the mean over those tasks that had samples: the sum counts pairs of a task and one of
its points, so that it is at least as many times the lowest score as there are such
tasks, and at most as many times the highest (`SumIsBetween`). A permit is taken only when one is
free, and every way a call ends gives it back (`EndPreserves`).

`FrontiersAreTrue` is of `AnalyzerSpec`, from `AnalyzerAssumption`, for any number of
results with any measures. Dominance is a strict order (`DominanceIsOrder`), so of
what is at least as good as a given result the one with the fewest above it is on the
frontier (`FewerAbove`, `NoneAboveFrontier`): the frontier is not empty, and whatever
it leaves out is dominated by one of its own (`FrontierDominates`). That it trades off
from end to end follows from its neighbours, by the first place where it would not
(`SortedIsSorted`). `TrainingSetIsTrue` is of `TraceSpec`, from `LabelAssumption`, for traces
in any order: the sorted rows are all the rows, in an order of their steps
(`RowsAreSorted`), so that what a record's block did later stands after it; two shares
of less than a hundred percent leave a row to train on (`SharesLeaveOne`), and three
adjacent parts joined are the whole (`PartsJoin`).

`HarnessIsTrue` puts together five theorems, one for each module under `Harness`;
`AggregatesAreInRange` is the first. `ReportsAddUp` is of `AnalyzerSpec`: a result adds
one to the count of one policy (`OneMoreCounted`), so that the counts, a set of
numbered terms, grow as the list does. `WorkloadsAreTrue` is of `StressSpec`, from
`StressAssumption`, for any workload, sizes and number of failures: a coroutine has
returned exactly when it had all its answers (`StressInv`), so that the latencies that
are kept fill a rectangle, coroutines that returned by calls (`LatenciesAreOfReturned`),
and when all are over whoever did not return raised (`SuccessOrFailure`).
`ComparisonsAreTrue` is of `AblationSpec`, from `AblationAssumption`: pairing by place is a
bijection when both have the same tasks and never makes more pairs than either has
tasks (`PairsAreFew`). `SweepsAreTrue` is of `SweepSpec`, from `SuiteAssumption`, for any
suite in which an experiment names a policy once and has a level to run at, as the
harness sees to (`harness.py:119`). Run `n` of an experiment is the combination with
number `n` (`SweepInv`), and a number tells its combination (`NumberTells`), which is what
three nested loops amount to; so an ended sweep ran each once, the runs of a policy are
one stretch, and the place of a run among them, its distance from where the stretch
begins (`PlaceInStretch`), tells its budget and level. `ReportsInv` relates the analyzer's
points to the runs of all experiments so far.

`FeaturesAreTrue` is of `FeaturesSpec`, `LabelsSpec` and `PromptSpec`, and puts together
three theorems. `ServedIsTrained` is about features of any live blocks and the telemetry
records made of them, under the condition `AsTrained`: ids below four heads and a head
in groups of eight are what the label generator has written in, so with another
configuration the two halves differ. Rounding to float32 is monotone and keeps what a
value is at least (`SingleIsNat`), so it never turns the order of attention round; the
threshold of heavy hitters is one of the values, with at most the others' number below
it (`SmallestIsThere`, `ThresholdCounts`), so that no more blocks lie above it than
should; the ratios agree because both halves divide by the same anchor, which is the
greatest value or 1 (`OrOne`). `LabelsAreTrue` is of `ImportanceLabels`, for any
attentions and counts: the score is a sum of terms each of which grows with its
signal, and a column scaled by a factor keeps its labels because the anchor scales
with it, or was replaced by 1 when everything is zero (`ScaledAnchor`,
`ThousandthsScale`). `TypesAreTrue` is of `WorkloadTypes`, for prompts and excerpts of any
length: a type is the first level that the excerpt reaches (`TypeOfLevel`); an excerpt
that grows only finds more (`ExcerptGrows`, `MoreIsMoreSpecific`); and on phrases both
know, the router and the classifier find the same patterns (`SameWordsFound`).

`TextsAreTrue` is of `TextSpec` and `AnswerSpec`, for texts of any length and without an
assumption on the tokens. An alignment lays some places of one text beside places of the
other, in order; the entry for two prefixes should be the most equal pairs an alignment
of them has (`MostEqual`), or the fewest edits one leaves (`LeastEdits`). What the code
makes of three neighbouring entries is that again (`EntryIsMost`, `EntryIsLeast`): an
alignment of the longer prefixes leaves out one of their last places, or puts these two
opposite each other. `ScanInv` says it of every entry filled so far, and of what is left of
the row above: in `_levenshtein` the entries right of the column are still those of the
row above, and `prev` is the one that was overwritten last. Each round keeps it
(`RoundFillsEntry`), so the loops, and not induction over the texts, carry the argument. The scores
follow (`ScoresAgree`): the equal pairs of an alignment are tokens the two counters have
in common, a copy to each (`EqualsAreCommon`), so ROUGE-L is at most F1; an alignment read
from the other side has the same pairs (`Mirrored`), so neither score tells prediction
from reference; and only equal texts can be laid side by side without a loss (`AllMatch`).
`normalize_answer` is a matter of what stays beside what. `NoneIsLeft`: no article is
left once articles have become spaces. `ArticlesCame`: none comes about when pieces are
dropped, as long as words touch only where they touched before. That holds for the
collapsed spaces (`SpacesPart`), and for the punctuation where none stands in a word
(`PunctuationParts`): the condition `NothingInWords`, without which "t.he" is a
counterexample. What comes out satisfies the condition whatever went in
(`PlainHasNothing`), so twice is always enough.

Only model-checked is liveness, which needs ENABLED: `WindowReached`, `EveryStopReturns`,
`RecordsReachStorage`, `StopReturns`, `BatchAnswered`, `RunsEnd` and the second half of
`DecisionsShown`.

## Where the code and its documents disagree

The three violations above are runs. The following were met while modelling. Each
line names a property, stated in its module, that TLC finds violated when it is
added to the configuration named.

| Property, configuration | Documented | Code |
|---|---|---|
| `AverageIsSmoothed`, tracker.cfg | "exponential moving average with α = 0.1" (block_tracker.py:121-122) | as long as the block is not marked accessed every batch replaces average and maximum: the first batch is told by access_count (145) |
| `StatsSeeNoEvicted`, tracker.cfg | "acquire a single reentrant lock before mutating or reading shared state" (block_tracker.py:30-31) | get_memory_stats reads tiers of live objects after the lock was released (236) and may count an evicted one |
| `CandidatesAreSnapshots`, tracker.cfg | "Snapshot copies; modifications do not affect the tracker" (block_tracker.py:290) | the objects returned are the tracker's own (314) |
| `OldestFirst`, tracker.cfg | "Oldest blocks (largest block_age_steps) first" (block_tracker.py:281-282) | increment_age sets every age to the global step (346), so ages are equal |
| `SameOrdering`, policies.cfg | "One entry per block in *blocks* (same ordering)" (base.py:160) | offload_only returns verdicts in order of score (heuristic.py:367) |
| `RecencyFavoursRecent`, policies.cfg | "Higher score = accessed more recently" (heuristic.py:38) | _recency_score is highest for the block accessed longest ago (41); nothing calls it |
| `OnlyListedBlocksMoved`, engine.cfg, under Spec | "The policy's verdict for one KV-cache block" (base.py:101) | verdicts are applied by id (policy_engine.py:166): a block that took the id over since is moved |
| `RecordsOfListedBlocks`, engine.cfg, under Spec | "Policy decision applied to the block" (collector.py:91) | the record describes whatever carries the id by then (policy_engine.py:138) |
| `LowAttentionStaysQuantised`, engine.cfg, under Spec | "Quantise low-attention blocks to int8; keep high-attention blocks as fp16" (heuristic.py:269-270) | a block that is quantised already gets KEEP_GPU (297), which is applied as fp16 |
| `ScoreIsFraction`, engine.cfg with ActivePolicies = {"hybrid"}, MaxAccesses = MaxStep = 1, ReuseIds = FALSE | "importance score in [0, 1]" (base.py:104) | hybrid clips recency from below only (hybrid.py:206-208), measured from a step read earlier in the cycle |
| `HistoryShowsCycle`, engine.cfg with ActivePolicies = {"learned"} | "maintains a ring buffer of recent :class:`PolicyStats`" (policy_engine.py:9) | learned without a model leaves its statistics with its fallback, and the ring gets none (learned.py:92) |
| `CrashKeepsWritten`, collector_faults.cfg | "records are appended to a file" (storage.py:95-96) | the file is rewritten in place (121), a crash in between empties it |
| `RecentAtMostN`, collector_faults.cfg | "Return up to *n* most-recently-buffered records" (collector.py:139) | n = 0 returns the whole buffer: [-0:] (141) |
| `InFlightTracksRequests` and `InFlightUnderway`, serving.cfg | "Lightweight per-request tracking" (vllm_engine.py:149) | an exception of the model, a cancelled call and a stream whose consumer left skip the pop at the end (248, 306) |
| `CancelledReported`, serving.cfg | RequestStatus has CANCELLED (request_handler.py:34) | nothing sets it, and CancelledError passes "except Exception" (api_server.py:268): the record stays in progress |
| `DepthGaugeCurrent`, serving.cfg | "Refresh gauges" (api_server.py:319) | the queue-depth gauge is set on arrivals alone (237) |
| `StatusTruthful`, serving.cfg with SharedIds = TRUE | "Internal tracking object for a single serving request" (request_handler.py:39) | a request_id in use overwrites the record of the other request (199) |
| `FailuresReported`, serving.cfg with ErrorTexts = {""} | "Mark a request as COMPLETED or FAILED" (request_handler.py:216) | a failure is told by the truth of the error's text (222), which is empty for an exception without one |
| `SummaryReturns`, system_metrics.cfg | "Aggregate metrics over the last *window_s* seconds" (system_metrics.py:195) | a deque that grows while it is walked without its lock raises (200) |
| `OnePoller`, HardwarePoller, Spec, MayTimeOut = TRUE, MaxStarts = 3 | "Stop the polling thread" (system_metrics.py:168) | the join gives up after two seconds and the next start clears the event (159) |
| `Page!LogNewestFirst`, `Page!OneSource`, system_metrics.cfg | "Recent policy decisions" (dashboard.py:6) | onerror opens another EventSource and does not close the one that reconnects by itself (237): two write the log, an older decision above a newer one |
| `ErrorRateTrue`, evaluation.cfg, for all workloads | "Compute derived statistics from raw data" (stress_tests.py:51) | a failing turn drops its session's other turns from the counts but not from total_requests (220) |
| `PeakHolds`, evaluation.cfg | "Peak concurrency for memory spike test" (stress.yaml:26) | new calls are added every half second, whether or not the earlier ended (302) |
| `LabelledAsRun`, evaluation.cfg | "Temporarily switch the active cache policy at runtime" (api_server.py:359) | the handler only logs, and the harness ignores failures (harness.py:291): results carry a policy that did not run |
| `FrontierByMemory`, evaluation.cfg with Peaks = {0, 1} | "Pareto frontier (quality vs. memory)" (README.md:237) | every point has memory 0.0 (harness.py:306) |
| `PairedByTask`, evaluation.cfg | "Paired statistical tests for comparing policy evaluation scores" (pareto.py:163) | tasks without a score are dropped (harness.py:191), and what is left is paired by its place (pareto.py:300) |
| `FileMatches`, evaluation.cfg | "Save model + feature names" (importance_model.py:140) | train replaces the names before it fits (87): after a fit that raised, the old model is saved with the new names |
| `PolicyMatches`, evaluation.cfg | "Return feature importance dict from the loaded model" (learned.py:147) | a bare model loaded over another keeps the names of the other (61) |
| `ScriptSaves`, evaluation.cfg | "Load traces, generate pseudo-labels, train importance model, save" (train_policy.py:40) | the test set is scored before the model is saved (99, 119), and with fewer than two rows this raises: the fitted model is lost |
| `EitherKeyWins`, evaluation.cfg | "a "task" or "workload_type" key that overrides heuristic classification" (request_handler.py:116-117) | an unknown workload_type hides a known task (121) |
| `StatisticsOfLabels`, evaluation.cfg | "Summarise the distribution of generated labels" (label_generator.py:101) | the labels are generated again, with the scorer's default window (103) |
| `RecentWindowAgrees`, evaluation.cfg | "Uses the same feature names as FeatureExtractor" (label_generator.py:156) | is_recent_window is a flag when served (extractor.py:185) and a ramp when trained on (209) |
| `RankCountsLower`, evaluation.cfg | "fraction of blocks with LOWER attention" (extractor.py:156) | a float64 value may lie above its own float32 copy and count as lower than itself (158) |
| `TopBlockIsHeavy`, evaluation.cfg | "is this block in the top hh_fraction by attention?" (extractor.py:177) | a value may lie below its own float32 threshold (180) |
| `ArticlesStripped`, evaluation.cfg | "strip punctuation, articles" (quality_metrics.py:136) | articles go first (142): one next to an underscore is not found, and one with punctuation inside, "t.he", becomes an article when that goes (144) |
| `ReusedIsOne`, evaluation.cfg with Window <- 20 | "Label = 1 if the block is accessed again within *window* steps" (importance_scorer.py:172) | the count is divided by window / 10 (189): one access may give less than 1 |

Read in the code and not modelled: the harness and the script give `LongBenchRunner`
the whole configuration, where its settings are under `benchmark` and then
`longbench`, while the runner looks for `longbench` at the top
(`longbench.py:192-193`) and so uses its defaults; and `blocks_evicted` of the
stress tests is always 0 (`stress_tests.py:344`), for the tracker forgets what it
evicts. A load of the policy that overlaps two saves may get one's model with the
other's names, for nothing locks the file; `ModelFiles` has it, and
`ServesWhatWasSaved` excepts it (`reopened`). `TelemetryRecord` speaks of a "canonical 29-column schema"
(`schema.py:109`) and has 28 fields.

## What is not modelled, and what comes next

* Readings of the hardware and of GPU memory, and `shutdown` of the wrapper: calls
  into libraries. The collector's cache of request metrics.
* p-values, effect sizes and bootstrap intervals of `pareto.py`, ranking metrics
  and the search for parameters of `importance_model.py`: numerical code without
  state.
* The features that depend on the request alone, or need arrays of attention.
* The dashboard's streams of memory and latency: the page shows the last value.
* Saving of results, the Markdown report; plots, the other scripts, Docker and
  configuration files, which keep no state and decide nothing.
* The characters of prompts: which texts the regular expressions find.

What is left to prove is liveness, which needs ENABLED.
