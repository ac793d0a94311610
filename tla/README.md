# KVFlow-Sim in TLA+

KVFlow-Sim is a discrete-event simulator of LLM serving: requests are
prefilled and decoded on GPUs, and a cache of KV objects, spread over memory
tiers, saves prefills. The simulator is a single thread; what is hard about it
is not memory sharing but *interleaving*: the handlers of arrivals, fetches,
prefills and decodes of many requests run in the order of an event queue, and
each reads state that the others have left behind: GPU busy times, two waiting
queues, a cache, a NIC.

This directory holds TLA+ modules of that system, TLC runs over small instances
and TLAPS proofs for instances of every size. Paths below are relative to the
repository's crate, `src/`.

## 1. The system

| Component | State | Operations | Correct when |
|---|---|---|---|
| Event queue, simulator (`core/`) | clock, heap, sequence counter | `schedule`, `step` | events come out once, by time, first in first out at equal times; the clock never goes back |
| Cluster (`cluster/`) | role and `busy_until_ns` of each GPU | `find_idle_gpu_for` | a GPU is found exactly when one of the right role is idle |
| Event-driven runner (`serving/scheduler.rs`) | simulator, cluster, requests in flight, prefill and decode queue, results | `run`, `on_arrival`, `on_prefill_done`, `on_decode_done`, `try_assign_*` | every request is in one place, nobody is stranded, queues are not overtaken from within, reported times are the times at which things happened |
| Baseline runner (`serving/runner.rs`) | two vectors of busy times | `run`, `run_one` | never more work than workers, in order, without idling |
| Cache-aware runner (`serving/cache_runner.rs`) | all of the event-driven runner's, cache, transfer model, counters | `on_arrival` with its GPU-hit, fetch-hit and miss branches, `on_fetch_done`, `on_prefill_done` with placement, `on_decode_done` | as above; each request is counted once as hit or miss; no KV is reused before it has been computed; the cache stays sound |
| KV cache state (`cache/state.rs`) | objects, index by session and prefix, capacities, usage, next id | `set_capacity`, `alloc_kv_id`, `insert`, `remove`, `update_access`, `relocate`, `lookup` | counters equal what is stored, no tier is overfull, the index names live objects of the right key, a failed move leaves no trace |
| Placement policies (`policy/`) | none (they change the cache) | five `place` functions with their eviction loops | the object goes to the tier the policy prefers among those that could hold it; nothing is evicted in vain; the object can be found |
| Transfer models (`transfer/`) | NIC busy time | `estimate`, `estimate_duration` | remote transfers never overlap on the NIC; scoring books nothing |
| Calibrated table (`transfer/table.rs`) | a table filled before a run | `estimate_duration` | an entry comes before the analytical model, other sizes and tiers fall back on it |
| Eviction policies (`cache/eviction.rs`) | none | `select_for_eviction` | in the policies' loop: what is evicted is oldest, or as few objects as possible |
| Compute, profiles, fetch decision (`model/`, `decision.rs`) | none | formulas, `evaluate` | the decision is borne out by a run |
| Traces (`trace/`) | none | `generate_synthetic_trace`, `TraceStats` | a turn's reused prefix is the prompt of the turn before; a run saves no more than the statistics promise |
| Metrics (`serving/metrics.rs`) | none | summary, percentiles, objectives | the summary says of a run what its events did |
| Units, errors, JSON lines, printing | none | formatting, I/O | not modelled, see section 8 |

How they interact: a runner's `run` clears its state, schedules all arrivals
and pops events until the queue is empty. Every handler may change GPUs,
requests, both queues and the event queue several times before it returns; the
cache-aware runner's handlers also call the cache (`lookup`, `update_access`),
the transfer model (`estimate`, which books the NIC) and, at the end of a
prefill, the placement policy, which evicts and inserts. There are no threads,
locks, messages or crashes. What makes the behaviour hard:

* ties: arrivals and completions at one instant are ordered by when they were
  scheduled, and a handler acts on busy times that another is about to change;
* wake-ups: a waiting request is looked at only inside other events' handlers;
* stale state: what `clear_state` keeps between two calls of `run` (busy times,
  cache, NIC), and hits that are credited long after the lookup;
* partial failure: a relocation that must roll back, a fetch whose estimate
  fails, a placement that finds no room after it has evicted;
* two objects under one key, saturating counters, an overflowing score.

`PROJECT.json` lists each of these hazards at its line with the properties
that would catch it, or a note on why none does.

## 2. The modules

```
 Agenda (abstract) ·· Simulator ── Serving ──┬── EventDrivenRunner ── RunnersAgree ·· NoReuseRunner
                                             │     ··  RequestLifecycle (abstract)  ··
 Transfer ───────────────────────────────────┴── CacheAwareRunner ── EvictionOrder ─┐
    ├── Placement ·································┘                                 │
    │     ├── CacheState                                                             │
    │     └── Eviction                                                               │
    └── FetchDecision ── Compute                                                     │
             └── Experiment ────────────────────────────────────────────────────────┤
 Statistics ─┬── SyntheticTrace ────────────────────────────────────────────────────┘
             └── Metrics ·· Experiment
 (── EXTENDS,  ·· INSTANCE)

 proofs:  CacheStateProofs ── PlacementProofs ··┐
          ServingProofs ──┬───────── CacheAwareRunnerProofs ── ReportsProofs ── ExperimentProofs
                          └── RunnersAgreeProofs
          SimulatorProofs
```

* **Simulator**: the heap is a set of events `[time_ns, seq, kind]`;
  `IsNext(e)` is `pop`, `StepAndSchedule(e, evs)` is one turn of a runner's
  loop: pop `e`, set the clock, schedule `evs`.
* **Agenda**: what the simulator promises: a sorted sequence, in which a new
  item goes behind all that are due no later, and a clock. MCSimulator shows
  that Simulator implements it, `agenda <- InHeapOrder` being the pending
  events in the order of the heap without their sequence numbers.
* **Serving**: what both event-driven runners share. A *pool* is the state on
  its way through a handler (busy times, requests in flight, queues, events
  scheduled so far). `StartOrQueue`, `TryAssign`, `Released`, `Finalized` map
  pools to pools as `start_prefill`, `start_decode`, `try_assign_*` and the
  releases do, and `Commit(e, p)` makes the last pool the next state, so that
  each action is one whole handler. The nodes' GPU lists are one list; the
  roles are chosen at the start and never change.
* **EventDrivenRunner**: `StartRun`, `OnArrival`, `OnPrefillDone`,
  `OnDecodeDone`, one action per handler.
* **CacheAwareRunner**: composes Serving, Placement (over CacheState) and
  Transfer. `OnArrival` has one disjunct per outcome of the lookup: `OnGpuHit`,
  `OnFetchHit`, `OnFetchError` (the fetch's estimate fails and the request
  degrades to a miss), `OnMiss`. `OnPrefillDone` releases, places the KV
  (`Store`), starts or queues the decode, and serves both queues. Capacities
  come from the nodes' memories as `new` sets them.
* **EvictionOrder**: CacheAwareRunner with a history variable that records
  when each object was last used; the code's own `last_access_ns` is the thing
  under test there.
* **NoReuseRunner**: one action per `run_one`. **RunnersAgree**: it and
  EventDrivenRunner, built alike, on the same batch.
* **RequestLifecycle**: the abstract promise of a serving runner. A request is
  in one phase; one request at a time ends its phase and moves forward; waiting
  requests may start when it does; nobody waits while nobody works, but for a
  stage that is not in `staffed`, for which the cluster has no GPU. Both
  runners are shown to implement it under `phase <- [r \in Request |->
  PhaseOf(r)]`, which reads a request's phase off the event queue, the waiting
  queues and the results.
* **CacheState**: the methods of `CacheState` as operators from caches to
  caches (`Inserted`, `Removed`, `Touched`, `Relocated`), so that a policy can
  chain several in a step, and actions that call them one by one. Object sizes
  are summed by counting slots `<<id, i>>` (`Slots`), which needs no recursion
  and is what the proofs count.
* **Transfer**: the three transfer models. `Queued` chooses the queued one,
  with its NIC; `Calibrated` holds the entries of the table model.
* **Placement**: the five policies as functions from an *attempt* (cache,
  evicted ids, tier that took the object) to the set of attempts the code may
  end in. The set has several members because `objects_in_tier` lists a hash
  map's values: among equally old objects any may be the victim. `Victims` says
  what the eviction loop leaves, rather than iterating it.
* **Eviction**: `LruEviction` and `LargestFirstEviction` over candidates in any
  order, and the loop that evicts one after the other (`Evicted`). No policy
  calls them, but each has this loop with the choice of `LruEviction` in it:
  `LoopEvictsLru` says that it ends as `Victims` does.
* **Compute**, **FetchDecision**, **Statistics**, **Metrics**,
  **SyntheticTrace**: the pure functions of `model/`, `decision.rs`,
  `serving/metrics.rs` and `trace/`, without state, after the source's
  formulas. `Statistics` is the percentile code that `metrics.rs` and
  `stats.rs` share; a mean is kept as its sum. A rank is computed with integers
  (`Rank`); the code's `f64` product gives the same for up to 2,000 values.
* **Experiment**: what `examples/serving_cache_policy.rs` does: generate a
  batch, have a cache-aware runner serve it, summarise. `Submit` is the next
  batch of a plan, `Serve` the runner's handlers. It goes on to a second batch
  on the warm cache. History variables record which KV earlier runs left
  behind, the bytes in the cache at the start of the run, and whether a batch
  has begun no later than the last one's end.
* **CacheStateProofs**, **PlacementProofs**, **ServingProofs**,
  **CacheAwareRunnerProofs**, **ReportsProofs**, **ExperimentProofs**,
  **RunnersAgreeProofs**, **SimulatorProofs**: section 6.
* **MC\* modules and .cfg files**: the instances. Definitions marked "Mutant of
  X" are not part of any specification: they are what X would be with a
  plausible bug, and serve to show that a property is able to fail.

## 3. The runs

| Run | What it asks | Distinct states |
|---|---|---|
| `cache_state` | do the cache's methods keep it sound, in every order? | 158,676 |
| `placement` | do the policies, in every mixture, on tiers of every relative size, place where they prefer and evict what they should? | 7,829 |
| `simulator` | does the heap of numbered events implement a sorted first-in-first-out agenda? | 3,203 |
| `runners` | is nobody lost, stranded, overtaken or misreported by the event-driven runner, is RequestLifecycle implemented; does the baseline keep to its workers, and do the two agree where they can? | 83,910 |
| `cache_aware` | all that for the cache-aware runner, its counters, its cache, its NIC | 35,491 |
| `experiment` | two batches on one warm cache: is every KV reused that could be, is no byte lost unreported, and do trace statistics, fetch decision and summary agree with the run? | 35,063 |
| `cache_lookup`, `utility_overflow`, `gpu_exclusive`, `rerun_served`, `runners_agree`, `cpu_eviction` | statements of the documentation that the code does not meet (section 5) | violations |

The bounds, and why they suffice for the questions asked:

* `cache_state`: three ids, two prefixes, two cells, sizes 1 and 2. Three
  objects give two with one key and one without, a full tier and one with
  room; a relocation that fits, that does not, and one to the object's own
  cell. The theorems of section 6 remove the bounds.
* `placement`: three placements with eight calls each, objects of one and two
  bytes, five capacity vectors in which a tier holds nothing, one small
  object, or a large or two small ones, so that every eviction loop stops
  early, late and without success. Times 0 and 1 let victims tie.
  Three objects in a tier are listed in all six orders by `Evicted`.
* `simulator`: four events at times 0 to 2, of two kinds, scheduled by the
  caller before and between steps, or up to two by the handler of a step; also
  in the past.
* `runners`: three requests are the fewest that put one in service, one in a
  queue and one arriving at the instant of a release. Arrivals at 0, 1, 2;
  prefills of 0, 1 and 3 units, decodes of none to two tokens; six clusters: one
  or two GPUs for a stage, a unified one that both stages compete for, and
  clusters in which nobody prefills or nobody decodes.
* `cache_aware`: three turns of two sessions in 882 batches, on four
  runners: CpuOffloadLru on a small GPU and CPU tier, LocalGpuLru on a GPU for
  three small objects, RemoteLru with the queued NIC and a unified GPU, and
  NetworkAwarePlacement with an SSD from which every fetch fails. The batches
  reach GPU hits, CPU and concurrent remote fetches, failed fetches, evictions
  and failed placements.
* `experiment`: two batches of four requests, two sessions of two turns or one
  of four, in each order; prompts of 0 to 4 tokens that grow, are repeated or
  saturate; a turn that arrives as the one before it ends its prefill, earlier
  or long after; a second clock that goes on or restarts. 192 plans for each of eight builds: room
  for everything on the GPU or in remote memory, tiers for one prompt or two
  under each of the five policies, tiers too small for the longest prompt, an
  SSD from which nothing can be fetched, a cluster without a GPU to decode. The
  runs reach hits on the GPU, the CPU and in remote memory, failed fetches,
  placements that fail after having evicted, evictions in a warm cache, both
  decisions, and objectives that are met at the median and violated by some.
* `MaxRuns` bounds the calls of `run`: 1, and 2 in `rerun_served` and
  `experiment`. `MaxKvId`, `MaxEvents`, `MaxHandler` bound allocations,
  scheduled events and what a handler schedules.

Deadlock is not an error in any run (`CHECK_DEADLOCK FALSE`): a run of the
program ends when its queue is empty, and the callers of the cache, the
policies and the simulator stop when the bound on their calls is reached.

**Fairness.** `FairSpec` assumes weak fairness of `HandleEvent` only: `while
let Some(..) = self.sim.step()` delivers events until none is left. Nothing is
assumed of `StartRun`. Under it, `RequestsServed` says that a call of `run`
ends with a result for every request. `OrderFairSpec` and
`ExpFairSpec` are the same with history variables, which never block a step.
`BothFairSpec` (RunnersAgree) is fair to the event loop only: the baseline's
steps are those of a sequential call.

## 4. The properties

Shared by both event-driven runners (Serving): `OneWhere` (no request is lost
or duplicated between event queue, waiting queues and results), `WorkConserving`
(whoever waits has a GPU event to come that will look at the queue again, and a
GPU that could serve it idles only while that event is due at this instant),
`QueuesAreFifo`, `RequestsServed` (a call of `run` ends, and serves everybody
but those who wait for a stage that no GPU of the cluster serves),
`ImplementsLifecycle`, `TimelineHonest` (the reported times are those of the
events).

The cache-aware runner's own: `HitsAddUp` (hits, misses and pending fetches add
up to the requests that have arrived, at every moment, and `pending_fetches` is
the number of fetch events and 0 at the end), `StagesInOrder`, `ReuseIsCausal`,
`CacheSound`, `NicIsSerial`.

Of an experiment:

* `ReuseIsComplete`: until something is evicted or fails, a request hits exactly
  when the turn it continues was prefilled before it arrived, in whichever run.
  An empty prompt leaves no KV, so it can be continued without a hit.
* `BytesConserved`: bytes at the start plus bytes of prompts prefilled are bytes
  in the cache plus `evicted_bytes`; only a failed placement makes them fewer.
* `SavedWithinPotential`: the tokens a run did not compute are at most the
  reused prefixes of its trace; all of them if every request that has a prefix to
  reuse hits.
* `SummaryHonest`: percentiles, makespan and objectives agree with one another
  and with the steps of the run.
* `DecisionIsSound`: when FetchVsRecompute says "recompute", fetching would not
  have been faster in the runner; when it says "fetch", it costs less than one
  more prefill's base latency beyond a miss (the decision leaves out that the
  new tokens need a prefill of their own).
* `WarmEvictsLruFromGpu`: eviction from the GPU tier is LRU across runs whose
  clock goes on. Where the clock restarts it is not: times of access of the
  last run look later than those of this one. A batch that starts at the very
  instant at which the last one ended counts as restarted too: its first uses
  carry the same time as the last ones before it, and either may go.

Of the cache: `UsageExact`, `WithinCapacity`, `IndexSound`,
`RollbackRestores`; of the policies: `PlacesOnBestTier`,
`EvictsWhereItPlaces`, `PlacedIsFound`, `LoopEvictsLru`, `LargestEvictsFewest`.
Of the simulator: `ImplementsAgenda`. Of the baseline: `WithinWorkers`,
`PrefillsInOrder`, `PrefillPrompt`, and of both, `SameTimesWithoutTies`.

## 5. Where code and documentation differ

Each has a run whose counterexample shows it.

* **A GPU serves two requests** (`gpu_exclusive`, `scheduler.rs:143`).
  `on_prefill_done` sets `busy_until_ns = now_ns` without looking. An arrival at
  that very instant is handled first (it was scheduled first) and takes the GPU;
  the release then frees it under the new work, and a request that waits is
  given it too. The run counts only stages that end later than now, in batches
  all of whose stages take time: the two prefills really overlap.
* **A second run strands requests** (`rerun_served`, `scheduler.rs:87`).
  `clear_state` restarts the clock but keeps the GPUs' busy times; a request can
  queue for a GPU that no event will ever release, and gets no result.
* **Not equivalent to the baseline** (`runners_agree`, `scheduler.rs:16`). With
  two prefill workers the baseline books the decode worker in order of arrival,
  the event loop in order of prefill completion. In the first run,
  with one worker for each stage and no ties, they agree
  (`SameTimesWithoutTies`, proved for every batch). A tie is an arrival, or the
  end of a prefill, at the instant at which another request frees the worker it
  needs, or two ends of one stage at one instant, as a prefill or decode of no
  length allows: the event handled first then frees the GPU under the work of
  the second. In a later run GPUs may be busy that no event will free.
* **A tracked object that lookup does not find** (`cache_lookup`,
  `state.rs:94`). Two objects with one key share an index entry; removing the
  older drops the entry of the newer.
* **The unreachable tier comes first** (`utility_overflow`,
  `network_aware.rs:62`). The cost of an impossible fetch is `i128::MAX`, and a
  penalty is subtracted after it.
* **CPU hits do not count as use** (`cpu_eviction`, `cache_runner.rs:209`). LRU
  on the CPU tier evicts what has just been fetched. On the GPU tier, where
  hits are recorded, `WarmEvictsLruFromGpu` holds.

"FCFS queues" (`scheduler.rs:14`) holds of the queues (`QueuesAreFifo`) but not
of the runner: `on_arrival` and `on_prefill_done` ask for an idle GPU before
they look at the queue (`StartOrQueue`), so that at the instant a GPU becomes
free a newcomer whose event comes first passes those who wait.

## 6. What is proved

For every value of the constants, under the assumptions the modules name:

| Module | Theorems |
|---|---|
| `CacheStateProofs` | `Spec => []TypeOK`, `[]UsageExact`, `[]WithinCapacity`, `[]IndexSound`, `[]RollbackRestores` |
| `PlacementProofs` | `PlaceSpec => []UsageExact`, `[]WithinCapacity`, `[]IndexSound`, `[]PlacedIsFound`, `[]EvictsWhereItPlaces`, `[]PlacesOnBestTier`; in every cache that keeps its counters, `LoopEvictsLru` and `LargestEvictsFewest` |
| `SimulatorProofs` | `MCSpec => ImplementsAgenda` (MCSimulator: any caller, any handler) |
| `RunnersAgreeProofs` | of EventDrivenRunner, `Spec => []TypeOK`, `[]OneWhere`, `[]TimelineHonest`, `[](runs <= 1 => WorkConserving)`, `QueuesAreFifo`; `Spec /\ [](runs <= 1) => ImplementsLifecycle`. Of the baseline beside it, `BothSpec => []WithinWorkers`, `[]PrefillsInOrder`, `[]PrefillPrompt`; of both, `BothSpec => []SameTimesWithoutTies` |
| `CacheAwareRunnerProofs` | what is proved of EventDrivenRunner, `[]CacheSound`, and `Spec => KV!PlaceSpec` |
| `ReportsProofs` | `Spec => []StagesInOrder`, `[]HitsAddUp`, `[]ReuseIsCausal`; `Spec => []NicIsSerial` if `Queued` |
| `ExperimentProofs` | `ExpSpec => Spec`; `ExpSpec => []DecisionIsSound` unless `Queued`; `ExpSpec => []BytesConserved` and `[]ReuseIsComplete` if `PrefillsTakeTime`; `ExpSpec => WarmEvictsLruFromGpu` |

### The cache and the policies

The assumptions are `CacheAssumption` (missing is no cell; sizes and times are
natural numbers), and for the policies `PlacementAssumption` (the four tiers of
the target node are cells; sizes of KV objects are among `ByteSize`).

The argument is one predicate of a cache, `Good(c)`: it is well typed, the ids
of its objects have been allocated, its counters are exact, no counter exceeds
its capacity, the index is sound. The parts need one another:

* capacities are kept by `relocate`'s rollback and by `remove`'s saturating
  subtraction only if the counters are exact (a saturating subtraction that
  saturates would break both), and `set_capacity` may choose any value only
  because exact counters are 0 while no object exists;
* exactness of `insert` needs that the id is new, hence that ids of objects
  have been allocated.

Lemmas show that each method maps good caches to good ones (`RemovedGood`,
`InsertedGood`, `TouchedGood`, `RelocatedGood`); under them lie facts about
counting slots (`BytesAdd`, `ExactStep`). `RemovedGood` is about removing a
*set* of objects, which is what an eviction loop does. `PlacementProofs` then
follows an attempt through a policy: `AttemptGood` says that its cache is good,
that the allocated id is unused until a tier has taken the object, and that a
lookup finds exactly that id afterwards; evicting and putting keep it, so every
policy does. `RoomMade` shows, from exact counters, that emptying a tier large
enough for the object makes room for it, hence that NetworkAwarePlacement's
capacity check is all it takes never to evict in vain (`Frugal`).

`PreferredTierIsTaken` rests on the converse as well: a tier that is too small
for the object gets no room by eviction (`TryEvictingFills`). For
NetworkAwarePlacement the sort is shown to be by a strict total order, so that
the ranks are the numbers 0 to 3 without repetition (`RankOrders`), and
`Sought` says after each rank where the attempt stands. The theorem assumes
`NoOverflow` when NetworkAwarePlacement is used: prefill time less cost less
penalty stays in the range of i128. That is exactly what the run
`utility_overflow` shows to fail when a fetch is impossible; without the
assumption the statement is false. For the other policies it is unconditional.

`EvictionLoopIsLru` is about a loop, which Eviction writes as a recursive
function over the sets of objects that are left. The theorem is proved of any
loop that takes first elements of an order `R` until what it took is among the
sets `E` (`Loops`): `Outcomes` describes directly what may be gone in the end,
`LoopStops` and `LoopGoesOn` show that the description obeys the recursion, and
`OutcomesOnly` that nothing else does, by a smallest counterexample (`Least`, the
well-foundedness of the natural numbers) instead of an induction. What remains
is that a policy's choice among candidates in any order compares them
(`SelectsFirst`, `FirstSelected`) and that more evicted bytes make no less room
(`EnoughGrows`, from exact counters). `EvictionOfLargestIsFewest` exchanges
objects: if fewer objects `L` did, then those that the loop took before its last
would be no fewer than `L` and each at least as large as any that it left, and
`BytesBelow` injects the slots of the one set into those of the other, so that
the last eviction was not needed.

What a placement does to the bytes is `Accounted`: its evicted objects are gone,
the others are untouched, at most one is new, and no object stays on a tier that
was accessed before one that was evicted there. It holds of every attempt on its
way through a policy, the evictions of a tier that then failed included.

### The simulator

`HeapInv` is `Numbered(queue, next_seq)`: the heap is finite, and its events have
numbers of their own below the counter. The agenda that implements it is made of
positions (`Position(Q, e)`, how many events come before `e`): they are the
numbers from 0 without gaps (`PositionsTaken`), so that the sequence is
determined by them (`InOrderOnly`). `ScheduleEnters` shows that a new event,
having the largest number, goes behind all that are due no later, `PopTakesFirst`
that a pop takes the head and moves every other one place up, `BatchEnters` that
a handler's events enter one after the other. An event in the past is not
excluded: the clock stays where it is (`ClockAt`).

### The runners

`ServingAssumption` and the runners' own say what the constants are: a batch is
a finite set of natural numbers, lengths and times are natural numbers, traces
map requests to records of the right type. Nothing is assumed of the cluster
(it may have no GPU), the order of arrivals, ties, or durations, which may be 0.

`ServingProofs` is about the pool that a handler changes step by step, and is
shared. `PoolGood` is what holds between two calls inside a handler; `Started`,
`StartOrQueue`, `TryAssign`, `Released` and `Finalized` keep it. `TryAssign`
is a set in the model (the sequence of GPUs that the loop hands out, as a
solution of its equations); `TryAssignGood` is about any member, and says what
the loop leaves: an empty queue, or no idle GPU. `Returns(e, q)` sums up a
handler that ends with the pool `q`, and from it alone follow the invariant, the
order of the queues and the step of RequestLifecycle, so that a runner's proof
has to show only that each of its handlers returns.

The inductive invariant `ServingInv` is:

* `Types`: what the variables hold;
* `Numbered`: sequence numbers are below the counter and distinct. Without it two
  events could be one member of the set that stands for the heap;
* `InOnePlace`: no request is in two of the pending events and queue positions;
* `Accounted`: the requests in flight are those without a result, and each is in
  an event or a queue. With `InOnePlace` this gives `OneWhere`, whose counting of
  places is not inductive by itself: a handler moves several requests at once;
* `TimelineHonest`, and `TraceOK` while a run is on.

`WorkInv` adds to `WorkConserving` that a GPU which is busy is so until the time
of an event of that GPU (`BusyAttended`): the end of that work is the wake-up of
whoever queues. It holds only until `run` is called a second time, because
`clear_state` keeps the busy times of GPUs and throws away the events that
belong to them (`rerun_served` shows the consequence): hence `runs <= 1` in
`QueuesAreAttended` and `RunnerImplementsLifecycle`. The others hold for any
number of runs.

The cache-aware runner's invariant adds `CacheGood(cache)`, which is `Good` of
`CacheStateProofs`, used through an instance (`Surrounded` derives the
assumptions of that instance from the runner's), and `IdsLeft`: the ids that have
been allocated and the requests that still have a prefill ahead are together at
most as many as there are requests in the runs so far. So the bound `MaxKvId`
never hides a placement: every prefill finds an id, for every batch. The phase
of a request has to be known for that (`Whereabouts`, `HandlerMoves`).

For `RunnerImplementsLifecycle`, each handler is shown to be one `MovesOn` step
for its request (`PhasesMoved`) in which others only start (`Keeps`), and
RequestLifecycle's guard against stranding follows from `WorkConserving`.

### The baseline runner

Who is at work at a time, and who waits, is told by the reports of requests
served long before, while a step sees only when each worker is free again. The
invariant `BaseInv` therefore gives every request a worker, which the program
does not record:

* `SharedBy(stage, by)`: two requests that `by` gives the same worker are not at
  work on it at one time, and each ends before that worker is free. Then those at
  work at any moment have different workers (`NoMoreThanWorkers`): `WithinWorkers`;
* `Pressing`: a prefill begins on its request's arrival, or no later than any
  worker is free now. With it the next request, which arrives last of all so far
  and gets the worker that is free first, begins no earlier than anybody before
  it: `PrefillsInOrder`;
* `Diligent(by)`: at every time at which a request waits, each prefill worker has
  one of the requests that `by` gives it. It is not enough to say so of the times
  at which somebody waits: a request served later may turn out to have waited at a
  time at which nobody did before, hence the second alternative, that everybody
  served so far has arrived and the worker is busy until later. It is about the
  first call, since a second one begins with the busy times of the first.

### The two runners compared

The baseline computes all times of a request in one step, stage by stage; the
event loop finds them one event at a time. What both have in common, when a
stage has a single worker, is said once, of a *line* (`GoodLine`): an order of
the requests, and for each a time at which it is ready, begins and ends, such
that nobody begins before it is ready or before those in front of it have ended,
and everybody begins at one of these moments. Ready means arrived, or prefilled.

* `Reckoned`: what the baseline has computed so far is, for each stage with one
  worker, such a line in the order of arrival, and the worker is free again when
  the last one ends.
* `InStep`: the event loop, in the middle of a run, keeps to the line: the
  requests yet to come follow those that wait, who stand in its order; at most
  one is at work, its GPU is busy until the line says it ends, and the one event
  of the stage is due at that time; if nobody is at work nobody waits; all others
  have ended. `Synced` says so of both stages, of the arrivals still to come, and
  that the times recorded so far, in flight and in results, are the baseline's. For
  the decodes this takes a single *prefill* worker: with two, requests join the
  decode queue in another order than the baseline's, the disagreement that
  `runners_agree` shows.
* `SideBySide` is the invariant of the pair: the baseline's (`BaseInv`), the event
  loop's (`Inv`), `Reckoned`, and `Abreast`: in the first run the event loop has
  either not begun or is `Synced`. Each handler keeps it (`ArrivalSynced`,
  `PrefillDoneSynced`, `DecodeDoneSynced`): one that moves a request to a free
  stage starts it when the line says so, one that frees a worker starts the next
  in line.

`Untied`, the part of `GoodLine` that `NoTies` provides, is used where a worker
is freed: nobody else is then ready or ending. The property at first excluded only
arrivals and prefills that come to an end when a worker is freed; the proof
needed that no two requests of a stage end at one instant, and TLC, given four
requests, found the counterexample: a prefill of no length ends together with the
one before it, and the second of the two events releases the worker under the
next one's work. Three requests, as in the run `runners`, do not show it.

### What the cache-aware runner reports

None of the four properties of `ReportsProofs` is inductive: each speaks of
some requests at some moments, and a handler starts work for several requests
at once. What a handler does to a record is said once, in `Moves(e)`: the
request of the event `e` moves from one phase to another and its record changes
in a way that depends on the two phases; the record of every other request is
left alone or stamped with the start of a stage (`OthersRestamped`). What it
does to the cache is `Fills(e)`: an object that is there afterwards was there
before or is the KV of the prompt that has just been prefilled, which follows
from `PlacementsCome`, a fact about every policy. The invariants are then:

* `Shaped`: for each phase, what the record of a request in it says: a tier to
  fetch from while the fetch is pending and at no other time; a prefill, if one
  is to come, of the whole prompt or of its new part; in the decode, that the
  prefill was over when the decode began. It covers requests in flight only; `ResultsInOrder` covers the others, and a
  record is handed from one to the other by `on_decode_done`;
* `CountsRight`: the counters against the numbers of requests that are arriving
  and fetching. Requests are counted rather than the events of `HitsAddUp`
  because a handler changes the phase of one request but schedules several
  events; `PhasesArePending` is the bijection between the two. It also shows
  that the saturating subtraction from `pending_fetches` never saturates;
* `Causal`: `ReuseIsCausal`, with an empty cache before the first run. The
  property is about the first run only because the cache outlives a run and
  later batches have requests of their own;
* `SizesRight`: an object is as large as the KV of its tokens. The fetch books
  the NIC for the *object's* size, and `NicIsSerial` computes the transfer's
  begin from the *request's* prefix;
* `NicBooked`: every remote transfer under way lies before
  `nic_busy_until_ns`. So a new one, which begins there, meets none of them.
  `Queued` is the assumption that the transfer model is the queued one; the
  other models have no NIC to share.

Of these theorems only `ReuseIsCausal` is limited to the first run; the others
hold for any number, `clear_state` and the NIC time it keeps included.

### Experiments

`ExperimentsAreRuns` says that whatever batches an experiment submits, it is a
behaviour of CacheAwareRunner: all of the above holds in it. `ExpInv` is the
conjunction of those invariants with `PlanServed`, that the trace is the one
that was generated from the plan.

* `DecisionsAreSound`: `FetchesTimed` says of each fetch under way that it ends
  the estimated time after its request's arrival. That is where the theorem needs
  a model without queue (`~Queued`): a booked NIC makes a fetch wait for others,
  which the decision cannot know. The rest is arithmetic of the linear model.
  The size of the transfer is the *object's*, and `SizesRight` equates it with
  the prefix that the decision is about.
* `BytesAreConserved`: `Balances(e)` says for each handler what it does to the
  bytes cached and those reported as evicted; at the end of a prefill this is
  `Accounted`. That the bytes of the *prefilled prompts* grow in the same step
  takes `MovedOver`: the prefill of a request is over, seen by its phase or by
  its result, from the end of its prefill on and not before. A result shows
  it by the length of its prefill, so the theorem assumes `PrefillsTakeTime`
  (a prefill of at least one token takes at least a nanosecond); with a free
  prefill the property could not tell a prefilled request from a full hit.
* `WarmEvictionIsLru`: `UsesKnown` says that for an object on the GPU the cache
  knows the time of its last use, `RunsApart` that what was used in an earlier run
  was used at an earlier time. The second needs that every event of a run comes
  no earlier than its batch starts (`AfterStart`), and is false if a batch starts
  at the instant at which the last one ended: the property as it was first stated
  allowed that, TLC's plans have no such batch, and the proof attempt showed the
  gap.
* `ReuseIsNeverMissed`: the inductive invariant is `ReuseKnown`. It says where
  the KV is (`KeysRight`: the cache holds keys of `Left` only, what this run and
  the earlier ones have left behind, and all of them while no object is gone;
  `WellKept`: where a policy can find them) and when it came there
  (`PrefilledBefore`: what was prefilled was prefilled strictly before anybody
  arrives who has not yet). The last is not obvious: at one instant an arrival
  and the end of a prefill are ordered by their sequence numbers, and it is
  because `run` schedules all arrivals before it starts (`ArrivalsFirst`) that
  the arrival comes first and misses. `Reckons(e)` says for each handler what
  it adds to the keys and to the hits, for the policies from `PlacementsExtend`
  (a placement that evicts nothing extends the index). `TurnsFit`, that the
  prefix a turn reuses is exactly the prompt of the turn before it, is where
  `Unsaturated` is needed. The attempt showed that the property as it was first
  stated was false for an empty first prompt, which leaves nothing behind; it
  now says so, and the plans of the run have such prompts. `PrefillsTakeTime` is
  assumed for the same reason as above.

## 7. What is only model-checked

* Of experiments, `SavedWithinPotential` and `SummaryHonest`. They are about sums
  and sorted lists, which the statistics compute by folds: what a fold yields for
  every input needs an induction whose theorems the provers cannot instantiate.
* Liveness under fairness, `RequestsServed`, which TLAPS does not handle.
* WarmEvictsLruFromGpu's counterpart for the other tiers does not hold (section 5).

## 8. What is not modelled

* `trace/jsonl.rs`, `units.rs`, `error.rs`, and what the examples print: I/O and
  formatting.
* `policy/fetch.rs` (a trait that nobody implements), `earliest_gpu_for`, the
  GPU-to-GPU path: code without a caller outside tests.
* Throughputs, means and `reuse_ratio_mean`: `f64` quotients of numbers that are
  modelled.
* Saturation at 2^64 of clock, sequence number, ids and products; bandwidths are
  small numbers here, `NsPerUnit` the factor.
* Batches with a repeated request id.

## 9. Plan

Done: modules and runs above; theorems of CacheState, Placement, Eviction, the
simulator, the runners and experiments.

Left: a map from keys to KV that CacheState implements while keys are not
duplicated; what an orphaned object (two turns that miss and store the same key)
costs the cache-aware runner.
