------------------------------ MODULE Serving -------------------------------
(***************************************************************************)
(* What the two event-driven runners share: the GPUs of the cluster        *)
(* (cluster/gpu.rs, node.rs, topology.rs), the two waiting queues, and     *)
(* start_prefill, start_decode and the try_assign loops                    *)
(* (serving/scheduler.rs; serving/cache_runner.rs repeats the loops).      *)
(*                                                                         *)
(* A handler changes GPUs, in-flight requests, queues and pending events   *)
(* several times before it returns.  A "pool" is that part of the state on *)
(* its way through a handler, with the events scheduled so far; Commit     *)
(* makes the last pool the next state.                                     *)
(*                                                                         *)
(* The nodes' GPU lists are flattened: GPU g is the g-th of the first      *)
(* node, then of the second, and so on.  find_idle_gpu_for takes the idle  *)
(* GPU that became idle first, the first in this order among equals.       *)
(***************************************************************************)
EXTENDS Simulator, FiniteSets, Functions

CONSTANTS
    Request,        \* request ids, natural numbers
    GpuCount,       \* number of GPUs
    Tokens,         \* prompt and prefill lengths that occur
    PrefillTime,    \* ComputeModel::prefill_time_ns, by prefill length
    DecodeStepTime, \* ComputeModel::decode_step_time_ns, by prompt length
    None            \* Option::None

Gpu == 1 .. GpuCount

WorkerRole == {"Unified", "Prefill", "Decode", "Cache"}

ASSUME ServingAssumption ==
    /\ Request \subseteq Nat /\ IsFiniteSet(Request)   \* a batch is a slice
    /\ GpuCount \in Nat
    /\ Tokens \subseteq Nat /\ 0 \in Tokens
    /\ PrefillTime \in [Tokens -> Nat]
    /\ DecodeStepTime \in [Tokens -> Nat]
    /\ None \notin Nat

Stage == {"Prefill", "Decode"}

VARIABLES
    trace,          \* the requests of the current run
    role,           \* the WorkerRole of each GPU, which never changes
    busy_until,     \* GpuResource::busy_until_ns
    in_flight,      \* the requests that have not finished
    waiting,        \* prefill_queue and decode_queue
    results         \* the timelines of the requests that have finished

clusterVars == <<trace, role, busy_until, in_flight, waiting, results>>

Stamps == {"prefill_start_ns", "prefill_done_ns", "decode_start_ns",
           "first_token_ns", "finish_ns"}

\* InFlightRequest::new
NewInFlight ==
    [f \in Stamps \cup {"prefill_tokens", "pending_fetch_tier"} |->
        IF f = "prefill_tokens" THEN 0 ELSE None]

EmptyQueues == [stage \in Stage |-> <<>>]

-----------------------------------------------------------------------------
(* The arrivals *)

\* The order in which run schedules them.
ArrivesBefore(tr, r, s) ==
    \/ tr[r].arrival_ns < tr[s].arrival_ns
    \/ tr[r].arrival_ns = tr[s].arrival_ns /\ r < s

Arrivals(tr) ==
    {[time_ns |-> tr[r].arrival_ns,
      seq     |-> Cardinality({s \in Request : ArrivesBefore(tr, s, r)}),
      kind    |-> [tag |-> "RequestArrival", request_id |-> r]] : r \in Request}

\* clear_state, which replaces the simulator, the requests, the queues and the
\* results and leaves the cluster as the last run left it, and the arrivals.
StartServing(tr) ==
    /\ queue = {}
    /\ trace' = tr
    /\ now_ns' = 0
    /\ queue' = Arrivals(tr)
    /\ next_seq' = Cardinality(Request)
    /\ in_flight' = [r \in Request |-> NewInFlight]
    /\ waiting' = EmptyQueues
    /\ results' = <<>>
    /\ UNCHANGED <<role, busy_until>>

\* A runner for a cluster with the given roles.
NewServing(roles) ==
    /\ NewSimulator
    /\ trace = <<>>
    /\ role = roles
    /\ busy_until = [g \in Gpu |-> 0]
    /\ in_flight = <<>>
    /\ waiting = EmptyQueues
    /\ results = <<>>

-----------------------------------------------------------------------------
(* The GPUs *)

Serves(g, stage) == role[g] \in {stage, "Unified"}

Idle(busy, now, stage) == {g \in Gpu : busy[g] <= now /\ Serves(g, stage)}

\* The GPU find_idle_gpu_for returns, if any.
FindIdle(busy, now, stage) ==
    {g \in Idle(busy, now, stage) :
        \A h \in Idle(busy, now, stage) :
            busy[g] < busy[h] \/ (busy[g] = busy[h] /\ g <= h)}

-----------------------------------------------------------------------------
(* Starting work *)

Pool == [busy_until |-> busy_until, in_flight |-> in_flight,
         waiting |-> waiting, events |-> <<>>]

Released(p, g, now) == [p EXCEPT !.busy_until[g] = now]

\* start_prefill reads a prefill length of 0 as "the whole prompt".
PrefillTokens(p, r) ==
    IF p.in_flight[r].prefill_tokens = 0 THEN trace[r].prompt_tokens
                                         ELSE p.in_flight[r].prefill_tokens

StepTime(r) == DecodeStepTime[trace[r].prompt_tokens]

\* Mutant of Duration: the first token is not counted.
DurationShort(p, stage, r) ==
    IF stage = "Prefill" THEN PrefillTime[PrefillTokens(p, r)]
                         ELSE StepTime(r) * (trace[r].output_tokens - 1)

Duration(p, stage, r) ==
    IF stage = "Prefill" THEN PrefillTime[PrefillTokens(p, r)]
                         ELSE StepTime(r) * trace[r].output_tokens

\* Mutant of Stamped: the end of a prefill is reckoned from the arrival.
StampedFromArrival(p, now, stage, r) ==
    IF stage = "Prefill"
    THEN [p.in_flight[r] EXCEPT
            !.prefill_start_ns = now,
            !.prefill_done_ns  = trace[r].arrival_ns + Duration(p, stage, r)]
    ELSE [p.in_flight[r] EXCEPT
            !.decode_start_ns = now,
            !.first_token_ns  = now + StepTime(r),
            !.finish_ns       = now + Duration(p, stage, r)]

Stamped(p, now, stage, r) ==
    IF stage = "Prefill"
    THEN [p.in_flight[r] EXCEPT
            !.prefill_start_ns = now,
            !.prefill_done_ns  = now + Duration(p, stage, r)]
    ELSE [p.in_flight[r] EXCEPT
            !.decode_start_ns = now,
            !.first_token_ns  = now + StepTime(r),
            !.finish_ns       = now + Duration(p, stage, r)]

Done(stage) == IF stage = "Prefill" THEN "PrefillDone" ELSE "DecodeDone"

\* The GPUs' busy times once rs[1], ..., rs[n] have been started on gs[1],
\* ..., gs[n]: a GPU can be taken twice at one instant, by work of no length.
BusyAfter(p, now, stage, rs, gs, n) ==
    [g \in Gpu |->
        IF \E i \in 1 .. n : gs[i] = g
        THEN LET last == CHOOSE i \in 1 .. n :
                            /\ gs[i] = g
                            /\ \A j \in (i + 1) .. n : gs[j] # g
             IN  now + Duration(p, stage, rs[last])
        ELSE p.busy_until[g]]

\* start_prefill or start_decode, for every request of rs on the GPU of gs at
\* its place.
Started(p, now, stage, rs, gs) ==
    [busy_until |-> BusyAfter(p, now, stage, rs, gs, Len(gs)),
     in_flight  |-> [r \in DOMAIN p.in_flight |->
                        IF \E i \in DOMAIN rs : rs[i] = r
                        THEN Stamped(p, now, stage, r)
                        ELSE p.in_flight[r]],
     waiting    |-> p.waiting,
     events     |-> p.events \o
                    [i \in 1 .. Len(gs) |->
                       [time_ns |-> now + Duration(p, stage, rs[i]),
                        kind    |-> [tag |-> Done(stage), request_id |-> rs[i],
                                     gpu |-> gs[i]]]]]

\* Start r at once if a GPU is idle, whoever waits; queue it if none is.
StartOrQueue(p, now, stage, r) ==
    IF FindIdle(p.busy_until, now, stage) = {}
    THEN [p EXCEPT !.waiting[stage] = Append(@, r)]
    ELSE LET g == CHOOSE g \in FindIdle(p.busy_until, now, stage) : TRUE
         IN  Started(p, now, stage, <<r>>, <<g>>)

\* The GPUs that the loop of try_assign_prefill or try_assign_decode hands
\* out: one after the other, to the head of the queue, until the queue is
\* empty or no GPU is idle.  There is exactly one such sequence.
Assignments(p, now, stage) ==
    LET rs == p.waiting[stage]
        IdleAfter(gs, n) ==
            FindIdle(BusyAfter(p, now, stage, rs, gs, n), now, stage)
    IN  {gs \in UNION {[1 .. n -> Gpu] : n \in 0 .. Len(rs)} :
            /\ \A i \in 1 .. Len(gs) : gs[i] \in IdleAfter(gs, i - 1)
            /\ Len(gs) < Len(rs) => IdleAfter(gs, Len(gs)) = {}}

\* Mutant of TryAssign: the requests that were started stay in the queue.
TryAssignKeeping(p, now, stage) ==
    {Started(p, now, stage, SubSeq(p.waiting[stage], 1, Len(gs)), gs) :
        gs \in Assignments(p, now, stage)}

\* Mutant of TryAssign: the back of the queue comes first.
TryAssignLifo(p, now, stage) ==
    LET n  == Len(p.waiting[stage])
        rs == [i \in 1 .. n |-> p.waiting[stage][n + 1 - i]]
        q  == [p EXCEPT !.waiting[stage] = rs]
    IN  {Started([p EXCEPT !.waiting[stage] = SubSeq(@, 1, n - Len(gs))],
                 now, stage, SubSeq(rs, 1, Len(gs)), gs) :
            gs \in Assignments(q, now, stage)}

\* The pool after that loop: the only member of this set.
TryAssign(p, now, stage) ==
    {Started([p EXCEPT !.waiting[stage] = SubSeq(@, Len(gs) + 1, Len(@))],
             now, stage, SubSeq(p.waiting[stage], 1, Len(gs)), gs) :
        gs \in Assignments(p, now, stage)}

\* The handler of e returns with the pool p.
Commit(e, p) ==
    /\ StepAndSchedule(e, p.events)
    /\ busy_until' = p.busy_until
    /\ in_flight' = p.in_flight
    /\ waiting' = p.waiting
    /\ UNCHANGED role

\* InFlightRequest::into_result: a stage that never took place is reported to
\* have been at the arrival.
Timeline(r) ==
    [f \in Stamps |-> IF in_flight[r][f] = None THEN trace[r].arrival_ns
                                                ELSE in_flight[r][f]]

\* Mutant of Finalized: the request stays in flight.
FinalizedKeeping(p, r) == p

Finalized(p, r) ==
    [p EXCEPT !.in_flight = Restrict(@, DOMAIN @ \ {r})]

\* Mutant of DecodeDone: only the prefill queue is looked at.
DecodeDoneOnlyPrefill(e) ==
    LET now == ClockAt(e)
        r   == e.kind.request_id
        p1  == Finalized(Released(Pool, e.kind.gpu, now), r)
    IN  /\ \E p2 \in TryAssign(p1, now, "Prefill") : Commit(e, p2)
        /\ results' = [s \in DOMAIN results \cup {r} |->
                         IF s = r THEN Timeline(r) ELSE results[s]]
        /\ UNCHANGED trace

\* Mutant of DecodeDone: only the decode queue is looked at.
DecodeDoneOnlyDecode(e) ==
    LET now == ClockAt(e)
        r   == e.kind.request_id
        p1  == Finalized(Released(Pool, e.kind.gpu, now), r)
    IN  /\ \E p2 \in TryAssign(p1, now, "Decode") : Commit(e, p2)
        /\ results' = [s \in DOMAIN results \cup {r} |->
                         IF s = r THEN Timeline(r) ELSE results[s]]
        /\ UNCHANGED trace

\* on_decode_done
DecodeDone(e) ==
    LET now == ClockAt(e)
        r   == e.kind.request_id
        p1  == Finalized(Released(Pool, e.kind.gpu, now), r)
    IN  /\ \E p2 \in TryAssign(p1, now, "Decode") :
           \E p3 \in TryAssign(p2, now, "Prefill") : Commit(e, p3)
        /\ results' = [s \in DOMAIN results \cup {r} |->
                         IF s = r THEN Timeline(r) ELSE results[s]]
        /\ UNCHANGED trace

-----------------------------------------------------------------------------
(* Where a request is *)

Pending(tag) == {e \in queue : e.kind.tag = tag}

GpuEvents == Pending("PrefillDone") \cup Pending("DecodeDone")

Waits(stage, r) == \E i \in DOMAIN waiting[stage] : waiting[stage][i] = r

\* The places that hold r, a queue counted once per entry.
Places(r) ==
    {<<"event", e.seq>> : e \in {f \in queue : f.kind.request_id = r}}
      \cup (UNION {{<<stage, i>> : i \in {j \in DOMAIN waiting[stage] :
                                            waiting[stage][j] = r}} : stage \in Stage})
      \cup {<<"result", s>> : s \in DOMAIN results \cap {r}}

PhaseOfTag ==
    [RequestArrival |-> "Arriving", FetchDone |-> "Fetching",
     PrefillDone |-> "Prefill", DecodeDone |-> "Decode"]

\* The phase of RequestLifecycle that r is in.
PhaseOf(r) ==
    IF trace = <<>> THEN "New"
    ELSE IF r \in DOMAIN results THEN "Done"
    ELSE IF Waits("Prefill", r) THEN "PrefillQueued"
    ELSE IF Waits("Decode", r) THEN "DecodeQueued"
    ELSE PhaseOfTag[(CHOOSE e \in queue : e.kind.request_id = r).kind.tag]

\* The stages that the cluster has a GPU for.
Staffed == {stage \in Stage : \E g \in Gpu : Serves(g, stage)}

Running == trace # <<>>

Ended == Running /\ queue = {}

-----------------------------------------------------------------------------
(* What must hold, whoever the runner is *)

\* No request is lost or duplicated on its way between the event queue, the
\* two waiting queues and the results (on_arrival, on_fetch_done,
\* on_prefill_done, on_decode_done, try_assign_*), and the requests in flight
\* are those that have no result: a handler never looks up a request that is
\* gone.
OneWhere ==
    Running =>
        \A r \in Request :
            /\ Cardinality(Places(r)) = 1
            /\ r \in DOMAIN in_flight <=> r \notin DOMAIN results

\* A GPU that could serve a waiting request has an event to come that will
\* look at the queues again, and lies idle only when that event is due now:
\* no request waits for a wake-up that nobody will give.
WorkConserving ==
    \A stage \in Stage, g \in Gpu :
        waiting[stage] # <<>> /\ Serves(g, stage) =>
            \E e \in GpuEvents :
                /\ e.kind.gpu = g
                /\ busy_until[g] <= now_ns => e.time_ns = now_ns

\* No event lies in the past, and the event that ends a stage is due exactly
\* when the request's timeline says so: the times a result reports are the
\* times at which things happened (start_prefill, start_decode).
TimelineHonest ==
    /\ \A e \in queue : e.time_ns >= now_ns
    /\ \A e \in Pending("RequestArrival") :
          e.time_ns = trace[e.kind.request_id].arrival_ns
    /\ \A e \in Pending("PrefillDone") :
          e.time_ns = in_flight[e.kind.request_id].prefill_done_ns
    /\ \A e \in Pending("DecodeDone") :
          e.time_ns = in_flight[e.kind.request_id].finish_ns

\* Two requests that wait in one queue leave it in the order they entered it
\* unless they leave together.
Overtakes(stage) ==
    \E i, j \in DOMAIN waiting[stage] :
        /\ i < j
        /\ \E k \in DOMAIN waiting'[stage] :
              waiting'[stage][k] = waiting[stage][i]
        /\ \A k \in DOMAIN waiting'[stage] :
              waiting'[stage][k] # waiting[stage][j]

\* A batch has just been submitted to GPUs that are all free when it begins.
FreshBatch ==
    /\ Running
    /\ Cardinality(Pending("RequestArrival")) = Cardinality(Request)
    /\ \A g \in Gpu, r \in Request : busy_until[g] <= trace[r].arrival_ns

\* r waits for a stage that no GPU of the cluster serves.
Stranded(r) == \E stage \in Stage \ Staffed : Waits(stage, r)

\* A call of run ends, and by then it has served every request, but for those
\* that it could not: in a cluster without a GPU for a stage, what waits for
\* that stage waits for good, and nothing else does (node.rs:57).
RequestsServed ==
    FreshBatch ~> Ended /\ \A r \in Request : r \in DOMAIN results \/ Stranded(r)
=============================================================================
