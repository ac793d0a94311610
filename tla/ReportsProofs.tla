---------------------------- MODULE ReportsProofs ----------------------------
(***************************************************************************)
(* What CacheAwareRunner reports of a run, for every batch, cluster, cache *)
(* and policy: its counters of hits and misses add up, the stages of a     *)
(* request follow one another and take the time they should, no KV is      *)
(* reused before it has been computed, and the NIC carries one transfer at *)
(* a time.                                                                 *)
(***************************************************************************)
EXTENDS CacheAwareRunnerProofs

-----------------------------------------------------------------------------
(* The records of the requests in a handler *)

\* The prefill that the record x asks for, of a request q.
LengthOf(x, q) == IF x.prefill_tokens = 0 THEN q.prompt_tokens ELSE x.prefill_tokens

StepOf(q) == DecodeStepTime[q.prompt_tokens]

\* The record x of the request q when the stage has started.
StampOf(x, now, stage, q) ==
    IF stage = "Prefill"
    THEN [x EXCEPT !.prefill_start_ns = now,
                   !.prefill_done_ns  = now + PrefillTime[LengthOf(x, q)]]
    ELSE [x EXCEPT !.decode_start_ns = now,
                   !.first_token_ns  = now + StepOf(q),
                   !.finish_ns       = now + StepOf(q) * q.output_tokens]

LEMMA StampedIs ==
    ASSUME NEW p, NEW now, NEW stage \in Stage, NEW r
    PROVE  Stamped(p, now, stage, r) = StampOf(p.in_flight[r], now, stage, trace[r])
BY DEF Stamped, StampOf, Duration, PrefillTokens, LengthOf, StepTime, StepOf, Stage

\* Every request but r is left alone or has been started.
OthersRestamped(q, p, now, r) ==
    \A s \in DOMAIN p.in_flight \ {r} :
        Unmoved(q, p, s) \/ \E t \in Stage : TakenUp(q, p, now, t, s)

\* The request r has been sent to the stage and nowhere else, and started or not.
SentWith(q, p, now, stage, r) ==
    \/ /\ WaitsIn(q, stage, r) /\ \A t \in Stage : ~WorksIn(q, t, r)
       /\ q.in_flight[r] = p.in_flight[r]
    \/ /\ WorksIn(q, stage, r) /\ \A t \in Stage : ~WaitsIn(q, t, r)
       /\ q.in_flight[r] = Stamped(p, now, stage, r)

LEMMA SendStamps ==
    ASSUME NEW tiers, NEW now \in Nat, NEW stage \in Stage, TraceOK,
           NEW p, PoolGood(p, tiers, now), NEW r \in DOMAIN p.in_flight,
           ~HeldIn(p, r), NEW q, q = StartOrQueue(p, now, stage, r)
    PROVE  /\ PoolGood(q, tiers, now)
           /\ DOMAIN q.in_flight = DOMAIN p.in_flight
           /\ OthersRestamped(q, p, now, r)
           /\ SentWith(q, p, now, stage, r)
<1>1. PoolGood(q, tiers, now) /\ QueuedRight(q, p, now, stage, r)
  BY StartOrQueueGood
<1>2. OthersRestamped(q, p, now, r)
  BY <1>1 DEF QueuedRight, OthersRestamped, Unmoved
<1>3. /\ WaitsIn(q, stage, r) \/ WorksIn(q, stage, r)
      /\ \A t \in Stage : WaitsIn(q, t, r) \/ WorksIn(q, t, r) => t = stage
      /\ ~(WaitsIn(q, stage, r) /\ WorksIn(q, stage, r))
  <2>1. ~(WaitsIn(q, stage, r) /\ WorksIn(q, stage, r))
    <3>1. Apart(q)
      BY ONLY <1>1 DEF PoolGood
    <3> QED
      BY ONLY <3>1, stage \in Stage DEF Apart, WaitsIn, WorksIn
  <2>2. /\ WaitsIn(q, stage, r) \/ WorksIn(q, stage, r)
        /\ \A t \in Stage : WaitsIn(q, t, r) \/ WorksIn(q, t, r) => t = stage
    BY ONLY <1>1 DEF QueuedRight
  <2> QED
    BY <2>1, <2>2
<1>4. p \in PoolType(tiers) /\ r \in Request
  BY PoolParts DEF PoolGood
<1>5. CASE FindIdle(p.busy_until, now, stage) = {}
  <2>1. q = [p EXCEPT !.waiting[stage] = Append(@, r)]
    BY <1>5 DEF StartOrQueue
  <2>2. q.in_flight = p.in_flight /\ q.events = p.events
    BY <1>4, <2>1 DEF PoolType
  <2>3. ~WorksIn(q, stage, r)
    BY <2>2 DEF HeldIn, WorksIn
  <2> QED
    BY <1>1, <1>2, <1>3, <2>2, <2>3 DEF SentWith, QueuedRight
<1>6. CASE FindIdle(p.busy_until, now, stage) # {}
  <2> DEFINE g == CHOOSE g \in FindIdle(p.busy_until, now, stage) : TRUE
  <2>1. q = Started(p, now, stage, <<r>>, <<g>>)
    BY <1>6 DEF StartOrQueue
  <2>2. q.waiting = p.waiting
    BY <2>1 DEF Started
  <2>3. q.in_flight[r] = Stamped(p, now, stage, r)
    <3>1. <<r>>[1] = r /\ 1 \in DOMAIN <<r>>
      OBVIOUS
    <3> HIDE DEF g
    <3> QED
      BY <2>1, <3>1 DEF Started
  <2>4. ~WaitsIn(q, stage, r)
    BY <2>2 DEF HeldIn, WaitsIn
  <2> QED
    BY <1>1, <1>2, <1>3, <2>3, <2>4 DEF SentWith, QueuedRight
<1> QED
  BY <1>5, <1>6

LEMMA TryBothStamps ==
    ASSUME NEW tiers, NEW now \in Nat, NEW a \in Stage, NEW b \in Stage, a # b,
           TraceOK, NEW o, PoolGood(o, tiers, now),
           NEW p \in TryAssign(o, now, a), NEW q \in TryAssign(p, now, b)
    PROVE  /\ PoolGood(q, tiers, now)
           /\ DOMAIN q.in_flight = DOMAIN o.in_flight
           /\ Restamped(q, o, now)
<1>1. /\ PoolGood(p, tiers, now) /\ TriedRight(p, o, now, a)
      /\ Restamped(p, o, now)
  BY TryAssignGood
<1>2. /\ PoolGood(q, tiers, now) /\ TriedRight(q, p, now, b)
      /\ Restamped(q, p, now)
  BY <1>1, TryAssignGood
<1>3. DOMAIN p.in_flight = DOMAIN o.in_flight /\ DOMAIN q.in_flight = DOMAIN p.in_flight
  BY <1>1, <1>2 DEF TriedRight
<1>4. ASSUME NEW s \in DOMAIN o.in_flight
      PROVE  Unmoved(q, o, s) \/ \E t \in Stage : TakenUp(q, o, now, t, s)
  <2>1. CASE Unmoved(p, o, s)
    <3>1. CASE Unmoved(q, p, s)
      BY <2>1, <3>1 DEF Unmoved
    <3>2. ASSUME NEW t \in Stage, TakenUp(q, p, now, t, s)
          PROVE  TakenUp(q, o, now, t, s)
      BY <2>1, <3>2, StampedIs DEF Unmoved, TakenUp
    <3> QED
      BY <1>2, <1>3, <3>1, <3>2 DEF Restamped
  <2>2. ASSUME NEW t \in Stage, TakenUp(p, o, now, t, s)
        PROVE  TakenUp(q, o, now, t, s)
    <3>1. \A u \in Stage : ~WaitsIn(p, u, s)
      BY <1>1, <2>2 DEF TakenUp, PoolGood, Apart, WaitsIn, WorksIn
    <3>2. Unmoved(q, p, s)
      BY <1>2, <1>3, <3>1 DEF Restamped, TakenUp
    <3> QED
      BY <2>2, <3>2 DEF TakenUp, Unmoved
  <2> QED
    BY <1>1, <2>1, <2>2 DEF Restamped
<1> QED
  BY <1>2, <1>3, <1>4 DEF Restamped

LEMMA SendAndTryStamps ==
    ASSUME NEW tiers, NEW now \in Nat, NEW stage \in Stage,
           NEW a \in Stage, NEW b \in Stage, a # b, TraceOK,
           NEW o, PoolGood(o, tiers, now), NEW r \in DOMAIN o.in_flight,
           ~HeldIn(o, r), NEW n, n = StartOrQueue(o, now, stage, r),
           NEW p \in TryAssign(n, now, a), NEW q \in TryAssign(p, now, b)
    PROVE  /\ PoolGood(q, tiers, now)
           /\ DOMAIN q.in_flight = DOMAIN o.in_flight
           /\ OthersRestamped(q, o, now, r)
           /\ SentWith(q, o, now, stage, r)
<1>1. /\ PoolGood(n, tiers, now) /\ DOMAIN n.in_flight = DOMAIN o.in_flight
      /\ OthersRestamped(n, o, now, r) /\ SentWith(n, o, now, stage, r)
  BY SendStamps
<1>2. /\ PoolGood(q, tiers, now) /\ DOMAIN q.in_flight = DOMAIN n.in_flight
      /\ Restamped(q, n, now)
  BY <1>1, TryBothStamps
<1>3. /\ \A s : ~(\E t, u \in Stage : WaitsIn(n, t, s) /\ WorksIn(n, u, s))
      /\ \A s : ~(\E t, u \in Stage : WaitsIn(q, t, s) /\ WorksIn(q, u, s))
      /\ \A s : \A t, u \in Stage : WaitsIn(n, t, s) /\ WaitsIn(n, u, s) => t = u
  BY <1>1, <1>2 DEF PoolGood, Apart, WaitsIn, WorksIn
<1>4. ASSUME NEW s \in DOMAIN o.in_flight \ {r}
      PROVE  Unmoved(q, o, s) \/ \E t \in Stage : TakenUp(q, o, now, t, s)
  <2>1. CASE Unmoved(n, o, s)
    <3>1. CASE Unmoved(q, n, s)
      BY <2>1, <3>1 DEF Unmoved
    <3>2. ASSUME NEW t \in Stage, TakenUp(q, n, now, t, s)
          PROVE  TakenUp(q, o, now, t, s)
      BY <2>1, <3>2, StampedIs DEF Unmoved, TakenUp
    <3> QED
      BY <1>1, <1>2, <3>1, <3>2 DEF Restamped
  <2>2. ASSUME NEW t \in Stage, TakenUp(n, o, now, t, s)
        PROVE  TakenUp(q, o, now, t, s)
    <3>1. \A u \in Stage : ~WaitsIn(n, u, s)
      BY <1>3, <2>2 DEF TakenUp
    <3>2. Unmoved(q, n, s)
      BY <1>1, <1>2, <3>1 DEF Restamped, TakenUp
    <3> QED
      BY <2>2, <3>2 DEF TakenUp, Unmoved
  <2> QED
    BY <1>1, <2>1, <2>2 DEF OthersRestamped
<1>5. SentWith(q, o, now, stage, r)
  <2>1. CASE /\ WaitsIn(n, stage, r) /\ \A t \in Stage : ~WorksIn(n, t, r)
             /\ n.in_flight[r] = o.in_flight[r]
    <3>1. CASE Unmoved(q, n, r)
      BY <2>1, <3>1 DEF Unmoved, SentWith
    <3>2. ASSUME NEW t \in Stage, TakenUp(q, n, now, t, r)
          PROVE  SentWith(q, o, now, stage, r)
      <4>1. t = stage /\ \A u \in Stage : ~WaitsIn(q, u, r)
        BY <1>3, <2>1, <3>2 DEF TakenUp
      <4>2. q.in_flight[r] = Stamped(o, now, stage, r)
        BY <2>1, <3>2, <4>1, StampedIs DEF TakenUp
      <4> QED
        BY <3>2, <4>1, <4>2 DEF TakenUp, SentWith
    <3> QED
      BY <1>1, <1>2, <3>1, <3>2 DEF Restamped
  <2>2. CASE /\ WorksIn(n, stage, r) /\ \A t \in Stage : ~WaitsIn(n, t, r)
             /\ n.in_flight[r] = Stamped(o, now, stage, r)
    <3>1. Unmoved(q, n, r)
      BY <1>1, <1>2, <2>2 DEF Restamped, TakenUp
    <3> QED
      BY <2>2, <3>1 DEF Unmoved, SentWith
  <2> QED
    BY <1>1, <2>1, <2>2 DEF SentWith
<1> QED
  BY <1>1, <1>2, <1>4, <1>5 DEF OthersRestamped
-----------------------------------------------------------------------------
(* The records of the requests from one state to the next *)

\* What the handler of e, at the time now, does to the requests it is not for.
OthersKept(e) ==
    /\ now_ns' = ClockAt(e)
    /\ \A s \in DOMAIN in_flight \ {e.kind.request_id} :
          /\ s \in DOMAIN in_flight'
          /\ \/ PhaseOf(s)' = PhaseOf(s) /\ in_flight'[s] = in_flight[s]
             \/ \E t \in Stage :
                   /\ PhaseOf(s) = WaitingPhase(t) /\ PhaseOf(s)' = t
                   /\ in_flight'[s] = StampOf(in_flight[s], now_ns', t, trace[s])

\* The request of e, with the record x, has been sent to the stage.
SentAs(e, x, stage) ==
    LET r == e.kind.request_id
    IN  /\ r \in DOMAIN in_flight'
        /\ \/ PhaseOf(r)' = WaitingPhase(stage) /\ in_flight'[r] = x
           \/ /\ PhaseOf(r)' = stage
              /\ in_flight'[r] = StampOf(x, now_ns', stage, trace[r])

\* The phases that a pool leads to.
LEMMA PoolPhases ==
    ASSUME NEW S, NEW e, NEW q, q.events \in Seq(S), Commit(e, q),
           Running', PhasesKnown', NEW t \in Stage, NEW s \in Request
    PROVE  /\ WaitsIn(q, t, s) => PhaseOf(s)' = WaitingPhase(t)
           /\ WorksIn(q, t, s) => PhaseOf(s)' = t
<1>1. Delivered(e, q) /\ waiting' = q.waiting
  BY CommittedQueue DEF Commit
<1>2. ASSUME WaitsIn(q, t, s) PROVE PhaseOf(s)' = WaitingPhase(t)
  <2>1. Waits(t, s)'
    BY <1>1, <1>2 DEF Waits, WaitsIn
  <2> QED
    BY <2>1 DEF PhasesKnown
<1>3. ASSUME WorksIn(q, t, s) PROVE PhaseOf(s)' = t
  <2>1. PICK i \in DOMAIN q.events : /\ q.events[i].kind.request_id = s
                                     /\ q.events[i].kind.tag = Done(t)
    BY <1>3 DEF WorksIn
  <2>2. NewEvent(q, i) \in queue' /\ NewEvent(q, i).kind = q.events[i].kind
    BY <1>1, <2>1 DEF Delivered, NewEvent
  <2>3. PhaseOf(s)' = PhaseOfTag[Done(t)]
    BY <2>1, <2>2 DEF PhasesKnown
  <2> QED
    BY <2>3, PhasesOfEvents
<1> QED
  BY <1>2, <1>3

\* The handler of e goes on from the pool o, in which only its own request may
\* have been edited, or be missing, to the pool q.
LEMMA OthersAfter ==
    ASSUME Whereabouts, PhasesKnown, PhasesKnown', NEW e, IsNext(e), trace' = trace,
           NEW o, o.waiting = waiting,
           \A s \in DOMAIN in_flight \ {e.kind.request_id} :
              s \in DOMAIN o.in_flight /\ o.in_flight[s] = in_flight[s],
           NEW S, NEW q, q.events \in Seq(S), Commit(e, q),
           DOMAIN q.in_flight = DOMAIN o.in_flight,
           OthersRestamped(q, o, ClockAt(e), e.kind.request_id)
    PROVE  OthersKept(e)
<1> DEFINE r == e.kind.request_id
<1>1. /\ ServingInv(Sources, FetchKind) /\ e \in queue /\ Running /\ Running'
      /\ Delivered(e, q) /\ waiting' = q.waiting /\ in_flight' = q.in_flight
      /\ now_ns' = ClockAt(e)
  <2>1. ServingInv(Sources, FetchKind) /\ e \in queue
    BY DEF Whereabouts, IsNext
  <2>2. Running
    BY <2>1, SomeFetches, EventParts
  <2> QED
    BY <2>1, <2>2, CommittedQueue DEF Running, Commit, StepAndSchedule
<1>2. DOMAIN in_flight \in SUBSET Request /\ DOMAIN in_flight = Request \ DOMAIN results
  BY <1>1 DEF ServingInv, Types, Flights, Accounted
<1>3. SUFFICES ASSUME NEW s \in DOMAIN in_flight, s # r
               PROVE  /\ s \in DOMAIN in_flight'
                      /\ \/ PhaseOf(s)' = PhaseOf(s) /\ in_flight'[s] = in_flight[s]
                         \/ \E t \in Stage :
                               /\ PhaseOf(s) = WaitingPhase(t) /\ PhaseOf(s)' = t
                               /\ in_flight'[s]
                                    = StampOf(in_flight[s], now_ns', t, trace[s])
  BY <1>1 DEF OthersKept
<1>4. /\ s \in Request /\ s \notin DOMAIN results
      /\ s \in DOMAIN in_flight' /\ o.in_flight[s] = in_flight[s]
      /\ s \in DOMAIN o.in_flight \ {r}
  BY <1>1, <1>2, <1>3
<1>5. \A t \in Stage : WaitsIn(o, t, s) <=> Waits(t, s)
  BY DEF WaitsIn, Waits
<1>6. CASE Unmoved(q, o, s)
  <2>1. in_flight'[s] = in_flight[s]
    BY <1>1, <1>4, <1>6 DEF Unmoved
  <2>2. ASSUME NEW t \in Stage, Waits(t, s) PROVE PhaseOf(s)' = PhaseOf(s)
    <3>1. PhaseOf(s) = WaitingPhase(t)
      BY <1>1, <1>4, <2>2 DEF PhasesKnown
    <3>2. WaitsIn(q, t, s)
      BY <1>5, <1>6, <2>2 DEF Unmoved
    <3>3. Waits(t, s)'
      BY <1>1, <3>2 DEF Waits, WaitsIn
    <3>4. PhaseOf(s)' = WaitingPhase(t)
      BY <1>1, <1>4, <3>3 DEF PhasesKnown
    <3> QED
      BY <3>1, <3>4
  <2>3. ASSUME NEW f \in queue, f.kind.request_id = s PROVE PhaseOf(s)' = PhaseOf(s)
    <3>1. f \in queue'
      BY <1>1, <1>3, <2>3 DEF Delivered
    <3> QED
      BY <1>1, <1>4, <2>3, <3>1 DEF PhasesKnown
  <2>4. PhaseOf(s)' = PhaseOf(s)
    BY <1>1, <1>4, <2>2, <2>3 DEF PhasesKnown
  <2> QED
    BY <1>4, <2>1, <2>4
<1>7. ASSUME NEW t \in Stage, TakenUp(q, o, ClockAt(e), t, s)
      PROVE  /\ PhaseOf(s) = WaitingPhase(t) /\ PhaseOf(s)' = t
             /\ in_flight'[s] = StampOf(in_flight[s], now_ns', t, trace[s])
  <2>1. Waits(t, s) /\ WorksIn(q, t, s)
    BY <1>5, <1>7 DEF TakenUp
  <2>2. PhaseOf(s) = WaitingPhase(t)
    BY <1>1, <1>4, <2>1 DEF PhasesKnown
  <2>3. PhaseOf(s)' = t
    BY <1>1, <1>4, <2>1, PoolPhases
  <2>4. in_flight'[s] = StampOf(in_flight[s], now_ns', t, trace[s])
    BY <1>1, <1>4, <1>7, StampedIs DEF TakenUp
  <2> QED
    BY <2>2, <2>3, <2>4
<1> QED
  BY <1>4, <1>6, <1>7 DEF OthersRestamped

LEMMA SentAfter ==
    ASSUME NEW e, e.kind.request_id \in Request, NEW o, NEW stage \in Stage,
           NEW S, NEW q, q.events \in Seq(S), Commit(e, q),
           Running', PhasesKnown', e.kind.request_id \in DOMAIN q.in_flight,
           SentWith(q, o, ClockAt(e), stage, e.kind.request_id)
    PROVE  SentAs(e, o.in_flight[e.kind.request_id], stage)
<1> DEFINE r == e.kind.request_id
<1>1. in_flight' = q.in_flight /\ now_ns' = ClockAt(e)
  BY DEF Commit, StepAndSchedule
<1>2. CASE WaitsIn(q, stage, r) /\ q.in_flight[r] = o.in_flight[r]
  BY <1>1, <1>2, PoolPhases DEF SentAs
<1>3. CASE WorksIn(q, stage, r) /\ q.in_flight[r] = Stamped(o, ClockAt(e), stage, r)
  <2>1. PhaseOf(r)' = stage
    BY <1>3, PoolPhases
  <2>2. in_flight'[r] = StampOf(o.in_flight[r], now_ns', stage, trace[r])
    BY <1>1, <1>3, StampedIs
  <2> QED
    BY <1>1, <2>1, <2>2 DEF SentAs
<1> QED
  BY <1>2, <1>3 DEF SentWith

-----------------------------------------------------------------------------
(* What the records say in each phase *)

\* How long the prefill of a request q may take.
MayTake(d, q) ==
    \/ d = PrefillTime[q.prompt_tokens]
    \/ d = PrefillTime[q.new_prompt_tokens] /\ q.new_prompt_tokens > 0

\* No prefill has begun.
Blank(x) == x.prefill_start_ns = None /\ x.prefill_done_ns = None

\* The prefill lies between the arrival and t, or has been spared.
PrefilledBy(x, q, t) ==
    \/ Blank(x) /\ q.new_prompt_tokens = 0
    \/ /\ x.prefill_start_ns \in Nat /\ x.prefill_done_ns \in Nat
       /\ q.arrival_ns <= x.prefill_start_ns /\ x.prefill_done_ns <= t
       /\ MayTake(x.prefill_done_ns - x.prefill_start_ns, q)

\* The record x of a request q in the phase f, at the time now.
Shape(x, q, f, now) ==
    /\ x.pending_fetch_tier # None <=> f = "Fetching"
    /\ f # "Arriving" => q.arrival_ns <= now
    /\ f \in {"Arriving", "Fetching", "PrefillQueued"} => Blank(x)
    /\ f \in {"PrefillQueued", "Prefill"} => MayTake(PrefillTime[LengthOf(x, q)], q)
    /\ f = "Prefill" =>
          /\ x.prefill_start_ns \in Nat /\ q.arrival_ns <= x.prefill_start_ns
          /\ x.prefill_done_ns = x.prefill_start_ns + PrefillTime[LengthOf(x, q)]
    /\ f = "DecodeQueued" => PrefilledBy(x, q, now)
    /\ f = "Decode" =>
          /\ x.decode_start_ns \in Nat /\ q.arrival_ns <= x.decode_start_ns
          /\ PrefilledBy(x, q, x.decode_start_ns)
          /\ x.finish_ns = x.decode_start_ns + StepOf(q) * q.output_tokens

Shaped ==
    \A r \in DOMAIN in_flight : Shape(in_flight[r], trace[r], PhaseOf(r), now_ns)

\* The requests whose arrival, or the end of whose fetch, is still to come.
Arriving == {r \in Request : PhaseOf(r) = "Arriving"}

Fetching == {r \in Request : PhaseOf(r) = "Fetching"}

\* The requests whose hit or miss has been counted.
Credited(s) == s.hits_gpu + s.hits_cpu + s.hits_remote + s.misses

CountsRight ==
    /\ Credited(stats) + Cardinality(Arriving) + Cardinality(Fetching)
         = IF Running THEN Cardinality(Request) ELSE 0
    /\ stats.pending_fetches = Cardinality(Fetching)
    /\ stats.fetch_errors <= stats.misses

-----------------------------------------------------------------------------
(* What the handlers do to the records *)

\* No fetch begins, and the one that e ends is over.
FetchesEnd(e) ==
    \A f \in Pending("FetchDone")' : f \in Pending("FetchDone") /\ f # e

LEMMA WorkIsNoFetch ==
    ASSUME NEW e, NEW q, q.events \in Seq(Work), Commit(e, q)
    PROVE  FetchesEnd(e)
<1>1. Delivered(e, q)
  BY CommittedQueue
<1>2. \A i \in DOMAIN q.events : q.events[i] \in Work
  OBVIOUS
<1>3. \A i \in DOMAIN q.events : NewEvent(q, i).kind.tag # "FetchDone"
  BY <1>2 DEF NewEvent, Work, GpuKind
<1> QED
  BY <1>1, <1>3 DEF Delivered, FetchesEnd, Pending

\* The handler of e sends its request, with the record x, to the stage, and
\* leaves the others alone or starts them.
Goes(e, x, stage) ==
    /\ OthersKept(e)
    /\ SentAs(e, x, stage)
    /\ DOMAIN in_flight' = DOMAIN in_flight
    /\ FetchesEnd(e)

\* The request of e, with the record x, is sent to the stage: m is the pool then.
SendsAs(e, m, x, stage) ==
    \E p : /\ Begins(p, Sources, e)
           /\ p.in_flight[e.kind.request_id] = x
           /\ m = StartOrQueue(p, ClockAt(e), stage, e.kind.request_id)

\* The handler returns with the pool q: it may have looked at both queues.
Settles(e, m, q) ==
    \/ q = m
    \/ \E a, b \in Stage : \E p \in TryAssign(m, ClockAt(e), a) :
          a # b /\ q \in TryAssign(p, ClockAt(e), b)

LEMMA SendsGo ==
    ASSUME Inv, PhasesKnown, PhasesKnown', NEW e, IsNext(e), trace' = trace,
           NEW stage \in Stage, NEW x, NEW m, SendsAs(e, m, x, stage),
           NEW q, Settles(e, m, q), Commit(e, q)
    PROVE  Goes(e, x, stage)
<1> DEFINE r == e.kind.request_id
           now == ClockAt(e)
<1>1. PICK o : /\ Begins(o, Sources, e) /\ o.in_flight[r] = x
               /\ m = StartOrQueue(o, now, stage, r)
  BY DEF SendsAs
<1>2. ServingInv(Sources, FetchKind) /\ r \in Request /\ Running /\ now \in Nat
  BY Given
<1>3. /\ TraceOK /\ r \in DOMAIN o.in_flight /\ ~HeldIn(o, r)
      /\ PoolGood(o, Sources, now)
  BY <1>1, <1>2, SomeFetches, BegunParts
<1>4. /\ PoolGood(q, Sources, now)
      /\ DOMAIN q.in_flight = DOMAIN o.in_flight
      /\ OthersRestamped(q, o, now, r) /\ SentWith(q, o, now, stage, r)
  <2>1. CASE q = m
    <3>1. q = StartOrQueue(o, now, stage, r)
      BY <1>1, <2>1
    <3> HIDE DEF r, now
    <3> QED
      BY <1>2, <1>3, <3>1, SendStamps
  <2>2. ASSUME NEW a \in Stage, NEW b \in Stage, NEW p \in TryAssign(m, now, a),
               a # b, q \in TryAssign(p, now, b)
        PROVE  /\ PoolGood(q, Sources, now)
               /\ DOMAIN q.in_flight = DOMAIN o.in_flight
               /\ OthersRestamped(q, o, now, r) /\ SentWith(q, o, now, stage, r)
    <3> HIDE DEF r, now
    <3> QED
      BY <1>1, <1>2, <1>3, <2>2, SendAndTryStamps
  <2> QED
    BY <2>1, <2>2 DEF Settles
<1>5. q.events \in Seq(Work)
  BY <1>4, PoolParts DEF PoolGood
<1>6. /\ Whereabouts /\ Running' /\ in_flight' = q.in_flight
      /\ o.waiting = waiting /\ DOMAIN o.in_flight = DOMAIN in_flight
      /\ \A s \in DOMAIN in_flight \ {r} :
            s \in DOMAIN o.in_flight /\ o.in_flight[s] = in_flight[s]
  BY <1>1, <1>2 DEF Whereabouts, Running, Commit, Begins
<1>7. OthersKept(e)
  BY <1>4, <1>5, <1>6, OthersAfter
<1>8. SentAs(e, o.in_flight[r], stage)
  <2>1. r \in DOMAIN q.in_flight
    BY <1>3, <1>4
  <2> QED
    BY <1>2, <1>4, <1>5, <1>6, <2>1, SentAfter
<1>9. FetchesEnd(e)
  BY <1>5, WorkIsNoFetch
<1> QED
  BY <1>1, <1>4, <1>6, <1>7, <1>8, <1>9 DEF Goes

\* What a pool looks like in which the record of one request is another one.
LEMMA Recorded ==
    ASSUME NEW e, NEW o, Begins(o, Sources, e), ClockAt(e) \in Nat,
           NEW r \in DOMAIN o.in_flight, r = e.kind.request_id,
           NEW x \in FlightOf(Sources), NEW stage,
           NEW m, m = StartOrQueue([o EXCEPT !.in_flight =
                                      [o.in_flight EXCEPT ![r] = x]],
                                   ClockAt(e), stage, r)
    PROVE  SendsAs(e, m, x, stage)
<1> DEFINE p == [o EXCEPT !.in_flight = [o.in_flight EXCEPT ![r] = x]]
<1>1. Begins(p, Sources, e) /\ p.in_flight[r] = x
  BY EditedBegins
<1> QED
  BY <1>1 DEF SendsAs

\* A prefill of n tokens.
LEMMA PrefillingAs ==
    ASSUME NEW e, NEW o, Begins(o, Sources, e), ClockAt(e) \in Nat,
           NEW r \in DOMAIN o.in_flight, r = e.kind.request_id, NEW n \in Tokens
    PROVE  SendsAs(e, Prefilling(o, ClockAt(e), r, n),
                   [o.in_flight[r] EXCEPT !.prefill_tokens = n], "Prefill")
<1> DEFINE x == [o.in_flight[r] EXCEPT !.prefill_tokens = n]
<1>1. x \in FlightOf(Sources)
  BY FlightOfEvent DEF FlightOf
<1>2. Prefilling(o, ClockAt(e), r, n)
        = StartOrQueue([o EXCEPT !.in_flight = [o.in_flight EXCEPT ![r] = x]],
                       ClockAt(e), "Prefill", r)
  BY DEF Prefilling
<1> HIDE DEF x
<1>3. SendsAs(e, Prefilling(o, ClockAt(e), r, n), x, "Prefill")
  BY <1>1, <1>2, Recorded
<1> QED
  BY <1>3 DEF x

\* The record x of r with what start_or_queue_remaining_prefill asks for.
Remaining(x, r) ==
    IF trace[r].new_prompt_tokens = 0 THEN x
    ELSE [x EXCEPT !.prefill_tokens = trace[r].new_prompt_tokens]

RemainingStage(r) == IF trace[r].new_prompt_tokens = 0 THEN "Decode" ELSE "Prefill"

LEMMA RemainingAs ==
    ASSUME NEW e, NEW o, Begins(o, Sources, e), ClockAt(e) \in Nat,
           NEW r \in DOMAIN o.in_flight, r = e.kind.request_id,
           trace[r].new_prompt_tokens \in Tokens
    PROVE  SendsAs(e, RemainingPrefill(o, ClockAt(e), r),
                   Remaining(o.in_flight[r], r), RemainingStage(r))
<1>1. CASE trace[r].new_prompt_tokens = 0
  BY <1>1 DEF RemainingPrefill, Remaining, RemainingStage, SendsAs
<1>2. CASE trace[r].new_prompt_tokens # 0
  BY <1>2, PrefillingAs DEF RemainingPrefill, Remaining, RemainingStage
<1> QED
  BY <1>1, <1>2

-----------------------------------------------------------------------------
(* What the handlers do to the counters *)

\* From s to t so many more hits and misses are counted, and there are so many
\* pending fetches; no error is counted without a miss.
Tallied(s, t, credits, pending) ==
    /\ Credited(t) = Credited(s) + credits
    /\ t.pending_fetches = pending
    /\ s.fetch_errors <= s.misses => t.fetch_errors <= t.misses

LEMMA CountedIs ==
    ASSUME NEW s \in [DOMAIN NoStats -> Nat], NEW fs
    PROVE  /\ DOMAIN Counted(s, fs) = DOMAIN NoStats
           /\ \A f \in DOMAIN NoStats :
                 Counted(s, fs)[f] = IF f \in fs THEN s[f] + 1 ELSE s[f]
<1> DEFINE D == DOMAIN NoStats
<1>1. DOMAIN s = D
  OBVIOUS
<1> HIDE DEF D
<1>2. /\ DOMAIN Counted(s, fs) = D
      /\ \A f \in D : Counted(s, fs)[f] = IF f \in fs THEN s[f] + 1 ELSE s[f]
  BY <1>1 DEF Counted
<1> QED
  BY <1>2 DEF D

LEMMA CounterNames ==
    DOMAIN NoStats = {"hits_gpu", "hits_cpu", "hits_remote", "misses",
                      "fetch_errors", "placement_errors", "pending_fetches",
                      "evicted_bytes", "recomputed_tokens", "fetched_bytes"}
BY DEF NoStats

\* A counter that nothing is derived from.
LEMMA Aside ==
    ASSUME NEW s, DOMAIN s = DOMAIN NoStats,
           NEW f \in {"evicted_bytes", "fetched_bytes"}, NEW v
    PROVE  LET t == [s EXCEPT ![f] = v]
           IN  /\ Credited(t) = Credited(s) /\ t.misses = s.misses
               /\ t.pending_fetches = s.pending_fetches
               /\ t.fetch_errors = s.fetch_errors
BY CounterNames DEF Credited

LEMMA RecomputedAside ==
    ASSUME NEW s, DOMAIN s = DOMAIN NoStats, NEW n
    PROVE  /\ Credited(Recomputed(s, n)) = Credited(s)
           /\ Recomputed(s, n).misses = s.misses
           /\ Recomputed(s, n).pending_fetches = s.pending_fetches
           /\ Recomputed(s, n).fetch_errors = s.fetch_errors
BY CounterNames DEF Credited, Recomputed

LEMMA TallyOfMiss ==
    ASSUME NEW s \in [DOMAIN NoStats -> Nat], NEW n,
           NEW fs \in {{"misses"}, {"fetch_errors", "misses"}, {"hits_gpu"}}
    PROVE  Tallied(s, Recomputed(Counted(s, fs), n), 1, s.pending_fetches)
<1> DEFINE c == Counted(s, fs)
<1>1. /\ DOMAIN c = DOMAIN NoStats
      /\ \A f \in DOMAIN NoStats : c[f] = IF f \in fs THEN s[f] + 1 ELSE s[f]
  BY CountedIs
<1>2. \A f \in DOMAIN NoStats : s[f] \in Nat
  OBVIOUS
<1> HIDE DEF c
<1>3. /\ Credited(c) = Credited(s) + 1 /\ c.pending_fetches = s.pending_fetches
      /\ s.fetch_errors <= s.misses => c.fetch_errors <= c.misses
  BY <1>1, <1>2, CounterNames DEF Credited
<1>4. /\ Credited(Recomputed(c, n)) = Credited(c)
      /\ Recomputed(c, n).misses = c.misses
      /\ Recomputed(c, n).pending_fetches = c.pending_fetches
      /\ Recomputed(c, n).fetch_errors = c.fetch_errors
  BY <1>1, RecomputedAside
<1> QED
  BY <1>3, <1>4 DEF Tallied, c

LEMMA TallyOfFetch ==
    ASSUME NEW s \in [DOMAIN NoStats -> Nat], NEW n
    PROVE  Tallied(s, [Counted(s, {"pending_fetches"}) EXCEPT !.fetched_bytes = @ + n],
                   0, s.pending_fetches + 1)
<1> DEFINE c == Counted(s, {"pending_fetches"})
           t == [c EXCEPT !["fetched_bytes"] = c.fetched_bytes + n]
<1>1. /\ DOMAIN c = DOMAIN NoStats
      /\ \A f \in DOMAIN NoStats :
            c[f] = IF f \in {"pending_fetches"} THEN s[f] + 1 ELSE s[f]
  BY CountedIs
<1>2. \A f \in DOMAIN NoStats : s[f] \in Nat
  OBVIOUS
<1> HIDE DEF c
<1>3. /\ Credited(c) = Credited(s) + 0
      /\ c.pending_fetches = s.pending_fetches + 1
      /\ s.fetch_errors <= s.misses => c.fetch_errors <= c.misses
  BY <1>1, <1>2, CounterNames DEF Credited
<1>4. /\ Credited(t) = Credited(c) /\ t.misses = c.misses
      /\ t.pending_fetches = c.pending_fetches
      /\ t.fetch_errors = c.fetch_errors
  BY <1>1, Aside
<1>5. [c EXCEPT !.fetched_bytes = @ + n] = t
  OBVIOUS
<1> QED
  BY <1>3, <1>4, <1>5 DEF Tallied, c

LEMMA TallyOfFetched ==
    ASSUME NEW s \in [DOMAIN NoStats -> Nat], NEW n,
           NEW f \in {"hits_cpu", "hits_remote"}
    PROVE  Tallied(s, Recomputed([Counted(s, {f}) EXCEPT
                                    !.pending_fetches = KV!SatSub(@, 1)], n),
                   1, KV!SatSub(s.pending_fetches, 1))
<1> DEFINE c == Counted(s, {f})
           t == [c EXCEPT !.pending_fetches = KV!SatSub(@, 1)]
<1>1. /\ DOMAIN c = DOMAIN NoStats
      /\ \A g \in DOMAIN NoStats : c[g] = IF g \in {f} THEN s[g] + 1 ELSE s[g]
  BY CountedIs
<1>2. \A g \in DOMAIN NoStats : s[g] \in Nat
  OBVIOUS
<1> HIDE DEF c
<1>3. /\ Credited(c) = Credited(s) + 1 /\ c.pending_fetches = s.pending_fetches
      /\ s.fetch_errors <= s.misses => c.fetch_errors <= c.misses
  BY <1>1, <1>2, CounterNames DEF Credited
<1>4. /\ DOMAIN t = DOMAIN NoStats /\ Credited(t) = Credited(c)
      /\ t.pending_fetches = KV!SatSub(c.pending_fetches, 1)
      /\ t.fetch_errors = c.fetch_errors /\ t.misses = c.misses
  BY <1>1, CounterNames DEF Credited
<1> HIDE DEF t
<1>5. /\ Credited(Recomputed(t, n)) = Credited(t)
      /\ Recomputed(t, n).misses = t.misses
      /\ Recomputed(t, n).pending_fetches = t.pending_fetches
      /\ Recomputed(t, n).fetch_errors = t.fetch_errors
  BY <1>4, RecomputedAside
<1>6. Tallied(s, Recomputed(t, n), 1, KV!SatSub(s.pending_fetches, 1))
  BY <1>3, <1>4, <1>5 DEF Tallied
<1> QED
  BY <1>6 DEF t, c

\* place counts what it could not place, or what it has evicted.
LEMMA TallyOfStore ==
    ASSUME NEW s \in [DOMAIN NoStats -> Nat], NEW n
    PROVE  /\ Tallied(s, Counted(s, {"placement_errors"}), 0, s.pending_fetches)
           /\ Tallied(s, [s EXCEPT !.evicted_bytes = @ + n], 0, s.pending_fetches)
           /\ Tallied(s, s, 0, s.pending_fetches)
<1> DEFINE c == Counted(s, {"placement_errors"})
           t == [s EXCEPT !["evicted_bytes"] = s.evicted_bytes + n]
<1>1. /\ DOMAIN c = DOMAIN NoStats
      /\ \A f \in DOMAIN NoStats :
            c[f] = IF f \in {"placement_errors"} THEN s[f] + 1 ELSE s[f]
  BY CountedIs
<1>2. \A f \in DOMAIN NoStats : s[f] \in Nat
  OBVIOUS
<1>2a. Credited(s) \in Nat
  BY <1>2, CounterNames DEF Credited
<1> HIDE DEF c
<1>3. Tallied(s, c, 0, s.pending_fetches)
  BY <1>1, <1>2, CounterNames DEF Tallied, Credited
<1>4. /\ Credited(t) = Credited(s) /\ t.misses = s.misses
      /\ t.pending_fetches = s.pending_fetches
      /\ t.fetch_errors = s.fetch_errors
  BY Aside
<1>5. [s EXCEPT !.evicted_bytes = @ + n] = t
  OBVIOUS
<1>6. Tallied(s, t, 0, s.pending_fetches) /\ Tallied(s, s, 0, s.pending_fetches)
  BY <1>2a, <1>4 DEF Tallied
<1> QED
  BY <1>3, <1>5, <1>6 DEF c

-----------------------------------------------------------------------------
(* What each handler does *)

\* The one fetch that begins brings a hit of the request of e from the tier, and
\* its transfer is booked.
Books(e, tier) ==
    LET r == e.kind.request_id
    IN  \E f : \E k \in FetchHit(r) :
           LET bytes == cache.objects[k].bytes
           IN  /\ \A g \in Pending("FetchDone")' : g = f \/ g \in Pending("FetchDone")
               /\ f.kind.request_id = r
               /\ f.time_ns = FinishOf(nic_busy_until_ns, now_ns', tier, bytes)
               /\ tier = TierOf(k) /\ EstimateDuration(tier, bytes) # Fails
               /\ nic_busy_until_ns'
                     = NicAfter(nic_busy_until_ns, now_ns', tier, bytes)

\* The request of e begins to wait for a fetch from the tier.
FetchBegins(e, tier) ==
    LET r == e.kind.request_id
    IN  /\ OthersKept(e) /\ Books(e, tier)
        /\ DOMAIN in_flight' = DOMAIN in_flight /\ r \in DOMAIN in_flight
        /\ PhaseOf(r)' = "Fetching"
        /\ in_flight'[r] = [in_flight[r] EXCEPT !.pending_fetch_tier = tier]

ArrivalMoves(e) ==
    LET r == e.kind.request_id
        x == in_flight[r]
    IN  \/ /\ \E tier \in FetchTier : FetchBegins(e, tier)
           /\ Tallied(stats, stats', 0, stats.pending_fetches + 1)
        \/ /\ \/ Goes(e, Remaining(x, r), RemainingStage(r))
              \/ Goes(e, [x EXCEPT !.prefill_tokens = trace[r].prompt_tokens],
                      "Prefill")
           /\ Tallied(stats, stats', 1, stats.pending_fetches)
           /\ nic_busy_until_ns' = nic_busy_until_ns

FetchMoves(e) ==
    LET r == e.kind.request_id
        x == [in_flight[r] EXCEPT !.pending_fetch_tier = None]
    IN  /\ Goes(e, Remaining(x, r), RemainingStage(r))
        /\ Tallied(stats, stats', 1, KV!SatSub(stats.pending_fetches, 1))
        /\ nic_busy_until_ns' = nic_busy_until_ns

PrefillMoves(e) ==
    /\ Goes(e, in_flight[e.kind.request_id], "Decode")
    /\ Tallied(stats, stats', 0, stats.pending_fetches)
    /\ nic_busy_until_ns' = nic_busy_until_ns

DecodeMoves(e) ==
    LET r == e.kind.request_id
    IN  /\ OthersKept(e)
        /\ DOMAIN in_flight' = DOMAIN in_flight \ {r}
        /\ PhaseOf(r)' = "Done"
        /\ results' = [s \in DOMAIN results \cup {r} |->
                         IF s = r THEN Timeline(r) ELSE results[s]]
        /\ stats' = stats
        /\ FetchesEnd(e) /\ nic_busy_until_ns' = nic_busy_until_ns

\* The handler of e moves its request on and counts it.
Moves(e) ==
    /\ IsNext(e) /\ trace' = trace
    /\ \/ /\ e.kind.tag = "RequestArrival" /\ ArrivalMoves(e) /\ results' = results
       \/ /\ e.kind.tag = "FetchDone" /\ FetchMoves(e) /\ results' = results
       \/ /\ e.kind.tag = "PrefillDone" /\ PrefillMoves(e) /\ results' = results
       \/ e.kind.tag = "DecodeDone" /\ DecodeMoves(e)

LEMMA FetchBegun ==
    ASSUME Inv, PhasesKnown, PhasesKnown', NEW e, NEW r, ArrivalOf(e, r),
           NEW k \in FetchHit(r), NEW tier \in FetchTier, tier = TierOf(k),
           NEW bytes, bytes = cache.objects[k].bytes,
           EstimateDuration(tier, bytes) # Fails,
           NEW done, done = [time_ns |-> FinishOf(nic_busy_until_ns, ClockAt(e),
                                                  tier, bytes),
                             kind |-> [tag |-> "FetchDone", request_id |-> r]],
           nic_busy_until_ns' = NicAfter(nic_busy_until_ns, ClockAt(e), tier, bytes),
           NEW q, q = [Pool EXCEPT !.in_flight[r].pending_fetch_tier = tier,
                                   !.events = <<done>>],
           Commit(e, q)
    PROVE  FetchBegins(e, tier)
<1> DEFINE p == [Pool EXCEPT !.in_flight[r].pending_fetch_tier = tier]
           now == ClockAt(e)
<1>1. /\ IsNext(e) /\ trace' = trace
      /\ e.kind.request_id = r /\ e.kind.tag = "RequestArrival"
  BY DEF ArrivalOf
<1>2. /\ ServingInv(Sources, FetchKind) /\ now \in Nat /\ e \in queue /\ Running
      /\ Begins(Pool, Sources, e) /\ r \in Request /\ r \in DOMAIN Pool.in_flight
      /\ Pool.in_flight = in_flight
  BY <1>1, Given DEF Pool
<1>3. tier \in Sources
  BY DEF Sources
<1>4. Begins(p, Sources, e)
  BY <1>1, <1>2, <1>3, SourceSet
<1>5. /\ p.waiting = waiting /\ p.events = <<>> /\ p \in PoolType(Sources)
      /\ DOMAIN p.in_flight = DOMAIN in_flight
      /\ \A s \in DOMAIN in_flight \ {r} : p.in_flight[s] = in_flight[s]
  BY <1>1, <1>4 DEF Begins, PoolGood
<1>6. p.in_flight[r] = [in_flight[r] EXCEPT !.pending_fetch_tier = tier]
  BY <1>2 DEF Pool
<1>7. q = [p EXCEPT !.events = <<done>>]
  OBVIOUS
<1> HIDE DEF p, now
<1>8. /\ q.in_flight = p.in_flight /\ q.waiting = p.waiting
      /\ q.events = <<done>>
  BY <1>5, <1>7 DEF PoolType
<1>9. /\ q.events \in Seq({done}) /\ DOMAIN q.events = {1} /\ q.events[1] = done
      /\ done.kind.request_id = r /\ done.kind.tag = "FetchDone"
  BY <1>8
<1>10. \A stage \in Stage : \A s :
         /\ WaitsIn(q, stage, s) <=> WaitsIn(p, stage, s)
         /\ ~WorksIn(p, stage, s)
         /\ ~WorksIn(q, stage, s)
  BY <1>5, <1>8, <1>9 DEF WaitsIn, WorksIn, Done
<1>11. OthersRestamped(q, p, now, r)
  BY <1>8, <1>10 DEF OthersRestamped, Unmoved
<1>12. OthersKept(e)
  <2>1. \A s \in DOMAIN in_flight \ {r} :
           s \in DOMAIN p.in_flight /\ p.in_flight[s] = in_flight[s]
    BY <1>5
  <2>2. DOMAIN q.in_flight = DOMAIN p.in_flight /\ Whereabouts
    BY <1>2, <1>8 DEF Whereabouts
  <2> QED
    BY <1>1, <1>5, <1>9, <1>11, <2>1, <2>2, OthersAfter DEF now
<1>13. PhaseOf(r)' = "Fetching"
  <2>1. NewEvent(q, 1) \in queue'
    BY <1>9, CommittedQueue DEF Delivered
  <2>2. NewEvent(q, 1).kind = done.kind
    BY <1>9 DEF NewEvent
  <2>3. Running'
    BY <1>1, <1>2 DEF Running
  <2>4. PhaseOf(r)' = PhaseOfTag["FetchDone"]
    BY <1>2, <1>9, <2>1, <2>2, <2>3 DEF PhasesKnown
  <2> QED
    BY <2>4, PhasesOfEvents
<1>14. in_flight' = q.in_flight /\ now_ns' = now
  BY DEF Commit, StepAndSchedule, now
<1>15. Books(e, tier)
  <2> DEFINE f == NewEvent(q, 1)
  <2>1. Delivered(e, q)
    BY <1>9, CommittedQueue
  <2>2. \A g \in Pending("FetchDone")' : g = f \/ g \in Pending("FetchDone")
    BY <1>9, <2>1 DEF Delivered, Pending
  <2>3. /\ f.kind.request_id = r
        /\ f.time_ns = FinishOf(nic_busy_until_ns, now, tier, bytes)
    BY <1>9 DEF NewEvent, now
  <2> HIDE DEF f
  <2> QED
    BY <1>1, <1>14, <2>2, <2>3 DEF Books, now
<1> QED
  BY <1>1, <1>2, <1>5, <1>6, <1>8, <1>12, <1>13, <1>14, <1>15 DEF FetchBegins

LEMMA ArrivalRecords ==
    ASSUME Inv, PhasesKnown, PhasesKnown', NEW e, NEW r, OnArrival(e, r)
    PROVE  Moves(e)
<1>1. ArrivalOf(e, r)
  BY DEF OnArrival, OnGpuHit, OnFetchHit, OnFetchError, OnMiss
<1>2. /\ IsNext(e) /\ trace' = trace /\ results' = results
      /\ e.kind.request_id = r /\ e.kind.tag = "RequestArrival"
  BY <1>1 DEF ArrivalOf
<1>3. /\ ClockAt(e) \in Nat /\ Running /\ trace \in Traces
      /\ r \in Request /\ Begins(Pool, Sources, e) /\ r \in DOMAIN Pool.in_flight
      /\ stats \in [DOMAIN NoStats -> Nat] /\ Pool.in_flight = in_flight
  BY <1>2, Given DEF CacheInv, Pool
<1>4. trace[r].prompt_tokens \in Tokens /\ trace[r].new_prompt_tokens \in Tokens
  BY <1>3, TraceParts
<1>5. "Prefill" \in Stage /\ RemainingStage(r) \in Stage
  BY DEF Stage, RemainingStage
<1>6. CASE OnGpuHit(e, r)
  <2> DEFINE m == RemainingPrefill(Pool, ClockAt(e), r)
             x == Remaining(in_flight[r], r)
  <2>1. Commit(e, m) /\ Settles(e, m, m)
    BY <1>6 DEF OnGpuHit, Settles
  <2>2. SendsAs(e, m, x, RemainingStage(r))
    BY <1>2, <1>3, <1>4, RemainingAs
  <2> HIDE DEF m, x
  <2>3. Goes(e, x, RemainingStage(r))
    BY <1>2, <1>5, <2>1, <2>2, SendsGo
  <2>4. /\ Tallied(stats, stats', 1, stats.pending_fetches)
        /\ nic_busy_until_ns' = nic_busy_until_ns
    BY <1>3, <1>6, TallyOfMiss DEF OnGpuHit
  <2> QED
    BY <1>2, <2>3, <2>4 DEF Moves, ArrivalMoves, x
<1>7. CASE OnFetchError(e, r) \/ OnMiss(e, r)
  <2> DEFINE n == trace[r].prompt_tokens
             m == Prefilling(Pool, ClockAt(e), r, n)
             x == [in_flight[r] EXCEPT !.prefill_tokens = n]
  <2>1. Commit(e, m) /\ Settles(e, m, m)
    BY <1>7 DEF OnFetchError, OnMiss, Settles
  <2>2. SendsAs(e, m, x, "Prefill")
    BY <1>2, <1>3, <1>4, PrefillingAs
  <2> HIDE DEF m, x
  <2>3. Goes(e, x, "Prefill")
    BY <1>2, <1>5, <2>1, <2>2, SendsGo
  <2>4. /\ Tallied(stats, stats', 1, stats.pending_fetches)
        /\ nic_busy_until_ns' = nic_busy_until_ns
    BY <1>3, <1>7, TallyOfMiss DEF OnFetchError, OnMiss
  <2> QED
    BY <1>2, <2>3, <2>4 DEF Moves, ArrivalMoves, x
<1>8. CASE OnFetchHit(e, r)
  <2>1. PICK k \in FetchHit(r) :
           LET bytes == cache.objects[k].bytes
               now   == ClockAt(e)
               done  == [time_ns |-> FinishOf(nic_busy_until_ns, now, TierOf(k), bytes),
                         kind    |-> [tag |-> "FetchDone", request_id |-> r]]
           IN  /\ EstimateDuration(TierOf(k), bytes) # Fails
               /\ Commit(e, [Pool EXCEPT
                               !.in_flight[r].pending_fetch_tier = TierOf(k),
                               !.events = <<done>>])
               /\ nic_busy_until_ns' =
                     NicAfter(nic_busy_until_ns, now, TierOf(k), bytes)
               /\ stats' = [Counted(stats, {"pending_fetches"}) EXCEPT
                              !.fetched_bytes = @ + bytes]
    BY <1>8 DEF OnFetchHit
  <2> DEFINE tier == TierOf(k)
             bytes == cache.objects[k].bytes
             done == [time_ns |-> FinishOf(nic_busy_until_ns, ClockAt(e), tier, bytes),
                      kind    |-> [tag |-> "FetchDone", request_id |-> r]]
             q == [Pool EXCEPT !.in_flight[r].pending_fetch_tier = tier,
                               !.events = <<done>>]
  <2>2. tier \in FetchTier
    BY <2>1 DEF FetchHit
  <2>3. /\ Commit(e, q) /\ EstimateDuration(tier, bytes) # Fails
        /\ nic_busy_until_ns' = NicAfter(nic_busy_until_ns, ClockAt(e), tier, bytes)
    BY <2>1
  <2>4. Tallied(stats, stats', 0, stats.pending_fetches + 1)
    BY <1>3, <2>1, TallyOfFetch
  <2>5. tier = TierOf(k) /\ bytes = cache.objects[k].bytes
    OBVIOUS
  <2> HIDE DEF tier, bytes
  <2>6. FetchBegins(e, tier)
    BY <1>1, <2>1, <2>2, <2>3, <2>5, FetchBegun
  <2> QED
    BY <1>2, <2>2, <2>4, <2>6 DEF Moves, ArrivalMoves
<1> QED
  BY <1>6, <1>7, <1>8 DEF OnArrival

LEMMA FetchDoneRecords ==
    ASSUME Inv, PhasesKnown, PhasesKnown', NEW e, OnFetchDone(e)
    PROVE  Moves(e)
<1> DEFINE r == e.kind.request_id
           now == ClockAt(e)
           credit == CreditOf(in_flight[r].pending_fetch_tier)
           p1 == [Pool EXCEPT !.in_flight[r].pending_fetch_tier = None]
           m == RemainingPrefill(p1, now, r)
           y == [in_flight[r] EXCEPT !.pending_fetch_tier = None]
           x == Remaining(y, r)
<1>1. /\ IsNext(e) /\ e.kind.tag = "FetchDone"
      /\ trace' = trace /\ results' = results
      /\ nic_busy_until_ns' = nic_busy_until_ns
      /\ stats' = Recomputed([Counted(stats, {credit}) EXCEPT
                                !.pending_fetches = KV!SatSub(@, 1)],
                             trace[r].new_prompt_tokens)
  BY DEF OnFetchDone
<1>2. PICK p \in TryAssign(m, now, "Decode") :
         \E q \in TryAssign(p, now, "Prefill") : Commit(e, q)
  BY DEF OnFetchDone
<1>3. PICK q \in TryAssign(p, now, "Prefill") : Commit(e, q)
  BY <1>2
<1>4. /\ now \in Nat /\ trace \in Traces /\ r \in Request
      /\ Begins(Pool, Sources, e) /\ r \in DOMAIN Pool.in_flight
      /\ stats \in [DOMAIN NoStats -> Nat] /\ Pool.in_flight = in_flight
  BY <1>1, Given DEF CacheInv, Pool
<1>5. Begins(p1, Sources, e)
  BY <1>4, SomeFetches, SourceSet
<1>6. p1.in_flight[r] = y /\ r \in DOMAIN p1.in_flight
  BY <1>4 DEF Pool
<1>7. trace[r].new_prompt_tokens \in Tokens
  BY <1>4, TraceParts
<1> HIDE DEF p1, y
<1>8. SendsAs(e, m, x, RemainingStage(r))
  BY <1>4, <1>5, <1>6, <1>7, RemainingAs
<1>9. "Prefill" \in Stage /\ "Decode" \in Stage /\ RemainingStage(r) \in Stage
  BY DEF Stage, RemainingStage
<1>10. Settles(e, m, q)
  BY <1>2, <1>3, <1>9 DEF Settles
<1> HIDE DEF m, x
<1>11. Goes(e, x, RemainingStage(r))
  BY <1>1, <1>3, <1>8, <1>9, <1>10, SendsGo
<1>12. Tallied(stats, stats', 1, KV!SatSub(stats.pending_fetches, 1))
  <2>1. credit \in {"hits_cpu", "hits_remote"}
    BY DEF CreditOf
  <2> HIDE DEF credit
  <2> QED
    BY <1>1, <1>4, <2>1, TallyOfFetched
<1> QED
  BY <1>1, <1>11, <1>12 DEF Moves, FetchMoves, x, y

LEMMA PrefillDoneRecords ==
    ASSUME Inv, PhasesKnown, PhasesKnown', NEW e, OnPrefillDone(e)
    PROVE  Moves(e)
<1> DEFINE r == e.kind.request_id
           now == ClockAt(e)
           p1 == Released(Pool, e.kind.gpu, now)
           m == StartOrQueue(p1, now, "Decode", r)
<1>1. /\ IsNext(e) /\ e.kind.tag = "PrefillDone"
      /\ trace' = trace /\ results' = results /\ Store(r, now)
      /\ nic_busy_until_ns' = nic_busy_until_ns
  BY DEF OnPrefillDone
<1>2. PICK p \in TryAssign(m, now, "Prefill") :
         \E q \in TryAssign(p, now, "Decode") : Commit(e, q)
  BY DEF OnPrefillDone
<1>3. PICK q \in TryAssign(p, now, "Decode") : Commit(e, q)
  BY <1>2
<1>4. /\ ServingInv(Sources, FetchKind) /\ e \in GpuEvents
      /\ stats \in [DOMAIN NoStats -> Nat]
  BY <1>1, Given DEF GpuEvents, Pending, CacheInv
<1>5. Begins(p1, Sources, e)
  BY <1>1, <1>4, SomeFetches, ReleasedBegins
<1>6. p1.in_flight[r] = in_flight[r]
  BY DEF Released, Pool
<1>7. SendsAs(e, m, in_flight[r], "Decode")
  BY <1>5, <1>6 DEF SendsAs
<1>8. "Prefill" \in Stage /\ "Decode" \in Stage
  BY DEF Stage
<1>9. Settles(e, m, q)
  BY <1>2, <1>3, <1>8 DEF Settles
<1> HIDE DEF m
<1>10. Goes(e, in_flight[r], "Decode")
  BY <1>1, <1>3, <1>7, <1>8, <1>9, SendsGo
<1>11. Tallied(stats, stats', 0, stats.pending_fetches)
  <2>1. CASE trace[r].prompt_tokens = 0
    <3>1. stats' = stats
      BY <1>1, <2>1 DEF Store
    <3> QED
      BY <1>4, <3>1, TallyOfStore
  <2>2. CASE trace[r].prompt_tokens # 0
    <3>1. PICK a \in Storing(r, now) :
             stats' = IF a.tier = None THEN Counted(stats, {"placement_errors"})
                      ELSE [stats EXCEPT
                              !.evicted_bytes = @ + KV!Bytes(cache, a.evicted)]
      BY <1>1, <2>2 DEF Store
    <3> QED
      BY <1>4, <3>1, TallyOfStore
  <2> QED
    BY <2>1, <2>2
<1> QED
  BY <1>1, <1>10, <1>11 DEF Moves, PrefillMoves

LEMMA DecodeDoneRecords ==
    ASSUME Inv, PhasesKnown, PhasesKnown', NEW e, OnDecodeDone(e)
    PROVE  Moves(e)
<1> DEFINE r == e.kind.request_id
           now == ClockAt(e)
           o == Released(Pool, e.kind.gpu, now)
           p1 == Finalized(o, r)
<1>1. /\ IsNext(e) /\ e.kind.tag = "DecodeDone" /\ DecodeDone(e)
      /\ stats' = stats /\ trace' = trace
      /\ nic_busy_until_ns' = nic_busy_until_ns
      /\ results' = [s \in DOMAIN results \cup {r} |->
                       IF s = r THEN Timeline(r) ELSE results[s]]
  BY DEF OnDecodeDone, DecodeDone, cacheVars
<1>2. PICK p \in TryAssign(p1, now, "Decode") :
         \E q \in TryAssign(p, now, "Prefill") : Commit(e, q)
  BY <1>1 DEF DecodeDone
<1>3. PICK q \in TryAssign(p, now, "Prefill") : Commit(e, q)
  BY <1>2
<1>4. /\ ServingInv(Sources, FetchKind) /\ e \in GpuEvents /\ now \in Nat
      /\ Running /\ r \in Request
  BY <1>1, Given DEF GpuEvents, Pending
<1>5. Begins(o, Sources, e)
  BY <1>1, <1>4, SomeFetches, ReleasedBegins
<1>6. TraceOK /\ ~HeldIn(o, r) /\ PoolGood(o, Sources, now)
  BY <1>1, <1>4, <1>5, SomeFetches, BegunParts
<1> HIDE DEF o, now
<1>7. PoolGood(p1, Sources, now) /\ FinalizedRight(p1, o, r)
  BY <1>4, <1>6, FinalizedGood
<1> HIDE DEF p1
<1>8. "Prefill" \in Stage /\ "Decode" \in Stage /\ "Decode" # "Prefill"
  BY DEF Stage
<1>9. /\ PoolGood(q, Sources, now) /\ Restamped(q, p1, now)
      /\ DOMAIN q.in_flight = DOMAIN p1.in_flight
  BY <1>2, <1>3, <1>4, <1>6, <1>7, <1>8, TryBothStamps
<1>10. /\ p1.waiting = waiting
       /\ DOMAIN p1.in_flight = DOMAIN in_flight \ {r}
       /\ \A s \in DOMAIN in_flight \ {r} :
             s \in DOMAIN p1.in_flight /\ p1.in_flight[s] = in_flight[s]
  BY <1>5, <1>7 DEF Begins, FinalizedRight
<1>11. OthersRestamped(q, p1, now, r)
  BY <1>9 DEF Restamped, OthersRestamped
<1>12. q.events \in Seq(Work)
  BY <1>9, PoolParts DEF PoolGood
<1>13. OthersKept(e)
  BY <1>1, <1>3, <1>4, <1>9, <1>10, <1>11, <1>12, OthersAfter DEF Whereabouts, now
<1>14. in_flight' = q.in_flight
  BY <1>3 DEF Commit
<1>15. PhaseOf(r)' = "Done"
  BY <1>1, <1>4 DEF PhasesKnown, Running
<1>16. FetchesEnd(e)
  BY <1>3, <1>12, WorkIsNoFetch
<1> QED
  BY <1>1, <1>9, <1>10, <1>13, <1>14, <1>15, <1>16 DEF Moves, DecodeMoves

LEMMA EveryHandlerMoves ==
    ASSUME Inv, PhasesKnown, PhasesKnown', HandleEvent
    PROVE  \E e : Moves(e)
BY ArrivalRecords, FetchDoneRecords, PrefillDoneRecords, DecodeDoneRecords
   DEF HandleEvent

-----------------------------------------------------------------------------
(* The records keep their shapes *)

\* A record that stays in its phase.
LEMMA ShapeStays ==
    ASSUME NEW x, NEW q, IsRequest(q), NEW f, NEW now \in Nat,
           NEW later \in Nat, now <= later, Shape(x, q, f, now)
    PROVE  Shape(x, q, f, later)
<1>1. q.arrival_ns \in Nat
  BY DEF IsRequest
<1>2. PrefilledBy(x, q, now) => PrefilledBy(x, q, later)
  BY DEF PrefilledBy
<1> QED
  BY <1>1, <1>2 DEF Shape

\* A request that has waited for a stage, or might have had to, begins it.
LEMMA ShapeStarts ==
    ASSUME NEW x \in FlightOf(Sources), NEW q, IsRequest(q),
           NEW stage \in Stage, NEW now \in Nat, Shape(x, q, WaitingPhase(stage), now)
    PROVE  Shape(StampOf(x, now, stage, q), q, stage, now)
<1> DEFINE y == StampOf(x, now, stage, q)
<1>1. q.arrival_ns \in Nat
  BY DEF IsRequest
<1>2. CASE stage = "Prefill"
  <2>1. /\ y.pending_fetch_tier = x.pending_fetch_tier
        /\ y.prefill_start_ns = now
        /\ y.prefill_done_ns = now + PrefillTime[LengthOf(x, q)]
        /\ y.prefill_tokens = x.prefill_tokens
    BY <1>2 DEF StampOf, FlightOf
  <2> HIDE DEF y
  <2>2. LengthOf(y, q) = LengthOf(x, q)
    BY <2>1 DEF LengthOf
  <2>3. Shape(x, q, "PrefillQueued", now)
    BY <1>2 DEF WaitingPhase
  <2>4. Shape(y, q, "Prefill", now)
    BY <1>1, <2>1, <2>2, <2>3 DEF Shape
  <2> QED
    BY <1>2, <2>4 DEF y
<1>3. CASE stage = "Decode"
  <2>1. /\ y.pending_fetch_tier = x.pending_fetch_tier
        /\ y.prefill_start_ns = x.prefill_start_ns
        /\ y.prefill_done_ns = x.prefill_done_ns
        /\ y.decode_start_ns = now
        /\ y.finish_ns = now + StepOf(q) * q.output_tokens
    BY <1>3 DEF StampOf, FlightOf
  <2> HIDE DEF y
  <2>2. Shape(x, q, "DecodeQueued", now)
    BY <1>3 DEF WaitingPhase
  <2>3. PrefilledBy(y, q, now)
    BY <2>1, <2>2 DEF Shape, PrefilledBy, Blank
  <2>4. Shape(y, q, "Decode", now)
    BY <1>1, <2>1, <2>2, <2>3 DEF Shape
  <2> QED
    BY <1>3, <2>4 DEF y
<1> QED
  BY <1>2, <1>3 DEF Stage

\* A request that has not been prefilled is sent to its prefill, or past it.
LEMMA ShapeSent ==
    ASSUME NEW x \in FlightOf(Sources), NEW r, NEW now \in Nat,
           IsRequest(trace[r]), trace[r].arrival_ns <= now,
           Blank(x), x.pending_fetch_tier = None
    PROVE  /\ Shape(Remaining(x, r), trace[r], WaitingPhase(RemainingStage(r)), now)
           /\ Shape([x EXCEPT !.prefill_tokens = trace[r].prompt_tokens], trace[r],
                    "PrefillQueued", now)
<1> DEFINE q == trace[r]
<1>1. q.prompt_tokens \in Nat /\ q.new_prompt_tokens \in Nat
  BY ServingAssumption DEF IsRequest
<1>2. ASSUME NEW n, n \in {q.prompt_tokens, q.new_prompt_tokens},
             n = q.prompt_tokens \/ n > 0
      PROVE  Shape([x EXCEPT !.prefill_tokens = n], q, "PrefillQueued", now)
  <2> DEFINE y == [x EXCEPT !.prefill_tokens = n]
  <2>1. /\ y.pending_fetch_tier = None /\ Blank(y) /\ y.prefill_tokens = n
    BY DEF FlightOf, Blank
  <2>2. MayTake(PrefillTime[LengthOf(y, q)], q)
    <3> HIDE DEF y
    <3> QED
      BY <1>1, <1>2, <2>1 DEF LengthOf, MayTake
  <2> HIDE DEF y, q
  <2>3. Shape(y, q, "PrefillQueued", now)
    BY <2>1, <2>2 DEF Shape, q
  <2> QED
    BY <2>3 DEF y
<1>3. CASE q.new_prompt_tokens = 0
  <2>1. Remaining(x, r) = x /\ WaitingPhase(RemainingStage(r)) = "DecodeQueued"
    BY <1>3 DEF Remaining, RemainingStage, WaitingPhase
  <2>2. Shape(x, q, "DecodeQueued", now)
    BY <1>3 DEF Shape, PrefilledBy
  <2> QED
    BY <1>2, <2>1, <2>2
<1>4. CASE q.new_prompt_tokens # 0
  <2>1. /\ Remaining(x, r) = [x EXCEPT !.prefill_tokens = q.new_prompt_tokens]
        /\ WaitingPhase(RemainingStage(r)) = "PrefillQueued"
    BY <1>4 DEF Remaining, RemainingStage, WaitingPhase
  <2>2. q.new_prompt_tokens > 0
    BY <1>1, <1>4
  <2> HIDE DEF q
  <2> QED
    BY <1>2, <2>1, <2>2 DEF q
<1> QED
  BY <1>3, <1>4

\* A prefill is over when its record says so.
LEMMA ShapePrefilled ==
    ASSUME NEW x \in FlightOf(Sources), NEW q, IsRequest(q), NEW now \in Nat,
           NEW later \in Nat, now <= later, Shape(x, q, "Prefill", now),
           x.prefill_done_ns = later
    PROVE  Shape(x, q, "DecodeQueued", later)
<1>1. x.prefill_tokens \in Tokens /\ q.prompt_tokens \in Tokens /\ q.arrival_ns \in Nat
  BY DEF FlightOf, IsRequest
<1>2. LengthOf(x, q) \in Tokens
  BY <1>1 DEF LengthOf
<1> DEFINE d == PrefillTime[LengthOf(x, q)]
<1>3. d \in Nat
  BY <1>2, ServingAssumption
<1>4. /\ x.pending_fetch_tier = None /\ MayTake(d, q)
      /\ x.prefill_start_ns \in Nat /\ q.arrival_ns <= x.prefill_start_ns
      /\ x.prefill_done_ns = x.prefill_start_ns + d
      /\ q.arrival_ns <= now
  BY DEF Shape
<1> HIDE DEF d
<1>5. x.prefill_done_ns - x.prefill_start_ns = d
  BY <1>3, <1>4
<1>6. PrefilledBy(x, q, later)
  BY <1>4, <1>5 DEF PrefilledBy
<1> QED
  BY <1>1, <1>4, <1>6 DEF Shape

\* What is known of a request in flight.
LEMMA FlightParts ==
    ASSUME Inv, Running, NEW s \in DOMAIN in_flight
    PROVE  /\ s \in Request /\ s \notin DOMAIN results
           /\ in_flight[s] \in FlightOf(Sources)
           /\ IsRequest(trace[s])
<1>1. /\ DOMAIN in_flight \in SUBSET Request
      /\ \A r \in DOMAIN in_flight : in_flight[r] \in FlightOf(Sources)
  BY DEF Inv, ServingInv, Types, Flights
<1>2. DOMAIN in_flight = Request \ DOMAIN results /\ trace \in Traces
  BY DEF Inv, ServingInv, Accounted
<1>3. \A r \in Request : IsRequest(trace[r])
  BY <1>2, CacheRunnerAssumption
<1> QED
  BY <1>1, <1>2, <1>3

\* The requests that a handler is not for.
LEMMA OthersShaped ==
    ASSUME Inv, Shaped, NEW e, IsNext(e), trace' = trace, OthersKept(e),
           NEW s \in DOMAIN in_flight \ {e.kind.request_id}
    PROVE  Shape(in_flight'[s], trace'[s], PhaseOf(s)', now_ns')
<1>1. /\ now_ns' = ClockAt(e) /\ ClockAt(e) \in Nat /\ now_ns \in Nat
      /\ now_ns <= ClockAt(e) /\ Running
  BY SomeFetches, DeliveredOnTime, Given DEF OthersKept, Inv
<1>2. in_flight[s] \in FlightOf(Sources) /\ IsRequest(trace[s])
  BY <1>1, FlightParts
<1>3. Shape(in_flight[s], trace[s], PhaseOf(s), now_ns)
  BY DEF Shaped
<1>4. Shape(in_flight[s], trace[s], PhaseOf(s), now_ns')
  BY <1>1, <1>2, <1>3, ShapeStays
<1>5. CASE PhaseOf(s)' = PhaseOf(s) /\ in_flight'[s] = in_flight[s]
  BY <1>4, <1>5
<1>6. ASSUME NEW t \in Stage, PhaseOf(s) = WaitingPhase(t), PhaseOf(s)' = t,
             in_flight'[s] = StampOf(in_flight[s], now_ns', t, trace[s])
      PROVE  Shape(in_flight'[s], trace'[s], PhaseOf(s)', now_ns')
  BY <1>1, <1>2, <1>4, <1>6, ShapeStarts
<1> QED
  BY <1>5, <1>6 DEF OthersKept

\* The request that a handler is for, when it has been sent to a stage.
LEMMA SentShaped ==
    ASSUME Inv, NEW e, IsNext(e), trace' = trace, NEW x \in FlightOf(Sources),
           NEW stage \in Stage, Goes(e, x, stage),
           Shape(x, trace[e.kind.request_id], WaitingPhase(stage), ClockAt(e))
    PROVE  LET r == e.kind.request_id
           IN  Shape(in_flight'[r], trace'[r], PhaseOf(r)', now_ns')
<1> DEFINE r == e.kind.request_id
<1>1. now_ns' = ClockAt(e) /\ ClockAt(e) \in Nat /\ SentAs(e, x, stage)
  BY Given DEF Goes, OthersKept
<1>2. IsRequest(trace[r])
  BY Given, FlightParts DEF Pool
<1>3. CASE PhaseOf(r)' = WaitingPhase(stage) /\ in_flight'[r] = x
  BY <1>1, <1>3
<1>4. CASE PhaseOf(r)' = stage /\ in_flight'[r] = StampOf(x, now_ns', stage, trace[r])
  BY <1>1, <1>2, <1>4, ShapeStarts
<1> QED
  BY <1>1, <1>3, <1>4 DEF SentAs

\* The request that a handler is for.
LEMMA MovedShaped ==
    ASSUME Inv, PhasesKnown, Shaped, NEW e, Moves(e), e.kind.tag # "DecodeDone"
    PROVE  LET r == e.kind.request_id
           IN  Shape(in_flight'[r], trace'[r], PhaseOf(r)', now_ns')
<1> DEFINE r == e.kind.request_id
           now == ClockAt(e)
           x == in_flight[r]
<1>1. /\ IsNext(e) /\ trace' = trace /\ e \in queue /\ Running
      /\ ServingInv(Sources, FetchKind) /\ r \in DOMAIN in_flight
  BY Given DEF Moves, Pool
<1>2. /\ now = e.time_ns /\ now \in Nat /\ now_ns \in Nat /\ now_ns <= now
  BY <1>1, SomeFetches, DeliveredOnTime
<1>3. x \in FlightOf(Sources) /\ IsRequest(trace[r]) /\ r \in Request
  BY <1>1, FlightParts
<1>4. Shape(x, trace[r], PhaseOfTag[e.kind.tag], now_ns)
  BY <1>1, <1>3 DEF Shaped, PhasesKnown
<1>5. "Prefill" \in Stage /\ "Decode" \in Stage /\ RemainingStage(r) \in Stage
      /\ WaitingPhase("Prefill") = "PrefillQueued"
      /\ WaitingPhase("Decode") = "DecodeQueued"
  BY DEF Stage, RemainingStage, WaitingPhase
<1>6. trace[r].prompt_tokens \in Tokens /\ trace[r].new_prompt_tokens \in Tokens
      /\ trace[r].arrival_ns \in Nat
  BY <1>3 DEF IsRequest
<1>7. \A y \in FlightOf(Sources) :
         /\ Remaining(y, r) \in FlightOf(Sources)
         /\ [y EXCEPT !.prefill_tokens = trace[r].prompt_tokens] \in FlightOf(Sources)
  BY <1>6 DEF Remaining, FlightOf
<1>8. CASE e.kind.tag = "RequestArrival"
  <2>1. ArrivalMoves(e)
    BY <1>8 DEF Moves
  <2>2. trace[r].arrival_ns <= now
    BY <1>1, <1>2, <1>6, <1>8 DEF ServingInv, TimelineHonest, Pending
  <2>3. Blank(x) /\ x.pending_fetch_tier = None
    BY <1>4, <1>8, PhasesOfEvents DEF Shape
  <2>4. /\ Shape(Remaining(x, r), trace[r], WaitingPhase(RemainingStage(r)), now)
        /\ Shape([x EXCEPT !.prefill_tokens = trace[r].prompt_tokens], trace[r],
                 "PrefillQueued", now)
    <3> HIDE DEF now, x
    <3> QED
      BY <1>2, <1>3, <2>2, <2>3, ShapeSent
  <2>5. ASSUME NEW tier \in FetchTier, FetchBegins(e, tier)
        PROVE  Shape(in_flight'[r], trace'[r], PhaseOf(r)', now_ns')
    <3> DEFINE y == [x EXCEPT !.pending_fetch_tier = tier]
    <3>1. /\ in_flight'[r] = y /\ PhaseOf(r)' = "Fetching" /\ now_ns' = now
      BY <2>5 DEF FetchBegins, OthersKept
    <3>2. tier # None
      BY CacheRunnerAssumption DEF FetchTier, CacheTier
    <3>3. Blank(y) /\ y.pending_fetch_tier = tier
      BY <1>3, <2>3 DEF Blank, FlightOf
    <3> HIDE DEF y, now
    <3>4. Shape(y, trace[r], "Fetching", now)
      BY <2>2, <3>2, <3>3 DEF Shape
    <3> QED
      BY <1>1, <3>1, <3>4
  <2>6. CASE Goes(e, Remaining(x, r), RemainingStage(r))
    BY <1>1, <1>3, <1>5, <1>7, <2>4, <2>6, SentShaped
  <2>7. CASE Goes(e, [x EXCEPT !.prefill_tokens = trace[r].prompt_tokens], "Prefill")
    BY <1>1, <1>3, <1>5, <1>7, <2>4, <2>7, SentShaped
  <2> QED
    BY <2>1, <2>5, <2>6, <2>7 DEF ArrivalMoves
<1>9. CASE e.kind.tag = "FetchDone"
  <2> DEFINE y == [x EXCEPT !.pending_fetch_tier = None]
  <2>1. Goes(e, Remaining(y, r), RemainingStage(r))
    BY <1>9 DEF Moves, FetchMoves
  <2>2. Blank(x) /\ trace[r].arrival_ns <= now_ns
    BY <1>4, <1>9, PhasesOfEvents DEF Shape
  <2>3. y \in FlightOf(Sources) /\ Blank(y) /\ y.pending_fetch_tier = None
    BY <1>3, <2>2, SomeFetches DEF FlightOf, Blank
  <2>4. trace[r].arrival_ns <= now
    BY <1>2, <1>6, <2>2
  <2> HIDE DEF y, now
  <2>5. Shape(Remaining(y, r), trace[r], WaitingPhase(RemainingStage(r)), now)
    BY <1>2, <1>3, <2>3, <2>4, ShapeSent
  <2> QED
    BY <1>1, <1>5, <1>7, <2>1, <2>3, <2>5, SentShaped DEF now
<1>10. CASE e.kind.tag = "PrefillDone"
  <2>1. Goes(e, x, "Decode")
    BY <1>10 DEF Moves, PrefillMoves
  <2>2. x.prefill_done_ns = now
    BY <1>1, <1>2, <1>10 DEF ServingInv, TimelineHonest, Pending
  <2>3. Shape(x, trace[r], "Prefill", now_ns)
    BY <1>4, <1>10 DEF PhaseOfTag
  <2> HIDE DEF now, x
  <2>4. Shape(x, trace[r], "DecodeQueued", now)
    BY <1>2, <1>3, <2>2, <2>3, ShapePrefilled
  <2> QED
    BY <1>1, <1>3, <1>5, <2>1, <2>4, SentShaped DEF now
<1> QED
  BY <1>8, <1>9, <1>10 DEF Moves

LEMMA MovedDomain ==
    ASSUME NEW e, Moves(e)
    PROVE  /\ OthersKept(e)
           /\ \/ /\ e.kind.tag # "DecodeDone" /\ results' = results
                 /\ DOMAIN in_flight' = DOMAIN in_flight
              \/ /\ e.kind.tag = "DecodeDone"
                 /\ DOMAIN in_flight' = DOMAIN in_flight \ {e.kind.request_id}
BY DEF Moves, ArrivalMoves, FetchMoves, PrefillMoves, DecodeMoves, FetchBegins, Goes

LEMMA ShapedKept ==
    ASSUME Inv, PhasesKnown, Shaped, NEW e, Moves(e)
    PROVE  Shaped'
<1>1. IsNext(e) /\ trace' = trace /\ OthersKept(e)
  BY MovedDomain DEF Moves
<1>2. ASSUME NEW s \in DOMAIN in_flight'
      PROVE  Shape(in_flight'[s], trace'[s], PhaseOf(s)', now_ns')
  <2>1. s \in DOMAIN in_flight /\ (e.kind.tag = "DecodeDone" => s # e.kind.request_id)
    BY <1>2, MovedDomain
  <2>2. CASE s # e.kind.request_id
    BY <1>1, <2>1, <2>2, OthersShaped
  <2>3. CASE s = e.kind.request_id
    BY <2>1, <2>3, MovedShaped
  <2> QED
    BY <2>2, <2>3
<1> QED
  BY <1>2 DEF Shaped

\* The times t are those of a request q whose stages follow one another.
InOrder(t, q) ==
    LET took == t.prefill_done_ns - t.prefill_start_ns
    IN  /\ q.arrival_ns <= t.prefill_start_ns
        /\ t.prefill_done_ns <= t.decode_start_ns
        /\ MayTake(took, q) \/ (took = 0 /\ q.new_prompt_tokens = 0)
        /\ t.finish_ns = t.decode_start_ns + StepOf(q) * q.output_tokens

ResultsInOrder == \A r \in DOMAIN results : InOrder(results[r], trace[r])

LEMMA StagesAre == StagesInOrder <=> ResultsInOrder
BY DEF StagesInOrder, ResultsInOrder, InOrder, MayTake, StepTime, StepOf

LEMMA TimelineInOrder ==
    ASSUME Inv, PhasesKnown, Shaped, NEW e \in queue, e.kind.tag = "DecodeDone"
    PROVE  InOrder(Timeline(e.kind.request_id), trace[e.kind.request_id])
<1> DEFINE r == e.kind.request_id
           x == in_flight[r]
           q == trace[r]
           t == Timeline(r)
<1>1. Running /\ r \in DOMAIN in_flight
  BY SomeFetches, EventParts DEF Inv
<1>2. x \in FlightOf(Sources) /\ IsRequest(q) /\ r \in Request
  BY <1>1, FlightParts
<1>3. Shape(x, q, "Decode", now_ns)
  <2>1. PhaseOf(r) = "Decode"
    BY <1>1, <1>2 DEF PhasesKnown, PhaseOfTag
  <2> QED
    BY <1>1, <2>1 DEF Shaped
<1>4. q.arrival_ns \in Nat /\ None \notin Nat
  BY <1>2, ServingAssumption DEF IsRequest
<1>5. /\ t.prefill_start_ns = IF x.prefill_start_ns = None THEN q.arrival_ns
                                                           ELSE x.prefill_start_ns
      /\ t.prefill_done_ns = IF x.prefill_done_ns = None THEN q.arrival_ns
                                                         ELSE x.prefill_done_ns
      /\ t.decode_start_ns = IF x.decode_start_ns = None THEN q.arrival_ns
                                                         ELSE x.decode_start_ns
      /\ t.finish_ns = IF x.finish_ns = None THEN q.arrival_ns ELSE x.finish_ns
  BY DEF Timeline, Stamps
<1>6. StepOf(q) * q.output_tokens \in Nat
  <2>1. StepOf(q) \in Nat /\ q.output_tokens \in Nat
    BY <1>2, ServingAssumption DEF StepOf, IsRequest
  <2> QED
    BY <2>1
<1> HIDE DEF x, q, t
<1>7. /\ x.decode_start_ns \in Nat /\ q.arrival_ns <= x.decode_start_ns
      /\ PrefilledBy(x, q, x.decode_start_ns)
      /\ x.finish_ns = x.decode_start_ns + StepOf(q) * q.output_tokens
  BY <1>3 DEF Shape
<1>8. /\ t.decode_start_ns = x.decode_start_ns
      /\ t.finish_ns = t.decode_start_ns + StepOf(q) * q.output_tokens
  <2>1. x.finish_ns \in Nat
    BY <1>6, <1>7
  <2> QED
    BY <1>4, <1>5, <1>7, <2>1
<1>9. CASE Blank(x) /\ q.new_prompt_tokens = 0
  <2>1. t.prefill_start_ns = q.arrival_ns /\ t.prefill_done_ns = q.arrival_ns
    BY <1>5, <1>9 DEF Blank
  <2>2. t.prefill_done_ns - t.prefill_start_ns = 0
    BY <1>4, <2>1
  <2>3. InOrder(t, q)
    BY <1>4, <1>7, <1>8, <1>9, <2>1, <2>2 DEF InOrder
  <2> QED
    BY <2>3 DEF t, q
<1>10. CASE /\ x.prefill_start_ns \in Nat /\ x.prefill_done_ns \in Nat
            /\ q.arrival_ns <= x.prefill_start_ns
            /\ x.prefill_done_ns <= x.decode_start_ns
            /\ MayTake(x.prefill_done_ns - x.prefill_start_ns, q)
  <2>1. /\ t.prefill_start_ns = x.prefill_start_ns
        /\ t.prefill_done_ns = x.prefill_done_ns
    BY <1>4, <1>5, <1>10
  <2>2. InOrder(t, q)
    BY <1>8, <1>10, <2>1 DEF InOrder
  <2> QED
    BY <2>2 DEF t, q
<1> QED
  BY <1>7, <1>9, <1>10 DEF PrefilledBy

LEMMA ResultsKept ==
    ASSUME Inv, PhasesKnown, Shaped, ResultsInOrder, NEW e, Moves(e)
    PROVE  ResultsInOrder'
<1>1. IsNext(e) /\ trace' = trace /\ e \in queue
  BY DEF Moves, IsNext
<1>2. CASE e.kind.tag # "DecodeDone"
  BY <1>1, <1>2, MovedDomain DEF ResultsInOrder
<1>3. CASE e.kind.tag = "DecodeDone"
  <2>1. results' = [s \in DOMAIN results \cup {e.kind.request_id} |->
                      IF s = e.kind.request_id THEN Timeline(e.kind.request_id)
                                               ELSE results[s]]
    BY <1>3 DEF Moves, DecodeMoves
  <2>2. InOrder(Timeline(e.kind.request_id), trace[e.kind.request_id])
    BY <1>1, <1>3, TimelineInOrder
  <2>3. ASSUME NEW s \in DOMAIN results' PROVE InOrder(results'[s], trace'[s])
    BY <1>1, <2>1, <2>2, <2>3 DEF ResultsInOrder
  <2> QED
    BY <2>3 DEF ResultsInOrder
<1> QED
  BY <1>2, <1>3

-----------------------------------------------------------------------------
(* The counters add up *)

\* The requests in a phase are the pending events of its tag.
LEMMA PhasesArePending ==
    ASSUME ServingInv(Sources, FetchKind), PhasesKnown,
           NEW tag \in {"RequestArrival", "FetchDone"}
    PROVE  LET A == {r \in Request : PhaseOf(r) = PhaseOfTag[tag]}
           IN  /\ IsFiniteSet(A) /\ IsFiniteSet(Pending(tag))
               /\ Cardinality(Pending(tag)) = Cardinality(A)
               /\ \A r \in Request :
                     r \in A <=> \E e \in Pending(tag) : e.kind.request_id = r
<1> DEFINE A == {r \in Request : PhaseOf(r) = PhaseOfTag[tag]}
           Due == Pending(tag)
           f == [r \in A |-> CHOOSE e \in Due : e.kind.request_id = r]
<1>1. IsFiniteSet(A)
  BY ServingAssumption, FS_Subset
<1>2. \A e \in Due : e.kind.request_id \in A
  <2> SUFFICES ASSUME NEW e \in Due PROVE e.kind.request_id \in A
    OBVIOUS
  <2>1. e \in queue /\ e.kind.tag = tag
    BY DEF Pending
  <2>2. Running /\ e.kind.request_id \in Request
    BY <2>1, SomeFetches, EventParts
  <2> QED
    BY <2>1, <2>2 DEF PhasesKnown
<1>3. \A r \in A : \E e \in Due : e.kind.request_id = r
  <2> SUFFICES ASSUME NEW r \in A PROVE \E e \in Due : e.kind.request_id = r
    OBVIOUS
  <2>1. PhaseOf(r) = PhaseOfTag[tag] /\ r \in Request
    OBVIOUS
  <2>2. PhaseOf(r) \in {"Arriving", "Fetching"}
    BY <2>1, PhasesOfEvents
  <2>3. Running
    BY <2>2 DEF PhaseOf, Running
  <2>4. r \notin DOMAIN results /\ \A t \in Stage : ~Waits(t, r)
    BY <2>1, <2>2, <2>3 DEF PhasesKnown, WaitingPhase
  <2>5. PICK e \in queue : e.kind.request_id = r
    BY <2>1, <2>3, <2>4 DEF PhasesKnown
  <2>6. PhaseOf(r) = PhaseOfTag[e.kind.tag]
    BY <2>1, <2>3, <2>5 DEF PhasesKnown
  <2>7. e.kind.tag \in {"RequestArrival", "FetchDone", "PrefillDone", "DecodeDone"}
    <3>1. e.kind \in ArrivalKind \cup FetchKind \cup GpuKind
      BY <2>5, SomeFetches, EventParts
    <3> QED
      BY <3>1 DEF ArrivalKind, FetchKind, GpuKind
  <2>8. e.kind.tag = tag
    BY <2>1, <2>6, <2>7 DEF PhaseOfTag
  <2> QED
    BY <2>5, <2>8 DEF Pending
<1>4. \A e, g \in Due : e.kind.request_id = g.kind.request_id => e = g
  BY DEF ServingInv, InOnePlace, Pending
<1> HIDE DEF A, Due
<1>5. \A r \in A : f[r] \in Due /\ f[r].kind.request_id = r
  BY <1>3
<1>6. f \in [A -> Due]
  BY <1>5
<1>7. f \in Injection(A, Due)
  BY <1>5, <1>6 DEF Injection, IsInjective
<1>8. f \in Surjection(A, Due)
  <2>1. \A e \in Due : f[e.kind.request_id] = e
    BY <1>2, <1>4, <1>5
  <2> QED
    BY <1>2, <1>6, <2>1 DEF Surjection
<1>9. ExistsBijection(A, Due)
  BY <1>7, <1>8 DEF ExistsBijection, Bijection
<1>10. IsFiniteSet(Due) /\ Cardinality(Due) = Cardinality(A)
  BY <1>1, <1>9, FS_Bijection
<1> QED
  BY <1>1, <1>2, <1>3, <1>10 DEF A, Due

\* What the handlers do to the two sets of requests.
LEMMA SetsMove ==
    ASSUME Inv, PhasesKnown, PhasesKnown', NEW e, Moves(e)
    PROVE  LET r == e.kind.request_id
           IN  /\ Running /\ Running'
               /\ \/ /\ r \in Arriving /\ Arriving' = Arriving \ {r}
                     /\ r \notin Fetching
                     /\ \/ /\ Fetching' = Fetching
                           /\ Tallied(stats, stats', 1, stats.pending_fetches)
                        \/ /\ Fetching' = Fetching \cup {r}
                           /\ Tallied(stats, stats', 0, stats.pending_fetches + 1)
                  \/ /\ Arriving' = Arriving
                     /\ r \in Fetching /\ Fetching' = Fetching \ {r}
                     /\ Tallied(stats, stats', 1, KV!SatSub(stats.pending_fetches, 1))
                  \/ /\ Arriving' = Arriving /\ Fetching' = Fetching
                     /\ Tallied(stats, stats', 0, stats.pending_fetches)
<1> DEFINE r == e.kind.request_id
           Early == {"Arriving", "Fetching"}
<1>1. /\ IsNext(e) /\ trace' = trace /\ e \in queue /\ Running /\ r \in Request
      /\ stats \in [DOMAIN NoStats -> Nat]
  BY Given DEF Moves, CacheInv
<1>2. PhaseOf(r) = PhaseOfTag[e.kind.tag]
  BY <1>1 DEF PhasesKnown
<1>3. Running'
  BY <1>1 DEF Running
<1>4. \A t \in Stage : t \notin Early /\ WaitingPhase(t) \notin Early
  BY DEF Stage, WaitingPhase
<1>5. ASSUME NEW s \in Request, s # r
      PROVE  \/ PhaseOf(s)' = PhaseOf(s)
             \/ PhaseOf(s) \notin Early /\ PhaseOf(s)' \notin Early
  <2>1. CASE s \in DOMAIN in_flight
    BY <1>4, <1>5, <2>1, MovedDomain DEF OthersKept
  <2>2. CASE s \notin DOMAIN in_flight
    <3>1. s \in DOMAIN results
      BY <1>1, <1>5, <2>2 DEF Inv, ServingInv, Accounted
    <3>2. s \in DOMAIN results'
      BY <3>1 DEF Moves, DecodeMoves
    <3> QED
      BY <1>1, <1>3, <3>1, <3>2 DEF PhasesKnown
  <2> QED
    BY <2>1, <2>2
<1>6. ASSUME NEW x, NEW stage \in Stage, Goes(e, x, stage)
      PROVE  PhaseOf(r)' \notin Early
  BY <1>4, <1>6 DEF Goes, SentAs
<1>7. /\ "Prefill" \in Stage /\ "Decode" \in Stage /\ RemainingStage(r) \in Stage
  BY DEF Stage, RemainingStage
<1>8. CASE e.kind.tag = "RequestArrival"
  <2>1. PhaseOf(r) = "Arriving"
    BY <1>2, <1>8, PhasesOfEvents
  <2>2. CASE /\ \E tier \in FetchTier : FetchBegins(e, tier)
             /\ Tallied(stats, stats', 0, stats.pending_fetches + 1)
    <3>1. PhaseOf(r)' = "Fetching"
      BY <2>2 DEF FetchBegins
    <3> QED
      BY <1>1, <1>3, <1>5, <2>1, <2>2, <3>1 DEF Arriving, Fetching
  <2>3. CASE /\ PhaseOf(r)' \notin Early
             /\ Tallied(stats, stats', 1, stats.pending_fetches)
    BY <1>1, <1>3, <1>5, <2>1, <2>3 DEF Arriving, Fetching
  <2>4. ArrivalMoves(e)
    BY <1>8 DEF Moves
  <2> QED
    BY <1>6, <1>7, <2>2, <2>3, <2>4 DEF ArrivalMoves
<1>9. CASE e.kind.tag = "FetchDone"
  <2>1. PhaseOf(r) = "Fetching"
    BY <1>2, <1>9, PhasesOfEvents
  <2>2. FetchMoves(e)
    BY <1>9 DEF Moves
  <2>3. PhaseOf(r)' \notin Early
    BY <1>6, <1>7, <2>2 DEF FetchMoves
  <2> QED
    BY <1>1, <1>3, <1>5, <2>1, <2>2, <2>3 DEF Arriving, Fetching, FetchMoves
<1>10. CASE e.kind.tag = "PrefillDone"
  <2>1. PhaseOf(r) = "Prefill"
    BY <1>2, <1>10 DEF PhaseOfTag
  <2>2. PrefillMoves(e)
    BY <1>10 DEF Moves
  <2>3. PhaseOf(r)' \notin Early
    BY <1>6, <1>7, <2>2 DEF PrefillMoves
  <2> QED
    BY <1>1, <1>3, <1>5, <2>1, <2>2, <2>3 DEF Arriving, Fetching, PrefillMoves
<1>11. CASE e.kind.tag = "DecodeDone"
  <2>1. PhaseOf(r) = "Decode"
    BY <1>2, <1>11 DEF PhaseOfTag
  <2>2. DecodeMoves(e)
    BY <1>11 DEF Moves
  <2>3. PhaseOf(r)' \notin Early
    BY <2>2 DEF DecodeMoves
  <2>4. Tallied(stats, stats', 0, stats.pending_fetches)
    BY <1>1, <2>2, TallyOfStore DEF DecodeMoves
  <2> QED
    BY <1>1, <1>3, <1>5, <2>1, <2>3, <2>4 DEF Arriving, Fetching
<1> QED
  BY <1>8, <1>9, <1>10, <1>11 DEF Moves

LEMMA CountsKept ==
    ASSUME Inv, PhasesKnown, PhasesKnown', CountsRight, NEW e, Moves(e)
    PROVE  CountsRight'
<1> DEFINE r == e.kind.request_id
           a == Cardinality(Arriving)
           b == Cardinality(Fetching)
           a2 == Cardinality(Arriving')
           b2 == Cardinality(Fetching')
<1>1. stats \in [DOMAIN NoStats -> Nat]
  BY DEF Inv, CacheInv
<1>2. Arriving \in SUBSET Request /\ Fetching \in SUBSET Request
  BY DEF Arriving, Fetching
<1>3. IsFiniteSet(Arriving) /\ IsFiniteSet(Fetching) /\ IsFiniteSet(Request)
  BY <1>2, ServingAssumption, FS_Subset
<1>4. a \in Nat /\ b \in Nat /\ Cardinality(Request) \in Nat
  BY <1>3, FS_CardinalityType
<1>5. /\ r \in Arriving => Cardinality(Arriving \ {r}) = a - 1
      /\ r \in Fetching => Cardinality(Fetching \ {r}) = b - 1 /\ b # 0
      /\ r \notin Fetching => Cardinality(Fetching \cup {r}) = b + 1
  BY <1>3, FS_AddElement, FS_RemoveElement, FS_EmptySet
<1>6. /\ Credited(stats) \in Nat
  BY <1>1, CounterNames DEF Credited
<1>7. /\ Credited(stats) + a + b = Cardinality(Request)
      /\ stats.pending_fetches = b /\ stats.fetch_errors <= stats.misses
  BY SetsMove DEF CountsRight
<1>8. CASE /\ r \in Arriving /\ Arriving' = Arriving \ {r}
           /\ Fetching' = Fetching
           /\ Tallied(stats, stats', 1, stats.pending_fetches)
  <2>1. a2 = a - 1 /\ b2 = b
    BY <1>5, <1>8
  <2> HIDE DEF a, b, a2, b2
  <2>2. Credited(stats') + a2 + b2 = Cardinality(Request)
        /\ stats'.pending_fetches = b2 /\ stats'.fetch_errors <= stats'.misses
    BY <1>4, <1>6, <1>7, <1>8, <2>1 DEF Tallied
  <2> QED
    BY <2>2, SetsMove DEF CountsRight, a2, b2
<1>9. CASE /\ r \in Arriving /\ Arriving' = Arriving \ {r} /\ r \notin Fetching
           /\ Fetching' = Fetching \cup {r}
           /\ Tallied(stats, stats', 0, stats.pending_fetches + 1)
  <2>1. a2 = a - 1 /\ b2 = b + 1
    BY <1>5, <1>9
  <2> HIDE DEF a, b, a2, b2
  <2>2. Credited(stats') + a2 + b2 = Cardinality(Request)
        /\ stats'.pending_fetches = b2 /\ stats'.fetch_errors <= stats'.misses
    BY <1>4, <1>6, <1>7, <1>9, <2>1 DEF Tallied
  <2> QED
    BY <2>2, SetsMove DEF CountsRight, a2, b2
<1>10. CASE /\ Arriving' = Arriving
            /\ r \in Fetching /\ Fetching' = Fetching \ {r}
            /\ Tallied(stats, stats', 1, KV!SatSub(stats.pending_fetches, 1))
  <2>1. a2 = a /\ b2 = b - 1 /\ b # 0
    BY <1>5, <1>10
  <2> HIDE DEF a, b, a2, b2
  <2>2. KV!SatSub(b, 1) = b - 1
    BY <1>4, <2>1 DEF KV!SatSub
  <2>3. Credited(stats') + a2 + b2 = Cardinality(Request)
        /\ stats'.pending_fetches = b2 /\ stats'.fetch_errors <= stats'.misses
    BY <1>4, <1>6, <1>7, <1>10, <2>1, <2>2 DEF Tallied
  <2> QED
    BY <2>3, SetsMove DEF CountsRight, a2, b2
<1>11. CASE /\ Arriving' = Arriving /\ Fetching' = Fetching
            /\ Tallied(stats, stats', 0, stats.pending_fetches)
  <2>1. a2 = a /\ b2 = b
    BY <1>11
  <2> HIDE DEF a, b, a2, b2
  <2>2. Credited(stats') + a2 + b2 = Cardinality(Request)
        /\ stats'.pending_fetches = b2 /\ stats'.fetch_errors <= stats'.misses
    BY <1>4, <1>6, <1>7, <1>11, <2>1 DEF Tallied
  <2> QED
    BY <2>2, SetsMove DEF CountsRight, a2, b2
<1> QED
  BY <1>8, <1>9, <1>10, <1>11, SetsMove

-----------------------------------------------------------------------------
(* The reports of a run *)

ReportsInv == Shaped /\ ResultsInOrder /\ CountsRight

LEMMA NoCounts == NoStats.pending_fetches = 0 /\ Credited(NoStats) = 0
                  /\ NoStats.fetch_errors <= NoStats.misses
BY DEF NoStats, Credited

LEMMA ReportsBegun == Init => ReportsInv
<1> SUFFICES ASSUME Init PROVE ReportsInv
  OBVIOUS
<1>1. trace = <<>> /\ in_flight = <<>> /\ results = <<>> /\ stats = NoStats
  BY DEF Init, NewServing
<1>2. DOMAIN in_flight = {} /\ DOMAIN results = {}
  BY <1>1
<1>3. Arriving = {} /\ Fetching = {} /\ ~Running
  BY <1>1 DEF Arriving, Fetching, PhaseOf, Running
<1>4. CountsRight
  BY <1>1, <1>3, NoCounts, FS_EmptySet DEF CountsRight
<1> QED
  BY <1>2, <1>4 DEF ReportsInv, Shaped, ResultsInOrder

LEMMA NobodyStarted ==
    ASSUME PhasesKnown', NEW tr \in Traces, StartServing(tr)
    PROVE  /\ Running' /\ trace' = tr /\ DOMAIN in_flight' = Request
           /\ \A r \in Request : PhaseOf(r)' = "Arriving" /\ in_flight'[r] = NewInFlight
           /\ DOMAIN results' = {}
<1>1. /\ trace' = tr /\ queue' = Arrivals(tr) /\ results' = <<>>
      /\ in_flight' = [r \in Request |-> NewInFlight]
  BY DEF StartServing
<1>2. Running'
  BY <1>1, TraceParts DEF Running
<1>3. ASSUME NEW r \in Request PROVE PhaseOf(r)' = "Arriving"
  <2> DEFINE e == [time_ns |-> tr[r].arrival_ns,
                   seq     |-> Cardinality({s \in Request : ArrivesBefore(tr, s, r)}),
                   kind    |-> [tag |-> "RequestArrival", request_id |-> r]]
  <2>1. e \in Arrivals(tr) /\ e.kind.request_id = r /\ e.kind.tag = "RequestArrival"
    BY DEF Arrivals
  <2> HIDE DEF e
  <2>2. PhaseOf(r)' = PhaseOfTag[e.kind.tag]
    BY <1>1, <1>2, <2>1 DEF PhasesKnown
  <2> QED
    BY <2>1, <2>2, PhasesOfEvents
<1> QED
  BY <1>1, <1>2, <1>3

LEMMA ReportsStart ==
    ASSUME PhasesKnown', NEW tr \in Traces, StartRun(tr)
    PROVE  ReportsInv'
<1>1. /\ StartServing(tr) /\ stats' = NoStats
  BY DEF StartRun
<1>2. /\ Running' /\ trace' = tr /\ DOMAIN in_flight' = Request
      /\ \A r \in Request : PhaseOf(r)' = "Arriving" /\ in_flight'[r] = NewInFlight
      /\ DOMAIN results' = {}
  BY <1>1, NobodyStarted
<1>3. Arriving' = Request /\ Fetching' = {}
  BY <1>2 DEF Arriving, Fetching
<1>4. Cardinality(Request) \in Nat
  BY ServingAssumption, FS_CardinalityType
<1>5. CountsRight'
  BY <1>1, <1>2, <1>3, <1>4, NoCounts, FS_EmptySet DEF CountsRight
<1>6. Shaped'
  <2>1. Blank(NewInFlight) /\ NewInFlight.pending_fetch_tier = None
    BY DEF Blank, NewInFlight, Stamps
  <2>2. \A r \in Request : Shape(NewInFlight, tr[r], "Arriving", now_ns')
    BY <2>1 DEF Shape
  <2> QED
    BY <1>2, <2>2 DEF Shaped
<1> QED
  BY <1>2, <1>5, <1>6 DEF ReportsInv, ResultsInOrder

LEMMA ReportsKept ==
    Inv /\ PhasesKnown /\ PhasesKnown' /\ ReportsInv /\ [Next]_vars => ReportsInv'
<1> SUFFICES ASSUME Inv, PhasesKnown, PhasesKnown', ReportsInv, [Next]_vars
             PROVE  ReportsInv'
  OBVIOUS
<1>1. CASE \E tr \in Traces : StartRun(tr)
  BY <1>1, ReportsStart
<1>2. CASE HandleEvent
  <2>1. PICK e : Moves(e)
    BY <1>2, EveryHandlerMoves
  <2> QED
    BY <2>1, ShapedKept, ResultsKept, CountsKept DEF ReportsInv
<1>3. CASE UNCHANGED vars
  <2>1. /\ UNCHANGED simVars /\ UNCHANGED clusterVars /\ UNCHANGED cacheVars
    BY <1>3 DEF vars
  <2>2. /\ now_ns' = now_ns /\ trace' = trace /\ in_flight' = in_flight
        /\ results' = results /\ stats' = stats
        /\ \A r : PhaseOf(r)' = PhaseOf(r)
    BY <2>1 DEF PhaseOf, Waits, simVars, clusterVars, cacheVars
  <2>3. Arriving' = Arriving /\ Fetching' = Fetching /\ Running' = Running
    BY <2>2 DEF Arriving, Fetching, Running
  <2>4. CountsRight'
    BY <2>2, <2>3 DEF ReportsInv, CountsRight
  <2> QED
    BY <2>2, <2>4 DEF ReportsInv, Shaped, ResultsInOrder
<1> QED
  BY <1>1, <1>2, <1>3 DEF Next

LEMMA AlwaysReports == Spec => [](Inv /\ PhasesKnown /\ ReportsInv)
<1>1. Inv => PhasesKnown
  BY Known DEF Inv, Whereabouts
<1> QED
  BY <1>1, ReportsBegun, ReportsKept, Always, PTL DEF Spec

\* The stages of a request follow one another, and its prefill takes as long as
\* that of its whole prompt, or that of its new tokens, or is spared when there
\* is nothing new, whoever else was served in between.
THEOREM StagesFollow == Spec => []StagesInOrder
<1>1. ReportsInv => StagesInOrder
  BY StagesAre DEF ReportsInv
<1> QED
  BY <1>1, AlwaysReports, PTL

\* Each request that has arrived is counted once, as a hit, a miss or a fetch
\* that is pending, and the request knows of its fetch until the fetch is over.
THEOREM EachCountedOnce == Spec => []HitsAddUp
<1>1. Inv /\ PhasesKnown /\ ReportsInv => HitsAddUp
  <2> SUFFICES ASSUME Inv, PhasesKnown, ReportsInv PROVE HitsAddUp
    OBVIOUS
  <2> DEFINE a == Cardinality(Arriving)
             b == Cardinality(Fetching)
  <2>1. /\ Cardinality(Pending("RequestArrival")) = a
        /\ Cardinality(Pending("FetchDone")) = b
        /\ \A r \in Request :
              PhaseOf(r) = "Fetching"
                <=> \E e \in Pending("FetchDone") : e.kind.request_id = r
    <3>1. /\ {r \in Request : PhaseOf(r) = PhaseOfTag["RequestArrival"]} = Arriving
          /\ {r \in Request : PhaseOf(r) = PhaseOfTag["FetchDone"]} = Fetching
      BY PhasesOfEvents DEF Arriving, Fetching
    <3>2. /\ Cardinality(Pending("RequestArrival")) = a
          /\ Cardinality(Pending("FetchDone")) = b
          /\ \A r \in Request :
                r \in Fetching
                  <=> \E e \in Pending("FetchDone") : e.kind.request_id = r
      BY <3>1, PhasesArePending DEF Inv
    <3> QED
      BY <3>2 DEF Fetching
  <2>2. a \in Nat /\ b \in Nat /\ Cardinality(Request) \in Nat
    <3>1. Arriving \in SUBSET Request /\ Fetching \in SUBSET Request
      BY DEF Arriving, Fetching
    <3>2. IsFiniteSet(Arriving) /\ IsFiniteSet(Fetching) /\ IsFiniteSet(Request)
      BY <3>1, ServingAssumption, FS_Subset
    <3> QED
      BY <3>2, FS_CardinalityType
  <2>3. stats \in [DOMAIN NoStats -> Nat]
    BY DEF Inv, CacheInv
  <2>4. Credited(stats) \in Nat
    BY <2>3, CounterNames DEF Credited
  <2>5. /\ Credited(stats) + a + b = IF Running THEN Cardinality(Request) ELSE 0
        /\ stats.pending_fetches = b /\ stats.fetch_errors <= stats.misses
    BY DEF ReportsInv, CountsRight
  <2> HIDE DEF a, b
  <2>6. Credited(stats) + stats.pending_fetches
          = IF Running
            THEN Cardinality(Request) - Cardinality(Pending("RequestArrival"))
            ELSE 0
    BY <2>1, <2>2, <2>4, <2>5
  <2>7. \A r \in DOMAIN in_flight :
           in_flight[r].pending_fetch_tier # None
             <=> \E e \in Pending("FetchDone") : e.kind.request_id = r
    <3>1. DOMAIN in_flight \in SUBSET Request
      BY DEF Inv, ServingInv, Types, Flights
    <3> QED
      BY <2>1, <3>1 DEF ReportsInv, Shaped, Shape
  <2> QED
    BY <2>1, <2>5, <2>6, <2>7 DEF HitsAddUp, Credited
<1> QED
  BY <1>1, AlwaysReports, PTL

-----------------------------------------------------------------------------
(* What the handlers do to the cache *)

\* The KV that the prefill of the request r leaves behind.
KvOf(r) == KV!NewObject(trace[r].session_id, trace[r].prompt_tokens, now_ns')

\* The handler of e adds no KV but that of its request, when its prefill is over.
Fills(e) ==
    /\ runs' = runs
    /\ \A k \in DOMAIN cache'.objects :
          \/ k \in DOMAIN cache.objects /\ P!SameKv(cache'.objects[k], cache.objects[k])
          \/ /\ e.kind.tag = "PrefillDone"
             /\ P!SameKv(cache'.objects[k], KvOf(e.kind.request_id))

LEMMA SameCacheFills ==
    ASSUME NEW e, runs' = runs, cache' = cache
    PROVE  Fills(e)
BY DEF Fills, P!SameKv

LEMMA ArrivalFills ==
    ASSUME Inv, NEW e, NEW r, OnArrival(e, r)
    PROVE  Fills(e)
<1>1. ArrivalOf(e, r) /\ runs' = runs
  BY DEF OnArrival, OnGpuHit, OnFetchHit, OnFetchError, OnMiss, ArrivalOf
<1>2. IsNext(e) /\ e.kind.request_id = r
  BY <1>1 DEF ArrivalOf
<1>3. CacheGood(cache) /\ Running /\ r \in Request
  BY <1>2, Given DEF CacheInv
<1>4. CASE OnGpuHit(e, r)
  <2>1. PICK k \in GpuHit(r) : cache' = KV!Touched(cache, k, ClockAt(e))
    BY <1>4 DEF OnGpuHit
  <2>2. k \in DOMAIN cache.objects
    BY <1>3, <2>1, HitParts DEF GpuHit
  <2> QED
    BY <1>1, <1>3, <2>1, <2>2, TouchedSame DEF Fills
<1>5. CASE OnFetchHit(e, r) \/ OnFetchError(e, r) \/ OnMiss(e, r)
  <2>1. cache' = cache
    BY <1>5 DEF OnFetchHit, OnFetchError, OnMiss
  <2> QED
    BY <1>1, <2>1, SameCacheFills
<1> QED
  BY <1>4, <1>5 DEF OnArrival

LEMMA PrefillDoneFills ==
    ASSUME Inv, NEW e, OnPrefillDone(e)
    PROVE  Fills(e)
<1> DEFINE r == e.kind.request_id
           now == ClockAt(e)
<1>1. /\ IsNext(e) /\ e.kind.tag = "PrefillDone" /\ runs' = runs /\ Store(r, now)
      /\ \E q : Commit(e, q)
  BY DEF OnPrefillDone
<1>2. /\ CacheInv /\ trace \in Traces /\ r \in Request /\ now \in Nat
      /\ now_ns' = now
  BY <1>1, Given DEF Commit, StepAndSchedule
<1>3. trace[r].prompt_tokens \in Tokens /\ trace[r].session_id \in Session
  BY <1>2, TraceParts
<1>4. CASE trace[r].prompt_tokens = 0
  BY <1>1, <1>4, SameCacheFills DEF Store
<1>5. CASE trace[r].prompt_tokens # 0
  <2>1. PICK a \in Storing(r, now) : cache' = a.cache
    BY <1>1, <1>5 DEF Store
  <2>2. PICK b \in Builds : policy = b.policy
    BY <1>2 DEF CacheInv
  <2>3. a \in KV!Placements(b.policy, cache, trace[r].session_id,
                            trace[r].prompt_tokens, now)
    BY <2>1, <2>2 DEF Storing
  <2> HIDE DEF now
  <2>4. P!ComesFrom(cache', cache, KvOf(r))
    BY <1>2, <1>3, <2>1, <2>3, StoredComes DEF CacheInv, KvOf
  <2> QED
    BY <1>1, <2>4 DEF Fills, P!ComesFrom
<1> QED
  BY <1>4, <1>5

LEMMA EveryHandlerFills ==
    ASSUME Inv, PhasesKnown, PhasesKnown', HandleEvent
    PROVE  \E e : Moves(e) /\ Fills(e)
<1>1. ASSUME NEW e, NEW r, OnArrival(e, r) PROVE Moves(e) /\ Fills(e)
  BY <1>1, ArrivalRecords, ArrivalFills
<1>2. ASSUME NEW e, OnFetchDone(e) PROVE Moves(e) /\ Fills(e)
  BY <1>2, FetchDoneRecords, SameCacheFills DEF OnFetchDone
<1>3. ASSUME NEW e, OnPrefillDone(e) PROVE Moves(e) /\ Fills(e)
  BY <1>3, PrefillDoneRecords, PrefillDoneFills
<1>4. ASSUME NEW e, OnDecodeDone(e) PROVE Moves(e) /\ Fills(e)
  BY <1>4, DecodeDoneRecords, SameCacheFills DEF OnDecodeDone, cacheVars
<1> QED
  BY <1>1, <1>2, <1>3, <1>4 DEF HandleEvent

-----------------------------------------------------------------------------
(* Nothing is reused before it has been computed *)

\* The prefill of the request s is over, or the request is.
Computed(s) == s \in DOMAIN in_flight => in_flight[s].prefill_done_ns \in 0 .. now_ns

LEMMA PrefillOver ==
    ASSUME Inv, PhasesKnown, Shaped, NEW e, Moves(e), e.kind.tag = "PrefillDone"
    PROVE  LET r == e.kind.request_id
           IN  in_flight'[r].prefill_done_ns \in 0 .. now_ns'
<1> DEFINE r == e.kind.request_id
           x == in_flight[r]
<1>1. /\ IsNext(e) /\ e \in queue /\ r \in DOMAIN in_flight /\ Running
      /\ ServingInv(Sources, FetchKind)
  BY Given DEF Moves, Pool
<1>2. now_ns' = ClockAt(e) /\ ClockAt(e) = e.time_ns /\ ClockAt(e) \in Nat
  BY <1>1, MovedDomain, SomeFetches, DeliveredOnTime DEF OthersKept
<1>3. x.prefill_done_ns = now_ns'
  BY <1>1, <1>2 DEF ServingInv, TimelineHonest, Pending
<1>4. x \in FlightOf(Sources)
  BY <1>1, FlightParts
<1>5. Goes(e, x, "Decode")
  BY DEF Moves, PrefillMoves
<1> HIDE DEF x
<1>6. in_flight'[r] = x \/ in_flight'[r] = StampOf(x, now_ns', "Decode", trace[r])
  BY <1>5 DEF Goes, SentAs
<1>7. in_flight'[r].prefill_done_ns = x.prefill_done_ns
  BY <1>4, <1>6 DEF StampOf, FlightOf
<1> QED
  BY <1>2, <1>3, <1>7

LEMMA ComputedKept ==
    ASSUME Inv, PhasesKnown, Shaped, NEW e, Moves(e), NEW s, Computed(s),
           s \in DOMAIN in_flight'
    PROVE  in_flight'[s].prefill_done_ns \in 0 .. now_ns'
<1> DEFINE x == in_flight[s]
<1>1. /\ IsNext(e) /\ e \in queue /\ Running /\ ServingInv(Sources, FetchKind)
  BY Given DEF Moves
<1>2. now_ns' = ClockAt(e) /\ now_ns \in Nat /\ ClockAt(e) \in Nat /\ now_ns <= now_ns'
  BY <1>1, MovedDomain, SomeFetches, DeliveredOnTime DEF OthersKept
<1>3. s \in DOMAIN in_flight /\ (e.kind.tag = "DecodeDone" => s # e.kind.request_id)
  BY MovedDomain
<1>4. /\ s \in Request /\ x \in FlightOf(Sources)
      /\ Shape(x, trace[s], PhaseOf(s), now_ns)
      /\ x.prefill_done_ns \in 0 .. now_ns
  BY <1>1, <1>3, FlightParts DEF Shaped, Computed
<1>5. ~Blank(x)
  BY <1>2, <1>4, ServingAssumption DEF Blank
<1>6. PhaseOf(s) \notin {"Arriving", "Fetching", "PrefillQueued"}
  BY <1>4, <1>5 DEF Shape
<1>7. CASE s # e.kind.request_id
  <2>1. CASE in_flight'[s] = x
    BY <1>2, <1>4, <2>1
  <2>2. ASSUME NEW t \in Stage, PhaseOf(s) = WaitingPhase(t),
               in_flight'[s] = StampOf(x, now_ns', t, trace[s])
        PROVE  in_flight'[s].prefill_done_ns \in 0 .. now_ns'
    <3>1. t # "Prefill"
      BY <1>6, <2>2 DEF WaitingPhase
    <3>2. in_flight'[s].prefill_done_ns = x.prefill_done_ns
      <4> HIDE DEF x
      <4> QED
        BY <1>4, <2>2, <3>1 DEF StampOf, FlightOf
    <3> QED
      BY <1>2, <1>4, <3>2
  <2> QED
    BY <1>3, <1>7, <2>1, <2>2, MovedDomain DEF OthersKept
<1>8. CASE s = e.kind.request_id
  <2>1. PhaseOf(s) = PhaseOfTag[e.kind.tag]
    BY <1>1, <1>4, <1>8 DEF PhasesKnown
  <2>2. e.kind.tag # "RequestArrival" /\ e.kind.tag # "FetchDone"
    BY <1>6, <2>1, PhasesOfEvents
  <2>3. e.kind.tag = "PrefillDone"
    BY <1>3, <1>8, <2>2 DEF Moves
  <2> QED
    BY <1>8, <2>3, PrefillOver
<1> QED
  BY <1>7, <1>8

\* The KV o is that of the prompt of a request of the trace tr.
PromptOf(o, q) == q.session_id = o.session_id /\ q.prompt_tokens = o.prefix_tokens

\* A first run starts with an empty cache.
Causal ==
    /\ runs = 0 => DOMAIN cache.objects = {}
    /\ runs = 1 =>
          \A k \in DOMAIN cache.objects :
             \E r \in Request : PromptOf(cache.objects[k], trace[r]) /\ Computed(r)

LEMMA CausalIs == Causal => ReuseIsCausal
BY DEF Causal, ReuseIsCausal, PromptOf, Computed

LEMMA CausalKept ==
    ASSUME Inv, PhasesKnown, Shaped, Causal, NEW e, Moves(e), Fills(e)
    PROVE  Causal'
<1> DEFINE r == e.kind.request_id
<1>1. /\ IsNext(e) /\ Running /\ r \in Request /\ trace' = trace /\ runs' = runs
      /\ runs # 0
  BY Given DEF Moves, Fills, Inv
<1>2. SUFFICES ASSUME runs = 1, NEW k \in DOMAIN cache'.objects
               PROVE  \E s \in Request :
                         PromptOf(cache'.objects[k], trace'[s]) /\ Computed(s)'
  BY <1>1 DEF Causal
<1>3. CASE /\ k \in DOMAIN cache.objects
           /\ P!SameKv(cache'.objects[k], cache.objects[k])
  <2>1. PICK s \in Request : PromptOf(cache.objects[k], trace[s]) /\ Computed(s)
    BY <1>2, <1>3 DEF Causal
  <2>2. PromptOf(cache'.objects[k], trace[s])
    BY <1>3, <2>1 DEF PromptOf, P!SameKv
  <2>3. Computed(s)'
    BY <2>1, ComputedKept DEF Computed
  <2> QED
    BY <1>1, <2>2, <2>3
<1>4. CASE e.kind.tag = "PrefillDone" /\ P!SameKv(cache'.objects[k], KvOf(r))
  <2>1. PromptOf(cache'.objects[k], trace[r])
    BY <1>4 DEF PromptOf, P!SameKv, KvOf, KV!NewObject
  <2>2. Computed(r)'
    BY <1>4, PrefillOver DEF Computed
  <2> QED
    BY <1>1, <2>1, <2>2
<1> QED
  BY <1>2, <1>3, <1>4 DEF Fills

-----------------------------------------------------------------------------
(* The NIC *)

\* The objects are as large as the KV of their tokens.
SizesRight ==
    \A k \in DOMAIN cache.objects :
        cache.objects[k].bytes = KV!KvBytes(cache.objects[k].prefix_tokens)

LEMMA SizesKept ==
    ASSUME SizesRight, NEW e, Fills(e)
    PROVE  SizesRight'
BY DEF SizesRight, Fills, P!SameKv, KvOf, KV!NewObject, KV!KvBytes

\* A hit is as large as the KV that its request reuses.
LEMMA HitSize ==
    ASSUME Inv, SizesRight, NEW r, NEW k \in Hit(r)
    PROVE  cache.objects[k].bytes = KV!KvBytes(ReusedPrefixTokens(r))
<1>1. k \in KV!Lookup(cache, <<trace[r].session_id, ReusedPrefixTokens(r)>>)
  BY DEF Hit
<1>2. /\ k \in DOMAIN cache.objects
      /\ cache.objects[k].prefix_tokens = ReusedPrefixTokens(r)
  BY <1>1, FoundByKey DEF Inv, CacheInv
<1> QED
  BY <1>2 DEF SizesRight

\* How long a transfer of the queued model holds the NIC.
LEMMA OnNicFor ==
    ASSUME Queued, NEW tier \in FetchTier, NEW bytes \in Nat,
           EstimateDuration(tier, bytes) # Fails
    PROVE  Serialization(tier, bytes) \in Nat
<1>1. /\ DOMAIN Calibrated = {} /\ NsPerUnit \in Nat /\ Bandwidth[tier] \in Nat
  BY TransferAssumption
<1>2. Bandwidth[tier] # 0
  BY <1>1 DEF EstimateDuration, AnalyticalDuration
<1>3. bytes * NsPerUnit \in Nat
  BY <1>1
<1>4. \A n \in Nat, m \in Nat : m > 0 => n \div m \in Nat
  OBVIOUS
<1> QED
  BY <1>1, <1>2, <1>3, <1>4 DEF Serialization

LEMMA Spans ==
    ASSUME NEW a \in Nat, NEW b \in Nat, a <= b
    PROVE  /\ a .. (b - 1) \subseteq 0 .. (b - 1)
           /\ 0 .. (a - 1) \subseteq 0 .. (b - 1)
           /\ (a .. (b - 1)) \cap (0 .. (a - 1)) = {}
<1>1. a .. (b - 1) \subseteq 0 .. (b - 1)
  OBVIOUS
<1>2. 0 .. (a - 1) \subseteq 0 .. (b - 1)
  OBVIOUS
<1>3. \A i \in a .. (b - 1) : i \notin 0 .. (a - 1)
  OBVIOUS
<1> QED
  BY <1>1, <1>2, <1>3

\* A remote transfer of the queued model is on the NIC after all those booked
\* before it.
LEMMA TransferOnNic ==
    ASSUME Queued, NEW tier \in FetchTier, IsRemote(tier), NEW bytes \in Nat,
           NEW now \in Nat, NEW nic \in Nat, EstimateDuration(tier, bytes) # Fails
    PROVE  LET begin == FinishOf(nic, now, tier, bytes) - EstimateDuration(tier, bytes)
               took  == Serialization(tier, bytes)
           IN  begin .. (begin + took - 1)
                 \subseteq nic .. (NicAfter(nic, now, tier, bytes) - 1)
<1> DEFINE start == StartOf(nic, now, tier)
           est == EstimateDuration(tier, bytes)
           took == Serialization(tier, bytes)
           begin == FinishOf(nic, now, tier, bytes) - est
           after == NicAfter(nic, now, tier, bytes)
<1>1. start \in Nat /\ est \in Nat /\ took \in Nat
  BY TransferTimes, OnNicFor
<1>2. start >= nic
  BY DEF StartOf, Latest
<1>3. after = start + took
  BY DEF NicAfter
<1>4. begin = start
  <2>1. FinishOf(nic, now, tier, bytes) = start + est
    BY DEF FinishOf
  <2> HIDE DEF start, est
  <2> QED
    BY <1>1, <2>1
<1> HIDE DEF start, took, begin, after
<1>5. start .. (start + took - 1) \subseteq nic .. (start + took - 1)
  BY <1>1, <1>2
<1>6. begin .. (begin + took - 1) \subseteq nic .. (after - 1)
  BY <1>1, <1>3, <1>4, <1>5
<1> QED
  BY <1>6 DEF begin, took, after

LEMMA NicGrows ==
    ASSUME NEW tier \in FetchTier, NEW bytes \in Nat, NEW now \in Nat, NEW nic \in Nat,
           EstimateDuration(tier, bytes) # Fails
    PROVE  /\ NicAfter(nic, now, tier, bytes) \in Nat
           /\ nic <= NicAfter(nic, now, tier, bytes)
<1> DEFINE start == StartOf(nic, now, tier)
           took == Serialization(tier, bytes)
<1>1. NicAfter(nic, now, tier, bytes) \in Nat
  BY TransferTimes
<1>2. CASE Queued /\ IsRemote(tier)
  <2>1. start \in Nat /\ start >= nic
    BY <1>2, TransferTimes DEF StartOf, Latest
  <2>2. NicAfter(nic, now, tier, bytes) = start + took
    BY <1>2 DEF NicAfter
  <2>3. took \in Nat
    BY <1>2, OnNicFor
  <2> HIDE DEF start, took
  <2> QED
    BY <1>1, <2>1, <2>2, <2>3
<1>3. CASE ~(Queued /\ IsRemote(tier))
  BY <1>1, <1>3 DEF NicAfter
<1> QED
  BY <1>2, <1>3

TierFor(e) == in_flight[e.kind.request_id].pending_fetch_tier

\* The transfers that are under way have been booked.
NicBooked ==
    \A e \in Pending("FetchDone") :
        IsRemote(TierFor(e)) => OnNic(e) \subseteq 0 .. (nic_busy_until_ns - 1)

\* What is pending stays what it is.
LEMMA FetchStays ==
    ASSUME Inv, PhasesKnown, NEW e, Moves(e), NEW f \in Pending("FetchDone"), f # e
    PROVE  TierFor(f)' = TierFor(f) /\ OnNic(f)' = OnNic(f)
<1> DEFINE s == f.kind.request_id
<1>1. /\ ServingInv(Sources, FetchKind) /\ e \in queue /\ f \in queue
      /\ f.kind.tag = "FetchDone" /\ trace' = trace
  BY Given DEF Moves, Pending
<1>2. s # e.kind.request_id
  BY <1>1 DEF ServingInv, InOnePlace
<1>3. s \in DOMAIN in_flight /\ s \in Request /\ Running
  BY <1>1, SomeFetches, EventParts
<1>4. PhaseOf(s) = "Fetching"
  <2>1. PhaseOf(s) = PhaseOfTag[f.kind.tag]
    BY <1>1, <1>3 DEF PhasesKnown
  <2> QED
    BY <1>1, <2>1, PhasesOfEvents
<1>5. \A t \in Stage : WaitingPhase(t) # "Fetching"
  BY DEF Stage, WaitingPhase
<1>6. in_flight'[s] = in_flight[s]
  BY <1>2, <1>3, <1>4, <1>5, MovedDomain DEF OthersKept
<1>7. ReusedPrefixTokens(s)' = ReusedPrefixTokens(s)
  BY <1>1 DEF ReusedPrefixTokens
<1> QED
  BY <1>6, <1>7 DEF TierFor, OnNic

\* The transfer that begins is booked behind the others.
LEMMA BookedBehind ==
    ASSUME Queued, Inv, SizesRight, NEW e, Moves(e), NEW tier \in FetchTier,
           FetchBegins(e, tier)
    PROVE  /\ nic_busy_until_ns' \in Nat /\ nic_busy_until_ns <= nic_busy_until_ns'
           /\ \E f : /\ \A g \in Pending("FetchDone")' : g = f \/ g \in Pending("FetchDone")
                     /\ IsRemote(TierFor(f)') =>
                          OnNic(f)' \subseteq nic_busy_until_ns .. (nic_busy_until_ns' - 1)
<1> DEFINE r == e.kind.request_id
           nic == nic_busy_until_ns
           now == now_ns'
<1>1. PICK f : \E k \in FetchHit(r) :
         LET bytes == cache.objects[k].bytes
         IN  /\ \A g \in Pending("FetchDone")' : g = f \/ g \in Pending("FetchDone")
             /\ f.kind.request_id = r
             /\ f.time_ns = FinishOf(nic, now, tier, bytes)
             /\ tier = TierOf(k) /\ EstimateDuration(tier, bytes) # Fails
             /\ nic_busy_until_ns' = NicAfter(nic, now, tier, bytes)
  BY DEF FetchBegins, Books
<1>2. PICK k \in FetchHit(r) :
         LET bytes == cache.objects[k].bytes
         IN  /\ \A g \in Pending("FetchDone")' : g = f \/ g \in Pending("FetchDone")
             /\ f.kind.request_id = r
             /\ f.time_ns = FinishOf(nic, now, tier, bytes)
             /\ tier = TierOf(k) /\ EstimateDuration(tier, bytes) # Fails
             /\ nic_busy_until_ns' = NicAfter(nic, now, tier, bytes)
  BY <1>1
<1> DEFINE bytes == cache.objects[k].bytes
<1>3. /\ Running /\ r \in Request /\ nic \in Nat /\ now \in Nat /\ trace' = trace
      /\ r \in DOMAIN in_flight
  <2>1. IsNext(e) /\ trace' = trace /\ now = ClockAt(e)
    BY MovedDomain DEF Moves, OthersKept
  <2> QED
    BY <2>1, Given DEF CacheInv, Pool
<1>4. k \in Hit(r) /\ bytes \in Nat
  BY <1>3, HitParts DEF FetchHit
<1>5. bytes = KV!KvBytes(ReusedPrefixTokens(r))
  BY <1>4, HitSize
<1>6. TierFor(f)' = tier
  <2>1. in_flight'[r] = [in_flight[r] EXCEPT !.pending_fetch_tier = tier]
    BY DEF FetchBegins
  <2>2. in_flight[r] \in FlightOf(Sources)
    BY <1>3, FlightParts
  <2>3. in_flight'[r].pending_fetch_tier = tier
    BY <2>1, <2>2 DEF FlightOf
  <2> QED
    BY <1>2, <2>3 DEF TierFor
<1>7. ReusedPrefixTokens(r)' = ReusedPrefixTokens(r)
  BY <1>3 DEF ReusedPrefixTokens
<1>8. OnNic(f)' = LET begin == f.time_ns - EstimateDuration(tier, bytes)
                  IN  begin .. (begin + Serialization(tier, bytes) - 1)
  BY <1>2, <1>5, <1>6, <1>7 DEF OnNic, TierFor
<1> HIDE DEF bytes, nic, now, r
<1>9. IsRemote(tier) => OnNic(f)' \subseteq nic .. (nic_busy_until_ns' - 1)
  BY <1>2, <1>3, <1>4, <1>8, TransferOnNic DEF bytes
<1>10. nic_busy_until_ns' \in Nat /\ nic <= nic_busy_until_ns'
  BY <1>2, <1>3, <1>4, NicGrows DEF bytes
<1> QED
  BY <1>2, <1>6, <1>9, <1>10 DEF nic

LEMMA NicKept ==
    ASSUME Queued, Inv, PhasesKnown, SizesRight, NicBooked, NicIsSerial,
           NEW e, Moves(e)
    PROVE  NicBooked' /\ NicIsSerial'
<1> DEFINE old == Pending("FetchDone")
           R(f) == IsRemote(TierFor(f))
<1>1. nic_busy_until_ns \in Nat
  BY DEF Inv, CacheInv
<1>2. \A f \in old \ {e} : R(f)' = R(f) /\ OnNic(f)' = OnNic(f)
  BY FetchStays
<1>3. \A f \in old : R(f) => OnNic(f) \subseteq 0 .. (nic_busy_until_ns - 1)
  BY DEF NicBooked
<1>4. \A f, g \in old : f # g /\ R(f) /\ R(g) => OnNic(f) \cap OnNic(g) = {}
  BY DEF NicIsSerial, TierFor
<1>5. SUFFICES /\ \A f \in old' : R(f)' => OnNic(f)' \subseteq 0 .. (nic_busy_until_ns' - 1)
               /\ \A f, g \in old' : f # g /\ R(f)' /\ R(g)' => OnNic(f)' \cap OnNic(g)' = {}
  BY DEF NicBooked, NicIsSerial, TierFor
<1>6. CASE FetchesEnd(e) /\ nic_busy_until_ns' = nic_busy_until_ns
  <2>1. \A f \in old' : f \in old \ {e}
    BY <1>6 DEF FetchesEnd
  <2> HIDE DEF old, R
  <2> QED
    BY <1>2, <1>3, <1>4, <1>6, <2>1
<1>7. ASSUME NEW tier \in FetchTier, FetchBegins(e, tier), e.kind.tag = "RequestArrival"
      PROVE  /\ \A f \in old' : R(f)' => OnNic(f)' \subseteq 0 .. (nic_busy_until_ns' - 1)
             /\ \A f, g \in old' : f # g /\ R(f)' /\ R(g)' => OnNic(f)' \cap OnNic(g)' = {}
  <2>1. nic_busy_until_ns' \in Nat /\ nic_busy_until_ns <= nic_busy_until_ns'
    BY <1>7, BookedBehind
  <2>2. PICK n : /\ \A g \in old' : g = n \/ g \in old
                 /\ R(n)' => OnNic(n)' \subseteq nic_busy_until_ns .. (nic_busy_until_ns' - 1)
    BY <1>7, BookedBehind
  <2>3. e \notin old
    BY <1>7 DEF Pending
  <2> HIDE DEF old, R
  <2>4. ASSUME NEW f \in old' PROVE f = n \/ (f \in old \ {e} /\ R(f)' = R(f) /\ OnNic(f)' = OnNic(f))
    BY <1>2, <2>2, <2>3
  <2>5. /\ nic_busy_until_ns .. (nic_busy_until_ns' - 1) \subseteq 0 .. (nic_busy_until_ns' - 1)
        /\ 0 .. (nic_busy_until_ns - 1) \subseteq 0 .. (nic_busy_until_ns' - 1)
        /\ (nic_busy_until_ns .. (nic_busy_until_ns' - 1))
             \cap (0 .. (nic_busy_until_ns - 1)) = {}
    BY <1>1, <2>1, Spans
  <2> QED
    BY <1>3, <1>4, <2>2, <2>4, <2>5
<1> QED
  BY <1>6, <1>7 DEF Moves, ArrivalMoves, FetchMoves, PrefillMoves, DecodeMoves, Goes

-----------------------------------------------------------------------------
(* The cache and the NIC in a run *)

ReuseInv == Causal /\ SizesRight

NicInv == NicBooked /\ NicIsSerial

LEMMA NobodyFetches ==
    ASSUME Pending("FetchDone") = {}
    PROVE  NicInv
BY DEF NicInv, NicBooked, NicIsSerial

LEMMA NobodyFetchesNext == (Pending("FetchDone") = {})' => NicInv'
<1>1. Pending("FetchDone") = {} => NicInv
  BY NobodyFetches
<1> QED
  BY <1>1, PTL

LEMMA ReuseBegun == Init => ReuseInv /\ NicInv
<1> SUFFICES ASSUME Init PROVE ReuseInv /\ NicInv
  OBVIOUS
<1>1. PICK b \in Builds : cache = [KV!NewCache EXCEPT !.capacities = CapacityOf(b)]
  BY DEF Init
<1>2. DOMAIN cache.objects = {}
  BY <1>1 DEF KV!NewCache
<1>3. runs = 0 /\ queue = {}
  BY DEF Init, NewServing, NewSimulator
<1>4. Pending("FetchDone") = {}
  BY <1>3 DEF Pending
<1> QED
  BY <1>2, <1>3, <1>4, NobodyFetches DEF ReuseInv, Causal, SizesRight

LEMMA NobodyFetchesAtStart ==
    ASSUME NEW tr, StartRun(tr)
    PROVE  (Pending("FetchDone") = {})'
<1>1. queue' = Arrivals(tr)
  BY DEF StartRun, StartServing
<1>2. ASSUME NEW e \in Arrivals(tr) PROVE e.kind.tag # "FetchDone"
  <2>1. PICK r \in Request :
           e = [time_ns |-> tr[r].arrival_ns,
                seq     |-> Cardinality({s \in Request : ArrivesBefore(tr, s, r)}),
                kind    |-> [tag |-> "RequestArrival", request_id |-> r]]
    BY DEF Arrivals
  <2>2. e.kind = [tag |-> "RequestArrival", request_id |-> r]
    BY <2>1
  <2> QED
    BY <2>2
<1> QED
  BY <1>1, <1>2 DEF Pending

LEMMA ReuseStart ==
    ASSUME Inv, ReuseInv, NEW tr \in Traces, StartRun(tr)
    PROVE  ReuseInv' /\ NicInv'
<1>1. /\ cache' = cache /\ runs' = runs + 1 /\ queue' = Arrivals(tr) /\ runs \in Nat
  BY CacheRunnerAssumption DEF StartRun, StartServing, Inv
<1>2. ReuseInv'
  BY <1>1 DEF ReuseInv, Causal, SizesRight
<1>3. (Pending("FetchDone") = {})'
  BY NobodyFetchesAtStart
<1> QED
  BY <1>2, <1>3, NobodyFetchesNext

LEMMA ReuseKept ==
    Inv /\ PhasesKnown /\ PhasesKnown' /\ ReportsInv /\ ReuseInv /\ [Next]_vars
        => ReuseInv'
<1> SUFFICES ASSUME Inv, PhasesKnown, PhasesKnown', ReportsInv, ReuseInv, [Next]_vars
             PROVE  ReuseInv'
  OBVIOUS
<1>1. CASE \E tr \in Traces : StartRun(tr)
  BY <1>1, ReuseStart
<1>2. CASE HandleEvent
  <2>1. PICK e : Moves(e) /\ Fills(e)
    BY <1>2, EveryHandlerFills
  <2> QED
    BY <2>1, CausalKept, SizesKept DEF ReuseInv, ReportsInv
<1>3. CASE UNCHANGED vars
  <2>1. /\ UNCHANGED simVars /\ UNCHANGED clusterVars /\ UNCHANGED cacheVars
        /\ runs' = runs
    BY <1>3 DEF vars
  <2>2. /\ now_ns' = now_ns /\ trace' = trace /\ in_flight' = in_flight
        /\ cache' = cache /\ \A r : Computed(r)' = Computed(r)
    BY <2>1 DEF Computed, simVars, clusterVars, cacheVars
  <2> QED
    BY <2>1, <2>2 DEF ReuseInv, Causal, SizesRight
<1> QED
  BY <1>1, <1>2, <1>3 DEF Next

LEMMA NicInvKept ==
    ASSUME Queued
    PROVE  Inv /\ PhasesKnown /\ PhasesKnown' /\ ReuseInv /\ NicInv /\ [Next]_vars
              => NicInv'
<1> SUFFICES ASSUME Inv, PhasesKnown, PhasesKnown', ReuseInv, NicInv, [Next]_vars
             PROVE  NicInv'
  OBVIOUS
<1>1. CASE \E tr \in Traces : StartRun(tr)
  BY <1>1, ReuseStart
<1>2. CASE HandleEvent
  <2>1. PICK e : Moves(e)
    BY <1>2, EveryHandlerMoves
  <2> QED
    BY <2>1, NicKept DEF ReuseInv, NicInv
<1>3. CASE UNCHANGED vars
  <2>1. /\ UNCHANGED simVars /\ UNCHANGED clusterVars /\ UNCHANGED cacheVars
    BY <1>3 DEF vars
  <2>2. /\ queue' = queue /\ trace' = trace /\ in_flight' = in_flight
        /\ nic_busy_until_ns' = nic_busy_until_ns
    BY <2>1 DEF simVars, clusterVars, cacheVars
  <2>3. /\ Pending("FetchDone")' = Pending("FetchDone")
        /\ \A e : TierFor(e)' = TierFor(e) /\ OnNic(e)' = OnNic(e)
    BY <2>2 DEF Pending, TierFor, OnNic, ReusedPrefixTokens
  <2> QED
    BY <2>2, <2>3 DEF NicInv, NicBooked, NicIsSerial
<1> QED
  BY <1>1, <1>2, <1>3 DEF Next

LEMMA AlwaysReuse == Spec => [](Inv /\ PhasesKnown /\ ReportsInv /\ ReuseInv)
BY ReuseBegun, ReuseKept, AlwaysReports, PTL DEF Spec

\* In the first run on a runner, what an arrival may find in the cache is the KV
\* of a prompt whose prefill is over: no hit comes before its computation.
THEOREM NothingIsReusedEarly == Spec => []ReuseIsCausal
<1>1. ReuseInv => ReuseIsCausal
  BY CausalIs DEF ReuseInv
<1> QED
  BY <1>1, AlwaysReuse, PTL

\* The queued model never has two remote transfers on the NIC at one time,
\* whatever arrives, is evicted or finishes between their bookings.
THEOREM NicTakesTurns ==
    ASSUME Queued
    PROVE  Spec => []NicIsSerial
<1>1. Inv /\ PhasesKnown /\ PhasesKnown' /\ ReuseInv /\ NicInv /\ [Next]_vars => NicInv'
  BY NicInvKept
<1>2. NicInv => NicIsSerial
  BY DEF NicInv
<1> QED
  BY <1>1, <1>2, ReuseBegun, AlwaysReuse, PTL DEF Spec
=============================================================================
